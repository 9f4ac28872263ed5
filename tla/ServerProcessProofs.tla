------------------------- MODULE ServerProcessProofs -------------------------
(***************************************************************************)
(* Proofs about ServerProcess, for any number of callers, process numbers  *)
(* and ports.                                                              *)
(***************************************************************************)
EXTENDS ServerProcess, TLAPS

(* A caller that is about to use the number it has read or spawned has one. *)
HasTarget == \A c \in Callers : pc[c] \in {"write", "wait", "term", "gone"} => target[c] \in Pids

(* Strangers under a number that is taken for the server's are heirs, and  *)
(* the child a start() still waits for keeps its number.                   *)
StrangersKnown == \A p \in Named : p \in Pids /\ state[p] = "stranger" => p \in heirs
ChildHeld == \A c \in Callers :
  pc[c] \in {"write", "wait"} => state[target[c]] \notin {"free", "stranger"}

(* Only strangers are in another's group, and never in a server's.         *)
GroupsApart ==
  /\ \A p \in Pids : state[p] # "stranger" => group[p] = p
  /\ \A p, q \in Pids :
       state[p] = "stranger" /\ state[q] \notin {"free", "stranger"} => group[p] # q

KnownInv == TypeOK /\ HasTarget /\ StrangersKnown /\ ChildHeld /\ GroupsApart

(* What holds of the callers, and of a server that is alive, as long as    *)
(* nothing has happened that can lose track of it.                         *)
OneBusy == \A c, d \in Callers : pc[c] # "idle" /\ pc[d] # "idle" => c = d
WantsPort == \A c \in Callers :
  pc[c] \in {"probe", "spawn", "write", "wait"} => wanted[c] = cfgPort
TargetsFile == \A c \in Callers :
  pc[c] \in {"probe", "term", "gone"} => target[c] = pidFile
Followed(p) ==
  /\ port[p] = cfgPort
  /\ \A c \in Callers : pc[c] # "spawn"
  /\ \A c \in Callers : pc[c] \in {"write", "wait"} => target[c] = p
  /\ pidFile = p \/ \E c \in Callers : pc[c] = "write"
  /\ state[p] = "booting" => \E c \in Callers : pc[c] \in {"write", "wait"}

TrackInv ==
  undisturbed =>
    /\ OneBusy /\ WantsPort /\ TargetsFile
    /\ \A p \in Pids : Alive(p) => Followed(p)

-----------------------------------------------------------------------------
(* What a signal makes of the processes: a stranger in the group ends or   *)
(* stays, and a server stays or comes nearer to its end.                   *)
Signalled(p) ==
  {state} \cup {Terminated(p, D) : D \in SUBSET Peers(p)}
          \cup {Killed(p, D) : D \in SUBSET Peers(p)}

LEMMA SignalsTyped ==
  ASSUME TypeOK, NEW p \in Pids, NEW s \in Signalled(p)
  PROVE  /\ s \in [Pids -> {"free", "stranger", "booting", "listening", "closing", "zombie"}]
         /\ \A q \in Pids : /\ s[q] = "stranger" => state[q] = "stranger"
                            /\ s[q] = "free" => state[q] \in {"free", "stranger"}
                            /\ state[q] = "free" => s[q] = "free"
                            /\ state[q] = "stranger" => s[q] \in {"stranger", "free"}
                            /\ s[q] = "booting" => state[q] = "booting"
                            /\ s[q] \in {"booting", "listening", "closing"} => Alive(q)
                            /\ state[q] = "stranger" /\ s[q] # "stranger" => q \in Peers(p)
<1>1. CASE s = state
  BY <1>1 DEF TypeOK, Alive
<1>2. ASSUME NEW D \in SUBSET Peers(p), s = Terminated(p, D) \/ s = Killed(p, D)
      PROVE  /\ s \in [Pids -> {"free", "stranger", "booting", "listening", "closing", "zombie"}]
             /\ \A q \in Pids : /\ q \in D => s[q] = "free" /\ state[q] = "stranger"
                                /\ q \notin D /\ ~ Alive(q) => s[q] = state[q]
                                /\ q \notin D /\ Alive(q) =>
                                     \/ s[q] = state[q]
                                     \/ s[q] \in {"closing", "zombie"}
  BY <1>2 DEF TypeOK, Terminated, Killed, Alive, Peers
<1>3. QED
  BY <1>1, <1>2 DEF Signalled, TypeOK, Alive

LEMMA KilledIsDead ==
  ASSUME TypeOK, NEW p \in Pids, NEW D \in SUBSET Peers(p)
  PROVE  Killed(p, D)[p] \notin {"booting", "listening", "closing"}
  BY DEF TypeOK, Killed, Alive, Members

(* A step of a caller under a signal, as _try_sigterm and EndStop make it. *)
LEMMA SignalStep ==
  ASSUME KnownInv, NEW c \in Callers, _try_sigterm(c) \/ EndStop(c)
  PROVE  /\ pc[c] \in {"term", "gone"} /\ target[c] \in Pids
         /\ state' \in Signalled(target[c]) /\ Bury
         /\ ~ Exists(target[c]) => state' = state
         /\ pidFile' \in {pidFile, None}
         /\ job' \in {job, [job EXCEPT ![c] = "start"]}
         /\ UNCHANGED <<port, cfgPort, target, wanted, calls, undisturbed>>
<1>1. pc[c] \in {"term", "gone"} /\ target[c] \in Pids
  BY DEF _try_sigterm, EndStop, KnownInv, HasTarget
<1>2. CASE _try_sigterm(c)
  BY <1>1, <1>2 DEF _try_sigterm, Cleared, Signalled
<1>3. CASE EndStop(c)
  BY <1>1, <1>3 DEF EndStop, SeesGone, Kills, Cleared, Signalled
<1>4. QED
  BY <1>1, <1>2, <1>3

(* Where the callers are after it: c has gone on, and those are dead whose *)
(* group was hit.                                                          *)
LEMMA SignalMoves ==
  ASSUME KnownInv, NEW c \in Callers, _try_sigterm(c) \/ EndStop(c)
  PROVE  \E next \in {"check", "idle", "gone"}, dead \in SUBSET Struck(target[c]) :
            /\ GoesUnlessDead(c, next, dead)
            /\ next = "gone" => pidFile' = pidFile /\ pc[c] = "term"
            /\ dead # {} => Exists(target[c])
<1>0. /\ \A next : Goto(c, next) => GoesUnlessDead(c, next, {})
      /\ Stopped(c) \in {"check", "idle"}
  BY DEF Goto, GoesUnlessDead, Stopped, KnownInv, TypeOK
<1>1. CASE _try_sigterm(c)
  <2>1. CASE Goto(c, Stopped(c))
    BY <1>0, <2>1
  <2>2. CASE ~ Goto(c, Stopped(c))
    <3>1. PICK dead \in SUBSET Struck(target[c]) : GoesUnlessDead(c, "gone", dead)
      BY <1>1, <2>2 DEF _try_sigterm
    <3>2. pidFile' = pidFile /\ pc[c] = "term" /\ Exists(target[c])
      BY <1>1, <2>2 DEF _try_sigterm
    <3>3. QED
      BY <3>1, <3>2
  <2>3. QED
    BY <2>1, <2>2
<1>2. CASE EndStop(c)
  <2>1. CASE SeesGone(c)
    BY <1>0, <2>1 DEF SeesGone
  <2>2. CASE Kills(c)
    BY <1>0, <2>2 DEF Kills
  <2>3. QED
    BY <1>2, <2>1, <2>2 DEF EndStop
<1>3. QED
  BY <1>1, <1>2

-----------------------------------------------------------------------------
(* The invariant about strangers.                                          *)
LEMMA KnownInit == Init => KnownInv
<1> SUFFICES ASSUME Init PROVE KnownInv
  OBVIOUS
<1> USE ProcessAssumption DEF Init
<1>1. TypeOK
  BY DEF TypeOK
<1>2. HasTarget /\ StrangersKnown /\ ChildHeld /\ GroupsApart
  BY DEF HasTarget, StrangersKnown, ChildHeld, Named, GroupsApart
<1>3. QED
  BY <1>1, <1>2 DEF KnownInv

(* A step that leaves the processes and the names given to them alone.     *)
LEMMA KnownKept ==
  ASSUME KnownInv, TypeOK', HasTarget', UNCHANGED system, Named' \subseteq Named,
         \A c \in Callers : pc'[c] \in {"write", "wait"} =>
                              pc[c] \in {"write", "wait"} /\ target'[c] = target[c]
  PROVE  KnownInv'
  BY DEF KnownInv, StrangersKnown, ChildHeld, GroupsApart, system

LEMMA KnownBySystem ==
  ASSUME KnownInv, NEW p \in Pids,
         StrangerStarts(p) \/ StrangerEnds(p) \/ Listens(p) \/ ServerDies(p) \/ Reap(p)
  PROVE  KnownInv'
<1> USE DEF KnownInv
<1>1. TypeOK'
  BY DEF TypeOK, StrangerStarts, StrangerEnds, Bury, Listens, ServerDies, Reap
<1>2. HasTarget'
  BY DEF HasTarget, StrangerStarts, StrangerEnds, Listens, ServerDies, Reap
<1>3. Named' = Named
  BY DEF Named, StrangerStarts, StrangerEnds, Listens, ServerDies, Reap
<1>4. StrangersKnown'
  <2>1. CASE StrangerStarts(p)
    BY <1>3, <2>1 DEF StrangersKnown, StrangerStarts, TypeOK
  <2>2. CASE StrangerEnds(p)
    BY <1>3, <2>2 DEF StrangersKnown, StrangerEnds, Bury, TypeOK
  <2>3. CASE Listens(p) \/ ServerDies(p) \/ Reap(p)
    BY <1>3, <2>3 DEF StrangersKnown, Listens, ServerDies, Reap, TypeOK
  <2>4. QED
    BY <2>1, <2>2, <2>3
<1>5. ChildHeld'
  <2> SUFFICES ASSUME NEW c \in Callers, pc[c] \in {"write", "wait"}
               PROVE  state'[target[c]] \notin {"free", "stranger"}
    BY DEF ChildHeld, StrangerStarts, StrangerEnds, Listens, ServerDies, Reap
  <2>1. target[c] \in Pids /\ state[target[c]] \notin {"free", "stranger"}
    BY DEF HasTarget, ChildHeld
  <2>2. QED
    BY <2>1 DEF StrangerStarts, StrangerEnds, Listens, ServerDies, Reap, Unheld, Unused, TypeOK
<1>6. GroupsApart'
  <2>1. CASE StrangerStarts(p)
    <3>1. PICK g : /\ g = p \/ g \in Callers
                      \/ \E q \in Pids : state[q] = "stranger" /\ g = group[q]
                   /\ group' = [group EXCEPT ![p] = g]
      BY <2>1 DEF StrangerStarts
    <3>2. /\ state' = [state EXCEPT ![p] = "stranger"] /\ state[p] = "free"
      BY <2>1 DEF StrangerStarts, Unused
    <3>3. \A q \in Pids : state[q] \notin {"free", "stranger"} => g # q
      BY <3>1, <3>2, ProcessAssumption DEF GroupsApart
    <3>4. QED
      BY <3>1, <3>2, <3>3 DEF GroupsApart, TypeOK
  <2>2. CASE StrangerEnds(p)
    BY <2>2 DEF GroupsApart, StrangerEnds, Bury, TypeOK
  <2>3. CASE Listens(p) \/ ServerDies(p) \/ Reap(p)
    BY <2>3 DEF GroupsApart, Listens, ServerDies, Reap, Alive, TypeOK
  <2>4. QED
    BY <2>1, <2>2, <2>3
<1>7. QED
  BY <1>1, <1>2, <1>4, <1>5, <1>6

LEMMA KnownByBegin ==
  ASSUME KnownInv, NEW c \in Callers,
         ensure_running(c) \/ start_server(c) \/ stop_server(c) \/ cmd_setup(c)
  PROVE  KnownInv'
<1> USE ProcessAssumption DEF KnownInv
<1>1. PICK j \in {"ensure", "start", "stop", "restart"}, next \in {"check", "read"} :
         Begin(c, j, next)
  BY DEF ensure_running, start_server, stop_server, cmd_setup
<1>2. cfgPort' \in Ports /\ undisturbed' \in BOOLEAN
  BY DEF ensure_running, start_server, stop_server, cmd_setup, TypeOK, Calm, Idle
<1>3. TypeOK'
  BY <1>1, <1>2 DEF TypeOK, Begin, system
<1>4. HasTarget'
  BY <1>1 DEF HasTarget, TypeOK, Begin, system
<1>5. Named' \subseteq Named
  BY <1>1 DEF Named, TypeOK, Begin, system
<1>6. QED
  BY <1>1, <1>3, <1>4, <1>5, KnownKept DEF Begin, system, TypeOK

LEMMA KnownByStart ==
  ASSUME KnownInv, NEW c \in Callers,
         \/ ReadState(c) \/ Probe(c) \/ _spawn_bun(c) \/ write_pid(c)
         \/ Ready(c) \/ ExitedEarly(c) \/ GiveUp(c) \/ CallerDies(c)
  PROVE  KnownInv'
<1> USE ProcessAssumption DEF KnownInv, Goto, system
<1>1. CASE ReadState(c) \/ Probe(c)
  <2>1. TypeOK' /\ HasTarget'
    BY <1>1 DEF ReadState, Probe, TypeOK, HasTarget
  <2>2. Named' \subseteq Named
    BY <1>1 DEF ReadState, Probe, TypeOK, Named
  <2>3. QED
    BY <1>1, <2>1, <2>2, KnownKept DEF ReadState, Probe, TypeOK
<1>2. CASE _spawn_bun(c)
  <2>1. CASE state' = state
    <3>1. TypeOK' /\ HasTarget'
      BY <1>2, <2>1 DEF _spawn_bun, TypeOK, HasTarget
    <3>2. Named' \subseteq Named
      BY <1>2, <2>1 DEF _spawn_bun, TypeOK, Named
    <3>3. pc' = [pc EXCEPT ![c] = "idle"] /\ target' = target
      BY <1>2, <2>1 DEF _spawn_bun, Unused, TypeOK
    <3>4. QED
      BY <1>2, <2>1, <3>1, <3>2, <3>3, KnownKept DEF _spawn_bun, TypeOK
  <2>2. CASE state' # state
    <3>1. PICK p \in Pids : /\ state[p] = "free"
                            /\ \A q \in Pids : state[q] = "stranger" => group[q] # p
                            /\ state' = [state EXCEPT ![p] = "booting"]
                            /\ port' = [port EXCEPT ![p] = wanted[c]]
                            /\ target' = [target EXCEPT ![c] = p]
                            /\ pc' = [pc EXCEPT ![c] = "write"]
      BY <1>2, <2>2 DEF _spawn_bun, Unused
    <3>2. TypeOK' /\ HasTarget'
      BY <1>2, <3>1 DEF _spawn_bun, TypeOK, HasTarget
    <3>3. Named' \subseteq Named
      BY <1>2, <3>1 DEF _spawn_bun, TypeOK, Named
    <3>4. StrangersKnown'
      BY <1>2, <3>1, <3>3 DEF _spawn_bun, TypeOK, StrangersKnown
    <3>5. ChildHeld'
      BY <1>2, <3>1 DEF _spawn_bun, TypeOK, ChildHeld, HasTarget
    <3>6. GroupsApart'
      BY <1>2, <3>1 DEF _spawn_bun, TypeOK, GroupsApart
    <3>7. QED
      BY <3>2, <3>4, <3>5, <3>6
  <2>3. QED
    BY <2>1, <2>2
<1>3. CASE write_pid(c)
  <2>1. TypeOK' /\ HasTarget'
    BY <1>3 DEF write_pid, TypeOK, HasTarget
  <2>2. Named' \subseteq Named \cup {target[c], None}
    BY <1>3 DEF write_pid, TypeOK, Named
  <2>3. StrangersKnown' /\ ChildHeld' /\ GroupsApart'
    BY <1>3, <2>2 DEF write_pid, TypeOK, StrangersKnown, ChildHeld, HasTarget, GroupsApart
  <2>4. QED
    BY <2>1, <2>3
<1>4. CASE Ready(c) \/ ExitedEarly(c) \/ GiveUp(c) \/ CallerDies(c)
  <2>1. TypeOK' /\ HasTarget'
    BY <1>4 DEF Ready, ExitedEarly, GiveUp, CallerDies, TypeOK, HasTarget
  <2>2. Named' \subseteq Named \cup {None}
    BY <1>4 DEF Ready, ExitedEarly, GiveUp, CallerDies, TypeOK, Named
  <2>3. StrangersKnown' /\ ChildHeld' /\ GroupsApart'
    BY <1>4, <2>2 DEF Ready, ExitedEarly, GiveUp, CallerDies, TypeOK, StrangersKnown, ChildHeld,
           GroupsApart
  <2>4. QED
    BY <2>1, <2>3
<1>5. QED
  BY <1>1, <1>2, <1>3, <1>4

LEMMA KnownByStop ==
  ASSUME KnownInv, NEW c \in Callers, read_pid(c) \/ _try_sigterm(c) \/ EndStop(c)
  PROVE  KnownInv'
<1> USE ProcessAssumption DEF KnownInv, Goto, Stopped
<1>1. CASE read_pid(c)
  <2>1. TypeOK' /\ HasTarget'
    BY <1>1 DEF read_pid, system, TypeOK, HasTarget
  <2>2. Named' \subseteq Named
    BY <1>1 DEF read_pid, system, TypeOK, Named
  <2>3. QED
    BY <1>1, <2>1, <2>2, KnownKept DEF read_pid, system, TypeOK
<1>2. CASE _try_sigterm(c) \/ EndStop(c)
  <2>1. /\ target[c] \in Pids /\ state' \in Signalled(target[c]) /\ Bury
        /\ pidFile' \in {pidFile, None}
        /\ job' = job \/ job' = [job EXCEPT ![c] = "start"]
        /\ UNCHANGED <<port, cfgPort, target, wanted, calls, undisturbed>>
    BY <1>2, SignalStep
  <2>2. PICK next \in {"check", "idle", "gone"}, dead \in SUBSET Callers :
          GoesUnlessDead(c, next, dead) /\ pc[c] \in {"term", "gone"}
    BY <1>2, SignalStep, SignalMoves DEF Struck
  <2>3. /\ state' \in [Pids -> {"free", "stranger", "booting", "listening", "closing", "zombie"}]
        /\ \A q \in Pids : /\ state'[q] = "stranger" => state[q] = "stranger"
                           /\ state'[q] = "free" => state[q] \in {"free", "stranger"}
                           /\ state[q] = "free" => state'[q] = "free"
                           /\ state[q] = "stranger" => state'[q] \in {"stranger", "free"}
    BY <2>1, SignalsTyped
  <2>4. /\ pc' \in [Callers -> {"idle", "check", "probe", "spawn", "write", "wait",
                                "read", "term", "gone"}]
        /\ \A d \in Callers : \/ pc'[d] \in {"idle", "check", pc[d]}
                              \/ d = c /\ pc'[d] = "gone"
    BY <2>2 DEF GoesUnlessDead, TypeOK
  <2>5. /\ heirs' = heirs \cap {p \in Pids : state'[p] = "stranger"}
        /\ group' = [p \in Pids |-> IF state'[p] = "free" THEN p ELSE group[p]]
    BY <2>1 DEF Bury
  <2>6. TypeOK' /\ HasTarget'
    BY <2>1, <2>2, <2>3, <2>4, <2>5 DEF TypeOK, HasTarget
  <2>7. Named' \subseteq Named \cup {None}
    BY <2>1, <2>2, <2>4 DEF TypeOK, Named
  <2>8. StrangersKnown'
    BY <2>3, <2>5, <2>7 DEF TypeOK, StrangersKnown
  <2>9. ChildHeld'
    BY <2>1, <2>3, <2>4 DEF TypeOK, ChildHeld, HasTarget
  <2>10. GroupsApart'
    BY <2>3, <2>5 DEF TypeOK, GroupsApart
  <2>11. QED
    BY <2>6, <2>8, <2>9, <2>10
<1>3. QED
  BY <1>1, <1>2

LEMMA KnownStep == KnownInv /\ [Next]_vars => KnownInv'
<1> SUFFICES ASSUME KnownInv, [Next]_vars PROVE KnownInv'
  OBVIOUS
<1>1. CASE UNCHANGED vars
  BY <1>1 DEF vars, KnownInv, TypeOK, HasTarget, StrangersKnown, ChildHeld, GroupsApart, Named
<1>2. CASE Next
  BY <1>2, KnownBySystem, KnownByBegin, KnownByStart, KnownByStop DEF Next
<1>3. QED
  BY <1>1, <1>2

(* Types are kept, a caller that uses a number has one, and a stranger     *)
(* whose number is taken for the server's is an heir to it.                *)
THEOREM StrangersAreKnown == Spec => []KnownInv
<1>1. Init => KnownInv
  BY KnownInit
<1>2. KnownInv /\ [Next]_vars => KnownInv'
  BY KnownStep
<1>3. QED
  BY <1>1, <1>2, PTL DEF Spec

(* Who is hit beside a server shares the group with an heir: the number    *)
(* signalled is not a server's then, whose group is its own.               *)
LEMMA HitsGroupOfHeir ==
  ASSUME KnownInv, NEW c \in Callers, _try_sigterm(c) \/ EndStop(c), Exists(target[c]),
         NEW g, g = group[target[c]],
         g \in Callers \/ \E p \in Pids : state[p] = "stranger" /\ group[p] = g
  PROVE  GroupOfHeir(g)
<1>1. target[c] \in Pids /\ pc[c] \in {"term", "gone"}
  BY SignalStep
<1>2. state[target[c]] = "stranger"
  <2> SUFFICES ASSUME state[target[c]] # "stranger" PROVE FALSE
    OBVIOUS
  <2>1. g = target[c] /\ state[target[c]] \notin {"free", "stranger"}
    BY <1>1 DEF KnownInv, GroupsApart, Exists
  <2>2. g \notin Callers
    BY <1>1, <2>1, ProcessAssumption
  <2>3. QED
    BY <1>1, <2>1, <2>2 DEF KnownInv, GroupsApart
<1>3. target[c] \in heirs
  BY <1>1, <1>2 DEF KnownInv, StrangersKnown, Named
<1>4. QED
  BY <1>3 DEF GroupOfHeir

LEMMA StrangersHit ==
  ASSUME KnownInv, [Next]_vars, NEW p \in Pids,
         pc' # pc, state[p] = "stranger", state'[p] # "stranger"
  PROVE  GroupOfHeir(group[p])
<1>1. PICK c \in Callers : _spawn_bun(c) \/ _try_sigterm(c) \/ EndStop(c)
  BY DEF Next, vars, StrangerStarts, StrangerEnds, Listens, ServerDies, Reap, ensure_running,
         start_server, stop_server, cmd_setup, Begin, ReadState, Probe, write_pid, Ready,
         ExitedEarly, GiveUp, read_pid, CallerDies, system
<1>2. CASE _spawn_bun(c)
  BY <1>2 DEF _spawn_bun, Unused, KnownInv, TypeOK
<1>3. CASE _try_sigterm(c) \/ EndStop(c)
  <2>1. target[c] \in Pids /\ state' \in Signalled(target[c]) /\ Exists(target[c])
    BY <1>3, SignalStep
  <2>2. p \in Peers(target[c])
    BY <2>1, SignalsTyped DEF KnownInv
  <2>3. QED
    BY <1>3, <2>1, <2>2, HitsGroupOfHeir DEF Peers, Members
<1>4. QED
  BY <1>1, <1>2, <1>3

(* Every other step of a caller moves that caller alone.                   *)
LEMMA MovesAlone ==
  ASSUME KnownInv, NEW c \in Callers,
         \/ ensure_running(c) \/ start_server(c) \/ stop_server(c) \/ cmd_setup(c)
         \/ ReadState(c) \/ Probe(c) \/ _spawn_bun(c) \/ write_pid(c)
         \/ Ready(c) \/ ExitedEarly(c) \/ GiveUp(c) \/ read_pid(c) \/ CallerDies(c)
  PROVE  \A d \in Callers \ {c} : pc'[d] = pc[d]
<1>1. CASE ensure_running(c) \/ start_server(c) \/ stop_server(c) \/ cmd_setup(c)
  BY <1>1 DEF ensure_running, start_server, stop_server, cmd_setup, Begin, KnownInv, TypeOK
<1>2. CASE \/ ReadState(c) \/ Probe(c) \/ _spawn_bun(c) \/ write_pid(c)
           \/ Ready(c) \/ ExitedEarly(c) \/ GiveUp(c) \/ read_pid(c) \/ CallerDies(c)
  BY <1>2 DEF ReadState, Probe, _spawn_bun, write_pid, Ready, ExitedEarly, GiveUp, read_pid,
         CallerDies, Goto, KnownInv, TypeOK
<1>3. QED
  BY <1>1, <1>2

LEMMA CallersHit ==
  ASSUME KnownInv, [Next]_vars, NEW c \in Callers, NEW d \in Callers,
         c # d, pc'[c] # pc[c], pc'[d] # pc[d]
  PROVE  GroupOfHeir(c) \/ GroupOfHeir(d)
<1>1. PICK b \in Callers : _try_sigterm(b) \/ EndStop(b)
  <2>1. PICK b \in Callers :
          \/ ensure_running(b) \/ start_server(b) \/ stop_server(b) \/ cmd_setup(b)
          \/ ReadState(b) \/ Probe(b) \/ _spawn_bun(b) \/ write_pid(b)
          \/ Ready(b) \/ ExitedEarly(b) \/ GiveUp(b) \/ read_pid(b) \/ CallerDies(b)
          \/ _try_sigterm(b) \/ EndStop(b)
    BY DEF Next, vars, StrangerStarts, StrangerEnds, Listens, ServerDies, Reap
  <2>2. QED
    BY <2>1, MovesAlone
<1>2. PICK next \in {"check", "idle", "gone"}, dead \in SUBSET Struck(target[b]) :
        GoesUnlessDead(b, next, dead) /\ (dead # {} => Exists(target[b]))
  BY <1>1, SignalMoves
<1>3. PICK e \in {c, d} : e # b
  OBVIOUS
<1>4. e \in dead
  BY <1>2, <1>3 DEF GoesUnlessDead
<1>5. e = group[target[b]] /\ e \in Callers /\ Exists(target[b])
  BY <1>2, <1>4 DEF Struck
<1>6. GroupOfHeir(e)
  BY <1>1, <1>5, HitsGroupOfHeir
<1>7. QED
  BY <1>6

(* A stop ends another program or another caller only in the group of a    *)
(* process born under a number taken for the server's (StrangersSpared),   *)
(* for any callers and numbers.                                            *)
THEOREM SparesStrangers == Spec => StrangersSpared
<1> DEFINE Spares ==
      /\ \A p \in Pids :
           pc' # pc /\ state[p] = "stranger" /\ state'[p] # "stranger" => GroupOfHeir(group[p])
      /\ \A c, d \in Callers :
           c # d /\ pc'[c] # pc[c] /\ pc'[d] # pc[d] => GroupOfHeir(c) \/ GroupOfHeir(d)
<1>1. KnownInv /\ [Next]_vars => [Spares]_vars
  BY StrangersHit, CallersHit
<1>2. QED
  BY <1>1, StrangersAreKnown, PTL DEF StrangersSpared, Spec

-----------------------------------------------------------------------------
(* The invariant about the server that is alive.                           *)
LEMMA TrackInit == Init => TrackInv
  BY DEF Init, TrackInv, OneBusy, WantsPort, TargetsFile, Alive

(* A busy caller is the only one, and the server that lives is followed.   *)
LEMMA TrackOpened ==
  ASSUME TypeOK, TrackInv, undisturbed, NEW c \in Callers, pc[c] # "idle"
  PROVE  /\ \A d \in Callers \ {c} : pc[d] = "idle"
         /\ WantsPort /\ TargetsFile
         /\ \A p \in Pids : Alive(p) =>
              /\ port[p] = cfgPort /\ pc[c] # "spawn"
              /\ pc[c] \in {"write", "wait"} => target[c] = p
              /\ pc[c] # "write" => pidFile = p
              /\ state[p] = "booting" => pc[c] \in {"write", "wait"}
  BY DEF TrackInv, OneBusy, Followed, TypeOK

(* The converse: what a step of the only busy caller has to establish.     *)
LEMMA TrackClosed ==
  ASSUME TypeOK', NEW c \in Callers, \A d \in Callers \ {c} : pc'[d] = "idle",
         pc'[c] \in {"probe", "spawn", "write", "wait"} => wanted'[c] = cfgPort',
         pc'[c] \in {"probe", "term", "gone"} => target'[c] = pidFile',
         \A p \in Pids : Alive(p)' =>
              /\ port'[p] = cfgPort' /\ pc'[c] # "spawn"
              /\ pc'[c] \in {"write", "wait"} => target'[c] = p
              /\ pc'[c] # "write" => pidFile' = p
              /\ state'[p] = "booting" => pc'[c] \in {"write", "wait"}
  PROVE  TrackInv'
<1>1. OneBusy' /\ WantsPort' /\ TargetsFile'
  BY DEF OneBusy, WantsPort, TargetsFile
<1>2. ASSUME NEW p \in Pids, Alive(p)' PROVE Followed(p)'
  BY <1>2 DEF Followed
<1>3. QED
  BY <1>1, <1>2 DEF TrackInv

LEMMA TrackBySystem ==
  ASSUME TypeOK, TrackInv, NEW p \in Pids,
         StrangerStarts(p) \/ StrangerEnds(p) \/ Listens(p) \/ ServerDies(p) \/ Reap(p)
  PROVE  TrackInv'
<1>1. /\ UNCHANGED <<port, pidFile, cfgPort, pc, target, wanted, undisturbed>>
      /\ \A q \in Pids : /\ Alive(q)' => Alive(q)
                         /\ state'[q] = "booting" => state[q] = "booting"
  BY DEF TypeOK, Alive, StrangerStarts, StrangerEnds, Listens, ServerDies, Reap, Unused
<1>2. QED
  BY <1>1 DEF TrackInv, OneBusy, WantsPort, TargetsFile, Followed

LEMMA TrackByBegin ==
  ASSUME TypeOK, TypeOK', TrackInv, NEW c \in Callers,
         ensure_running(c) \/ start_server(c) \/ stop_server(c) \/ cmd_setup(c)
  PROVE  TrackInv'
<1> SUFFICES ASSUME undisturbed' PROVE TrackInv'
  BY DEF TrackInv
<1>1. /\ Calm
      /\ \E next \in {"check", "read"} : pc' = [pc EXCEPT ![c] = next]
      /\ UNCHANGED <<state, port, pidFile, target, wanted>>
      /\ \A p \in Pids : Alive(p) => cfgPort' = cfgPort \/ port[p] = cfgPort'
  BY DEF ensure_running, start_server, stop_server, cmd_setup, Begin, system
<1>2. \A d \in Callers \ {c} : pc'[d] = "idle"
  BY <1>1 DEF Calm, Idle, TypeOK
<1>3. pc'[c] \in {"check", "read"}
  BY <1>1 DEF TypeOK
<1>4. ASSUME NEW p \in Pids, Alive(p)'
      PROVE  port'[p] = cfgPort' /\ pidFile' = p /\ state'[p] # "booting"
  <2>1. Alive(p) /\ undisturbed /\ Idle
    BY <1>1, <1>4 DEF Calm, Alive
  <2>2. Followed(p)
    BY <2>1 DEF TrackInv
  <2>3. QED
    BY <1>1, <2>1, <2>2 DEF Followed, Idle
<1>5. QED
  BY <1>2, <1>3, <1>4, TrackClosed

LEMMA TrackByStart ==
  ASSUME TypeOK, TypeOK', HasTarget, TrackInv, NEW c \in Callers,
         \/ ReadState(c) \/ Probe(c) \/ _spawn_bun(c) \/ write_pid(c)
         \/ Ready(c) \/ ExitedEarly(c) \/ GiveUp(c) \/ CallerDies(c)
  PROVE  TrackInv'
<1> SUFFICES ASSUME undisturbed' PROVE TrackInv'
  BY DEF TrackInv
<1>1. /\ undisturbed /\ pc[c] # "idle"
      /\ \E next \in {"check", "probe", "spawn", "write", "wait", "idle"} :
           pc' = [pc EXCEPT ![c] = next]
      /\ cfgPort' = cfgPort
  BY DEF ReadState, Probe, _spawn_bun, write_pid, Ready, ExitedEarly, GiveUp, CallerDies, Goto
<1>2. /\ \A d \in Callers \ {c} : pc[d] = "idle"
      /\ WantsPort /\ TargetsFile
      /\ \A p \in Pids : Alive(p) =>
           /\ port[p] = cfgPort /\ pc[c] # "spawn"
           /\ pc[c] \in {"write", "wait"} => target[c] = p
           /\ pc[c] # "write" => pidFile = p
           /\ state[p] = "booting" => pc[c] \in {"write", "wait"}
  BY <1>1, TrackOpened
<1>3. \A d \in Callers \ {c} : pc'[d] = "idle"
  BY <1>1, <1>2 DEF TypeOK
<1> USE DEF Goto, system
<1>4. CASE ReadState(c)
  <2>1. /\ pc'[c] = "probe" /\ wanted'[c] = cfgPort /\ target'[c] = pidFile
        /\ UNCHANGED <<state, port, pidFile>> /\ pc[c] = "check"
    BY <1>4 DEF ReadState, TypeOK
  <2>2. QED
    BY <1>1, <1>2, <1>3, <2>1, TrackClosed DEF Alive
<1>5. CASE Probe(c)
  <2>1. /\ pc[c] = "probe" /\ pc'[c] \in {"idle", "check", "spawn"}
        /\ pc'[c] = "spawn" => ~ is_running(c)
        /\ UNCHANGED <<state, port, pidFile, target, wanted>>
    BY <1>5 DEF Probe, TypeOK
  <2>2. wanted[c] = cfgPort /\ target[c] = pidFile
    BY <1>2, <2>1 DEF WantsPort, TargetsFile
  <2>3. ASSUME NEW p \in Pids, Alive(p) PROVE is_running(c)
    <3>1. port[p] = cfgPort /\ pidFile = p /\ state[p] # "booting"
      BY <1>2, <2>1, <2>3
    <3>2. state[p] \in {"listening", "closing"}
      BY <2>3, <3>1 DEF Alive
    <3>3. PortOpen(wanted[c])
      BY <2>2, <3>1, <3>2 DEF PortOpen
    <3>4. QED
      BY <2>2, <3>1, <3>2, <3>3 DEF is_running, Exists
  <2>4. ASSUME NEW p \in Pids, Alive(p)'
        PROVE  /\ port'[p] = cfgPort' /\ pc'[c] # "spawn" /\ pidFile' = p
               /\ state'[p] # "booting"
    <3>1. Alive(p)
      BY <2>1, <2>4 DEF Alive
    <3>2. QED
      BY <1>1, <1>2, <2>1, <2>3, <3>1
  <2>5. QED
    BY <1>1, <1>3, <2>1, <2>2, <2>4, TrackClosed
<1>6. CASE _spawn_bun(c)
  <2>1. pc[c] = "spawn" /\ wanted[c] = cfgPort /\ \A p \in Pids : ~ Alive(p)
    BY <1>2, <1>6 DEF _spawn_bun, WantsPort
  <2>2. CASE pc'[c] = "idle" /\ UNCHANGED state
    BY <1>3, <2>1, <2>2, TrackClosed DEF Alive
  <2>3. CASE ~ (pc'[c] = "idle" /\ UNCHANGED state)
    <3>1. PICK p \in Pids : /\ state' = [state EXCEPT ![p] = "booting"]
                            /\ port' = [port EXCEPT ![p] = wanted[c]]
                            /\ target' = [target EXCEPT ![c] = p]
                            /\ pc' = [pc EXCEPT ![c] = "write"]
                            /\ wanted' = wanted
      BY <1>6, <2>3 DEF _spawn_bun, TypeOK
    <3>2. ASSUME NEW q \in Pids, Alive(q)' PROVE q = p
      BY <2>1, <3>1, <3>2 DEF Alive, TypeOK
    <3>3. pc'[c] = "write" /\ target'[c] = p /\ wanted'[c] = cfgPort' /\ port'[p] = cfgPort'
      BY <1>1, <2>1, <3>1 DEF TypeOK
    <3>4. QED
      BY <1>3, <3>2, <3>3, TrackClosed
  <2>4. QED
    BY <2>2, <2>3
<1>7. CASE write_pid(c)
  <2>1. /\ pc[c] = "write" /\ pc'[c] = "wait" /\ pidFile' = target[c]
        /\ UNCHANGED <<state, port, target, wanted>>
    BY <1>7 DEF write_pid, TypeOK
  <2>2. wanted'[c] = cfgPort'
    BY <1>1, <1>2, <2>1 DEF WantsPort
  <2>3. QED
    BY <1>1, <1>2, <1>3, <2>1, <2>2, TrackClosed DEF Alive
<1>8. CASE Ready(c) \/ ExitedEarly(c) \/ GiveUp(c) \/ CallerDies(c)
  <2>1. /\ pc'[c] = "idle" /\ UNCHANGED <<state, port>>
        /\ pidFile' = pidFile \/ (pc[c] = "wait" /\ state[target[c]] = "zombie")
        /\ pc[c] # "write"
    BY <1>1, <1>8 DEF Ready, ExitedEarly, GiveUp, CallerDies, TypeOK
  <2>2. ASSUME NEW p \in Pids, Alive(p), state[p] = "booting" PROVE FALSE
    <3>1. pc[c] = "wait" /\ target[c] = p
      BY <1>2, <2>1, <2>2
    <3>2. CASE Ready(c)
      <4>1. PICK q \in Pids : state[q] \in {"listening", "closing"}
        BY <3>2 DEF Ready, PortOpen
      <4>2. q = p
        BY <1>2, <3>1, <4>1 DEF Alive
      <4>3. QED
        BY <2>2, <4>1, <4>2
    <3>3. CASE ExitedEarly(c)
      BY <2>2, <3>1, <3>3 DEF ExitedEarly
    <3>4. CASE GiveUp(c) \/ CallerDies(c)
      BY <2>2, <3>1, <3>4 DEF GiveUp, CallerDies
    <3>5. QED
      BY <1>8, <3>2, <3>3, <3>4
  <2>3. ASSUME NEW p \in Pids, Alive(p)'
        PROVE  port'[p] = cfgPort' /\ pidFile' = p /\ state'[p] # "booting"
    <3>1. Alive(p)
      BY <2>1, <2>3 DEF Alive
    <3>2. pidFile' = pidFile
      BY <1>2, <2>1, <3>1 DEF Alive
    <3>3. QED
      BY <1>1, <1>2, <2>1, <2>2, <3>1, <3>2
  <2>4. QED
    BY <1>3, <2>1, <2>3, TrackClosed
<1>9. QED
  BY <1>4, <1>5, <1>6, <1>7, <1>8

(* Ending a stop: nothing is alive any more.                               *)
LEMMA StopEnds ==
  ASSUME KnownInv, TrackInv, undisturbed, NEW c \in Callers,
         read_pid(c) \/ _try_sigterm(c) \/ EndStop(c), pidFile' = None
  PROVE  \A p \in Pids : ~ Alive(p)'
<1> USE ProcessAssumption
<1>1. /\ pc[c] \in {"read", "term", "gone"}
      /\ pc[c] \in {"term", "gone"} => target[c] = pidFile /\ target[c] \in Pids
      /\ \A p \in Pids : Alive(p) => pidFile = p
  BY TrackOpened DEF read_pid, _try_sigterm, EndStop, KnownInv, HasTarget, TargetsFile
<1>2. CASE read_pid(c)
  BY <1>1, <1>2 DEF read_pid, system, Alive
<1>3. CASE _try_sigterm(c)
  <2>1. /\ pc[c] = "term"
        /\ state' = state
        /\ ~ Exists(target[c])
    BY <1>1, <1>3 DEF _try_sigterm
  <2>2. QED
    BY <1>1, <2>1 DEF Alive, Exists
<1>4. CASE EndStop(c)
  <2>1. /\ pc[c] = "gone"
        /\ \/ \E D \in SUBSET Peers(target[c]) : state' = Killed(target[c], D)
           \/ state' = state /\ state[target[c]] \in {"free", "stranger"}
    BY <1>4 DEF EndStop, SeesGone, Kills, Exists
  <2>2. state'[target[c]] \notin {"booting", "listening", "closing"}
    BY <1>1, <2>1, KilledIsDead DEF KnownInv
  <2>3. \A p \in Pids : Alive(p)' => Alive(p)
    <3>1. state' \in Signalled(target[c])
      BY <1>4, SignalStep
    <3>2. QED
      BY <1>1, <2>1, <3>1, SignalsTyped DEF KnownInv, Alive
  <2>4. QED
    BY <1>1, <2>1, <2>2, <2>3 DEF Alive
<1>5. QED
  BY <1>2, <1>3, <1>4

LEMMA TrackByStop ==
  ASSUME KnownInv, TypeOK', TrackInv, NEW c \in Callers,
         read_pid(c) \/ _try_sigterm(c) \/ EndStop(c)
  PROVE  TrackInv'
<1> SUFFICES ASSUME undisturbed' PROVE TrackInv'
  BY DEF TrackInv
<1> USE DEF KnownInv
<1>1. /\ undisturbed /\ pc[c] \in {"read", "term", "gone"}
      /\ UNCHANGED <<port, cfgPort, wanted>>
      /\ pidFile' \in {pidFile, None}
  BY SignalStep DEF read_pid, _try_sigterm, EndStop, system
<1>2. /\ \A d \in Callers \ {c} : pc[d] = "idle"
      /\ TargetsFile
      /\ \A p \in Pids : Alive(p) => port[p] = cfgPort /\ pidFile = p /\ state[p] # "booting"
  BY <1>1, TrackOpened
<1>3. /\ \A d \in Callers \ {c} : pc'[d] = "idle"
      /\ pc'[c] \in {"check", "idle", "term", "gone"}
      /\ pc'[c] \in {"term", "gone"} => target'[c] = pidFile'
  <2>1. CASE read_pid(c)
    BY <1>2, <2>1 DEF read_pid, Goto, Stopped, TypeOK
  <2>2. CASE _try_sigterm(c) \/ EndStop(c)
    <3>1. PICK next \in {"check", "idle", "gone"}, dead \in SUBSET Callers :
            /\ GoesUnlessDead(c, next, dead)
            /\ next = "gone" => pidFile' = pidFile /\ pc[c] = "term"
      BY <2>2, SignalMoves DEF Struck
    <3>2. /\ \A d \in Callers \ {c} : pc'[d] \in {pc[d], "idle"}
          /\ pc'[c] \in {next, "idle"}
      BY <3>1 DEF GoesUnlessDead
    <3>3. target' = target
      BY <2>2, SignalStep
    <3>4. QED
      BY <1>2, <3>1, <3>2, <3>3 DEF TargetsFile
  <2>3. QED
    BY <2>1, <2>2
<1>6. ASSUME NEW p \in Pids, Alive(p)'
      PROVE  Alive(p) /\ state'[p] # "booting" /\ pidFile' = pidFile
  <2>1. \A q \in Pids : Alive(q)' => Alive(q) /\ (state'[q] = "booting" => state[q] = "booting")
    <3>1. CASE read_pid(c)
      BY <3>1 DEF read_pid, system, Alive
    <3>2. CASE _try_sigterm(c) \/ EndStop(c)
      <4>1. target[c] \in Pids /\ state' \in Signalled(target[c])
        BY <3>2, SignalStep
      <4>2. QED
        BY <4>1, SignalsTyped DEF Alive
    <3>3. QED
      BY <3>1, <3>2
  <2>2. Alive(p) /\ state'[p] # "booting"
    BY <1>2, <1>6, <2>1
  <2>3. pidFile' # None
    BY <1>1, <1>6, StopEnds
  <2>4. QED
    BY <1>1, <2>2, <2>3
<1>7. \A p \in Pids : Alive(p)' =>
        port'[p] = cfgPort' /\ pidFile' = p /\ state'[p] # "booting"
  BY <1>1, <1>2, <1>6
<1>8. QED
  BY <1>3, <1>7, TrackClosed

LEMMA TrackStep == KnownInv /\ TrackInv /\ [Next]_vars => TrackInv'
<1> SUFFICES ASSUME KnownInv, TrackInv, [Next]_vars PROVE TrackInv'
  OBVIOUS
<1>1. TypeOK /\ TypeOK' /\ HasTarget
  BY KnownStep DEF KnownInv
<1>2. CASE UNCHANGED vars
  BY <1>2 DEF vars, TrackInv, OneBusy, WantsPort, TargetsFile, Followed, Alive
<1>3. CASE Next
  BY <1>1, <1>3, TrackBySystem, TrackByBegin, TrackByStart, TrackByStop DEF Next
<1>4. QED
  BY <1>2, <1>3

(* As long as nothing has happened that can lose track of a server, every  *)
(* server alive is the one that the pid file names or a start() waits for. *)
THEOREM ServerIsFollowed == Spec => [](KnownInv /\ TrackInv)
<1>1. Init => KnownInv /\ TrackInv
  BY KnownInit, TrackInit
<1>2. KnownInv /\ TrackInv /\ [Next]_vars => (KnownInv /\ TrackInv)'
  BY KnownStep, TrackStep
<1>3. QED
  BY <1>1, <1>2, PTL DEF Spec

(* The pid file names the server that runs between operations              *)
(* (TrackedUnlessRaced), for any number of callers, numbers and ports.     *)
THEOREM ServerTracked == Spec => []TrackedUnlessRaced
<1>1. TrackInv => TrackedUnlessRaced
  BY DEF TrackInv, Followed, TrackedUnlessRaced, Idle
<1>2. QED
  BY <1>1, ServerIsFollowed, PTL

(* An undisturbed stop leaves no server behind (LoneStopStops).            *)
THEOREM StopStops == Spec => LoneStopStops
<1>1. KnownInv /\ TrackInv /\ [Next]_vars =>
        [\A c \in Callers :
           /\ undisturbed /\ pidFile' = None
           /\ pc[c] \in {"read", "term", "gone"} /\ pc'[c] \in {"check", "idle"}
           => \A p \in Pids : ~ Alive(p)']_vars
  <2> SUFFICES ASSUME KnownInv, TrackInv, [Next]_vars, NEW c \in Callers,
                      undisturbed, pidFile' = None,
                      pc[c] \in {"read", "term", "gone"}, pc'[c] \in {"check", "idle"}
               PROVE  \A p \in Pids : ~ Alive(p)'
    OBVIOUS
  <2>1. read_pid(c) \/ _try_sigterm(c) \/ EndStop(c) \/ CallerDies(c)
    <3>1. pc'[c] # pc[c]
      OBVIOUS
    <3>2. PICK d \in Callers :
            \/ ensure_running(d) \/ start_server(d) \/ stop_server(d) \/ cmd_setup(d)
            \/ ReadState(d) \/ Probe(d) \/ _spawn_bun(d) \/ write_pid(d)
            \/ Ready(d) \/ ExitedEarly(d) \/ GiveUp(d)
            \/ read_pid(d) \/ _try_sigterm(d) \/ EndStop(d) \/ CallerDies(d)
      BY <3>1 DEF Next, vars, StrangerStarts, StrangerEnds, Listens, ServerDies, Reap
    <3>3. CASE _try_sigterm(d) \/ EndStop(d)
      BY <3>3, TrackOpened, SignalStep DEF KnownInv
    <3>4. CASE ~ (_try_sigterm(d) \/ EndStop(d))
      <4>1. d = c
        BY <3>1, <3>2, <3>4, MovesAlone
      <4>2. QED
        BY <3>2, <3>4, <4>1 DEF ensure_running, start_server, stop_server, cmd_setup, Begin,
               ReadState, Probe, _spawn_bun, write_pid, Ready, ExitedEarly, GiveUp
    <3>5. QED
      BY <3>3, <3>4
  <2>2. CASE read_pid(c) \/ _try_sigterm(c) \/ EndStop(c)
    BY <2>2, StopEnds
  <2>3. CASE CallerDies(c)
    <3>1. pidFile = None /\ state' = state
      BY <2>3 DEF CallerDies, system
    <3>2. \A p \in Pids : Alive(p) => pidFile = p
      BY TrackOpened DEF KnownInv
    <3>3. QED
      BY <3>1, <3>2, ProcessAssumption DEF Alive
  <2>4. QED
    BY <2>1, <2>2, <2>3
<1>2. QED
  BY <1>1, ServerIsFollowed, PTL DEF LoneStopStops, Spec
==============================================================================
