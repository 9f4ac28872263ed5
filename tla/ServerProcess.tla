---------------------------- MODULE ServerProcess ----------------------------
(***************************************************************************)
(* Starting and stopping the Bun server: server_process.py with the pid    *)
(* file, the port and the configured port of server_config.py.  Several    *)
(* processes of Hermes and of its command line share the home directory    *)
(* and take no lock.  Process numbers are reused: a pid file outlives its  *)
(* server and may come to name a stranger.  A signal is sent to the whole  *)
(* process group of the number, so also to what never had it.  Reading a   *)
(* file and probing what it named are two steps; the system calls of one   *)
(* probe or of one signal are one.                                         *)
(***************************************************************************)
EXTENDS Naturals, FiniteSets

CONSTANTS Callers,   \* processes that run the operations
          Pids,      \* process numbers
          Ports,
          None,
          MaxCalls   \* bound on the operations begun

ASSUME ProcessAssumption ==
  /\ None \notin Pids
  /\ Callers \cap Pids = {}
  /\ MaxCalls \in Nat

VARIABLES
  state,     \* state[p]: what runs under p: "free", "stranger", a server that is
             \* "booting", "listening" or "closing", or a dead one, "zombie"
  group,     \* group[p]: the process group of p: the number of its leader, or a caller
             \* for the group that this caller runs in
  port,      \* port[p]: the port given to the server p
  pidFile,   \* mastra.pid, or None
  cfgPort,   \* server_port of mastra.json
  pc,        \* pc[c]: where caller c is
  job,       \* job[c]: "ensure", "start", "stop" or "restart"
  target,    \* target[c]: the number c has read or spawned
  wanted,    \* wanted[c]: the port in the configuration c has loaded
  calls,     \* operations begun
  undisturbed, \* history: nothing has happened that can lose track of a server
  heirs      \* history: strangers born under a number that was in use as the server's

vars == <<state, group, port, pidFile, cfgPort, pc, job, target, wanted, calls, undisturbed, heirs>>
system == <<state, group, port, heirs>>

Alive(p) == state[p] \in {"booting", "listening", "closing"}

(* is_port_open: someone accepts connections on it. *)
PortOpen(n) == \E p \in Pids : state[p] \in {"listening", "closing"} /\ port[p] = n

(* os.kill(p, 0) succeeds, on a zombie too. *)
Exists(p) == state[p] # "free"

Idle == \A c \in Callers : pc[c] = "idle"

Init ==
  /\ state = [p \in Pids |-> "free"]
  /\ group = [p \in Pids |-> p]
  /\ port \in [Pids -> Ports] /\ \A p, q \in Pids : port[p] = port[q]
  /\ pidFile = None
  /\ cfgPort \in Ports /\ \A p \in Pids : port[p] = cfgPort
  /\ pc = [c \in Callers |-> "idle"]
  /\ job = [c \in Callers |-> "start"]
  /\ target = [c \in Callers |-> None]
  /\ wanted = [c \in Callers |-> cfgPort]
  /\ calls = 0
  /\ undisturbed = TRUE
  /\ heirs = {}

-----------------------------------------------------------------------------
(* The operating system. *)

Unheld(p) == \A c \in Callers : pc[c] \in {"write", "wait"} => target[c] # p

(* Numbers that the pid file or a stop under way takes for the server's. *)
Named == {pidFile} \cup {target[c] : c \in {x \in Callers : pc[x] \in {"term", "gone"}}}

(* A number is given out when neither a process nor a group has it.        *)
Unused(p) ==
  /\ state[p] = "free"
  /\ \A q \in Pids : state[q] = "stranger" => group[q] # p

(* What is gone has no group and is nobody's heir.                         *)
Bury ==
  /\ group' = [p \in Pids |-> IF state'[p] = "free" THEN p ELSE group[p]]
  /\ heirs' = heirs \cap {p \in Pids : state'[p] = "stranger"}

(* It leads a group or joins one: of another stranger, or of a caller that *)
(* has started it, or that it is itself.                                   *)
StrangerStarts(p) ==
  /\ Unused(p)
  /\ state' = [state EXCEPT ![p] = "stranger"]
  /\ \E g \in {p} \cup Callers \cup {group[q] : q \in {r \in Pids : state[r] = "stranger"}} :
       group' = [group EXCEPT ![p] = g]
  /\ heirs' = IF p \in Named THEN heirs \cup {p} ELSE heirs
  /\ UNCHANGED <<port, pidFile, cfgPort, pc, job, target, wanted, calls, undisturbed>>

StrangerEnds(p) ==
  /\ state[p] = "stranger"
  /\ state' = [state EXCEPT ![p] = "free"]
  /\ Bury
  /\ UNCHANGED <<port, pidFile, cfgPort, pc, job, target, wanted, calls, undisturbed>>

(* A booted server takes its port, or exits if the port is taken. *)
Listens(p) ==
  /\ state[p] = "booting"
  /\ state' = [state EXCEPT ![p] = IF PortOpen(port[p]) THEN "zombie" ELSE "listening"]
  /\ UNCHANGED <<group, port, pidFile, cfgPort, pc, job, target, wanted, calls, undisturbed, heirs>>

(* A crash, or the end after SIGTERM. *)
ServerDies(p) ==
  /\ Alive(p)
  /\ state' = [state EXCEPT ![p] = "zombie"]
  /\ UNCHANGED <<group, port, pidFile, cfgPort, pc, job, target, wanted, calls, undisturbed, heirs>>

(* The number is free again once no start() still waits for its child. *)
Reap(p) ==
  /\ state[p] = "zombie" /\ Unheld(p)
  /\ state' = [state EXCEPT ![p] = "free"]
  /\ UNCHANGED <<group, port, pidFile, cfgPort, pc, job, target, wanted, calls, undisturbed, heirs>>

-----------------------------------------------------------------------------
(* Beginning an operation.  Two at a time disturb each other; a server     *)
(* that was lost track of no longer matters when it is dead.               *)

Calm == Idle /\ (undisturbed \/ \A p \in Pids : ~ Alive(p))

Begin(c, j, next) ==
  /\ pc[c] = "idle" /\ calls < MaxCalls
  /\ calls' = calls + 1
  /\ job' = [job EXCEPT ![c] = j]
  /\ pc' = [pc EXCEPT ![c] = next]
  /\ UNCHANGED <<system, pidFile, target, wanted>>

ensure_running(c) ==
  /\ Begin(c, "ensure", "check")
  /\ undisturbed' = Calm
  /\ UNCHANGED cfgPort

start_server(c) ==
  /\ Begin(c, "start", "check")
  /\ undisturbed' = Calm
  /\ UNCHANGED cfgPort

stop_server(c) ==
  /\ \E j \in {"stop", "restart"} : Begin(c, j, "read")
  /\ undisturbed' = Calm
  /\ UNCHANGED cfgPort

(* cmd_setup saves the port that was typed in and starts the server: one   *)
(* that still runs on another port is lost sight of.                       *)
cmd_setup(c) ==
  /\ Begin(c, "start", "check")
  /\ cfgPort' \in Ports
  /\ undisturbed' = (/\ Calm
                     /\ \A p \in Pids : Alive(p) => port[p] = cfgPort')

-----------------------------------------------------------------------------
(* is_running(), the start and its wait. *)

Goto(c, next) == pc' = [pc EXCEPT ![c] = next]

ReadState(c) ==
  /\ pc[c] = "check"
  /\ wanted' = [wanted EXCEPT ![c] = cfgPort]
  /\ target' = [target EXCEPT ![c] = pidFile]
  /\ Goto(c, "probe")
  /\ UNCHANGED <<system, pidFile, cfgPort, job, calls, undisturbed>>

is_running(c) ==
  /\ target[c] = None \/ Exists(target[c])
  /\ PortOpen(wanted[c])

(* ensure_running() asks, and start_server() asks again. *)
Probe(c) ==
  /\ pc[c] = "probe"
  /\ IF is_running(c)
     THEN Goto(c, "idle") /\ UNCHANGED job
     ELSE \/ job[c] = "ensure" /\ Goto(c, "check") /\ job' = [job EXCEPT ![c] = "start"]
          \/ job[c] = "ensure" /\ Goto(c, "idle") /\ UNCHANGED job  \* auto_start is off
          \/ job[c] # "ensure" /\ Goto(c, "spawn") /\ UNCHANGED job
  /\ UNCHANGED <<system, pidFile, cfgPort, target, wanted, calls, undisturbed>>

(* The dependencies, the log file or bun may be missing.  A server starts  *)
(* a session, and with it a group, of its own.                             *)
_spawn_bun(c) ==
  /\ pc[c] = "spawn"
  /\ \/ \E p \in Pids :
          /\ Unused(p)
          /\ state' = [state EXCEPT ![p] = "booting"]
          /\ port' = [port EXCEPT ![p] = wanted[c]]
          /\ target' = [target EXCEPT ![c] = p]
          /\ Goto(c, "write")
     \/ Goto(c, "idle") /\ UNCHANGED <<state, port, target>>
  /\ UNCHANGED <<group, pidFile, cfgPort, job, wanted, calls, undisturbed, heirs>>

(* Faulty variant: the first number written stays. *)
write_pidOnce(c) ==
  /\ pc[c] = "write"
  /\ pidFile' = IF pidFile = None THEN target[c] ELSE pidFile
  /\ Goto(c, "wait")
  /\ UNCHANGED <<system, cfgPort, job, target, wanted, calls, undisturbed>>

(* A write that fails is logged, and may have emptied the file. *)
write_pid(c) ==
  /\ pc[c] = "write"
  /\ \/ pidFile' = target[c] /\ UNCHANGED undisturbed
     \/ pidFile' \in {pidFile, None} /\ undisturbed' = FALSE
  /\ Goto(c, "wait")
  /\ UNCHANGED <<system, cfgPort, job, target, wanted, calls>>

(* _wait_for_ready: an open port is taken for the own server's. *)
Ready(c) ==
  /\ pc[c] = "wait" /\ PortOpen(wanted[c])
  /\ Goto(c, "idle")
  /\ UNCHANGED <<system, pidFile, cfgPort, job, target, wanted, calls, undisturbed>>

ExitedEarly(c) ==
  /\ pc[c] = "wait" /\ ~ PortOpen(wanted[c]) /\ state[target[c]] = "zombie"
  /\ pidFile' = None
  /\ Goto(c, "idle")
  /\ UNCHANGED <<system, cfgPort, job, target, wanted, calls, undisturbed>>

(* The deadline: the server may still come up. *)
GiveUp(c) ==
  /\ pc[c] = "wait"
  /\ undisturbed' = (undisturbed /\ state[target[c]] # "booting")
  /\ Goto(c, "idle")
  /\ UNCHANGED <<system, pidFile, cfgPort, job, target, wanted, calls>>

-----------------------------------------------------------------------------
(* stop_server() and _restart_server(), which goes on with a start. *)

Stopped(c) == IF job[c] = "restart" THEN "check" ELSE "idle"

(* Faulty variant: without a file, the number read or spawned last is used. *)
read_pidRemembered(c) ==
  /\ pc[c] = "read" /\ (pidFile # None \/ target[c] # None)
  /\ target' = [target EXCEPT ![c] = IF pidFile = None THEN @ ELSE pidFile]
  /\ Goto(c, "term")
  /\ UNCHANGED <<system, pidFile, cfgPort, job, wanted, calls, undisturbed>>

(* Without a pid file there is nothing to stop. *)
read_pid(c) ==
  /\ pc[c] = "read"
  /\ target' = [target EXCEPT ![c] = pidFile]
  /\ Goto(c, IF pidFile = None THEN Stopped(c) ELSE "term")
  /\ job' = IF pidFile = None THEN [job EXCEPT ![c] = "start"] ELSE job
  /\ UNCHANGED <<system, pidFile, cfgPort, wanted, calls, undisturbed>>

(* killpg(getpgid(p)): a signal hits all members of the group of p, and    *)
(* the caller whose group it is.                                           *)
Members(p) == {q \in Pids : group[q] = group[p]}
Peers(p) == {q \in Members(p) : state[q] = "stranger"}
Struck(p) == {group[p]} \cap Callers

(* The processes after a signal to the group of p; a stranger that handles *)
(* it or may not be signalled is not in dying.                             *)
Terminated(p, dying) ==
  [q \in Pids |->
     CASE q \in dying                                    -> "free"
       [] q \in Members(p) /\ state[q] = "listening"     -> "closing"
       [] q \in Members(p) /\ state[q] = "booting"       -> "zombie"
       [] OTHER                                          -> state[q]]
Killed(p, dying) ==
  [q \in Pids |-> CASE q \in dying                    -> "free"
                    [] q \in Members(p) /\ Alive(q)   -> "zombie"
                    [] OTHER                          -> state[q]]

(* c goes on, unless it is among the callers that are struck dead.         *)
GoesUnlessDead(c, next, dead) ==
  pc' = [d \in Callers |-> IF d \in dead THEN "idle" ELSE IF d = c THEN next ELSE pc[d]]

(* The pid file is removed and the stop is over.                           *)
Cleared(c) ==
  /\ pidFile' = None
  /\ job' = [job EXCEPT ![c] = "start"]

(* Faulty variant: the server is taken to be gone as soon as it is told to. *)
_try_sigtermOnly(c) ==
  /\ pc[c] = "term"
  /\ \E dying \in SUBSET Peers(target[c]) : state' = Terminated(target[c], dying)
  /\ Bury
  /\ Goto(c, Stopped(c)) /\ Cleared(c)
  /\ UNCHANGED <<port, cfgPort, target, wanted, calls, undisturbed>>

(* SIGTERM to the process group of the number read: it may be gone, or     *)
(* belong to others, some of whom handle it or may not be signalled.       *)
_try_sigterm(c) ==
  /\ pc[c] = "term"
  /\ \/ /\ ~ Exists(target[c])
        /\ Goto(c, Stopped(c)) /\ Cleared(c)
        /\ UNCHANGED state
     \/ /\ Exists(target[c])
        /\ \E dying \in SUBSET Peers(target[c]) : state' = Terminated(target[c], dying)
        /\ \E dead \in SUBSET Struck(target[c]) : GoesUnlessDead(c, "gone", dead)
        /\ UNCHANGED <<pidFile, job>>
     \/ /\ state[target[c]] = "stranger"
        /\ Goto(c, Stopped(c))
        /\ job' = [job EXCEPT ![c] = "start"]
        /\ UNCHANGED <<state, pidFile>>
  /\ Bury
  /\ UNCHANGED <<port, cfgPort, target, wanted, calls, undisturbed>>

(* The number is gone, or someone else's, within the timeout ...           *)
SeesGone(c) ==
  /\ ~ Exists(target[c]) \/ state[target[c]] = "stranger"
  /\ Goto(c, Stopped(c)) /\ Cleared(c)
  /\ UNCHANGED state

(* ... or its group gets SIGKILL, which the caller itself does not survive *)
(* in that group.                                                          *)
Kills(c) ==
  /\ Exists(target[c])
  /\ \E dying \in SUBSET Peers(target[c]) : state' = Killed(target[c], dying)
  /\ GoesUnlessDead(c, Stopped(c), Struck(target[c]))
  /\ IF c \in Struck(target[c]) THEN UNCHANGED <<pidFile, job>> ELSE Cleared(c)

EndStop(c) ==
  /\ pc[c] = "gone"
  /\ SeesGone(c) \/ Kills(c)
  /\ Bury
  /\ UNCHANGED <<port, cfgPort, target, wanted, calls, undisturbed>>

(* The calling process itself dies; a server it has not recorded is lost.  *)
CallerDies(c) ==
  /\ pc[c] # "idle"
  /\ undisturbed' = (undisturbed /\ pc[c] \notin {"write", "wait"})
  /\ Goto(c, "idle")
  /\ UNCHANGED <<system, pidFile, cfgPort, job, target, wanted, calls>>

-----------------------------------------------------------------------------
Next ==
  \/ \E p \in Pids : \/ StrangerStarts(p) \/ StrangerEnds(p) \/ Listens(p)
                     \/ ServerDies(p) \/ Reap(p)
  \/ \E c \in Callers :
       \/ ensure_running(c) \/ start_server(c) \/ stop_server(c) \/ cmd_setup(c)
       \/ ReadState(c) \/ Probe(c) \/ _spawn_bun(c) \/ write_pid(c)
       \/ Ready(c) \/ ExitedEarly(c) \/ GiveUp(c)
       \/ read_pid(c) \/ _try_sigterm(c) \/ EndStop(c) \/ CallerDies(c)

Spec == Init /\ [][Next]_vars

-----------------------------------------------------------------------------
TypeOK ==
  /\ state \in [Pids -> {"free", "stranger", "booting", "listening", "closing", "zombie"}]
  /\ group \in [Pids -> Pids \cup Callers]
  /\ port \in [Pids -> Ports]
  /\ pidFile \in Pids \cup {None}
  /\ cfgPort \in Ports
  /\ pc \in [Callers -> {"idle", "check", "probe", "spawn", "write", "wait",
                         "read", "term", "gone"}]
  /\ job \in [Callers -> {"ensure", "start", "stop", "restart"}]
  /\ target \in [Callers -> Pids \cup {None}]
  /\ wanted \in [Callers -> Ports]
  /\ calls \in 0..MaxCalls
  /\ undisturbed \in BOOLEAN
  /\ heirs \subseteq Pids

(* Between operations the pid file names the server that runs, so that it  *)
(* can be stopped (server_process.py:143), unless operations overlapped, a *)
(* write of the file failed, a start gave up on a server still booting, a  *)
(* caller died before its server was ready, or setup moved the port under  *)
(* a running server.                                                       *)
TrackedUnlessRaced ==
  undisturbed /\ Idle => \A p \in Pids : Alive(p) => pidFile = p

(* A stop (server_process.py:161) that ran to its end undisturbed leaves   *)
(* no server behind, also if there was no pid file or its number had been  *)
(* taken over by a stranger.                                               *)
LoneStopStops ==
  [][\A c \in Callers :
       /\ undisturbed /\ pidFile' = None
       /\ pc[c] \in {"read", "term", "gone"} /\ pc'[c] \in {"check", "idle"}
       => \A p \in Pids : ~ Alive(p)']_vars

(* A stop ends another program, or another caller, only if a member of the *)
(* same process group was born under a number that the pid file, or a stop *)
(* under way, took for the server's (server_process.py:152, 181): the file *)
(* has to be stale first, and then the whole group is hit.                 *)
GroupOfHeir(g) == \E h \in heirs : group[h] = g
StrangersSpared ==
  [][/\ \A p \in Pids :
          pc' # pc /\ state[p] = "stranger" /\ state'[p] # "stranger" => GroupOfHeir(group[p])
     /\ \A c, d \in Callers :
          c # d /\ pc'[c] # pc[c] /\ pc'[d] # pc[d] => GroupOfHeir(c) \/ GroupOfHeir(d)]_vars
=============================================================================
