----------------------------- MODULE HermesHost -----------------------------
(***************************************************************************)
(* The plugin inside Hermes: the configuration file, the provider that is  *)
(* brought up from it, the context engine that changes the provider's      *)
(* configuration, the observers that write through its client, and the     *)
(* rule that is kept in MEMORY.md.                                         *)
(***************************************************************************)
EXTENDS HomeConfig, ContextEngine, Observers, MemoryFiles

vars == <<callVars, homeVars, engineVars, observerVars, notesVars>>

(* register() has made the provider, wired the hooks and installed the     *)
(* context engine.  A host that cannot take the hooks or the engine is one *)
(* that never calls them.                                                  *)
Init ==
  /\ CallsInit
  /\ HomeInit
  /\ EngineInit
  /\ ObserversInit
  /\ NotesInit

(* initialize() loads the configuration and leaves the bring-up to a       *)
(* worker; from there on the caller stands for that worker.                *)
do_initialize(c) ==
  /\ c # Engine /\ ~ LoadRaises
  /\ Begin(c, "reload")
  /\ ReloadConfig(TopK(Parsed))
  /\ UNCHANGED <<homeVars, observerVars, notesVars>>

(* With a home of its own the provider loads the file again; a load that   *)
(* raises ends the job.                                                    *)
_bring_up_server(c) ==
  /\ pc[c] = "reload"
  /\ UNCHANGED <<homeVars, observerVars, notesVars>>
  /\ \/ LoadRaises /\ Goto(c, "idle") /\ UNCHANGED engineVars
     \/ ~ LoadRaises /\ Goto(c, "ensure") /\ ReloadConfig(TopK(Parsed))
     \/ Goto(c, "ensure") /\ UNCHANGED engineVars

(* ensure_running(): a server is there, or one is started, or none can be; *)
(* every step of it loads the file and ends the job when that raises.      *)
EnsureRunning(c) ==
  /\ pc[c] = "ensure"
  /\ \/ Goto(c, "health") /\ server # NoServer /\ ~ LoadRaises /\ UNCHANGED homeVars
     \/ Goto(c, "spawn") /\ LoadForServer(c)
     \/ Goto(c, "idle") /\ UNCHANGED homeVars
  /\ UNCHANGED <<engineVars, observerVars, notesVars>>

SpawnServer(c) ==
  /\ \/ pc[c] = "spawn" /\ Goto(c, "health")
     \/ pc[c] = "spawn for setup" /\ Goto(c, "rules")
  /\ build_server_env(c)
  /\ UNCHANGED <<engineVars, observerVars, notesVars>>

(* client_from_env() loads the file again; that and the health check may   *)
(* raise, which leaves no client.                                          *)
client_from_env == ~ LoadRaises

Health(c) ==
  /\ pc[c] = "health"
  /\ \E up \in {client_from_env, FALSE} : SetClient(up)
  /\ Goto(c, "idle")
  /\ UNCHANGED <<homeVars, engineVars, notesVars>>

(* The wizard's setup: start_server() finds a server, or starts one, or    *)
(* cannot; a load that raises ends it all.  Then the rules are installed.  *)
post_setup(c) ==
  /\ Begin(c, "setup")
  /\ UNCHANGED <<homeVars, engineVars, observerVars, notesVars>>

StartServer(c) ==
  /\ pc[c] = "setup"
  /\ \/ Goto(c, "idle") /\ LoadRaises /\ UNCHANGED homeVars
     \/ Goto(c, "rules") /\ ~ LoadRaises /\ UNCHANGED homeVars
     \/ Goto(c, "spawn for setup") /\ LoadForServer(c)
  /\ UNCHANGED <<engineVars, observerVars, notesVars>>

Shutdown(c) ==
  /\ client
  /\ Once(c)
  /\ SetClient(FALSE)
  /\ UNCHANGED <<homeVars, engineVars, notesVars>>

Configure(c) ==
  (HomeCall(c) \/ SaveStep(c)) /\ UNCHANGED <<engineVars, observerVars, notesVars>>

AdjustRecall(c) ==
  /\ update_from_response(c) \/ _maybe_adjust_top_k(c) \/ on_session_reset(c)
  /\ UNCHANGED <<homeVars, observerVars, notesVars>>

ObserveTools(c) == ObserverStep(c) /\ UNCHANGED <<homeVars, engineVars, notesVars>>

KeepRule(c) == NotesStep(c) /\ UNCHANGED <<homeVars, engineVars, observerVars>>

Next ==
  \E c \in Callers :
    \/ Configure(c) \/ AdjustRecall(c) \/ ObserveTools(c) \/ KeepRule(c)
    \/ do_initialize(c) \/ _bring_up_server(c) \/ post_setup(c) \/ StartServer(c)
    \/ EnsureRunning(c) \/ SpawnServer(c) \/ Health(c) \/ Shutdown(c)

Spec == Init /\ [][Next]_vars
=============================================================================
