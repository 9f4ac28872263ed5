----------------------------- MODULE HomeConfig -----------------------------
(***************************************************************************)
(* mastra.json, the configuration file of a Hermes home.  Every caller     *)
(* reads it, changes its copy and writes it back, with no lock, and the    *)
(* write truncates the file before it fills it.  The bring-up reads it     *)
(* twice to make the environment of the server it starts.                  *)
(***************************************************************************)
EXTENDS HostCalls, MemoryOptions

CONSTANTS BadTopK,   \* a recall_top_k that int() refuses
          Homes,     \* what mastra.json may hold at first
          Models,    \* names of models
          Settings,  \* what the save_config tool is called with
          Options,   \* <<path, value>> that set_option is called with
          Unset,     \* paths that unset_option is called with
          NoServer

Get(content, key, default) == IF key \in DOMAIN content THEN content[key] ELSE default

TopK(content) == Get(content, "recall_top_k", 4)
Temporal(content) == Get(content, "temporal_markers", "true")
Share(content) == Get(content, "share_token_budget", "false")
UserOptions(content) == Get(content, "mastra", Empty)

ASSUME HomeAssumption ==
  /\ BadTopK \notin Nat
  /\ \A content \in Homes : DOMAIN UserOptions(content) \subseteq Paths
  /\ \A content \in Homes \cup Settings : TopK(content) \in Nat \cup {BadTopK}
  /\ \A values \in Settings : "mastra" \notin DOMAIN values
  /\ \A option \in Options :
       option = <<option[1], option[2]>> /\ option[1] \in Paths /\ option[2] # EmptyDict
  /\ Unset \subseteq Paths

VARIABLES
  file,      \* what is there: no file, a file that is not JSON, or keys with values
  job,       \* job[c]: the saves caller c has still to do, and the file as it read it
  server,    \* the memory options of the running server, or NoServer
  intended,  \* history: keys and option leaves the calls so far asked for
  clean,     \* history: no two saves overlapped, and no write failed
  wanted     \* history: intended, when the server started read it undisturbed

homeVars == <<file, job, server, intended, clean, wanted>>
launchVars == <<server, wanted>>

Absent == [state |-> "absent", content |-> <<>>]
Torn == [state |-> "torn", content |-> <<>>]
Json(content) == [state |-> "json", content |-> content]

(* A file that is missing or does not parse reads as an empty one. *)
Parsed == file.content

(* int() of a value that is not a number: load_config() raises. *)
LoadRaises == TopK(Parsed) = BadTopK

RoleKey == [observer |-> "observer_name", reflector |-> "reflector_name"]
DefaultModel == [observer |-> "flash", reflector |-> "pro"]
NoModel == ""

_resolve_field(role_user, legacy, default) ==
  IF role_user # NoModel THEN role_user ELSE IF legacy # NoModel THEN legacy ELSE default

RoleUser(content, role) == Get(content, RoleKey[role], NoModel)
Legacy(content, role) ==
  IF role = "observer" THEN Get(content, "model_name", NoModel) ELSE NoModel

get_model(content, role) ==
  _resolve_field(RoleUser(content, role), Legacy(content, role), DefaultModel[role])

(* The server's environment takes the role's key, and never the older one, *)
(* over which load_config() has laid a default for the role.               *)
ModelOf(content, role) == _resolve_field(RoleUser(content, role), NoModel, DefaultModel[role])

(* The dictionaries that are left empty do not count. *)
Leaves(t) == {<<p, t[p]>> : p \in {q \in DOMAIN t : t[q] # EmptyDict}}
OtherKeys(content) == [k \in DOMAIN content \ {"mastra"} |-> content[k]]

Intent(content) == [keys |-> OtherKeys(content), leaves |-> Leaves(UserOptions(content))]

NoJob == [saves |-> <<>>, seen |-> <<>>]

HomeInit ==
  /\ file \in {Absent} \cup {Json(content) : content \in Homes}
  /\ job = [c \in Callers |-> NoJob]
  /\ server = NoServer
  /\ intended = Intent(Parsed)
  /\ clean = TRUE
  /\ wanted = NoServer

Saving(c) == pc[c] \in {"existing", "truncate", "fill"}
NobodySaves == \A c \in Callers : ~ Saving(c)

-----------------------------------------------------------------------------
(* The calls that save.  A call ends when its last save does.              *)
BeginSaves(c, saves, intent) ==
  /\ Begin(c, "existing")
  /\ job' = [job EXCEPT ![c] = [saves |-> saves, seen |-> <<>>]]
  /\ intended' = intent
  /\ clean' = (clean /\ NobodySaves)
  /\ UNCHANGED <<file, launchVars>>

WithKeys(values) == [keys |-> Over(values, intended.keys), leaves |-> intended.leaves]

(* The tool saves what coerce_config_values() leaves of its input: a       *)
(* string that is no number stays, and every load_config() raises on it.   *)
save_config(c) ==
  \E values \in Settings : BeginSaves(c, <<values>>, WithKeys(values))

set_model(c) ==
  \E key \in {"observer_name", "reflector_name"}, m \in Models :
    BeginSaves(c, <<At(key, m)>>, WithKeys(At(key, m)))

apply_preset(c) ==
  \E m \in Models :
    LET observer == At("observer_name", m)  reflector == At("reflector_name", m) IN
    BeginSaves(c, <<observer, reflector>>, WithKeys(Over(reflector, observer)))

(* set_option() and unset_option() change the options that load_config()   *)
(* gives them, and save the whole tree.                                    *)
SaveOptions(c, t, leaves) ==
  BeginSaves(c, <<At("mastra", t)>>, [keys |-> intended.keys, leaves |-> leaves])

Apart(path) == {e \in intended.leaves : ~ Related(e[1], path)}

set_option(c) ==
  \E option \in Options :
    LET user == UserOptions(Parsed) IN
    /\ ~ LoadRaises /\ Settable(user, option[1])
    /\ SaveOptions(c, _set_in(user, option[1], option[2]), Apart(option[1]) \cup {option})

unset_option(c) ==
  \E path \in Unset :
    /\ ~ LoadRaises /\ "mastra" \in DOMAIN Parsed
    /\ SaveOptions(c, _unset_in(UserOptions(Parsed), path),
                   {e \in intended.leaves : ~ IsPrefixOf(path, e[1])})

reset_options(c) == SaveOptions(c, Empty, {})

-----------------------------------------------------------------------------
(* _read_existing_config(). *)
ReadExisting(c) ==
  /\ pc[c] = "existing"
  /\ job' = [job EXCEPT ![c].seen = Parsed]
  /\ Goto(c, "truncate")
  /\ UNCHANGED <<file, launchVars, intended, clean>>

(* The file cannot be opened, or it is there and cannot be filled (as when *)
(* the process dies between the two): the rest of the call saves nothing,  *)
(* or goes on to its next save.                                            *)
NextSave(c) ==
  IF Len(job[c].saves) > 1
  THEN Goto(c, "existing") /\ job' = [job EXCEPT ![c] = [saves |-> Tail(@.saves), seen |-> <<>>]]
  ELSE Goto(c, "idle") /\ job' = [job EXCEPT ![c] = NoJob]

SaveFails(c) ==
  /\ pc[c] \in {"truncate", "fill"}
  /\ clean' = FALSE
  /\ NextSave(c)
  /\ UNCHANGED <<file, launchVars, intended>>

Truncate(c) ==
  /\ pc[c] = "truncate"
  /\ file' = Torn
  /\ Goto(c, "fill")
  /\ UNCHANGED <<job, launchVars, intended, clean>>

(* Faulty variant: what the file held is not kept. *)
safe_save_configOnly(c) ==
  /\ pc[c] = "fill"
  /\ file' \in {Json(Head(job[c].saves))} \cup (IF file = Torn THEN {} ELSE {Torn})
  /\ NextSave(c)
  /\ UNCHANGED <<launchVars, intended, clean>>

(* Over what another writer has put there since, the end of a longer text  *)
(* remains.                                                                *)
safe_save_config(c) ==
  /\ pc[c] = "fill"
  /\ file' \in {Json(Over(Head(job[c].saves), job[c].seen))} \cup (IF file = Torn THEN {} ELSE {Torn})
  /\ NextSave(c)
  /\ UNCHANGED <<launchVars, intended, clean>>

-----------------------------------------------------------------------------
(* start_server(): a first load_config() for the variables, a second one   *)
(* for the payload; a payload that cannot be made is left out.             *)
LoadForServer(c) ==
  /\ ~ LoadRaises
  /\ job' = [job EXCEPT ![c].seen = Parsed]
  /\ UNCHANGED <<file, launchVars, intended, clean>>

_base_env(content) ==
  [temporal |-> Temporal(content), share |-> Share(content),
   observer |-> ModelOf(content, "observer"), reflector |-> ModelOf(content, "reflector")]

options_env_payload ==
  IF LoadRaises THEN Empty
  ELSE resolve_options(Temporal(Parsed), Share(Parsed), UserOptions(Parsed))

build_server_env(c) ==
  /\ server' = buildMemoryOptions(_base_env(job[c].seen), options_env_payload)
  /\ wanted' = IF clean /\ NobodySaves /\ ~ LoadRaises /\ Parsed = job[c].seen
               THEN intended ELSE NoServer
  /\ job' = [job EXCEPT ![c] = NoJob]
  /\ UNCHANGED <<file, intended, clean>>

SaveStep(c) == ReadExisting(c) \/ SaveFails(c) \/ Truncate(c) \/ safe_save_config(c)

HomeCall(c) ==
  \/ save_config(c) \/ set_model(c) \/ apply_preset(c)
  \/ set_option(c) \/ unset_option(c) \/ reset_options(c)

-----------------------------------------------------------------------------
(* Calls that save one after the other, each of which comes to its end,    *)
(* leave in the file what they asked for and everything they did not name, *)
(* down to the single option (mastra_options.py:179, server_config.py:110).*)
LoneSaveKeeps == clean /\ NobodySaves => Intent(Parsed) = intended

(* A server that was started with a file nobody was writing uses every     *)
(* option the user set, and for the others what the legacy keys            *)
(* temporal_markers and share_token_budget say, the models get_model()     *)
(* reports, and the defaults: through the merge in mastra_options.py, the  *)
(* environment and the merge in memory-options.ts.  Three things are not   *)
(* so, and left out here: a dictionary that unset_option() left empty      *)
(* hides the defaults it stands for; an observer that only the older key   *)
(* names is reported and not used; and with a shared budget                *)
(* memory-options.ts:65 turns bufferTokens off, which the payload, with    *)
(* the 0.2 of mastra_options.py:133 in it, undoes.                         *)
Free(path) == \A e \in wanted.leaves : ~ Related(e[1], path)

Uses(path, value) ==
  \/ path \in DOMAIN server /\ server[path] = value
  \/ \E q \in DOMAIN server : server[q] = EmptyDict /\ IsPrefixOf(path, q)

ModelPath == [observer |-> ObserverModel, reflector |-> ReflectorModel]

Defaulted(keys, p) ==
  CASE p = Markers -> Temporal(keys) [] p = Budget -> Share(keys) [] OTHER -> DEFAULTS[p]

Shared == Share(wanted.keys) = "true" \/ <<Budget, "true">> \in wanted.leaves

Named(role) == RoleUser(wanted.keys, role) # NoModel \/ Legacy(wanted.keys, role) = NoModel

ServerSeesUserOptions ==
  wanted # NoServer =>
    /\ \A e \in wanted.leaves : e[1] \in DOMAIN server /\ server[e[1]] = e[2]
    /\ \A p \in DOMAIN DEFAULTS :
         Free(p) /\ (p = Buffer => ~ Shared) => Uses(p, Defaulted(wanted.keys, p))
    /\ \A role \in DOMAIN ModelPath :
         Free(ModelPath[role]) /\ Named(role) =>
           Uses(ModelPath[role], get_model(wanted.keys, role))
=============================================================================
