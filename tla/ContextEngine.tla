--------------------------- MODULE ContextEngine ---------------------------
(***************************************************************************)
(* The recall boost of MastraContextEngine.  Under memory pressure it      *)
(* raises recall_top_k in the configuration the provider holds, and puts   *)
(* the baseline back when the pressure clears.  The provider's bring-up,   *)
(* on a worker, replaces that configuration by a fresh one meanwhile.      *)
(***************************************************************************)
EXTENDS HostCalls, Sequences

CONSTANTS Engine,   \* the caller that runs the engine: Hermes' agent loop
          TopKs,    \* values of recall_top_k a configuration may bring
          Boosted,  \* context_engine_boosted_top_k
          NoTopK,
          NoText    \* the empty string

ASSUME EngineAssumption ==
  /\ Engine \in Callers
  /\ TopKs \subseteq Nat /\ TopKs # {}
  /\ Boosted \in Nat
  /\ NoTopK \notin Nat

VARIABLES topK,      \* recall_top_k in p._cfg
          loaded,    \* history: what the configuration brought for it
          baseline,  \* _baseline_top_k, or NoTopK
          current,   \* `current` of _maybe_adjust_top_k
          pressure,  \* the usage last adjusted to: at the pressure fraction or above
          disturbed  \* history: a baseline was dropped, or a configuration came
                     \* between its reading and its return

engineVars == <<topK, loaded, baseline, current, pressure, disturbed>>

EngineInit ==
  /\ topK \in TopKs
  /\ loaded = topK
  /\ baseline = NoTopK
  /\ current = NoTopK
  /\ pressure = FALSE
  /\ disturbed = FALSE

recall_boost_active == baseline # NoTopK

(* The delegate takes the usage; without a threshold nothing is adjusted,  *)
(* and a reading of recall_top_k that raises ends the adjustment.          *)
update_from_response(c) ==
  /\ c = Engine
  /\ \/ Once(c) /\ UNCHANGED <<current, pressure>>
     \/ Begin(c, "adjust") /\ current' = topK /\ pressure' \in BOOLEAN
  /\ UNCHANGED <<topK, loaded, baseline, disturbed>>

(* Faulty variant: the baseline is taken again at every report. *)
_maybe_adjust_top_kAlways(c) ==
  /\ pc[c] = "adjust"
  /\ IF pressure
     THEN /\ baseline' = current
          /\ topK' = IF current < Boosted THEN Boosted ELSE topK
     ELSE /\ topK' = IF recall_boost_active THEN baseline ELSE topK
          /\ baseline' = NoTopK
  /\ current' = NoTopK
  /\ Goto(c, "idle")
  /\ UNCHANGED <<loaded, pressure, disturbed>>

_maybe_adjust_top_k(c) ==
  /\ pc[c] = "adjust"
  /\ IF pressure
     THEN /\ baseline' = IF recall_boost_active THEN baseline ELSE current
          /\ topK' = IF current < Boosted THEN Boosted ELSE topK
     ELSE /\ topK' = IF recall_boost_active THEN baseline ELSE topK
          /\ baseline' = NoTopK
  /\ current' = NoTopK
  /\ Goto(c, "idle")
  /\ UNCHANGED <<loaded, pressure, disturbed>>

-----------------------------------------------------------------------------
(* compress() puts what was observed before the messages are compressed:   *)
(* the text the provider has cached, or what a recall brings while the     *)
(* client is there; a recall that raises brings nothing.                   *)
_fetch_observation_block(cached, alive, recalled) ==
  IF cached # NoText THEN cached ELSE IF alive THEN recalled ELSE NoText

Speakers(messages) == {i \in 1..Len(messages) : messages[i].role # "system"}

(* It goes behind the first message that is not a system message, and to   *)
(* the end when there is none, or none behind it.                          *)
_inject_observation_block(messages, injected) ==
  LET at == IF Speakers(messages) = {} THEN Len(messages)
            ELSE CHOOSE i \in Speakers(messages) : \A j \in Speakers(messages) : i <= j
  IN  [i \in 1..(Len(messages) + 1) |->
         IF i <= at THEN messages[i] ELSE IF i = at + 1 THEN injected ELSE messages[i - 1]]

(* What the delegate is given to compress. *)
compress(messages, block) ==
  IF block = NoText THEN messages
  ELSE _inject_observation_block(messages, [role |-> "system", text |-> block])

-----------------------------------------------------------------------------
(* The baseline is forgotten, not put back. *)
on_session_reset(c) ==
  /\ c = Engine /\ Once(c)
  /\ baseline' = NoTopK
  /\ disturbed' = (disturbed \/ (recall_boost_active /\ topK # loaded))
  /\ UNCHANGED <<topK, loaded, current, pressure>>

(* do_initialize() and _bring_up_server() give the provider a new p._cfg,  *)
(* with the top_k of the file at that moment.                              *)
ReloadConfig(value) ==
  /\ topK' = value
  /\ loaded' = value
  /\ disturbed' = (recall_boost_active \/ current # NoTopK)
  /\ UNCHANGED <<baseline, current, pressure>>

(* While no boost is active, recall_top_k is what the configuration says   *)
(* (agent_context_engine.py:124): pressure leaves no trace once it clears, *)
(* in whatever order reports, resets and reloads come, unless a session    *)
(* reset dropped a baseline while the boost was on or a configuration was  *)
(* loaded in the middle of a boost.                                        *)
BoostUndone ==
  ~ recall_boost_active /\ pc[Engine] # "adjust" /\ ~ disturbed => topK = loaded
=============================================================================
