---------------------------- MODULE MCHermesHost ----------------------------
EXTENDS HermesHost, SequencesExt

MCWords == {"readOnly", "semanticRecall", "topK", "scope", "observationalMemory",
            "temporalMarkers", "shareTokenBudget", "observation", "reflection",
            "bufferTokens", "model", "x"}

MCHomes == {"share_token_budget" :> "true" @@ "model_name" :> "old"}

MCSettings == {"recall_top_k" :> 9, "recall_top_k" :> BadTopK,
               "share_token_budget" :> "true" @@ "temporal_markers" :> "false"}

MCOptions == {<< <<"semanticRecall">>, "false" >>,
              << RecallTopK, "9" >>,
              << Budget, "true" >>,
              << <<"readOnly", "x">>, "1" >>}

MCUnset == {<<"semanticRecall">>, RecallTopK, <<"readOnly", "x">>}

(* The loop of _inject_observation_block, message by message. *)
InjectLoop(messages, injected) ==
  LET Step(state, message) ==
        LET now == ~ state.inserted /\ state.seen IN
        [out |-> state.out \o (IF now THEN <<injected>> ELSE <<>>) \o <<message>>,
         seen |-> state.seen \/ message.role # "system",
         inserted |-> state.inserted \/ now]
      last == FoldLeft(Step, [out |-> <<>>, seen |-> FALSE, inserted |-> FALSE], messages)
  IN  IF last.inserted THEN last.out ELSE Append(last.out, injected)

Message(role, text) == [role |-> role, text |-> text]

ASSUME InjectIsTheLoop ==
  \A n \in 0..5 : \A roles \in [1..n -> {"system", "user"}] :
    LET messages == [i \in 1..n |-> Message(roles[i], i)]
        block == Message("system", 0)
    IN  _inject_observation_block(messages, block) = InjectLoop(messages, block)
=============================================================================
