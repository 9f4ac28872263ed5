--------------------------- MODULE MemoryOptions ---------------------------
(***************************************************************************)
(* The options of Mastra's memory: the user's options over the defaults in *)
(* mastra_options.py, sent to the server as JSON, and there over the       *)
(* defaults of memory-options.ts.  A nested dictionary is the function     *)
(* from the paths of its leaves to their values; a dictionary inside it    *)
(* that holds nothing is a leaf too, EmptyDict.  Of the options only those *)
(* are kept in which the two files, the legacy keys and the user can       *)
(* disagree.                                                               *)
(***************************************************************************)
EXTENDS Naturals, Sequences

CONSTANT Words  \* the keys a dictionary may have

ASSUME OptionsAssumption ==
  {"readOnly", "semanticRecall", "topK", "scope", "observationalMemory", "temporalMarkers",
   "shareTokenBudget", "observation", "reflection", "bufferTokens", "model"} \subseteq Words

Paths == Seq(Words)

At(k, v) == [x \in {k} |-> v]

(* What f says, and g where f says nothing. *)
Over(f, g) == [x \in DOMAIN f \cup DOMAIN g |-> IF x \in DOMAIN f THEN f[x] ELSE g[x]]

EmptyDict == "{}"
Empty == <<>>

IsPrefixOf(p, q) == Len(p) <= Len(q) /\ \A i \in 1..Len(p) : p[i] = q[i]

Related(p, q) == IsPrefixOf(p, q) \/ IsPrefixOf(q, p)

Under(t, path) == {p \in DOMAIN t : IsPrefixOf(path, p)}

Only(t, paths) == [p \in paths |-> t[p]]

(* Sub-dictionaries are made on the way; a scalar in the way is an error.  *)
Settable(t, path) ==
  \A p \in DOMAIN t : IsPrefixOf(p, path) /\ p # path => t[p] = EmptyDict

_set_in(t, path, v) ==
  Over(At(path, v), Only(t, {p \in DOMAIN t : ~ Related(p, path)}))

(* The dictionary that held the path stays, even when nothing is left.     *)
_unset_in(t, path) ==
  LET rest == DOMAIN t \ Under(t, path)
      parent == SubSeq(path, 1, Len(path) - 1)
      bare == Under(t, path) # {} /\ Len(path) > 1 /\ \A p \in rest : ~ IsPrefixOf(parent, p)
  IN  IF bare THEN Over(At(parent, EmptyDict), Only(t, rest)) ELSE Only(t, rest)

(* An empty dictionary of the overlay is merged into one of the base that  *)
(* holds something; any other leaf of the overlay wins.                    *)
Absorbed(base, overlay, q) ==
  overlay[q] = EmptyDict /\ \E p \in DOMAIN base : IsPrefixOf(q, p) /\ p # q

Overlaid(base, overlay) == {q \in DOMAIN overlay : ~ Absorbed(base, overlay, q)}

(* Faulty variant: a dictionary of the overlay replaces the one below it.  *)
_shallow_merge(base, overlay) ==
  Over(Only(overlay, Overlaid(base, overlay)),
       Only(base, {p \in DOMAIN base : \A q \in DOMAIN overlay : q[1] # p[1]}))

(* A leaf of the base stays where the overlay has at most such a           *)
(* dictionary around it.                                                   *)
_deep_merge(base, overlay) ==
  Over(Only(overlay, Overlaid(base, overlay)),
       Only(base, {p \in DOMAIN base :
                     \A q \in DOMAIN overlay :
                       Related(p, q) => overlay[q] = EmptyDict /\ IsPrefixOf(q, p) /\ q # p}))

(* The server's deepMerge is the same rule, written in TypeScript. *)
deepMerge(base, overlay) == _deep_merge(base, overlay)

-----------------------------------------------------------------------------
ReadOnly == <<"readOnly">>
RecallTopK == <<"semanticRecall", "topK">>
RecallScope == <<"semanticRecall", "scope">>
Markers == <<"observationalMemory", "temporalMarkers">>
Budget == <<"observationalMemory", "shareTokenBudget">>
Buffer == <<"observationalMemory", "observation", "bufferTokens">>
ObserverModel == <<"observationalMemory", "observation", "model">>
ReflectorModel == <<"observationalMemory", "reflection", "model">>

SEMANTIC_RECALL_DEFAULTS ==
  [p \in {RecallTopK, RecallScope} |-> IF p = RecallTopK THEN "5" ELSE "resource"]

observation(bufferTokens) == At(Buffer, bufferTokens)

ObservationalMemory(temporal, share) ==
  [p \in {Markers, Budget} |-> IF p = Budget THEN share ELSE temporal]

CommonOptions(temporal, share) ==
  Over(At(ReadOnly, "false"),
       Over(SEMANTIC_RECALL_DEFAULTS, ObservationalMemory(temporal, share)))

DEFAULTS == Over(CommonOptions("true", "false"), observation("0.2"))

(* resolve_options(): the defaults, on them the two legacy keys (of which  *)
(* one that is not in the file has the default), on those the user's own.  *)
resolve_options(temporal, share, user) ==
  _deep_merge(_set_in(_set_in(DEFAULTS, Markers, temporal), Budget, share), user)

(* The server's own defaults know the models, the markers and the budget   *)
(* from its environment.                                                   *)
observationOptions(observer, share) ==
  Over(At(ObserverModel, observer), observation(IF share = "true" THEN "false" ELSE "0.2"))

baseOptions(env) ==
  Over(CommonOptions(env.temporal, env.share),
       Over(observationOptions(env.observer, env.share), At(ReflectorModel, env.reflector)))

buildMemoryOptions(env, payload) == deepMerge(baseOptions(env), payload)
=============================================================================
