-------------------------- MODULE HermesHostProofs --------------------------
(***************************************************************************)
(* Proofs about HermesHost, for any number of callers and calls, and any   *)
(* settings, options, entries and observations.                            *)
(***************************************************************************)
EXTENDS HermesHost, WellFoundedInduction, TLAPS

(* The steps of the calls, by the component that takes them. *)
SaveSteps == {"existing", "truncate", "fill"}
EngineSteps == {"adjust"}
ObserverSteps == {"look", "claim", "write"}
NotesSteps == {"notes", "notes2"}
LaunchSteps == {"reload", "ensure", "spawn", "health", "setup", "spawn for setup", "rules"}

Steps ==
  {"idle"} \cup SaveSteps \cup EngineSteps \cup ObserverSteps \cup NotesSteps \cup LaunchSteps

PcType == pc \in [Callers -> Steps]

(* One caller goes on, within the steps of a component. *)
Moves(c, steps) ==
  /\ pc[c] \in steps
  /\ \E next \in steps : pc' = [pc EXCEPT ![c] = next]

(* The calls that bring the provider and its server up and down. *)
Launch(c) ==
  \/ do_initialize(c) \/ _bring_up_server(c) \/ post_setup(c) \/ StartServer(c)
  \/ EnsureRunning(c) \/ SpawnServer(c) \/ Health(c) \/ Shutdown(c)

LEMMA NextParts ==
  ASSUME Next
  PROVE  \E c \in Callers :
           Configure(c) \/ AdjustRecall(c) \/ ObserveTools(c) \/ KeepRule(c) \/ Launch(c)
  BY DEF Next, Launch

LEMMA BeginMoves ==
  ASSUME NEW c \in Callers, NEW next, Begin(c, next), NEW steps, "idle" \in steps, next \in steps
  PROVE  Moves(c, steps)
  BY DEF Begin, Moves

LEMMA GotoMoves ==
  ASSUME NEW c \in Callers, NEW next, Goto(c, next), NEW steps, pc[c] \in steps, next \in steps
  PROVE  Moves(c, steps)
  BY DEF Goto, Moves

LEMMA ConfigureMoves ==
  ASSUME NEW c \in Callers, Configure(c)
  PROVE  Moves(c, {"idle"} \cup SaveSteps) /\ UNCHANGED <<engineVars, observerVars, notesVars>>
<1>1. UNCHANGED <<engineVars, observerVars, notesVars>>
  BY DEF Configure
<1>2. CASE HomeCall(c)
  <2>1. Begin(c, "existing")
    BY <1>2 DEF HomeCall, save_config, set_model, apply_preset, set_option, unset_option,
                reset_options, SaveOptions, BeginSaves
  <2> QED BY <1>1, <2>1, BeginMoves DEF SaveSteps
<1>3. CASE SaveStep(c)
  <2>1. pc[c] \in SaveSteps /\ \E next \in {"idle"} \cup SaveSteps : Goto(c, next)
    BY <1>3 DEF SaveStep, ReadExisting, SaveFails, Truncate, safe_save_config, NextSave, SaveSteps
  <2> QED BY <1>1, <2>1, GotoMoves
<1> QED BY <1>2, <1>3 DEF Configure

LEMMA AdjustMoves ==
  ASSUME NEW c \in Callers, AdjustRecall(c)
  PROVE  Moves(c, {"idle"} \cup EngineSteps) /\ UNCHANGED <<homeVars, observerVars, notesVars>>
<1>1. UNCHANGED <<homeVars, observerVars, notesVars>>
  BY DEF AdjustRecall
<1>2. CASE update_from_response(c)
  BY <1>1, <1>2, BeginMoves DEF update_from_response, Once, EngineSteps
<1>3. CASE _maybe_adjust_top_k(c)
  BY <1>1, <1>3, GotoMoves DEF _maybe_adjust_top_k, EngineSteps
<1>4. CASE on_session_reset(c)
  BY <1>1, <1>4, BeginMoves DEF on_session_reset, Once, EngineSteps
<1> QED BY <1>2, <1>3, <1>4 DEF AdjustRecall

LEMMA ObserveMoves ==
  ASSUME NEW c \in Callers, ObserveTools(c)
  PROVE  Moves(c, {"idle"} \cup ObserverSteps) /\ UNCHANGED <<homeVars, engineVars, notesVars>>
<1>1. UNCHANGED <<homeVars, engineVars, notesVars>>
  BY DEF ObserveTools
<1>2. CASE _make_post_tool_call(c) \/ Feature(c) \/ SwitchSession(c)
  <2>1. \E next \in {"idle"} \cup ObserverSteps : Begin(c, next)
    BY <1>2 DEF _make_post_tool_call, _POST_TOOL_HANDLERS, Feature, SwitchSession, Observe, do_execute_code,
         do_todo_snapshot, do_kanban_event, do_goal_event, do_memory_snapshot,
         do_personality_changed, do_batch, Emit, Once, ObserverSteps
  <2> QED BY <1>1, <2>1, BeginMoves
<1>3. CASE LookUp(c) \/ Claim(c) \/ Write(c)
  <2>1. pc[c] \in ObserverSteps /\ \E next \in {"idle"} \cup ObserverSteps : Goto(c, next)
    BY <1>3 DEF LookUp, Claim, Write, ObserverSteps
  <2> QED BY <1>1, <2>1, GotoMoves
<1> QED BY <1>2, <1>3 DEF ObserveTools, ObserverStep

LEMMA KeepMoves ==
  ASSUME NEW c \in Callers, KeepRule(c)
  PROVE  Moves(c, {"idle", "rules"} \cup NotesSteps) /\ UNCHANGED <<homeVars, engineVars, observerVars>>
<1>1. UNCHANGED <<homeVars, engineVars, observerVars>>
  BY DEF KeepRule
<1>2. AfterRead(TRUE) \in NotesSteps /\ AfterRead(FALSE) = "idle"
  BY DEF AfterRead, NotesSteps
<1>3. CASE install_memory_rules(c)
  <2>1. AfterRead(~ _has_anchor) \in {"idle"} \cup NotesSteps
    BY DEF AfterRead, NotesSteps
  <2> QED BY <1>1, <1>3, <2>1, BeginMoves, GotoMoves DEF install_memory_rules
<1>4. CASE uninstall_memory_rules(c)
  <2>1. AfterRead(_has_anchor) \in {"idle"} \cup NotesSteps
    BY DEF AfterRead, NotesSteps
  <2> QED BY <1>1, <1>4, <2>1, BeginMoves DEF uninstall_memory_rules
<1>5. CASE Remember(c)
  BY <1>1, <1>5, BeginMoves DEF Remember, Once
<1>6. CASE TruncateNotes(c) \/ FillNotes(c) \/ WriteNotesFails(c)
  BY <1>1, <1>6, GotoMoves DEF TruncateNotes, FillNotes, WriteNotesFails, Rewriting, NotesSteps
<1> QED BY <1>3, <1>4, <1>5, <1>6 DEF KeepRule, NotesStep

LEMMA LaunchMoves ==
  ASSUME NEW c \in Callers, Launch(c)
  PROVE  Moves(c, {"idle"} \cup LaunchSteps) /\ UNCHANGED notesVars
<1>1. CASE do_initialize(c) \/ post_setup(c) \/ Shutdown(c)
  <2>1. \E next \in {"idle"} \cup LaunchSteps : Begin(c, next)
    BY <1>1 DEF do_initialize, post_setup, Shutdown, Once, LaunchSteps
  <2>2. UNCHANGED notesVars
    BY <1>1 DEF do_initialize, post_setup, Shutdown
  <2> QED BY <2>1, <2>2, BeginMoves
<1>2. CASE \/ _bring_up_server(c) \/ StartServer(c) \/ EnsureRunning(c)
           \/ SpawnServer(c) \/ Health(c)
  <2>1. pc[c] \in LaunchSteps /\ \E next \in {"idle"} \cup LaunchSteps : Goto(c, next)
    BY <1>2 DEF _bring_up_server, StartServer, EnsureRunning, SpawnServer, Health, LaunchSteps
  <2>2. UNCHANGED notesVars
    BY <1>2 DEF _bring_up_server, StartServer, EnsureRunning, SpawnServer, Health
  <2> QED BY <2>1, <2>2, GotoMoves
<1> QED BY <1>1, <1>2 DEF Launch

(* A move within steps that a component does not know leaves everybody     *)
(* where the component sees them.                                          *)
LEMMA MovesApart ==
  ASSUME PcType, NEW c \in Callers, NEW steps, steps \subseteq Steps, Moves(c, steps)
  PROVE  /\ PcType'
         /\ \A x \in Callers : x # c => pc'[x] = pc[x]
         /\ pc[c] \in steps /\ pc'[c] \in steps
         /\ \A x \in Callers, s \in Steps : s \notin steps => (pc'[x] = s <=> pc[x] = s)
  BY DEF PcType, Moves

LEMMA PcKept == PcType /\ [Next]_vars => PcType'
<1> SUFFICES ASSUME PcType, [Next]_vars PROVE PcType'
  OBVIOUS
<1>1. CASE UNCHANGED vars
  BY <1>1 DEF PcType, vars, callVars
<1>2. CASE Next
  <2>1. PICK c \in Callers :
          Configure(c) \/ AdjustRecall(c) \/ ObserveTools(c) \/ KeepRule(c) \/ Launch(c)
    BY <1>2, NextParts
  <2>2. \E next \in Steps : pc' = [pc EXCEPT ![c] = next]
    <3>1. CASE Configure(c)
      BY <3>1, ConfigureMoves DEF Moves, Steps
    <3>2. CASE AdjustRecall(c)
      BY <3>2, AdjustMoves DEF Moves, Steps
    <3>3. CASE ObserveTools(c)
      BY <3>3, ObserveMoves DEF Moves, Steps
    <3>4. CASE KeepRule(c)
      BY <3>4, KeepMoves DEF Moves, Steps, LaunchSteps
    <3>5. CASE Launch(c)
      BY <3>5, LaunchMoves DEF Moves, Steps
    <3> QED BY <2>1, <3>1, <3>2, <3>3, <3>4, <3>5
  <2> QED BY <2>2 DEF PcType
<1> QED BY <1>1, <1>2

-----------------------------------------------------------------------------
(* MEMORY.md.  As long as nobody has come between the reading and the      *)
(* writing of another, one caller at most rewrites the file, and what it   *)
(* is about to write is what NotesKept asks of the file; until it          *)
(* truncates the file, the file has the entries too, should it fail.       *)
RuleAs(entries, left) ==
  /\ left = "in" => entries \cap Anchored # {}
  /\ left = "out" => Rule \notin entries

Kept(entries) == owed \ Quoting \subseteq entries /\ RuleAs(entries, rule)

NotesInv ==
  /\ copy = [c \in Callers |-> copy[c]]
  /\ owed \subseteq Entries
  /\ ~ mixed =>
       /\ \A c, d \in Callers : Rewriting(c) /\ Rewriting(d) => c = d
       /\ \A c \in Callers : Rewriting(c) => Kept(copy[c])
       /\ \A c \in Callers : pc[c] = "notes" => owed \ Quoting \subseteq notes
       /\ NobodyRewrites => Kept(notes)

LEMMA NotesStart == Init => NotesInv
  BY DEF Init, CallsInit, NotesInit, NotesInv, Rewriting, NobodyRewrites, Kept, RuleAs

(* The steps of the other components. *)
LEMMA NotesFrame ==
  ASSUME PcType, NotesInv, NEW c \in Callers, NEW steps, steps \subseteq Steps,
         steps \cap NotesSteps = {}, Moves(c, steps), UNCHANGED notesVars
  PROVE  NotesInv'
<1>1. \A x \in Callers : (Rewriting(x)' <=> Rewriting(x)) /\ (pc'[x] = "notes" <=> pc[x] = "notes")
  BY MovesApart DEF Rewriting, NotesSteps, Steps
<1>2. NobodyRewrites' <=> NobodyRewrites
  BY <1>1 DEF NobodyRewrites
<1> QED BY <1>1, <1>2 DEF NotesInv, notesVars, Kept, RuleAs

(* A rewrite begins: with a copy that is as it should be, or with a file   *)
(* that need not change.                                                   *)
LEMMA RewriteKeeps ==
  ASSUME PcType, NotesInv, NEW c \in Callers, pc[c] \in {"idle", "rules"},
         NEW changes \in BOOLEAN, NEW entries, NEW leaves,
         Rewrite(c, changes, entries, leaves),
         pc' = [pc EXCEPT ![c] = AfterRead(changes)],
         Kept(notes) => LET wrote == IF changes THEN entries ELSE notes IN
                        owed \ Quoting \subseteq wrote /\ RuleAs(wrote, leaves)
  PROVE  NotesInv'
<1>1. ~ mixed' => ~ mixed /\ NobodyRewrites
  BY DEF Rewrite
<1>2. \A x \in Callers : x # c => (Rewriting(x)' <=> Rewriting(x))
  BY DEF PcType, Rewriting
<1>3. Rewriting(c)' <=> changes
  BY DEF PcType, Rewriting, AfterRead
<1>4. copy' = [x \in Callers |-> copy'[x]] /\ (changes => copy'[c] = entries)
  BY DEF Rewrite, NotesInv
<1>5. ASSUME ~ mixed' PROVE NobodyRewrites' <=> ~ changes
  BY <1>1, <1>2, <1>3, <1>5 DEF NobodyRewrites
<1>6. ASSUME ~ mixed' PROVE Kept(notes)
  BY <1>1, <1>6 DEF NotesInv
<1>7. notes' = notes /\ owed' = owed /\ rule' = leaves
  BY DEF Rewrite
<1>8. ASSUME ~ mixed', changes PROVE Kept(copy[c])'
  BY <1>4, <1>6, <1>7, <1>8 DEF Kept, RuleAs
<1>9. ASSUME ~ mixed', ~ changes PROVE Kept(notes)'
  BY <1>6, <1>7, <1>9 DEF Kept, RuleAs
<1>10. ASSUME ~ mixed' PROVE \A x \in Callers : Rewriting(x)' => x = c /\ changes
  BY <1>1, <1>2, <1>3, <1>10 DEF NobodyRewrites
<1>11. ASSUME ~ mixed'
       PROVE  /\ \A x, y \in Callers : Rewriting(x)' /\ Rewriting(y)' => x = y
              /\ \A x \in Callers : Rewriting(x)' => Kept(copy[x])'
              /\ \A x \in Callers : pc'[x] = "notes" => owed' \ Quoting \subseteq notes'
              /\ NobodyRewrites' => Kept(notes)'
  <2>1. owed' \ Quoting \subseteq notes'
    BY <1>6, <1>7, <1>11 DEF Kept
  <2> QED BY <1>5, <1>8, <1>9, <1>10, <1>11, <2>1
<1> QED BY <1>4, <1>7, <1>11 DEF NotesInv

LEMMA KeepRuleKeeps ==
  ASSUME PcType, NotesInv, NEW c \in Callers, KeepRule(c)
  PROVE  NotesInv'
<1>1. CASE install_memory_rules(c)
  <2>1. pc[c] \in {"idle", "rules"} /\ pc' = [pc EXCEPT ![c] = AfterRead(~ _has_anchor)]
    BY <1>1 DEF install_memory_rules, Begin, Goto
  <2>2. (notes \cup {Rule}) \cap Anchored # {}
    BY DEF Anchored
  <2>3. Kept(notes) => LET wrote == IF ~ _has_anchor THEN notes \cup {Rule} ELSE notes IN
                       owed \ Quoting \subseteq wrote /\ RuleAs(wrote, "in")
    BY <2>2 DEF Kept, RuleAs, _has_anchor
  <2>4. Rewrite(c, ~ _has_anchor, notes \cup {Rule}, "in") /\ (~ _has_anchor) \in BOOLEAN
    BY <1>1 DEF install_memory_rules, _has_anchor
  <2> QED BY <2>1, <2>3, <2>4, RewriteKeeps
<1>2. CASE uninstall_memory_rules(c)
  <2>1. pc[c] \in {"idle", "rules"} /\ pc' = [pc EXCEPT ![c] = AfterRead(_has_anchor)]
    BY <1>2 DEF uninstall_memory_rules, Begin
  <2>2. Rule \notin owed
    BY NotesAssumption DEF NotesInv
  <2>3. Kept(notes) => LET wrote == IF _has_anchor THEN notes \ Anchored ELSE notes IN
                       owed \ Quoting \subseteq wrote /\ RuleAs(wrote, "out")
    BY <2>2 DEF Kept, RuleAs, _has_anchor, Anchored
  <2>4. Rewrite(c, _has_anchor, notes \ Anchored, "out") /\ _has_anchor \in BOOLEAN
    BY <1>2 DEF uninstall_memory_rules, _has_anchor
  <2> QED BY <2>1, <2>3, <2>4, RewriteKeeps
<1>3. CASE Remember(c)
  <2>1. PICK e \in Entries :
          /\ Once(c)
          /\ notes' = notes \cup {e}
          /\ owed' = owed \cup {e}
          /\ mixed' = (mixed \/ ~ NobodyRewrites)
          /\ UNCHANGED <<copy, rule>>
    BY <1>3 DEF Remember
  <2>2. pc' = [pc EXCEPT ![c] = "idle"] /\ pc[c] = "idle"
    BY <2>1 DEF Once, Begin
  <2>3. \A x \in Callers : Rewriting(x)' <=> Rewriting(x)
    BY <2>2 DEF PcType, Rewriting
  <2>4. Kept(notes) => Kept(notes)'
    BY <2>1, NotesAssumption DEF Kept, RuleAs
  <2>5. ~ mixed' => NobodyRewrites /\ NobodyRewrites'
    BY <2>1, <2>3 DEF NobodyRewrites
  <2>6. ~ mixed' => \A x \in Callers : pc'[x] # "notes"
    BY <2>3, <2>5 DEF NobodyRewrites, Rewriting
  <2> QED BY <2>1, <2>3, <2>4, <2>5, <2>6 DEF NotesInv, NobodyRewrites
<1>4. CASE TruncateNotes(c)
  <2>1. \A x \in Callers : Rewriting(x)' <=> Rewriting(x)
    BY <1>4 DEF TruncateNotes, Goto, PcType, Rewriting
  <2>2. ~ NobodyRewrites'
    BY <1>4, <2>1 DEF NobodyRewrites, TruncateNotes, Rewriting
  <2>3. ~ mixed => \A x \in Callers : pc'[x] # "notes"
    BY <1>4, <2>1 DEF NotesInv, TruncateNotes, Goto, PcType, Rewriting
  <2> QED BY <1>4, <2>1, <2>2, <2>3 DEF NotesInv, TruncateNotes, Kept, RuleAs
<1>5. CASE FillNotes(c)
  <2>1. \A x \in Callers : Rewriting(x)' <=> Rewriting(x) /\ x # c
    BY <1>5 DEF FillNotes, Goto, PcType, Rewriting
  <2>2. Rewriting(c)
    BY <1>5 DEF FillNotes, Rewriting
  <2>3. ~ mixed => \A x \in Callers : ~ Rewriting(x)'
    BY <2>1, <2>2 DEF NotesInv
  <2>4. ~ mixed => Kept(notes)'
    BY <1>5, <2>2 DEF NotesInv, FillNotes, Kept, RuleAs
  <2>5. /\ copy' = [x \in Callers |-> copy'[x]]
        /\ owed' = owed /\ mixed' = mixed
    BY <1>5 DEF FillNotes, NotesInv
  <2>6. ~ mixed => \A x \in Callers : pc'[x] # "notes"
    BY <2>3 DEF Rewriting
  <2> QED BY <2>3, <2>4, <2>5, <2>6 DEF NotesInv
<1>6. CASE WriteNotesFails(c)
  <2>1. \A x \in Callers : Rewriting(x)' <=> Rewriting(x) /\ x # c
    BY <1>6 DEF WriteNotesFails, Goto, PcType, Rewriting
  <2>2. /\ Rewriting(c) /\ rule' = "unwritten" /\ mixed' = mixed
        /\ copy' = [x \in Callers |-> copy'[x]]
        /\ owed' \subseteq owed
    BY <1>6 DEF WriteNotesFails, NotesInv
  <2>3. ~ mixed => \A x \in Callers : ~ Rewriting(x)'
    BY <2>1, <2>2 DEF NotesInv
  <2>4. ~ mixed => owed' \ Quoting \subseteq notes'
    BY <1>6 DEF WriteNotesFails, NotesInv
  <2>5. ~ mixed => Kept(notes)'
    BY <2>2, <2>4 DEF Kept, RuleAs
  <2>6. ~ mixed => \A x \in Callers : pc'[x] # "notes"
    BY <2>3 DEF Rewriting
  <2> QED BY <2>2, <2>3, <2>5, <2>6 DEF NotesInv
<1> QED BY <1>1, <1>2, <1>3, <1>4, <1>5, <1>6 DEF KeepRule, NotesStep

LEMMA NotesStepKeeps == PcType /\ NotesInv /\ [Next]_vars => NotesInv'
<1> SUFFICES ASSUME PcType, NotesInv, [Next]_vars PROVE NotesInv'
  OBVIOUS
<1>1. CASE UNCHANGED vars
  BY <1>1 DEF NotesInv, vars, callVars, notesVars, Rewriting, NobodyRewrites, Kept, RuleAs
<1>2. CASE Next
  <2>1. PICK c \in Callers :
          Configure(c) \/ AdjustRecall(c) \/ ObserveTools(c) \/ KeepRule(c) \/ Launch(c)
    BY <1>2, NextParts
  <2>2. CASE KeepRule(c)
    BY <2>2, KeepRuleKeeps
  <2>3. CASE ~ KeepRule(c)
    <3>1. \E steps \in {{"idle"} \cup SaveSteps, {"idle"} \cup EngineSteps,
                        {"idle"} \cup ObserverSteps, {"idle"} \cup LaunchSteps} : Moves(c, steps)
      BY <2>1, <2>3, ConfigureMoves, AdjustMoves, ObserveMoves, LaunchMoves
    <3>2. UNCHANGED notesVars
      BY <2>1, <2>3, ConfigureMoves, AdjustMoves, ObserveMoves, LaunchMoves
    <3>3. \A steps \in {{"idle"} \cup SaveSteps, {"idle"} \cup EngineSteps,
                        {"idle"} \cup ObserverSteps, {"idle"} \cup LaunchSteps} :
            steps \subseteq Steps /\ steps \cap NotesSteps = {}
      BY DEF Steps, SaveSteps, EngineSteps, ObserverSteps, LaunchSteps, NotesSteps
    <3> QED BY <3>1, <3>2, <3>3, NotesFrame
  <2> QED BY <2>2, <2>3
<1> QED BY <1>1, <1>2

LEMMA PcStart == Init => PcType
  BY DEF Init, CallsInit, PcType, Steps

LEMMA NotesInvariant == Spec => [](PcType /\ NotesInv)
<1>1. Init => PcType /\ NotesInv
  BY PcStart, NotesStart
<1>2. (PcType /\ NotesInv) /\ [Next]_vars => (PcType /\ NotesInv)'
  BY PcKept, NotesStepKeeps
<1> QED BY <1>1, <1>2, PTL DEF Spec

(* However many callers install, uninstall and remember, undisturbed       *)
(* rewrites, and those that fail before they truncate the file, lose no    *)
(* entry of the agent's, and the last that was written left the rule as it *)
(* meant to.  A write that fails half-way loses what NotesKept says it     *)
(* may: what it had not written again.                                     *)
THEOREM RuleKeepsNotes == Spec => []NotesKept
<1>1. NotesInv => NotesKept
  BY DEF NotesInv, NotesKept, Kept, RuleAs, _has_anchor
<1> QED BY <1>1, NotesInvariant, PTL

-----------------------------------------------------------------------------
(* The recall boost.  Only the engine adjusts, `current` is a number only  *)
(* while it does, and undisturbed it is the number the configuration       *)
(* brought, and so is the baseline.                                        *)
Undisturbed ==
  /\ IF recall_boost_active THEN baseline = loaded ELSE topK = loaded
  /\ pc[Engine] = "adjust" /\ ~ recall_boost_active => current = topK

BoostInv ==
  /\ \A c \in Callers : pc[c] = "adjust" => c = Engine
  /\ topK \in Nat /\ loaded \in Nat
  /\ baseline \in Nat \cup {NoTopK}
  /\ IF pc[Engine] = "adjust" THEN current \in Nat ELSE current = NoTopK
  /\ ~ disturbed => Undisturbed

(* What is in the file, and what callers have read and are to save, gives  *)
(* a number for recall_top_k, or what int() refuses; and its options are   *)
(* at paths.                                                               *)
Sound(content) ==
  /\ TopK(content) \in Nat \cup {BadTopK}
  /\ DOMAIN UserOptions(content) \subseteq Paths

(* One save, or two, as long as a caller saves.                            *)
Saves(c) ==
  \/ job[c].saves = <<job[c].saves[1]>>
  \/ job[c].saves = <<job[c].saves[1], job[c].saves[2]>>

JobInv ==
  /\ job = [c \in Callers |-> job[c]]
  /\ Sound(Parsed)
  /\ \A c \in Callers :
       /\ job[c] = [saves |-> job[c].saves, seen |-> job[c].seen]
       /\ Sound(job[c].seen)
       /\ Saving(c) => Saves(c) /\ \A i \in 1..Len(job[c].saves) : Sound(job[c].saves[i])

(* Undisturbed by others, a caller saves alone; and once its saves are     *)
(* done, the file says what was asked for.                                 *)
After(saves, content) ==
  IF Len(saves) = 1 THEN Over(saves[1], content) ELSE Over(saves[2], Over(saves[1], content))

SaveInv ==
  clean =>
    /\ \A c, d \in Callers : Saving(c) /\ Saving(d) => c = d
    /\ NobodySaves => Intent(Parsed) = intended
    /\ \A c \in Callers :
         /\ pc[c] = "existing" => Intent(After(job[c].saves, Parsed)) = intended
         /\ pc[c] \in {"truncate", "fill"} => Intent(After(job[c].saves, job[c].seen)) = intended
         /\ pc[c] = "fill" => file = Torn

-----------------------------------------------------------------------------
(* The observers that remember.  As long as no two calls of a kind have    *)
(* overlapped, a call works on the set that is, or will be, the            *)
(* provider's, which holds every key that was or is to be written.         *)
Own(c, k) == call[c].kind = k

Remembers(k) ==
  /\ \A c, d \in Callers : Deduping(c) /\ Own(c, k) /\ Deduping(d) /\ Own(d, k) => c = d
  /\ \A c \in Callers : Deduping(c) /\ Own(c, k) =>
       call[c].maker = IF made[k] = NoOne THEN c ELSE made[k]
  /\ \A c \in Callers : pc[c] = "claim" /\ Own(c, k) =>
       call[c].key \notin sets[k][call[c].maker]
  /\ \A c \in Callers : pc[c] = "write" /\ Own(c, k) =>
       made[k] # NoOne /\ call[c].key \in sets[k][made[k]]
  /\ \A c, d \in Callers :
       pc[c] = "write" /\ Own(c, k) /\ pc[d] = "write" /\ Own(d, k) /\ call[c].key = call[d].key
         => c = d
  /\ \A v \in written : v.kind = k =>
       /\ made[k] # NoOne /\ v.key \in sets[k][made[k]]
       /\ \A c \in Callers : pc[c] = "write" /\ Own(c, k) => call[c].key # v.key
  /\ \A v, w \in written : v.kind = k /\ w.kind = k /\ v.key = w.key => v = w

RememberInv == \A k \in Kinds \ doubled : Remembers(k)

CallInv ==
  /\ call = [c \in Callers |-> call[c]]
  /\ \A c \in Callers : pc[c] \in ObserverSteps =>
       call[c].kind \in Kinds /\ call[c].maker \in Callers
  /\ made \in [Kinds -> Callers \cup {NoOne}]
  /\ \A k \in Kinds : sets[k] = [c \in Callers |-> sets[k][c]]
  /\ sets = [k \in Kinds |-> sets[k]]

-----------------------------------------------------------------------------
(* What the file says.                                                     *)
LEMMA GetOver ==
  ASSUME NEW f, NEW g, NEW key, NEW default
  PROVE  Get(Over(f, g), key, default) = Get(f, key, Get(g, key, default))
  BY DEF Get, Over

LEMMA GetAt ==
  ASSUME NEW k, NEW v, NEW key, NEW default
  PROVE  Get(At(k, v), key, default) = IF key = k THEN v ELSE default
  BY DEF Get, At

LEMMA OverSound ==
  ASSUME NEW f, NEW g, Sound(f), Sound(g)
  PROVE  Sound(Over(f, g))
<1>1. TopK(Over(f, g)) \in {TopK(f), TopK(g)}
  BY DEF TopK, Get, Over
<1>2. UserOptions(Over(f, g)) \in {UserOptions(f), UserOptions(g)}
  BY DEF UserOptions, Get, Over
<1> QED BY <1>1, <1>2 DEF Sound

LEMMA PlainSound ==
  ASSUME NEW f, "mastra" \notin DOMAIN f, TopK(f) \in Nat \cup {BadTopK}
  PROVE  Sound(f)
  BY DEF Sound, UserOptions, Get, Empty

LEMMA NothingSound == Sound(<<>>)
  BY PlainSound DEF TopK, Get

LEMMA TreeSound ==
  ASSUME NEW t, DOMAIN t \subseteq Paths
  PROVE  Sound(At("mastra", t))
<1>1. TopK(At("mastra", t)) = 4 /\ UserOptions(At("mastra", t)) = t
  BY DEF TopK, UserOptions, Get, At
<1> QED BY <1>1 DEF Sound

(* A save that does not name the options, and one that names them alone.   *)
LEMMA IntentOfKeys ==
  ASSUME NEW f, NEW content, "mastra" \notin DOMAIN f
  PROVE  Intent(Over(f, content)) =
           [keys |-> Over(f, Intent(content).keys), leaves |-> Intent(content).leaves]
<1>1. UserOptions(Over(f, content)) = UserOptions(content)
  BY DEF UserOptions, Get, Over
<1>2. OtherKeys(Over(f, content)) = Over(f, OtherKeys(content))
  BY DEF OtherKeys, Over
<1> QED BY <1>1, <1>2 DEF Intent

LEMMA IntentOfTree ==
  ASSUME NEW t, NEW content
  PROVE  Intent(Over(At("mastra", t), content)) =
           [keys |-> Intent(content).keys, leaves |-> Leaves(t)]
<1>1. UserOptions(Over(At("mastra", t), content)) = t
  BY DEF UserOptions, Get, Over, At
<1>2. OtherKeys(Over(At("mastra", t), content)) = OtherKeys(content)
  BY DEF OtherKeys, Over, At
<1> QED BY <1>1, <1>2 DEF Intent

LEMMA OverOver ==
  ASSUME NEW f, NEW g, NEW h
  PROVE  Over(f, Over(g, h)) = Over(Over(f, g), h)
  BY DEF Over

-----------------------------------------------------------------------------
(* The trees of options.                                                   *)
LEMMA PrefixOrder ==
  ASSUME NEW p \in Paths, NEW q \in Paths, NEW r \in Paths
  PROVE  /\ IsPrefixOf(p, p)
         /\ IsPrefixOf(p, q) /\ IsPrefixOf(q, p) => p = q
         /\ IsPrefixOf(p, q) /\ IsPrefixOf(q, r) => IsPrefixOf(p, r)
  BY DEF IsPrefixOf, Paths

(* set_option() leaves the leaves that have nothing to do with its path.   *)
LEMMA SetLeaves ==
  ASSUME NEW t, NEW path \in Paths, NEW v, v # EmptyDict
  PROVE  Leaves(_set_in(t, path, v)) =
           {e \in Leaves(t) : ~ Related(e[1], path)} \cup {<<path, v>>}
<1> DEFINE new == _set_in(t, path, v)
<1>1. /\ DOMAIN new = {p \in DOMAIN t : ~ Related(p, path)} \cup {path}
      /\ new[path] = v
      /\ \A p \in DOMAIN t : ~ Related(p, path) /\ p # path => new[p] = t[p]
  BY DEF _set_in, Over, At, Only
<1>2. Related(path, path)
  BY PrefixOrder DEF Related
<1> HIDE DEF new
<1>3. Leaves(new) = {<<p, new[p]>> : p \in {q \in DOMAIN new : new[q] # EmptyDict}}
  BY DEF Leaves
<1>4. ASSUME NEW e \in Leaves(new)
      PROVE  e \in {d \in Leaves(t) : ~ Related(d[1], path)} \cup {<<path, v>>}
  BY <1>1, <1>3, <1>4 DEF Leaves
<1>5. ASSUME NEW e \in Leaves(t), ~ Related(e[1], path) PROVE e \in Leaves(new)
  <2>1. PICK p \in DOMAIN t : t[p] # EmptyDict /\ e = <<p, t[p]>>
    BY DEF Leaves
  <2> QED BY <1>1, <1>2, <1>3, <1>5, <2>1
<1>6. <<path, v>> \in Leaves(new)
  BY <1>1, <1>3
<1> QED BY <1>4, <1>5, <1>6 DEF new

(* unset_option() takes away the leaves at its path and below.             *)
LEMMA UnsetLeaves ==
  ASSUME NEW t, NEW path \in Paths
  PROVE  Leaves(_unset_in(t, path)) = {e \in Leaves(t) : ~ IsPrefixOf(path, e[1])}
<1> DEFINE new == _unset_in(t, path)
           rest == DOMAIN t \ Under(t, path)
           parent == SubSeq(path, 1, Len(path) - 1)
<1>1. rest = {p \in DOMAIN t : ~ IsPrefixOf(path, p)}
  BY DEF Under
<1>2. CASE new = Only(t, rest)
  BY <1>1, <1>2 DEF Only, Leaves
<1>3. CASE new # Only(t, rest)
  <2>1. new = Over(At(parent, EmptyDict), Only(t, rest)) /\ Len(path) > 1
        /\ \A p \in rest : ~ IsPrefixOf(parent, p)
    BY <1>3 DEF _unset_in
  <2>2. parent \in Paths
    BY <2>1 DEF Paths
  <2>3. parent \notin rest
    BY <2>1, <2>2, PrefixOrder
  <2>4. /\ DOMAIN new = rest \cup {parent}
        /\ new[parent] = EmptyDict
        /\ \A p \in rest : new[p] = t[p]
    BY <2>1, <2>3 DEF Over, At, Only
  <2> HIDE DEF new, parent
  <2>5. Leaves(new) = {<<p, t[p]>> : p \in {q \in rest : t[q] # EmptyDict}}
    BY <2>4 DEF Leaves
  <2> QED BY <1>1, <2>5 DEF Leaves, new
<1> QED BY <1>2, <1>3

LEMMA SetPaths ==
  ASSUME NEW t, DOMAIN t \subseteq Paths, NEW path \in Paths, NEW v
  PROVE  DOMAIN _set_in(t, path, v) \subseteq Paths
  BY DEF _set_in, Over, At, Only

LEMMA UnsetPaths ==
  ASSUME NEW t, DOMAIN t \subseteq Paths, NEW path \in Paths
  PROVE  DOMAIN _unset_in(t, path) \subseteq Paths
<1> DEFINE parent == SubSeq(path, 1, Len(path) - 1)
<1>1. Len(path) > 1 => parent \in Paths
  BY DEF Paths
<1>2. DOMAIN _unset_in(t, path) \subseteq DOMAIN t \cup (IF Len(path) > 1 THEN {parent} ELSE {})
  BY DEF _unset_in, Over, At, Only
<1> QED BY <1>1, <1>2

-----------------------------------------------------------------------------
(* mastra.json.                                                            *)
HomeInv == JobInv /\ SaveInv

LEMMA HomeStart == Init => HomeInv
<1> SUFFICES ASSUME Init PROVE HomeInv
  OBVIOUS
<1>1. \A c \in Callers : pc[c] = "idle" /\ job[c] = NoJob
  BY DEF Init, CallsInit, HomeInit
<1>2. \A c \in Callers : ~ Saving(c)
  BY <1>1 DEF Saving
<1>3. Sound(Parsed)
  <2>1. CASE file = Absent
    BY <2>1, NothingSound DEF Absent, Parsed
  <2>2. CASE \E content \in Homes : file = Json(content)
    BY <2>2, HomeAssumption DEF Json, Parsed, Sound
  <2> QED BY <2>1, <2>2 DEF Init, HomeInit
<1>4. JobInv
  BY <1>1, <1>2, <1>3, NothingSound DEF JobInv, NoJob, Init, HomeInit
<1>5. SaveInv
  BY <1>1, <1>2 DEF SaveInv, Init, HomeInit
<1> QED BY <1>4, <1>5 DEF HomeInv

(* The steps of the other components: a start of the server keeps notes in *)
(* `job`, and of a caller that does not save.                              *)
LEMMA HomeApart ==
  ASSUME PcType, HomeInv, NEW c \in Callers, NEW steps, steps \subseteq Steps,
         steps \cap SaveSteps = {}, Moves(c, steps), UNCHANGED <<file, intended, clean>>,
         job' \in {job, [job EXCEPT ![c].seen = Parsed], [job EXCEPT ![c] = NoJob]}
  PROVE  HomeInv'
<1>1. /\ \A x \in Callers : (Saving(x)' <=> Saving(x)) /\ (Saving(x) => x # c)
      /\ \A x \in Callers : Saving(x) \/ Saving(x)' => pc'[x] = pc[x]
  BY MovesApart DEF Saving, SaveSteps, Steps
<1>2. /\ job' = [x \in Callers |-> job'[x]]
      /\ \A x \in Callers : x # c => job'[x] = job[x]
      /\ job'[c] \in {job[c], [saves |-> job[c].saves, seen |-> Parsed], NoJob}
  BY DEF HomeInv, JobInv
<1>3. Parsed' = Parsed /\ Sound(Parsed)'
  BY DEF Parsed, HomeInv, JobInv
<1>4. job'[c] = [saves |-> job'[c].saves, seen |-> job'[c].seen] /\ Sound(job[c].seen)'
  BY <1>2, <1>3, NothingSound DEF HomeInv, JobInv, NoJob
<1>5. JobInv'
  BY <1>1, <1>2, <1>3, <1>4 DEF HomeInv, JobInv, Saves
<1>6. NobodySaves' <=> NobodySaves
  BY <1>1 DEF NobodySaves
<1>7. \A x \in Callers : pc'[x] \in SaveSteps => pc'[x] = pc[x] /\ job'[x] = job[x]
  BY <1>1, <1>2 DEF Saving, SaveSteps
<1>8. SaveInv'
  BY <1>1, <1>3, <1>6, <1>7 DEF HomeInv, SaveInv, SaveSteps
<1> QED BY <1>5, <1>8 DEF HomeInv

(* A call that saves begins. *)
LEMMA BeginKeeps ==
  ASSUME PcType, HomeInv, NEW c \in Callers, NEW saves, NEW intent, BeginSaves(c, saves, intent),
         saves = <<saves[1]>> \/ saves = <<saves[1], saves[2]>>,
         \A i \in 1..Len(saves) : Sound(saves[i]),
         Intent(Parsed) = intended => Intent(After(saves, Parsed)) = intent
  PROVE  HomeInv'
<1>1. /\ pc[c] = "idle" /\ pc' = [pc EXCEPT ![c] = "existing"]
      /\ job' = [job EXCEPT ![c] = [saves |-> saves, seen |-> <<>>]]
      /\ intended' = intent /\ clean' = (clean /\ NobodySaves) /\ file' = file
  BY DEF BeginSaves, Begin
<1>2. /\ ~ Saving(c) /\ pc'[c] = "existing"
      /\ \A x \in Callers : x # c => pc'[x] = pc[x] /\ job'[x] = job[x]
      /\ \A x \in Callers : x # c => (Saving(x)' <=> Saving(x))
      /\ job' = [x \in Callers |-> job'[x]]
      /\ job'[c] = [saves |-> saves, seen |-> <<>>]
  BY <1>1 DEF PcType, Saving, HomeInv, JobInv
<1>3. Parsed' = Parsed
  BY <1>1 DEF Parsed
<1>4. JobInv'
  BY <1>2, <1>3, NothingSound DEF HomeInv, JobInv, Saves
<1>5. ASSUME clean' PROVE \A x \in Callers : x # c => pc'[x] \notin SaveSteps
  BY <1>1, <1>2, <1>5 DEF NobodySaves, Saving, SaveSteps
<1>6. ASSUME clean' PROVE Intent(After(saves, Parsed)) = intent
  BY <1>1, <1>6 DEF HomeInv, SaveInv
<1>7. ~ NobodySaves'
  BY <1>2 DEF NobodySaves, Saving
<1>8. SaveInv'
  BY <1>1, <1>2, <1>3, <1>5, <1>6, <1>7 DEF SaveInv, SaveSteps, Saving
<1> QED BY <1>4, <1>8 DEF HomeInv

LEMMA HomeCallKeeps ==
  ASSUME PcType, HomeInv, NEW c \in Callers, HomeCall(c)
  PROVE  HomeInv'
<1>1. ASSUME NEW f, Sound(f), "mastra" \notin DOMAIN f, BeginSaves(c, <<f>>, WithKeys(f))
      PROVE  HomeInv'
  <2>1. Intent(Parsed) = intended => Intent(After(<<f>>, Parsed)) = WithKeys(f)
    BY <1>1, IntentOfKeys DEF After, WithKeys
  <2> QED BY <1>1, <2>1, BeginKeeps
<1>2. ASSUME NEW t, NEW leaves, DOMAIN t \subseteq Paths, SaveOptions(c, t, leaves),
             Intent(Parsed) = intended => Leaves(t) = leaves
      PROVE  HomeInv'
  <2>1. BeginSaves(c, <<At("mastra", t)>>, [keys |-> intended.keys, leaves |-> leaves])
    BY <1>2 DEF SaveOptions
  <2>2. Intent(Parsed) = intended =>
          Intent(After(<<At("mastra", t)>>, Parsed)) = [keys |-> intended.keys, leaves |-> leaves]
    BY <1>2, IntentOfTree DEF After
  <2>3. Sound(At("mastra", t))
    BY <1>2, TreeSound
  <2> QED BY <2>1, <2>2, <2>3, BeginKeeps
<1>3. \A key, m : key # "mastra" /\ key # "recall_top_k" =>
        Sound(At(key, m)) /\ "mastra" \notin DOMAIN At(key, m)
  BY PlainSound DEF At, TopK, Get
<1>4. DOMAIN UserOptions(Parsed) \subseteq Paths
  BY DEF HomeInv, JobInv, Sound
<1>5. Intent(Parsed) = intended => intended.leaves = Leaves(UserOptions(Parsed))
  BY DEF Intent
<1>6. CASE save_config(c)
  <2>1. PICK values \in Settings : BeginSaves(c, <<values>>, WithKeys(values))
    BY <1>6 DEF save_config
  <2> QED BY <2>1, <1>1, PlainSound, HomeAssumption
<1>7. CASE set_model(c)
  BY <1>7, <1>1, <1>3 DEF set_model
<1>8. CASE apply_preset(c)
  <2>1. PICK m \in Models :
          BeginSaves(c, <<At("observer_name", m), At("reflector_name", m)>>,
                     WithKeys(Over(At("reflector_name", m), At("observer_name", m))))
    BY <1>8 DEF apply_preset
  <2> DEFINE first == At("observer_name", m)
             second == At("reflector_name", m)
  <2>2. /\ Sound(first) /\ "mastra" \notin DOMAIN first
        /\ Sound(second) /\ "mastra" \notin DOMAIN second
    BY <1>3
  <2> HIDE DEF first, second
  <2>3. After(<<first, second>>, Parsed) = Over(second, Over(first, Parsed))
    BY DEF After
  <2>4. Intent(After(<<first, second>>, Parsed)) =
          [keys |-> Over(second, Over(first, Intent(Parsed).keys)), leaves |-> Intent(Parsed).leaves]
    BY <2>2, <2>3, IntentOfKeys
  <2>5. Intent(Parsed) = intended =>
          Intent(After(<<first, second>>, Parsed)) = WithKeys(Over(second, first))
    BY <2>4, OverOver DEF WithKeys
  <2>6. \A i \in 1..Len(<<first, second>>) : Sound(<<first, second>>[i])
    BY <2>2
  <2> QED BY <2>1, <2>5, <2>6, BeginKeeps DEF first, second
<1>9. CASE set_option(c)
  <2>1. PICK option \in Options :
          SaveOptions(c, _set_in(UserOptions(Parsed), option[1], option[2]),
                      Apart(option[1]) \cup {option})
    BY <1>9 DEF set_option
  <2>2. option = <<option[1], option[2]>> /\ option[1] \in Paths /\ option[2] # EmptyDict
    BY HomeAssumption
  <2>3. Leaves(_set_in(UserOptions(Parsed), option[1], option[2])) =
          {e \in Leaves(UserOptions(Parsed)) : ~ Related(e[1], option[1])} \cup {option}
    BY <2>2, SetLeaves
  <2>4. DOMAIN _set_in(UserOptions(Parsed), option[1], option[2]) \subseteq Paths
    BY <1>4, <2>2, SetPaths
  <2> QED BY <2>1, <2>3, <2>4, <1>2, <1>5 DEF Apart
<1>10. CASE unset_option(c)
  <2>1. PICK path \in Unset :
          SaveOptions(c, _unset_in(UserOptions(Parsed), path),
                      {e \in intended.leaves : ~ IsPrefixOf(path, e[1])})
    BY <1>10 DEF unset_option
  <2>2. path \in Paths
    BY HomeAssumption
  <2> QED BY <2>1, <2>2, <1>2, <1>4, <1>5, UnsetLeaves, UnsetPaths
<1>11. CASE reset_options(c)
  BY <1>11, <1>2 DEF reset_options, Empty, Leaves
<1> QED BY <1>6, <1>7, <1>8, <1>9, <1>10, <1>11 DEF HomeCall

LEMMA OneOrTwo ==
  ASSUME NEW a, NEW b
  PROVE  /\ Len(<<a>>) = 1
         /\ Len(<<a, b>>) = 2 /\ Tail(<<a, b>>) = <<b>>
  OBVIOUS

LEMMA SavesLength ==
  ASSUME NEW c, Saves(c)
  PROVE  \/ Len(job[c].saves) = 1
         \/ Len(job[c].saves) = 2 /\ Tail(job[c].saves) = <<job[c].saves[2]>>
<1> DEFINE a == job[c].saves[1]
           b == job[c].saves[2]
<1>1. job[c].saves = <<a>> \/ job[c].saves = <<a, b>>
  BY DEF Saves
<1> HIDE DEF a
<1>2. CASE job[c].saves = <<a>>
  BY <1>2, OneOrTwo
<1>3. CASE job[c].saves = <<a, b>>
  <2> HIDE DEF b
  <2>1. Len(job[c].saves) = 2 /\ Tail(job[c].saves) = <<b>>
    BY <1>3, OneOrTwo
  <2> QED BY <2>1 DEF b
<1> QED BY <1>1, <1>2, <1>3

(* The next save of a call, after one that ended; or the end of the call.  *)
LEMMA NextSaveKeeps ==
  ASSUME PcType, HomeInv, NEW c \in Callers, pc[c] \in {"truncate", "fill"}, NextSave(c),
         Sound(Parsed'), clean' => clean,
         clean' => Intent(IF Len(job[c].saves) = 1 THEN Parsed'
                          ELSE After(Tail(job[c].saves), Parsed')) = intended'
  PROVE  HomeInv'
<1>1. Saving(c) /\ Saves(c)
  BY DEF Saving, HomeInv, JobInv
<1>2. PICK next \in {"idle", "existing"} :
        /\ pc' = [pc EXCEPT ![c] = next]
        /\ IF next = "existing" THEN Len(job[c].saves) = 2 ELSE Len(job[c].saves) = 1
        /\ job' = [job EXCEPT ![c] = IF next = "existing"
                                     THEN [saves |-> Tail(job[c].saves), seen |-> <<>>] ELSE NoJob]
  <2>1. CASE Len(job[c].saves) = 1
    BY <2>1 DEF NextSave, Goto
  <2>2. CASE Len(job[c].saves) = 2
    BY <2>2 DEF NextSave, Goto
  <2> QED BY <1>1, <2>1, <2>2, SavesLength
<1>3. next = "existing" => /\ Tail(job[c].saves) = <<job[c].saves[2]>>
                           /\ Sound(job[c].saves[2])
  <2>1. Len(job[c].saves) = 2 => Tail(job[c].saves) = <<job[c].saves[2]>>
    BY <1>1, SavesLength
  <2>2. Len(job[c].saves) = 2 => Sound(job[c].saves[2])
    BY <1>1 DEF HomeInv, JobInv
  <2> QED BY <1>2, <2>1, <2>2
<1>4. /\ pc'[c] = next
      /\ \A x \in Callers : x # c => pc'[x] = pc[x] /\ job'[x] = job[x]
      /\ job' = [x \in Callers |-> job'[x]]
      /\ job'[c] = IF next = "existing" THEN [saves |-> <<job[c].saves[2]>>, seen |-> <<>>] ELSE NoJob
  BY <1>2, <1>3 DEF PcType, HomeInv, JobInv
<1>5. /\ Saving(c)' <=> next = "existing"
      /\ \A x \in Callers : x # c => (Saving(x)' <=> Saving(x))
  BY <1>2, <1>4 DEF Saving
<1>6. JobInv'
  BY <1>3, <1>4, <1>5, NothingSound DEF HomeInv, JobInv, Saves, NoJob
<1>7. ASSUME clean' PROVE \A x \in Callers : x # c => ~ Saving(x) /\ ~ Saving(x)'
  BY <1>1, <1>5, <1>7 DEF HomeInv, SaveInv
<1>8. ASSUME clean', NobodySaves' PROVE Intent(Parsed)' = intended'
  <2>1. next = "idle"
    BY <1>5, <1>8 DEF NobodySaves
  <2> QED BY <1>2, <1>8, <2>1
<1>9. ASSUME clean', next = "existing" PROVE Intent(After(job'[c].saves, Parsed')) = intended'
  BY <1>2, <1>3, <1>4, <1>9
<1>10. \A x \in Callers : pc'[x] \in SaveSteps <=> Saving(x)'
  BY DEF Saving, SaveSteps
<1>11. SaveInv'
  BY <1>4, <1>5, <1>7, <1>8, <1>9 DEF SaveInv, Saving
<1> QED BY <1>6, <1>11 DEF HomeInv

LEMMA SaveStepKeeps ==
  ASSUME PcType, HomeInv, NEW c \in Callers, SaveStep(c)
  PROVE  HomeInv'
<1>1. Saving(c) /\ Saves(c) /\ \A i \in 1..Len(job[c].saves) : Sound(job[c].saves[i])
  BY DEF SaveStep, ReadExisting, SaveFails, Truncate, safe_save_config, Saving, HomeInv, JobInv
<1>2. CASE ReadExisting(c)
  <2>1. /\ pc[c] = "existing" /\ pc'[c] = "truncate"
        /\ \A x \in Callers : x # c => pc'[x] = pc[x] /\ job'[x] = job[x]
        /\ job' = [x \in Callers |-> job'[x]]
        /\ job'[c] = [saves |-> job[c].saves, seen |-> Parsed]
        /\ UNCHANGED <<file, intended, clean>>
    BY <1>2 DEF ReadExisting, Goto, PcType, HomeInv, JobInv
  <2>2. Parsed' = Parsed
    BY <2>1 DEF Parsed
  <2>3. \A x \in Callers : Saving(x)' <=> Saving(x)
    BY <2>1 DEF Saving
  <2>4. JobInv'
    BY <1>1, <2>1, <2>2, <2>3 DEF HomeInv, JobInv, Saves
  <2>5. SaveInv'
    BY <2>1, <2>2, <2>3 DEF HomeInv, SaveInv, NobodySaves
  <2> QED BY <2>4, <2>5 DEF HomeInv
<1>3. CASE SaveFails(c)
  <2>1. pc[c] \in {"truncate", "fill"} /\ NextSave(c) /\ ~ clean' /\ file' = file
    BY <1>3 DEF SaveFails
  <2>2. Sound(Parsed')
    BY <2>1 DEF Parsed, HomeInv, JobInv
  <2> QED BY <2>1, <2>2, NextSaveKeeps
<1>4. CASE Truncate(c)
  <2>1. /\ pc[c] = "truncate" /\ pc'[c] = "fill" /\ file' = Torn
        /\ \A x \in Callers : x # c => pc'[x] = pc[x]
        /\ UNCHANGED <<job, intended, clean>>
    BY <1>4 DEF Truncate, Goto, PcType
  <2>2. Sound(Parsed)'
    BY <2>1, NothingSound DEF Parsed, Torn
  <2>3. \A x \in Callers : Saving(x)' <=> Saving(x)
    BY <2>1 DEF Saving
  <2>4. JobInv'
    BY <2>1, <2>2, <2>3 DEF HomeInv, JobInv, Saves
  <2>5. ASSUME clean PROVE \A x \in Callers : x # c => ~ Saving(x)
    BY <1>1, <2>5 DEF HomeInv, SaveInv
  <2>6. ~ NobodySaves'
    BY <2>1 DEF NobodySaves, Saving
  <2>7. SaveInv'
    BY <2>1, <2>3, <2>5, <2>6 DEF HomeInv, SaveInv, Saving
  <2> QED BY <2>4, <2>7 DEF HomeInv
<1>5. CASE safe_save_config(c)
  <2> DEFINE saved == Over(Head(job[c].saves), job[c].seen)
  <2>1. /\ pc[c] = "fill" /\ NextSave(c) /\ UNCHANGED <<intended, clean>>
        /\ file' \in {Json(saved), Torn}
        /\ file = Torn => file' = Json(saved)
    BY <1>5 DEF safe_save_config
  <2>2. Head(job[c].saves) = job[c].saves[1] /\ Sound(job[c].saves[1]) /\ Sound(job[c].seen)
    BY <1>1 DEF Saves, HomeInv, JobInv
  <2>3. Sound(saved)
    BY <2>2, OverSound
  <2>4. Sound(Parsed')
    BY <2>1, <2>3, NothingSound DEF Parsed, Torn, Json
  <2>5. ASSUME clean
        PROVE  Intent(IF Len(job[c].saves) = 1 THEN Parsed'
                      ELSE After(Tail(job[c].saves), Parsed')) = intended'
    <3>1. Parsed' = saved /\ Intent(After(job[c].saves, job[c].seen)) = intended'
      BY <2>1, <2>5 DEF HomeInv, SaveInv, Parsed, Json
    <3>2. CASE Len(job[c].saves) = 1
      BY <2>2, <3>1, <3>2 DEF After
    <3>3. CASE Len(job[c].saves) = 2 /\ Tail(job[c].saves) = <<job[c].saves[2]>>
      BY <2>2, <3>1, <3>3, OneOrTwo DEF After
    <3> QED BY <1>1, <3>2, <3>3, SavesLength
  <2> QED BY <2>1, <2>4, <2>5, NextSaveKeeps
<1> QED BY <1>2, <1>3, <1>4, <1>5 DEF SaveStep

LEMMA LaunchHome ==
  ASSUME NEW c \in Callers, Launch(c)
  PROVE  /\ UNCHANGED <<file, intended, clean>>
         /\ job' \in {job, [job EXCEPT ![c].seen = Parsed], [job EXCEPT ![c] = NoJob]}
  BY DEF Launch, do_initialize, _bring_up_server, post_setup, StartServer, EnsureRunning,
         SpawnServer, Health, Shutdown, LoadForServer, build_server_env, homeVars

LEMMA HomeStepKeeps == PcType /\ HomeInv /\ [Next]_vars => HomeInv'
<1> SUFFICES ASSUME PcType, HomeInv, [Next]_vars PROVE HomeInv'
  OBVIOUS
<1>1. CASE UNCHANGED vars
  BY <1>1 DEF HomeInv, JobInv, SaveInv, vars, callVars, homeVars, Parsed, Saving, NobodySaves, Saves
<1>2. CASE Next
  <2>1. PICK c \in Callers :
          Configure(c) \/ AdjustRecall(c) \/ ObserveTools(c) \/ KeepRule(c) \/ Launch(c)
    BY <1>2, NextParts
  <2>2. CASE Configure(c)
    BY <2>2, HomeCallKeeps, SaveStepKeeps DEF Configure
  <2>3. CASE ~ Configure(c)
    <3>1. \E steps \in {{"idle"} \cup EngineSteps, {"idle"} \cup ObserverSteps,
                        {"idle", "rules"} \cup NotesSteps, {"idle"} \cup LaunchSteps} :
            Moves(c, steps)
      BY <2>1, <2>3, AdjustMoves, ObserveMoves, KeepMoves, LaunchMoves
    <3>2. /\ UNCHANGED <<file, intended, clean>>
          /\ job' \in {job, [job EXCEPT ![c].seen = Parsed], [job EXCEPT ![c] = NoJob]}
      BY <2>1, <2>3, AdjustMoves, ObserveMoves, KeepMoves, LaunchHome DEF homeVars
    <3>3. \A steps \in {{"idle"} \cup EngineSteps, {"idle"} \cup ObserverSteps,
                        {"idle", "rules"} \cup NotesSteps, {"idle"} \cup LaunchSteps} :
            steps \subseteq Steps /\ steps \cap SaveSteps = {}
      BY DEF Steps, SaveSteps, EngineSteps, ObserverSteps, LaunchSteps, NotesSteps
    <3> QED BY <3>1, <3>2, <3>3, HomeApart
  <2> QED BY <2>2, <2>3
<1> QED BY <1>1, <1>2

LEMMA HomeInvariant == Spec => [](PcType /\ HomeInv)
<1>1. Init => PcType /\ HomeInv
  BY PcStart, HomeStart
<1>2. (PcType /\ HomeInv) /\ [Next]_vars => (PcType /\ HomeInv)'
  BY PcKept, HomeStepKeeps
<1> QED BY <1>1, <1>2, PTL DEF Spec

(* Whatever is saved, in however many calls that do not overlap, the file  *)
(* holds what they asked for and all they did not name, each option apart. *)
THEOREM SavesKeepTheRest == Spec => []LoneSaveKeeps
<1>1. HomeInv => LoneSaveKeeps
  BY DEF HomeInv, SaveInv, LoneSaveKeeps
<1> QED BY <1>1, HomeInvariant, PTL

-----------------------------------------------------------------------------
(* The steps of the context engine, and the loads of a new configuration.  *)
LEMMA BoostStart == Init => BoostInv
  BY EngineAssumption
  DEF Init, CallsInit, EngineInit, BoostInv, Undisturbed, recall_boost_active

LEMMA BoostFrame ==
  ASSUME PcType, BoostInv, NEW c \in Callers, NEW steps, steps \subseteq Steps,
         "adjust" \notin steps, Moves(c, steps), UNCHANGED engineVars
  PROVE  BoostInv'
<1>1. \A x \in Callers : pc'[x] = "adjust" <=> pc[x] = "adjust"
  BY MovesApart DEF Steps, EngineSteps
<1> QED BY <1>1, EngineAssumption DEF BoostInv, engineVars, Undisturbed, recall_boost_active

LEMMA ReloadKeeps ==
  ASSUME PcType, BoostInv, NEW c \in Callers, NEW steps, steps \subseteq Steps,
         "adjust" \notin steps, Moves(c, steps), NEW value \in Nat, ReloadConfig(value)
  PROVE  BoostInv'
<1>1. \A x \in Callers : pc'[x] = "adjust" <=> pc[x] = "adjust"
  BY MovesApart DEF Steps, EngineSteps
<1> QED BY <1>1, EngineAssumption DEF BoostInv, ReloadConfig, Undisturbed, recall_boost_active

LEMMA AdjustKeeps ==
  ASSUME PcType, BoostInv, NEW c \in Callers, AdjustRecall(c)
  PROVE  BoostInv'
<1>1. c = Engine
  BY DEF AdjustRecall, update_from_response, _maybe_adjust_top_k, on_session_reset, BoostInv
<1>2. ASSUME NEW next, pc' = [pc EXCEPT ![c] = next]
      PROVE  pc'[Engine] = next /\ \A x \in Callers : pc'[x] = "adjust" => x = Engine
  BY <1>1, <1>2 DEF PcType, BoostInv
<1>3. CASE update_from_response(c)
  <2>1. CASE Once(c) /\ UNCHANGED <<current, pressure>>
    BY <1>1, <1>2, <1>3, <2>1, EngineAssumption
    DEF update_from_response, Once, Begin, BoostInv, Undisturbed, recall_boost_active
  <2>2. CASE Begin(c, "adjust") /\ current' = topK
    BY <1>1, <1>2, <1>3, <2>2, EngineAssumption
    DEF update_from_response, Begin, BoostInv, Undisturbed, recall_boost_active
  <2> QED BY <1>3, <2>1, <2>2 DEF update_from_response
<1>4. CASE _maybe_adjust_top_k(c)
  <2>1. pc[Engine] = "adjust" /\ pc'[Engine] = "idle" /\ current \in Nat /\ current' = NoTopK
    BY <1>1, <1>2, <1>4 DEF _maybe_adjust_top_k, Goto, BoostInv
  <2>2. UNCHANGED <<loaded, disturbed>>
    BY <1>4 DEF _maybe_adjust_top_k
  <2>3. CASE pressure
    <3>1. /\ baseline' = IF recall_boost_active THEN baseline ELSE current
          /\ topK' = IF current < Boosted THEN Boosted ELSE topK
      BY <1>4, <2>3 DEF _maybe_adjust_top_k
    <3>2. topK' \in Nat /\ baseline' \in Nat
      BY <2>1, <3>1, EngineAssumption DEF BoostInv, recall_boost_active
    <3>3. ~ disturbed => baseline' = loaded
      BY <2>1, <3>1 DEF BoostInv, Undisturbed
    <3> QED BY <1>1, <1>2, <1>4, <2>1, <2>2, <3>2, <3>3, EngineAssumption
            DEF _maybe_adjust_top_k, Goto, BoostInv, Undisturbed, recall_boost_active
  <2>4. CASE ~ pressure
    <3>1. baseline' = NoTopK /\ topK' = IF recall_boost_active THEN baseline ELSE topK
      BY <1>4, <2>4 DEF _maybe_adjust_top_k
    <3>2. topK' \in Nat /\ (~ disturbed => topK' = loaded)
      BY <3>1 DEF BoostInv, Undisturbed, recall_boost_active
    <3> QED BY <1>1, <1>2, <1>4, <2>1, <2>2, <3>1, <3>2, EngineAssumption
            DEF _maybe_adjust_top_k, Goto, BoostInv, Undisturbed, recall_boost_active
  <2> QED BY <2>3, <2>4
<1>5. CASE on_session_reset(c)
  BY <1>1, <1>2, <1>5, EngineAssumption
  DEF on_session_reset, Once, Begin, BoostInv, Undisturbed, recall_boost_active
<1> QED BY <1>3, <1>4, <1>5 DEF AdjustRecall

LEMMA BoostStepKeeps == PcType /\ HomeInv /\ BoostInv /\ [Next]_vars => BoostInv'
<1> SUFFICES ASSUME PcType, HomeInv, BoostInv, [Next]_vars PROVE BoostInv'
  OBVIOUS
<1>1. CASE UNCHANGED vars
  BY <1>1 DEF BoostInv, vars, callVars, engineVars, Undisturbed, recall_boost_active
<1>2. CASE Next
  <2>1. PICK c \in Callers :
          Configure(c) \/ AdjustRecall(c) \/ ObserveTools(c) \/ KeepRule(c) \/ Launch(c)
    BY <1>2, NextParts
  <2>2. CASE AdjustRecall(c)
    BY <2>2, AdjustKeeps
  <2>3. CASE Launch(c)
    <3>1. UNCHANGED engineVars \/ \E value \in Nat : ReloadConfig(value)
      <4>1. ~ LoadRaises => TopK(Parsed) \in Nat
        BY DEF LoadRaises, HomeInv, JobInv, Sound
      <4> QED BY <2>3, <4>1 DEF Launch, do_initialize, _bring_up_server, post_setup, StartServer,
                EnsureRunning, SpawnServer, Health, Shutdown
    <3>2. Moves(c, {"idle"} \cup LaunchSteps)
      BY <2>3, LaunchMoves
    <3>3. {"idle"} \cup LaunchSteps \subseteq Steps /\ "adjust" \notin {"idle"} \cup LaunchSteps
      BY DEF Steps, LaunchSteps
    <3> QED BY <3>1, <3>2, <3>3, BoostFrame, ReloadKeeps
  <2>4. CASE Configure(c) \/ ObserveTools(c) \/ KeepRule(c)
    <3>1. \E steps \in {{"idle"} \cup SaveSteps, {"idle"} \cup ObserverSteps,
                        {"idle", "rules"} \cup NotesSteps} : Moves(c, steps)
      BY <2>4, ConfigureMoves, ObserveMoves, KeepMoves
    <3>2. UNCHANGED engineVars
      BY <2>4, ConfigureMoves, ObserveMoves, KeepMoves
    <3>3. \A steps \in {{"idle"} \cup SaveSteps, {"idle"} \cup ObserverSteps,
                        {"idle", "rules"} \cup NotesSteps} :
            steps \subseteq Steps /\ "adjust" \notin steps
      BY DEF Steps, SaveSteps, ObserverSteps, NotesSteps, LaunchSteps
    <3> QED BY <3>1, <3>2, <3>3, BoostFrame
  <2> QED BY <2>1, <2>2, <2>3, <2>4
<1> QED BY <1>1, <1>2

(* Whatever configurations come, and however large a boost is: pressure    *)
(* leaves no trace in recall_top_k once it clears, unless a baseline was   *)
(* dropped or a configuration came in the middle.                          *)
THEOREM PressureLeavesNoTrace == Spec => []BoostUndone
<1>1. Init => BoostInv
  BY BoostStart
<1>2. PcType /\ HomeInv /\ BoostInv /\ [Next]_vars => BoostInv'
  BY BoostStepKeeps
<1>3. BoostInv => BoostUndone
  BY DEF BoostInv, BoostUndone, Undisturbed
<1> QED BY <1>1, <1>2, <1>3, HomeInvariant, PTL DEF Spec

-----------------------------------------------------------------------------
(* The steps of the observers.                                             *)
ObserversInv == RememberInv /\ CallInv

LEMMA ObserversStart == Init => ObserversInv
  BY DEF Init, CallsInit, ObserversInit, ObserversInv, RememberInv, Remembers, CallInv, Own,
         Deduping, ObserverSteps

(* Nobody looks up, claims or writes, and what is written is of no kind    *)
(* that is remembered.                                                     *)
LEMMA ObserversFrame ==
  ASSUME ObserversInv, UNCHANGED <<made, sets, call, doubled>>,
         \A x \in Callers, s \in ObserverSteps : pc'[x] = s <=> pc[x] = s,
         \A v \in written' : v.kind \in Kinds => v \in written
  PROVE  ObserversInv'
<1>1. \A x \in Callers : Deduping(x)' <=> Deduping(x)
  BY DEF Deduping, ObserverSteps
<1>2. \A x \in Callers : /\ pc'[x] = "claim" <=> pc[x] = "claim"
                         /\ pc'[x] = "write" <=> pc[x] = "write"
                         /\ pc'[x] \in ObserverSteps <=> pc[x] \in ObserverSteps
  BY DEF ObserverSteps
<1>3. ASSUME NEW k \in Kinds \ doubled' PROVE Remembers(k)'
  <2>1. Remembers(k)
    BY <1>3 DEF ObserversInv, RememberInv
  <2> QED BY <1>1, <1>2, <2>1 DEF Remembers, Own
<1>4. CallInv'
  BY <1>2 DEF ObserversInv, CallInv
<1> QED BY <1>3, <1>4 DEF ObserversInv, RememberInv

LEMMA EmitKeeps ==
  ASSUME PcType, ObserversInv, NEW c \in Callers, NEW most, Emit(c, most)
  PROVE  ObserversInv'
<1>1. \A x \in Callers, s \in ObserverSteps : pc'[x] = s <=> pc[x] = s
  BY DEF Emit, Once, Begin, PcType
<1>2. \A v \in written' : v.kind \in Kinds => v \in written
  BY ObserverAssumption DEF Emit
<1>3. UNCHANGED <<made, sets, call, doubled>>
  BY DEF Emit
<1> QED BY <1>1, <1>2, <1>3, ObserversFrame

LEMMA ObserveKeeps ==
  ASSUME PcType, ObserversInv, NEW c \in Callers, Observe(c)
  PROVE  ObserversInv'
<1>1. PICK k \in Kinds, key \in Keys :
        LET maker == IF made[k] = NoOne THEN c ELSE made[k] IN
        /\ Begin(c, "look")
        /\ call' = [call EXCEPT ![c] = [kind |-> k, key |-> key, id |-> calls', maker |-> maker]]
        /\ sets' = IF made[k] = NoOne THEN [sets EXCEPT ![k][c] = {}] ELSE sets
        /\ doubled' = IF \E x \in Callers : Deduping(x) /\ call[x].kind = k
                      THEN doubled \cup {k} ELSE doubled
        /\ UNCHANGED <<client, session, made, written>>
  BY DEF Observe
<1> DEFINE maker == IF made[k] = NoOne THEN c ELSE made[k]
<1>2. maker \in Callers
  BY DEF ObserversInv, CallInv
<1>3. /\ pc[c] = "idle" /\ pc'[c] = "look"
      /\ call'[c].kind = k /\ call'[c].key = key /\ call'[c].maker = maker
      /\ \A x \in Callers : x # c => pc'[x] = pc[x] /\ call'[x] = call[x]
      /\ call' = [x \in Callers |-> call'[x]]
  BY <1>1 DEF Begin, PcType, ObserversInv, CallInv
<1>4. /\ sets' = [j \in Kinds |-> sets'[j]]
      /\ \A j \in Kinds : sets'[j] = [x \in Callers |-> sets'[j][x]]
      /\ \A j \in Kinds : j # k \/ made[k] # NoOne => sets'[j] = sets[j]
  BY <1>1 DEF ObserversInv, CallInv
<1> HIDE DEF maker
<1>5. CallInv'
  <2>1. \A x \in Callers : pc'[x] \in ObserverSteps =>
          call'[x].kind \in Kinds /\ call'[x].maker \in Callers
    BY <1>2, <1>3 DEF ObserversInv, CallInv
  <2>2. made' \in [Kinds -> Callers \cup {NoOne}]
    BY <1>1 DEF ObserversInv, CallInv
  <2> QED BY <1>3, <1>4, <2>1, <2>2 DEF CallInv
<1>6. ASSUME NEW j \in Kinds \ doubled' PROVE Remembers(j)'
  <2>1. Remembers(j)
    BY <1>1, <1>6 DEF ObserversInv, RememberInv
  <2>2. \A x \in Callers : x # c =>
          /\ Deduping(x)' <=> Deduping(x)
          /\ Own(x, j)' <=> Own(x, j)
    BY <1>3 DEF Deduping, Own
  <2>3. CASE j # k
    <3>1. ~ Own(c, j)'
      BY <1>3, <2>3 DEF Own
    <3> QED BY <1>1, <1>3, <1>4, <2>1, <2>2, <2>3, <3>1 DEF Remembers
  <2>4. CASE j = k
    <3>1. \A x \in Callers : ~ (Deduping(x) /\ Own(x, j))
      BY <1>1, <1>6, <2>4 DEF Own
    <3>2. made[j] # NoOne => sets'[j] = sets[j]
      BY <1>4, <2>4
    <3>3. call'[c].maker = IF made'[j] = NoOne THEN c ELSE made'[j]
      BY <1>1, <1>3, <2>4 DEF maker
    <3>4. \A x \in Callers : pc'[x] = "claim" /\ Own(x, j)' => FALSE
      BY <1>3, <2>2, <3>1 DEF Deduping
    <3>5. \A x \in Callers : Deduping(x)' /\ Own(x, j)' => x = c
      BY <2>2, <3>1
    <3> QED BY <1>1, <1>3, <2>1, <2>2, <3>2, <3>3, <3>4, <3>5 DEF Remembers
  <2> QED BY <2>3, <2>4
<1> QED BY <1>5, <1>6 DEF ObserversInv, RememberInv

LEMMA LookUpKeeps ==
  ASSUME PcType, ObserversInv, NEW c \in Callers, LookUp(c)
  PROVE  ObserversInv'
<1>1. /\ pc[c] = "look" /\ pc'[c] \in {"idle", "claim"}
      /\ \A x \in Callers : x # c => pc'[x] = pc[x] /\ call'[x] = call[x]
      /\ pc'[c] = "claim" => /\ call'[c] = call[c]
                             /\ call[c].key \notin sets[call[c].kind][call[c].maker]
      /\ call' = [x \in Callers |-> call'[x]]
      /\ UNCHANGED <<client, session, made, sets, written, doubled>>
  BY DEF LookUp, Goto, PcType, ObserversInv, CallInv
<1>2. CallInv'
  BY <1>1 DEF ObserversInv, CallInv, ObserverSteps
<1>3. ASSUME NEW k \in Kinds \ doubled' PROVE Remembers(k)'
  <2>1. Remembers(k)
    BY <1>1, <1>3 DEF ObserversInv, RememberInv
  <2>2. \A x \in Callers : /\ Deduping(x)' => Deduping(x) /\ call'[x] = call[x]
                           /\ pc'[x] = "write" => pc[x] = "write" /\ call'[x] = call[x]
                           /\ pc'[x] = "claim" => x = c \/ pc[x] = "claim"
    BY <1>1 DEF Deduping
  <2>3. \A x \in Callers : pc'[x] = "claim" /\ Own(x, k)' =>
          call'[x].key \notin sets'[k][call'[x].maker]
    BY <1>1, <2>1, <2>2 DEF Remembers, Own, Deduping
  <2> QED BY <1>1, <2>1, <2>2, <2>3 DEF Remembers, Own
<1> QED BY <1>2, <1>3 DEF ObserversInv, RememberInv

LEMMA ClaimKeeps ==
  ASSUME PcType, ObserversInv, NEW c \in Callers, Claim(c)
  PROVE  ObserversInv'
<1> DEFINE k == call[c].kind
           maker == call[c].maker
           key == call[c].key
<1>1. k \in Kinds /\ maker \in Callers /\ maker # NoOne
  BY ObserverAssumption DEF Claim, ObserversInv, CallInv, ObserverSteps
<1>2. /\ pc[c] = "claim" /\ pc'[c] = "write"
      /\ \A x \in Callers : x # c => pc'[x] = pc[x]
      /\ UNCHANGED <<call, written, doubled>>
  BY DEF Claim, Goto, PcType
<1>3. /\ made'[k] = maker
      /\ \A j \in Kinds : j # k => made'[j] = made[j] /\ sets'[j] = sets[j]
      /\ sets'[k][maker] = sets[k][maker] \cup {key}
      /\ sets' = [j \in Kinds |-> sets'[j]]
      /\ \A j \in Kinds : sets'[j] = [x \in Callers |-> sets'[j][x]]
      /\ made' \in [Kinds -> Callers \cup {NoOne}]
  BY <1>1 DEF Claim, ObserversInv, CallInv
<1>4. CallInv'
  BY <1>2, <1>3 DEF ObserversInv, CallInv, ObserverSteps
<1>5. ASSUME NEW j \in Kinds \ doubled' PROVE Remembers(j)'
  <2>1. Remembers(j)
    BY <1>2, <1>5 DEF ObserversInv, RememberInv
  <2>2. /\ \A x \in Callers : x # c => (Deduping(x)' <=> Deduping(x)) 
        /\ Deduping(c) /\ ~ Deduping(c)'
    BY <1>2 DEF Deduping
  <2>3. \A x \in Callers : Own(x, j)' <=> Own(x, j)
    BY <1>2 DEF Own
  <2>4. CASE j # k
    <3>1. ~ Own(c, j)
      BY <2>4 DEF Own
    <3>2. made'[j] = made[j] /\ sets'[j] = sets[j]
      BY <1>3, <2>4
    <3> HIDE DEF k, maker, key
    <3>3. \A x \in Callers : Own(x, j)' =>
            /\ Own(x, j) /\ x # c /\ pc'[x] = pc[x] /\ call'[x] = call[x]
            /\ Deduping(x)' <=> Deduping(x)
      BY <1>2, <2>2, <2>3, <3>1
    <3> QED BY <1>2, <2>1, <3>2, <3>3 DEF Remembers
  <2>5. CASE j = k
    <3>1. Own(c, j)
      BY <2>5 DEF Own
    <3> HIDE DEF k, maker, key
    <3>2. \A x \in Callers : ~ (Deduping(x)' /\ Own(x, j)')
      BY <2>1, <2>2, <2>3, <3>1 DEF Remembers
    <3>3. made[j] # NoOne => made[j] = maker
      BY <2>1, <2>2, <3>1 DEF Remembers, maker
    <3>4. key \notin sets[j][maker]
      BY <1>2, <2>1, <3>1 DEF Remembers, key, maker
    <3>5. made'[j] = maker /\ sets'[j][maker] = sets[j][maker] \cup {key} /\ key = call'[c].key
      BY <1>2, <1>3, <2>5 DEF key
    <3>6. \A x \in Callers : pc'[x] = "write" /\ Own(x, j)' =>
            \/ x = c
            \/ pc[x] = "write" /\ Own(x, j) /\ call[x].key \in sets[j][maker]
      BY <1>2, <2>1, <2>3, <3>3 DEF Remembers
    <3>7. \A v \in written : v.kind = j => v.key \in sets[j][maker]
      BY <2>1, <3>3 DEF Remembers
    <3>8. \A x \in Callers : ~ (pc'[x] = "claim" /\ Own(x, j)')
      BY <3>2 DEF Deduping
    <3>9. \A x \in Callers : pc'[x] = "write" /\ Own(x, j)' =>
            made'[j] # NoOne /\ call'[x].key \in sets'[j][made'[j]]
      BY <1>1, <1>2, <3>5, <3>6
    <3>10. \A x, y \in Callers :
             pc'[x] = "write" /\ Own(x, j)' /\ pc'[y] = "write" /\ Own(y, j)'
             /\ call'[x].key = call'[y].key => x = y
      BY <1>2, <2>1, <3>4, <3>5, <3>6 DEF Remembers
    <3>11. \A v \in written' : v.kind = j =>
             /\ made'[j] # NoOne /\ v.key \in sets'[j][made'[j]]
             /\ \A x \in Callers : pc'[x] = "write" /\ Own(x, j)' => call'[x].key # v.key
      BY <1>1, <1>2, <2>1, <3>4, <3>5, <3>6, <3>7 DEF Remembers
    <3>12. \A v, w \in written' : v.kind = j /\ w.kind = j /\ v.key = w.key => v = w
      BY <1>2, <2>1 DEF Remembers
    <3> QED BY <3>2, <3>8, <3>9, <3>10, <3>11, <3>12 DEF Remembers
  <2> QED BY <2>4, <2>5
<1> QED BY <1>4, <1>5 DEF ObserversInv, RememberInv

LEMMA WriteKeeps ==
  ASSUME PcType, ObserversInv, NEW c \in Callers, Write(c)
  PROVE  ObserversInv'
<1>1. /\ pc[c] = "write" /\ pc'[c] = "idle"
      /\ \A x \in Callers : x # c => pc'[x] = pc[x] /\ call'[x] = call[x]
      /\ call' = [x \in Callers |-> call'[x]]
      /\ written' \in {written, written \cup {Observation(c)}}
      /\ UNCHANGED <<made, sets, doubled>>
  BY DEF Write, Goto, PcType, ObserversInv, CallInv
<1>2. CallInv'
  BY <1>1 DEF ObserversInv, CallInv, ObserverSteps
<1>3. ASSUME NEW k \in Kinds \ doubled' PROVE Remembers(k)'
  <2>1. Remembers(k)
    BY <1>1, <1>3 DEF ObserversInv, RememberInv
  <2>2. \A x \in Callers :
          /\ Deduping(x)' => Deduping(x) /\ call'[x] = call[x] /\ pc'[x] = pc[x]
          /\ pc'[x] = "write" => pc[x] = "write" /\ call'[x] = call[x] /\ x # c
          /\ pc'[x] = "claim" => pc[x] = "claim" /\ call'[x] = call[x]
    BY <1>1 DEF Deduping
  <2>3. Observation(c).kind = call[c].kind /\ Observation(c).key = call[c].key
    BY DEF Observation
  <2>4. \A v \in written' : v.kind = k => v \in written \/ (v = Observation(c) /\ Own(c, k))
    BY <1>1, <2>3 DEF Own
  <2>5. \A v \in written' : v.kind = k =>
          /\ made[k] # NoOne /\ v.key \in sets[k][made[k]]
          /\ \A x \in Callers : pc'[x] = "write" /\ Own(x, k)' => call'[x].key # v.key
    BY <1>1, <2>1, <2>2, <2>3, <2>4 DEF Remembers, Own
  <2>6. \A v, w \in written' : v.kind = k /\ w.kind = k /\ v.key = w.key => v = w
    BY <1>1, <2>1, <2>3, <2>4 DEF Remembers
  <2> QED BY <1>1, <2>1, <2>2, <2>5, <2>6 DEF Remembers, Own
<1> QED BY <1>2, <1>3 DEF ObserversInv, RememberInv

LEMMA ObserveToolsKeeps ==
  ASSUME PcType, ObserversInv, NEW c \in Callers, ObserveTools(c)
  PROVE  ObserversInv'
<1>1. CASE \E most : Emit(c, most)
  BY <1>1, EmitKeeps
<1>2. CASE Observe(c)
  BY <1>2, ObserveKeeps
<1>3. CASE LookUp(c)
  BY <1>3, LookUpKeeps
<1>4. CASE Claim(c)
  BY <1>4, ClaimKeeps
<1>5. CASE Write(c)
  BY <1>5, WriteKeeps
<1>6. CASE Once(c) /\ UNCHANGED <<made, sets, call, written, doubled>>
  <2>1. \A x \in Callers, s \in ObserverSteps : pc'[x] = s <=> pc[x] = s
    BY <1>6 DEF Once, Begin, PcType
  <2> QED BY <1>6, <2>1, ObserversFrame
<1>7. CASE SwitchSession(c)
  BY <1>6, <1>7 DEF SwitchSession
<1>8. CASE _make_post_tool_call(c)
  BY <1>1, <1>2, <1>6, <1>8 DEF _make_post_tool_call, _POST_TOOL_HANDLERS, observerVars,
     do_execute_code, do_todo_snapshot, do_kanban_event, do_goal_event
<1>9. CASE Feature(c)
  BY <1>1, <1>9 DEF Feature, do_memory_snapshot, do_personality_changed, do_batch
<1> QED BY <1>3, <1>4, <1>5, <1>7, <1>8, <1>9 DEF ObserveTools, ObserverStep

LEMMA ObserversStepKeeps == PcType /\ ObserversInv /\ [Next]_vars => ObserversInv'
<1> SUFFICES ASSUME PcType, ObserversInv, [Next]_vars PROVE ObserversInv'
  OBVIOUS
<1>1. CASE UNCHANGED vars
  BY <1>1, ObserversFrame DEF vars, callVars, observerVars
<1>2. CASE Next
  <2>1. PICK c \in Callers :
          Configure(c) \/ AdjustRecall(c) \/ ObserveTools(c) \/ KeepRule(c) \/ Launch(c)
    BY <1>2, NextParts
  <2>2. CASE ObserveTools(c)
    BY <2>2, ObserveToolsKeeps
  <2>3. CASE ~ ObserveTools(c)
    <3>1. PICK steps \in {{"idle"} \cup SaveSteps, {"idle"} \cup EngineSteps,
                          {"idle", "rules"} \cup NotesSteps, {"idle"} \cup LaunchSteps} :
            Moves(c, steps)
      BY <2>1, <2>3, ConfigureMoves, AdjustMoves, KeepMoves, LaunchMoves
    <3>2. steps \subseteq Steps /\ \A s \in ObserverSteps : s \in Steps /\ s \notin steps
      BY DEF Steps, SaveSteps, EngineSteps, ObserverSteps, LaunchSteps, NotesSteps
    <3>3. UNCHANGED <<made, sets, call, written, doubled>>
      <4>1. UNCHANGED observerVars \/ \E value : SetClient(value)
        BY <2>1, <2>3, ConfigureMoves, AdjustMoves, KeepMoves
        DEF Launch, do_initialize, _bring_up_server, post_setup, StartServer, EnsureRunning,
            SpawnServer, Health, Shutdown
      <4> QED BY <4>1 DEF observerVars, SetClient
    <3>4. \A x \in Callers, s \in ObserverSteps : pc'[x] = s <=> pc[x] = s
      BY <3>1, <3>2, MovesApart
    <3> QED BY <3>3, <3>4, ObserversFrame
  <2> QED BY <2>2, <2>3
<1> QED BY <1>1, <1>2

(* However many threads run tools, switch sessions and bring clients up    *)
(* and down, and whoever makes the set: no key of a kind is written twice  *)
(* in one session, unless two calls of that kind overlapped.  (The         *)
(* invariant shows why it is so: the set lasts longer than the session.)   *)
THEOREM ObservedOnce == Spec => []WrittenOncePerSession
<1>1. Init => PcType /\ ObserversInv
  BY PcStart, ObserversStart
<1>2. PcType /\ ObserversInv /\ [Next]_vars => (PcType /\ ObserversInv)'
  BY PcKept, ObserversStepKeeps
<1>3. ObserversInv => WrittenOncePerSession
  BY DEF ObserversInv, RememberInv, Remembers, WrittenOncePerSession
<1> QED BY <1>1, <1>2, <1>3, PTL DEF Spec

-----------------------------------------------------------------------------
(* The options of a server.  The paths that the defaults of the two sides  *)
(* name, of which none lies in another.                                    *)
Known == {ReadOnly, RecallTopK, RecallScope, Markers, Budget, Buffer, ObserverModel, ReflectorModel}

LEMMA KnownPaths == Known \subseteq Paths
<1> USE OptionsAssumption DEF Paths
<1>1. ReadOnly \in Paths
  BY DEF ReadOnly
<1>2. RecallTopK \in Paths /\ RecallScope \in Paths
  BY DEF RecallTopK, RecallScope
<1>3. Markers \in Paths /\ Budget \in Paths
  BY DEF Markers, Budget
<1>4. Buffer \in Paths
  BY DEF Buffer
<1>5. ObserverModel \in Paths /\ ReflectorModel \in Paths
  BY DEF ObserverModel, ReflectorModel
<1> QED BY <1>1, <1>2, <1>3, <1>4, <1>5 DEF Known

LEMMA DifferApart ==
  ASSUME NEW p, NEW q, NEW i, i \in 1..Len(p), i \in 1..Len(q), p[i] # q[i]
  PROVE  ~ Related(p, q)
  BY DEF Related, IsPrefixOf

LEMMA KnownApart ==
  ASSUME NEW p \in Known, NEW q \in Known, Related(p, q)
  PROVE  p = q
<1>1. /\ Len(ReadOnly) = 1 /\ ReadOnly[1] = "readOnly"
      /\ Len(RecallTopK) = 2 /\ RecallTopK[1] = "semanticRecall" /\ RecallTopK[2] = "topK"
      /\ Len(RecallScope) = 2 /\ RecallScope[1] = "semanticRecall" /\ RecallScope[2] = "scope"
  BY DEF ReadOnly, RecallTopK, RecallScope
<1>2. /\ Len(Markers) = 2 /\ Markers[1] = "observationalMemory" /\ Markers[2] = "temporalMarkers"
      /\ Len(Budget) = 2 /\ Budget[1] = "observationalMemory" /\ Budget[2] = "shareTokenBudget"
  BY DEF Markers, Budget
<1>3. /\ Len(Buffer) = 3 /\ Buffer[1] = "observationalMemory"
      /\ Buffer[2] = "observation" /\ Buffer[3] = "bufferTokens"
      /\ Len(ObserverModel) = 3 /\ ObserverModel[1] = "observationalMemory"
      /\ ObserverModel[2] = "observation" /\ ObserverModel[3] = "model"
      /\ Len(ReflectorModel) = 3 /\ ReflectorModel[1] = "observationalMemory"
      /\ ReflectorModel[2] = "reflection" /\ ReflectorModel[3] = "model"
  BY DEF Buffer, ObserverModel, ReflectorModel
<1>4. ASSUME p # q
      PROVE  \E i \in 1..3 : i \in 1..Len(p) /\ i \in 1..Len(q) /\ p[i] # q[i]
  <2>1. CASE p[1] # q[1]
    BY <1>1, <1>2, <1>3, <2>1 DEF Known
  <2>2. CASE p[1] = q[1] /\ p[2] # q[2] /\ p # ReadOnly /\ q # ReadOnly
    BY <1>1, <1>2, <1>3, <2>2 DEF Known
  <2>3. CASE p[1] = q[1] /\ (p = ReadOnly \/ q = ReadOnly)
    BY <1>1, <1>2, <1>3, <1>4, <2>3 DEF Known
  <2>4. CASE p[1] = q[1] /\ p[2] = q[2] /\ p # ReadOnly /\ q # ReadOnly
    BY <1>1, <1>2, <1>3, <1>4, <2>4 DEF Known
  <2> QED BY <2>1, <2>2, <2>3, <2>4
<1> QED BY <1>4, DifferApart

(* A leaf of the overlay that holds something is taken.                    *)
LEMMA MergeTakes ==
  ASSUME NEW base, NEW overlay, NEW q \in DOMAIN overlay, overlay[q] # EmptyDict
  PROVE  /\ q \in DOMAIN _deep_merge(base, overlay)
         /\ _deep_merge(base, overlay)[q] = overlay[q]
  BY DEF _deep_merge, Over, Only, Overlaid, Absorbed

(* So is any leaf at a path that the base may hold, or below it.           *)
LEMMA MergeCarries ==
  ASSUME NEW base, DOMAIN base \subseteq Known, NEW p \in Known,
         NEW overlay, NEW q \in DOMAIN overlay, q \in Paths, IsPrefixOf(p, q)
  PROVE  /\ q \in DOMAIN _deep_merge(base, overlay)
         /\ _deep_merge(base, overlay)[q] = overlay[q]
<1>1. ASSUME NEW r \in DOMAIN base, IsPrefixOf(q, r), r # q PROVE FALSE
  <2>1. r \in Known /\ r \in Paths /\ p \in Paths
    BY KnownPaths
  <2>2. IsPrefixOf(p, r)
    BY <1>1, <2>1, PrefixOrder
  <2>3. p = r
    BY <2>1, <2>2, KnownApart DEF Related
  <2> QED BY <1>1, <2>1, <2>3, PrefixOrder
<1>2. q \in Overlaid(base, overlay)
  BY <1>1 DEF Overlaid, Absorbed
<1> QED BY <1>2 DEF _deep_merge, Over, Only

(* What of a merge is not from the overlay is from the base.               *)
LEMMA MergeFrom ==
  ASSUME NEW base, NEW overlay, NEW q \in DOMAIN _deep_merge(base, overlay)
  PROVE  \/ q \in DOMAIN overlay /\ _deep_merge(base, overlay)[q] = overlay[q]
         \/ q \in DOMAIN base
  BY DEF _deep_merge, Over, Only, Overlaid

(* A path of the base stands, or is hidden by an empty dictionary, when    *)
(* the overlay holds nothing that has to do with it.                       *)
Shows(t, p, value) ==
  \/ p \in DOMAIN t /\ t[p] = value
  \/ \E q \in DOMAIN t : t[q] = EmptyDict /\ IsPrefixOf(p, q)

LEMMA MergeShows ==
  ASSUME NEW base, DOMAIN base \subseteq Known, NEW p \in DOMAIN base,
         NEW overlay, DOMAIN overlay \subseteq Paths,
         \A q \in DOMAIN overlay : Related(p, q) => overlay[q] = EmptyDict
  PROVE  Shows(_deep_merge(base, overlay), p, base[p])
<1> DEFINE merged == _deep_merge(base, overlay)
<1>1. p \in Known /\ p \in Paths
  BY KnownPaths
<1>2. CASE \E q \in DOMAIN overlay : IsPrefixOf(p, q)
  <2>1. PICK q \in DOMAIN overlay : IsPrefixOf(p, q)
    BY <1>2
  <2>2. overlay[q] = EmptyDict
    BY <2>1 DEF Related
  <2>3. q \in DOMAIN merged /\ merged[q] = overlay[q]
    BY <1>1, <2>1, MergeCarries
  <2> QED BY <2>1, <2>2, <2>3 DEF Shows
<1>3. CASE \A q \in DOMAIN overlay : ~ IsPrefixOf(p, q)
  <2>1. \A q \in DOMAIN overlay : q # p
    BY <1>1, <1>3, PrefixOrder
  <2>2. \A q \in DOMAIN overlay :
          Related(p, q) => overlay[q] = EmptyDict /\ IsPrefixOf(q, p) /\ q # p
    BY <1>3, <2>1 DEF Related
  <2>3. p \in DOMAIN merged /\ merged[p] = base[p]
    BY <2>1, <2>2 DEF _deep_merge, Over, Only, Overlaid
  <2> QED BY <2>3 DEF Shows
<1> QED BY <1>2, <1>3

(* What shows in the overlay of a second merge shows in its result.        *)
LEMMA ShowsThrough ==
  ASSUME NEW base, DOMAIN base \subseteq Known, NEW p \in Known, NEW value,
         NEW overlay, DOMAIN overlay \subseteq Paths, Shows(overlay, p, value)
  PROVE  Shows(_deep_merge(base, overlay), p, value)
<1>1. IsPrefixOf(p, p)
  BY KnownPaths, PrefixOrder
<1>2. PICK q \in DOMAIN overlay :
        IsPrefixOf(p, q) /\ (overlay[q] = EmptyDict \/ (q = p /\ overlay[q] = value))
  BY <1>1 DEF Shows
<1>3. /\ q \in DOMAIN _deep_merge(base, overlay)
      /\ _deep_merge(base, overlay)[q] = overlay[q]
  BY <1>2, MergeCarries
<1> QED BY <1>2, <1>3 DEF Shows

(* The two sides' own options.                                             *)
Common == {ReadOnly, RecallTopK, RecallScope, Markers, Budget, Buffer}

LEMMA DefaultsDomain == DOMAIN DEFAULTS = Common
  BY DEF DEFAULTS, CommonOptions, SEMANTIC_RECALL_DEFAULTS, ObservationalMemory, observation,
         Over, At, Common

LEMMA ModelsApart ==
  /\ ObserverModel \notin Common /\ ReflectorModel \notin Common
  /\ ObserverModel # ReflectorModel
<1>1. Len(ObserverModel) = 3 /\ ObserverModel[2] = "observation" /\ ObserverModel[3] = "model"
  BY DEF ObserverModel
<1>2. Len(ReflectorModel) = 3 /\ ReflectorModel[2] = "reflection" /\ ReflectorModel[3] = "model"
  BY DEF ReflectorModel
<1>3. /\ Len(ReadOnly) = 1 /\ Len(RecallTopK) = 2 /\ Len(RecallScope) = 2
      /\ Len(Markers) = 2 /\ Len(Budget) = 2 /\ Buffer[3] = "bufferTokens"
  BY DEF ReadOnly, RecallTopK, RecallScope, Markers, Budget, Buffer
<1> QED BY <1>1, <1>2, <1>3 DEF Common

LEMMA SetDefault ==
  ASSUME NEW t, DOMAIN t = Common, NEW path \in Common, NEW value
  PROVE  /\ DOMAIN _set_in(t, path, value) = Common
         /\ \A p \in Common : _set_in(t, path, value)[p] = IF p = path THEN value ELSE t[p]
<1>1. Common \subseteq Known /\ Common \subseteq Paths
  BY KnownPaths DEF Common, Known
<1>2. \A p \in Common : Related(p, path) <=> p = path
  BY <1>1, KnownApart, PrefixOrder DEF Related
<1> HIDE DEF Common
<1> QED BY <1>2 DEF _set_in, Over, At, Only

(* The defaults with what the legacy keys say. *)
Legacied(content) == _set_in(_set_in(DEFAULTS, Markers, Temporal(content)), Budget, Share(content))

LEMMA LegacyDefaults ==
  ASSUME NEW content
  PROVE  /\ DOMAIN Legacied(content) = Common
         /\ \A p \in Common : Legacied(content)[p] = Defaulted(content, p)
<1>1. Markers \in Common /\ Budget \in Common
  BY DEF Common
<1>2. Markers # Budget
  BY DEF Markers, Budget
<1> DEFINE marked == _set_in(DEFAULTS, Markers, Temporal(content))
<1>3. /\ DOMAIN marked = Common
      /\ \A p \in Common : marked[p] = IF p = Markers THEN Temporal(content) ELSE DEFAULTS[p]
  BY <1>1, DefaultsDomain, SetDefault
<1> HIDE DEF marked
<1>4. /\ DOMAIN _set_in(marked, Budget, Share(content)) = Common
      /\ \A p \in Common : _set_in(marked, Budget, Share(content))[p] =
                           IF p = Budget THEN Share(content) ELSE marked[p]
  BY <1>1, <1>3, SetDefault
<1> QED BY <1>2, <1>3, <1>4 DEF Legacied, marked, Defaulted

LEMMA BaseDomain ==
  ASSUME NEW env
  PROVE  /\ DOMAIN baseOptions(env) = Known
         /\ baseOptions(env)[ObserverModel] = env.observer
         /\ baseOptions(env)[ReflectorModel] = env.reflector
<1> DEFINE common == CommonOptions(env.temporal, env.share)
           seen == observationOptions(env.observer, env.share)
<1>1. DOMAIN common = {ReadOnly, RecallTopK, RecallScope, Markers, Budget}
  BY DEF CommonOptions, SEMANTIC_RECALL_DEFAULTS, ObservationalMemory, Over, At
<1>2. DOMAIN seen = {ObserverModel, Buffer} /\ seen[ObserverModel] = env.observer
  BY DEF observationOptions, observation, Over, At
<1>3. \A p \in DOMAIN common : p \in Common
  BY <1>1 DEF Common
<1> HIDE DEF common, seen
<1>4. baseOptions(env) = Over(common, Over(seen, At(ReflectorModel, env.reflector)))
  BY DEF baseOptions, common, seen
<1>5. DOMAIN baseOptions(env) = Known
  BY <1>1, <1>2, <1>4 DEF Known, Over, At
<1>6. ObserverModel \notin DOMAIN common /\ ReflectorModel \notin DOMAIN common
  BY <1>3, ModelsApart
<1>7. ReflectorModel \notin DOMAIN seen
  BY <1>2, ModelsApart DEF Common
<1> QED BY <1>2, <1>4, <1>5, <1>6, <1>7 DEF Over, At

(* What a server started from a file sees of what the user asked for.      *)
Bare(w, path) == \A e \in w.leaves : ~ Related(e[1], path)

SharedBudget(w) == Share(w.keys) = "true" \/ <<Budget, "true">> \in w.leaves

Sees(options, w) ==
  /\ \A e \in w.leaves : e[1] \in DOMAIN options /\ options[e[1]] = e[2]
  /\ \A p \in DOMAIN DEFAULTS :
       Bare(w, p) /\ (p = Buffer => ~ SharedBudget(w)) =>
         Shows(options, p, Defaulted(w.keys, p))
  /\ \A role \in DOMAIN ModelPath :
       /\ Bare(w, ModelPath[role])
       /\ RoleUser(w.keys, role) # NoModel \/ Legacy(w.keys, role) = NoModel
       => Shows(options, ModelPath[role], get_model(w.keys, role))

LEMMA SeesIsTheProperty == ServerSeesUserOptions <=> (wanted # NoServer => Sees(server, wanted))
  BY DEF ServerSeesUserOptions, Sees, Bare, Free, Shows, Uses, Named, Shared, SharedBudget

LEMMA KeysOfIntent ==
  ASSUME NEW content, NEW role \in DOMAIN ModelPath
  PROVE  /\ Share(Intent(content).keys) = Share(content)
         /\ Temporal(Intent(content).keys) = Temporal(content)
         /\ RoleUser(Intent(content).keys, role) = RoleUser(content, role)
         /\ Legacy(Intent(content).keys, role) = Legacy(content, role)
<1>1. \A key, default : key # "mastra" =>
        Get(OtherKeys(content), key, default) = Get(content, key, default)
  BY DEF Get, OtherKeys
<1>2. RoleKey[role] # "mastra"
  BY DEF RoleKey, ModelPath
<1> QED BY <1>1, <1>2 DEF Intent, Share, Temporal, RoleUser, Legacy

LEMMA ServerSees ==
  ASSUME NEW content, DOMAIN UserOptions(content) \subseteq Paths
  PROVE  Sees(buildMemoryOptions(_base_env(content),
                                 resolve_options(Temporal(content), Share(content),
                                                 UserOptions(content))),
              Intent(content))
<1> DEFINE user == UserOptions(content)
           w == Intent(content)
           first == Legacied(content)
           payload == _deep_merge(first, user)
           second == baseOptions(_base_env(content))
           options == _deep_merge(second, payload)
<1>1. /\ DOMAIN first = Common
      /\ \A p \in Common : first[p] = Defaulted(content, p)
  BY LegacyDefaults
<1>2. /\ DOMAIN second = Known
      /\ second[ObserverModel] = ModelOf(content, "observer")
      /\ second[ReflectorModel] = ModelOf(content, "reflector")
  BY BaseDomain DEF _base_env
<1>3. Common \subseteq Known /\ Common \subseteq Paths
  BY KnownPaths DEF Common, Known
<1>4. w.leaves = Leaves(user) /\ DOMAIN user \subseteq Paths
  BY DEF Intent
<1> HIDE DEF first, second, user, w
<1>5. DOMAIN payload \subseteq Paths
  BY <1>1, <1>3, <1>4, MergeFrom
<1>6. ASSUME NEW p, Bare(w, p), NEW q \in DOMAIN user, Related(p, q) PROVE user[q] = EmptyDict
  <2>1. Related(q, p)
    BY <1>6 DEF Related
  <2>2. user[q] # EmptyDict => <<q, user[q]>> \in w.leaves
    BY <1>4 DEF Leaves
  <2> QED BY <1>6, <2>1, <2>2 DEF Bare
<1>7. ASSUME NEW e \in w.leaves PROVE e[1] \in DOMAIN options /\ options[e[1]] = e[2]
  <2>1. PICK q \in DOMAIN user : user[q] # EmptyDict /\ e = <<q, user[q]>>
    BY <1>4 DEF Leaves
  <2>2. q \in DOMAIN payload /\ payload[q] = user[q]
    BY <2>1, MergeTakes
  <2> HIDE DEF payload
  <2>3. q \in DOMAIN options /\ options[q] = payload[q]
    BY <2>1, <2>2, MergeTakes
  <2> QED BY <2>1, <2>2, <2>3
<1>8. ASSUME NEW p \in DOMAIN DEFAULTS, Bare(w, p)
      PROVE  Shows(options, p, Defaulted(content, p))
  <2>1. p \in Common /\ p \in Known
    BY <1>3, DefaultsDomain
  <2>2. Shows(payload, p, first[p])
    BY <1>1, <1>3, <1>4, <1>6, <1>8, <2>1, MergeShows
  <2> HIDE DEF payload
  <2>3. Shows(options, p, first[p])
    BY <1>2, <1>5, <2>1, <2>2, ShowsThrough
  <2> QED BY <1>1, <2>1, <2>3
<1>9. ASSUME NEW role \in DOMAIN ModelPath, Bare(w, ModelPath[role])
      PROVE  Shows(options, ModelPath[role], ModelOf(content, role))
  <2> DEFINE p == ModelPath[role]
  <2>1. p \in {ObserverModel, ReflectorModel} /\ second[p] = ModelOf(content, role)
    BY <1>2 DEF ModelPath
  <2>2. p \in Known /\ p \notin Common
    BY <2>1, ModelsApart DEF Known
  <2>3. ASSUME NEW q \in DOMAIN payload, Related(p, q) PROVE payload[q] = EmptyDict
    <3>1. q \notin Common
      BY <1>3, <2>2, <2>3, KnownApart
    <3>2. q \in DOMAIN user /\ payload[q] = user[q]
      BY <1>1, <3>1, MergeFrom
    <3> QED BY <1>6, <1>9, <2>3, <3>2
  <2> HIDE DEF p, payload
  <2>4. Shows(options, p, second[p])
    BY <1>2, <1>5, <2>2, <2>3, MergeShows
  <2> QED BY <2>1, <2>4 DEF p
<1>10. ASSUME NEW role \in DOMAIN ModelPath,
              RoleUser(w.keys, role) # NoModel \/ Legacy(w.keys, role) = NoModel
       PROVE  get_model(w.keys, role) = ModelOf(content, role)
  BY <1>10, KeysOfIntent DEF w, get_model, ModelOf, _resolve_field
<1>11. "observer" \in DOMAIN ModelPath
  BY DEF ModelPath
<1>12. \A p \in DOMAIN DEFAULTS : Defaulted(w.keys, p) = Defaulted(content, p)
  BY <1>11, KeysOfIntent DEF w, Defaulted
<1>13. Sees(options, w)
  <2> HIDE DEF options
  <2> QED BY <1>7, <1>8, <1>9, <1>10, <1>12 DEF Sees
<1> QED BY <1>13 DEF buildMemoryOptions, deepMerge, resolve_options, Legacied, first, second, user, w

(* A server starts. *)
LEMMA SpawnSees ==
  ASSUME HomeInv, NEW c \in Callers, build_server_env(c), wanted' # NoServer
  PROVE  Sees(server', wanted')
<1>1. /\ clean /\ NobodySaves /\ ~ LoadRaises /\ Parsed = job[c].seen /\ wanted' = intended
      /\ server' = buildMemoryOptions(_base_env(job[c].seen), options_env_payload)
  BY DEF build_server_env
<1>2. Intent(Parsed) = wanted' /\ DOMAIN UserOptions(Parsed) \subseteq Paths
  BY <1>1 DEF HomeInv, SaveInv, JobInv, Sound
<1>3. server' = buildMemoryOptions(_base_env(Parsed),
                                   resolve_options(Temporal(Parsed), Share(Parsed),
                                                   UserOptions(Parsed)))
  BY <1>1 DEF options_env_payload
<1> QED BY <1>2, <1>3, ServerSees

LEMMA SeesStepKeeps ==
  HomeInv /\ ServerSeesUserOptions /\ [Next]_vars => ServerSeesUserOptions'
<1> SUFFICES ASSUME HomeInv, wanted # NoServer => Sees(server, wanted), [Next]_vars,
                    wanted' # NoServer
             PROVE  Sees(server', wanted')
  BY SeesIsTheProperty
  DEF ServerSeesUserOptions, Sees, Bare, Free, Shows, Uses, Named, Shared, SharedBudget
<1>1. CASE UNCHANGED <<server, wanted>>
  BY <1>1
<1>2. CASE \E c \in Callers : build_server_env(c)
  BY <1>2, SpawnSees
<1>3. CASE UNCHANGED vars
  BY <1>1, <1>3 DEF vars, homeVars
<1>4. CASE Next
  <2>1. PICK c \in Callers :
          Configure(c) \/ AdjustRecall(c) \/ ObserveTools(c) \/ KeepRule(c) \/ Launch(c)
    BY <1>4, NextParts
  <2>2. CASE Configure(c)
    BY <1>1, <2>2 DEF Configure, HomeCall, save_config, set_model, apply_preset, set_option,
       unset_option, reset_options, SaveOptions, BeginSaves, SaveStep, ReadExisting, SaveFails,
       Truncate, safe_save_config, launchVars
  <2>3. CASE AdjustRecall(c) \/ ObserveTools(c) \/ KeepRule(c)
    BY <1>1, <2>3, AdjustMoves, ObserveMoves, KeepMoves DEF homeVars
  <2>4. CASE Launch(c)
    BY <1>1, <1>2, <2>4 DEF Launch, do_initialize, _bring_up_server, post_setup, StartServer,
       EnsureRunning, SpawnServer, Health, Shutdown, LoadForServer, homeVars, launchVars
  <2> QED BY <2>1, <2>2, <2>3, <2>4
<1> QED BY <1>3, <1>4

(* Whatever the user's options are, and whichever calls set them: a server *)
(* that starts from an undisturbed file uses every one of them, and shows  *)
(* what the legacy keys say, the reported models and the defaults          *)
(* elsewhere; but for the buffer of a shared budget, of which the two      *)
(* sides' defaults differ.                                                 *)
THEOREM ServerUsesTheFile == Spec => []ServerSeesUserOptions
<1>1. Init => ServerSeesUserOptions
  BY DEF Init, HomeInit, ServerSeesUserOptions
<1>2. HomeInv /\ ServerSeesUserOptions /\ [Next]_vars => ServerSeesUserOptions'
  BY SeesStepKeeps
<1> QED BY <1>1, <1>2, HomeInvariant, PTL DEF Spec

-----------------------------------------------------------------------------
(* What the delegate is given to compress: every message, in its order,    *)
(* and the block once, behind the first message that is not a system       *)
(* message, or at the end when all of them are                             *)
(* (agent_context_engine.py, _inject_observation_block).                   *)
THEOREM BlockGoesInOnce ==
  ASSUME NEW Message, NEW messages \in Seq(Message), NEW injected
  PROVE  LET given == _inject_observation_block(messages, injected) IN
         /\ Len(given) = Len(messages) + 1
         /\ \E at \in 0..Len(messages) :
              /\ given[at + 1] = injected
              /\ \A i \in 1..at : given[i] = messages[i]
              /\ \A i \in (at + 1)..Len(messages) : given[i + 1] = messages[i]
              /\ \A i \in 1..(at - 1) : messages[i].role = "system"
              /\ \/ at \in 1..Len(messages) /\ messages[at].role # "system"
                 \/ at = Len(messages) /\ Speakers(messages) = {}
<1> DEFINE length == Len(messages)
           first == CHOOSE i \in Speakers(messages) : \A j \in Speakers(messages) : i <= j
           at == IF Speakers(messages) = {} THEN length ELSE first
           given == [i \in 1..(length + 1) |->
                       IF i <= at THEN messages[i]
                       ELSE IF i = at + 1 THEN injected ELSE messages[i - 1]]
<1>1. length \in Nat
  OBVIOUS
<1>2. Speakers(messages) # {} =>
        first \in Speakers(messages) /\ \A j \in Speakers(messages) : first <= j
  <2>1. Speakers(messages) \subseteq Nat
    BY DEF Speakers
  <2>2. ASSUME Speakers(messages) # {}
        PROVE  \E i \in Speakers(messages) : \A j \in Speakers(messages) : i <= j
    <3> DEFINE less == OpToRel(<, Nat)
    <3>1. IsWellFoundedOn(less, Nat)
      BY NatLessThanWellFounded
    <3>2. \A i, j \in Nat : j < i => <<j, i>> \in less
      BY DEF OpToRel
    <3> HIDE DEF less
    <3>3. PICK i \in Speakers(messages) :
            \A j \in Speakers(messages) : ~ (<<j, i>> \in less)
      BY <2>1, <2>2, <3>1, WFMin
    <3>4. \A j \in Speakers(messages) : i <= j
      <4> TAKE j \in Speakers(messages)
      <4>1. i \in Nat /\ j \in Nat
        BY <2>1
      <4>2. ~ (j < i)
        BY <3>2, <3>3, <4>1
      <4> QED BY <4>1, <4>2
    <3> QED BY <3>4
  <2> QED BY <2>2
<1>3. \A i \in 1..length : i \in Speakers(messages) <=> messages[i].role # "system"
  BY DEF Speakers
<1>4. Speakers(messages) \subseteq 1..length
  BY DEF Speakers
<1> HIDE DEF length, first
<1>5. at \in 0..length
  BY <1>1, <1>2, <1>4
<1>6. \A i \in 1..(at - 1) : messages[i].role = "system"
  <2> SUFFICES ASSUME NEW i \in 1..(at - 1) PROVE messages[i].role = "system"
    OBVIOUS
  <2>1. i \in 1..length /\ i < at
    BY <1>1, <1>5
  <2>2. i \notin Speakers(messages)
    BY <1>2, <2>1, <1>4, <1>1
  <2> QED BY <1>3, <2>1, <2>2
<1>7. \/ at \in 1..length /\ messages[at].role # "system"
      \/ at = length /\ Speakers(messages) = {}
  BY <1>2, <1>3, <1>4
<1>8. given = _inject_observation_block(messages, injected)
  BY DEF _inject_observation_block, length, first
<1> HIDE DEF at
<1>9. /\ \A i \in 1..at : given[i] = messages[i]
      /\ given[at + 1] = injected
      /\ \A i \in (at + 1)..length : given[i + 1] = messages[i]
  BY <1>1, <1>5
<1>10. Len(given) = length + 1
  BY <1>1
<1> HIDE DEF given
<1> QED BY <1>5, <1>6, <1>7, <1>8, <1>9, <1>10 DEF length

=============================================================================
