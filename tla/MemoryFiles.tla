---------------------------- MODULE MemoryFiles ----------------------------
(***************************************************************************)
(* The routing rule in MEMORY.md.  memory_rules.py installs it as one more *)
(* entry and takes it out again, and Hermes' memory tool adds and removes  *)
(* entries; each reads the file and writes it anew.  USER.md is treated    *)
(* the same way, one file after the other.  A file is the set of its       *)
(* entries: none is written twice, and their order is never changed.       *)
(***************************************************************************)
EXTENDS HostCalls

CONSTANTS Entries,  \* entries the user's agent may write
          Quoting,  \* those of them that contain the anchor "[mastra-rule]"
          Rule      \* the entry the plugin installs

ASSUME NotesAssumption == Quoting \subseteq Entries /\ Rule \notin Entries

VARIABLES notes,  \* the entries in the file
          copy,   \* copy[c]: what caller c is about to write
          owed,   \* history: entries the agent has written, but for those a write
                  \* that failed half-way took
          rule,   \* history: whether the last install or uninstall has left the file
                  \* with the rule ("in") or without ("out"), or could not write it
                  \* ("unwritten")
          mixed   \* history: somebody else changed the file between the reading and
                  \* the writing of an install or an uninstall

notesVars == <<notes, copy, owed, rule, mixed>>

NotesInit ==
  /\ notes = {}
  /\ copy = [c \in Callers |-> {}]
  /\ owed = {}
  /\ rule = "out"
  /\ mixed = FALSE

Rewriting(c) == pc[c] \in {"notes", "notes2"}
NobodyRewrites == \A c \in Callers : ~ Rewriting(c)

Anchored == Quoting \cup {Rule}
_has_anchor == notes \cap Anchored # {}

(* The file is read, and rewritten only if that changes it. *)
Rewrite(c, changes, entries, leaves) ==
  /\ copy' = IF changes THEN [copy EXCEPT ![c] = entries] ELSE copy
  /\ rule' = leaves
  /\ mixed' = (mixed \/ ~ NobodyRewrites)
  /\ UNCHANGED <<notes, owed>>

AfterRead(changes) == IF changes THEN "notes" ELSE "idle"

(* A call of its own, or the end of post_setup(). *)
install_memory_rules(c) ==
  /\ \/ Begin(c, AfterRead(~ _has_anchor))
     \/ pc[c] = "rules" /\ Goto(c, AfterRead(~ _has_anchor))
  /\ Rewrite(c, ~ _has_anchor, notes \cup {Rule}, "in")

(* Faulty variant: everything from the rule on is cut off. *)
uninstall_memory_rulesToEnd(c) ==
  /\ Begin(c, AfterRead(_has_anchor))
  /\ Rewrite(c, _has_anchor, {}, "out")

uninstall_memory_rules(c) ==
  /\ Begin(c, AfterRead(_has_anchor))
  /\ Rewrite(c, _has_anchor, notes \ Anchored, "out")

(* write_text() truncates the file and fills it. *)
TruncateNotes(c) ==
  /\ pc[c] = "notes"
  /\ notes' = {}
  /\ Goto(c, "notes2")
  /\ UNCHANGED <<copy, owed, rule, mixed>>

FillNotes(c) ==
  /\ pc[c] = "notes2"
  /\ notes' = copy[c]
  /\ copy' = [copy EXCEPT ![c] = {}]
  /\ Goto(c, "idle")
  /\ UNCHANGED <<owed, rule, mixed>>

(* The file cannot be opened, and stays as it is; or it was truncated and  *)
(* cannot be filled to the end.  post_setup() logs either, and a call of   *)
(* its own raises it.                                                      *)
WriteNotesFails(c) ==
  /\ Rewriting(c)
  /\ notes' \in IF pc[c] = "notes" THEN {notes} ELSE SUBSET copy[c]
  /\ owed' = IF pc[c] = "notes" THEN owed ELSE owed \cap notes'
  /\ copy' = [copy EXCEPT ![c] = {}]
  /\ rule' = "unwritten"
  /\ Goto(c, "idle")
  /\ UNCHANGED mixed

(* Hermes' memory tool. *)
Remember(c) ==
  \E e \in Entries :
    /\ Once(c)
    /\ notes' = notes \cup {e}
    /\ owed' = owed \cup {e}
    /\ mixed' = (mixed \/ ~ NobodyRewrites)
    /\ UNCHANGED <<copy, rule>>

NotesStep(c) ==
  \/ install_memory_rules(c) \/ uninstall_memory_rules(c) \/ Remember(c)
  \/ TruncateNotes(c) \/ FillNotes(c) \/ WriteNotesFails(c)

(* However often the rule is installed and uninstalled, and a write fails  *)
(* before it has truncated the file, what the user's agent wrote stays;    *)
(* and after an install the file speaks of the rule, after an uninstall it *)
(* does not contain it (memory_rules.py:120, 142).  What the code does not *)
(* keep: entries of a file whose write failed half-way, an entry that      *)
(* quotes the anchor, which goes with the rule or stands in for it, and an *)
(* edit made during a rewrite.                                             *)
NotesKept ==
  NobodyRewrites /\ ~ mixed =>
    /\ owed \ Quoting \subseteq notes
    /\ rule = "in" => _has_anchor
    /\ rule = "out" => Rule \notin notes
=============================================================================
