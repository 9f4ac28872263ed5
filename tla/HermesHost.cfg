SPECIFICATION Spec
CONSTANTS
  Callers = {agent, worker}
  agent = agent
  worker = worker
  Engine = agent
  MaxCalls = 3
  TopKs = {4}
  Boosted = 8
  NoTopK = NoTopK
  Keys = {plan}
  plan = plan
  Kinds = {skill}
  skill = skill
  NoOne = NoOne
  MaxSession = 1
  BadTopK = BadTopK
  NoServer = NoServer
  NoText = NoText
  Homes <- MCHomes
  Words <- MCWords
  Models = {m1}
  m1 = m1
  Entries = {fact, quoting}
  fact = fact
  quoting = quoting
  Quoting = {quoting}
  Rule = Rule
  Settings <- MCSettings
  Options <- MCOptions
  Unset <- MCUnset
INVARIANTS
  NotesKept
  WrittenOncePerSession
  BoostUndone
  LoneSaveKeeps
  ServerSeesUserOptions
CHECK_DEADLOCK FALSE
