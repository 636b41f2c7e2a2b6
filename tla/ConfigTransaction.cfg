\* Two callers, two slots of one project, every command. upsert_project is
\* the one command whose failure another may act upon before it is rolled back,
\* so it runs alone.
SPECIFICATION Spec
CONSTANTS
  a1 = a1
  e0 = e0
  f1 = f1
  f2 = f2
  s1 = s1
  s2 = s2
  x = x
  y = y
  dark = dark
  light = light
  Projects = {a1}
  Profiles = {f1, f2}
  Slots = {s1, s2}
  ProjectOf <- OneProject
  Candidates = {}
  NoCandidate = NoCandidate
  Commands = {x, y}
  Settings = {dark, light}
  DefaultSettings = dark
  Events = {e0, e1}
  MaxAuditEvents = 1
  Imports <- Files
  Alone = {"upsert_project"}
  Callers = {c1, c2}
  PersistMayFail = TRUE
  NoProfile = NoProfile
  NoEvent = NoEvent
  NoCaller = NoCaller
  NoCall = NoCall
INVARIANTS
  MemoryValid
  RunningProfileKept
  DiskFollowsMemory
  EventsSurvive
PROPERTIES
  RollbackRestores
  CommandAnswered
