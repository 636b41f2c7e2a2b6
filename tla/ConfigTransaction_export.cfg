\* One caller saves profiles of two slots that come from two scan results.
SPECIFICATION Spec
CONSTANTS
  a1 = a1
  e0 = e0
  f1 = f1
  f2 = f2
  s1 = s1
  s2 = s2
  x = x
  y = y
  dark = dark
  light = light
  Projects = {a1}
  Profiles = {f1, f2}
  Slots = {s1, s2}
  ProjectOf <- OneProject
  Candidates = {k1, k2}
  NoCandidate = NoCandidate
  Commands = {x}
  Settings = {dark, light}
  DefaultSettings = dark
  Events = {}
  MaxAuditEvents = 1
  Imports = {}
  Alone = {"upsert_project"}
  Callers = {c1}
  PersistMayFail = FALSE
  NoProfile = NoProfile
  NoEvent = NoEvent
  NoCaller = NoCaller
  NoCall = NoCall
INVARIANT ExportCanBeImported
