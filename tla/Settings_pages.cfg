\* One kind of runtime on three machines; three pages are opened one after the
\* other and the user does three more things.
SPECIFICATION Spec
CONSTANTS
  java = java
  none = none
  mine = mine
  untidy = untidy
  bad = bad
  dark = dark
  light = light
  x = x
  KindOrder <- OneKind
  Paths = {1, 2}
  NoPath = 0
  Broken = Broken
  Themes = {dark, light}
  Lists = {none, mine, untidy, bad}
  Tidied <- TidiedLists
  Refused = Refused
  Machines <- SomeMachines
  Imports <- SomeFiles
  FirstSettings <- Start
  DefaultForm <- Empty
  NoCache = NoCache
  NoPromise = NoPromise
  MaxMounts = 3
  MaxClicks = 3
INVARIANTS
  CacheTellsTruth
  DetectionExact
  RowsAreCurrent
  SettingsKeptApart
  PagesComeToRest
CHECK_DEADLOCK FALSE
