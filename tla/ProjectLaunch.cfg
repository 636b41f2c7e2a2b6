\* Six states of the disk, one scan and two changes.
SPECIFICATION Spec
CONSTANTS
  f1 = f1
  f2 = f2
  s1 = s1
  s2 = s2
  t1 = t1
  t2 = t2
  Paths <- SomePaths
  Nowhere = Nowhere
  Unreadable = Unreadable
  SkipNames = {"target"}
  Trees <- Disks
  ProjectPaths <- Roots
  MAX_SCAN_DEPTH = 3
  MaxScans = 1
  MaxChanges = 1
  BLOCKED_LAUNCH_ENTRYPOINTS = {"cmd"}
  ProjectRoot <- TheRoot
  Profiles = {f1, f2}
  NoProfile = NoProfile
  Saves <- UserSaves
  ImportedFiles <- Backups
  EditedFiles <- Edits
  Tokens = {t1, t2}
  NoToken = NoToken
  Sessions = {s1, s2}
  ProfileOf <- OfProfiles
  NoSession = NoSession
  Idle = Idle
INVARIANTS
  ScanExact
  ScanConfined
  StartedWasConfirmed
  StartedInsideProject
  StartedIsPermitted
  SuggestionCanBeSaved
SYMMETRY Alike
