\* Two callers race over two sessions of one profile.
SPECIFICATION Spec
CONSTANTS
  p1 = p1
  s1 = s1
  s2 = s2
  c1 = c1
  c2 = c2
  Profiles = {p1}
  Sessions = {s1, s2}
  ProfileOf <- TwoOfOne
  Callers = {c1, c2}
  MaxTerminal = 1
  Forks = {TRUE, FALSE}
  WaitMayFail = TRUE
  NoSession = NoSession
  NoCaller = NoCaller
INVARIANTS
  RunnerInv
  TreesOverlapOnlyAtHandover
  NoOrphanProcess
  StopOkIsHonest
  HistoryKept
PROPERTY LifecycleImplemented
SYMMETRY RaceSymmetry
