\* Two callers, one session with descendants: what must eventually happen.
SPECIFICATION Spec
CONSTANTS
  p1 = p1
  s1 = s1
  s2 = s2
  c1 = c1
  c2 = c2
  Profiles = {p1}
  Sessions = {s1}
  ProfileOf <- OneOfOne
  Callers = {c1, c2}
  MaxTerminal = 1
  Forks = {TRUE}
  WaitMayFail = TRUE
  NoSession = NoSession
  NoCaller = NoCaller
PROPERTIES
  ExitIsReported
  TreeEnds
