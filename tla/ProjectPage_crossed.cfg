\* Two profiles that are started and end together.
SPECIFICATION Spec
CONSTANTS
  p1 = p1
  p2 = p2
  s1 = s1
  s2 = s2
  NoSession = NoSession
  Profiles = {p1, p2}
  Sessions = {s1, s2}
  ProfileOf <- TwoProfiles
  MaxTerminal = 2
  MaxPending = 2
  MaxMounts = 1
  MaxClicks = 2
CHECK_DEADLOCK FALSE
PROPERTY EventStateSettles
