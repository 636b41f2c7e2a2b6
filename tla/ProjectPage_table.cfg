\* One profile, restarted once, on a page that is entered twice.
SPECIFICATION Spec
CONSTANTS
  p1 = p1
  p2 = p2
  s1 = s1
  s2 = s2
  NoSession = NoSession
  Profiles = {p1}
  Sessions = {s1, s2}
  ProfileOf <- OneProfile
  MaxTerminal = 1
  MaxPending = 2
  MaxMounts = 2
  MaxClicks = 3
CHECK_DEADLOCK FALSE
INVARIANTS
  EndedIsShownEnded
  RunningStaysShown
PROPERTY LastSessionSettles
