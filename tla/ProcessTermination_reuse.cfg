SPECIFICATION Spec
CONSTANTS
  x1 = x1
  x2 = x2
  x3 = x3
  p1 = p1
  img = img
  other = other
  Pids = {p1}
  Images = {img, other}
  NoProc = NoProc
  NoToken = NoToken
  NoBinding = NoBinding
  NoCall = NoCall
  Procs = {x1, x2, x3}
  PidOf <- MCPidOf
  ImageOf <- MCImageOf
  Callers = {c1}
  Tokens = {t1}
  BuiltIn = {}
  Extra = {img}
  MaxSecond = 1
CHECK_DEADLOCK FALSE
INVARIANT KillsOnlyConfirmed
PROPERTY ProtectedSpared
