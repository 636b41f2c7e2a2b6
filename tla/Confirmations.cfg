SPECIFICATION Spec
CONSTANTS
  NoBinding = NoBinding
  NoToken = NoToken
  Callers = {c1, c2}
  Tokens = {t1, t2, t3}
  Bindings = {b1, b2}
  TTL = 0
  MaxPending = 2
  TicksPerSecond = 2
  MaxNow = 2
CHECK_DEADLOCK FALSE
INVARIANT KeptUnlessCrowded
PROPERTY NoLateUse
PROPERTY SingleUse
