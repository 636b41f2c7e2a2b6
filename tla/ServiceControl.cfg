\* Two callers, one service that others control too, two confirmations.
SPECIFICATION Spec
CONSTANTS
  Callers = {c1, c2}
  Services = {v1}
  Tokens = {t1, t2}
  MaxPolls = 1
  NoCaller = NoCaller
  NoBinding = NoBinding
  NoCall = NoCall
INVARIANTS
  SentWasConfirmed
PROPERTIES
  OkIsHonest
  ControlUndisturbed
  ControlAnswered
