SPECIFICATION Spec
CONSTANTS
  Ssids = {s1}
  Passwords = {p1}
  Empty = Empty
  ClockMod = 64
  AttemptsMod = 4
  Settle = 1
  FirstGap = 1
  MaxShift = 2
  MaxGap = 3
  UntilGone = 3
  Uptime = 10
  MaxEvents = 1
  Horizon = 8
CHECK_DEADLOCK FALSE
INVARIANTS
  TypeOK
  KeepsAsking
  
  ForgottenStaysOffline
  WantedIsStored
PROPERTY WideningGap
