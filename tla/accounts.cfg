SPECIFICATION Spec
CONSTANTS
  Accounts = {a}
  Handlers = {h1, h2}
  CodeNames = {c}
  Ttl = 1
  Leeway = 0
  Unenforced = FALSE
  MaxTime = 2
  MaxFresh = 3
  MaxSessions = 2
  MaxEvents = 1
  NoSes = NoSes
  NoLoc = NoLoc
INVARIANT TypeOK
INVARIANT OldPasswordIsOut
INVARIANT FullSessionHadSecondFactor
PROPERTY RefusedWithinTtl
SYMMETRY HandlerSymmetry
CHECK_DEADLOCK FALSE
