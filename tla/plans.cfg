SPECIFICATION MCSpec
CONSTANTS
  Names = {acme, hyphen}
  Norm <- MCNorm
  Keys = {k1, s1}
  StripeKeys = {s1}
  NameOf <- MCNameOf
  Tiers = {"growth", "corporate"}
  EnterpriseTiers = {"corporate"}
  Rank <- MCRank
  Handlers = {h1, h2}
  Pods = {p1, p2}
  PodName <- MCPodName
  Ttl = 2
  Timeout = 1
  Duration = 1
  MaxTime = 3
  MaxFaults = 1
  NoRow = NoRow  NoEntry = NoEntry  NoKey = NoKey  NoLoc = NoLoc
  acme = acme  hyphen = hyphen  k1 = k1  s1 = s1  h1 = h1
INVARIANT TypeOK
INVARIANT AnswerWasCurrent
INVARIANT LicensedNotPending
PROPERTY RequestsAnswered
CHECK_DEADLOCK FALSE
