SPECIFICATION Spec
CONSTANTS
  Tenants = {t1}
  Callers = {c1}
  Findings = {f1, f2}
  Reports <- TwoFindings
  RiskAssurance = {t1}
  MaxChanges = 2
  MaxFaults = 0
  Unread = Unread  NoId = NoId  NoRun = NoRun  Rejected = Rejected
  f1 = f1  f2 = f2
PROPERTY StatusSurvives
CHECK_DEADLOCK FALSE
