SPECIFICATION Spec
CONSTANTS
  Tenants = {t1}
  Callers = {c1, c2}
  Findings = {f1, f2}
  Reports <- OneFinding
  RiskAssurance = {t1}
  MaxChanges = 2
  MaxFaults = 1
  Unread = Unread  NoId = NoId  NoRun = NoRun  Rejected = Rejected
  f1 = f1  f2 = f2
INVARIANT TypeOK
INVARIANT AnswersCoverTheirRun
PROPERTY NewerGraphStays
CHECK_DEADLOCK FALSE
SYMMETRY Alike
