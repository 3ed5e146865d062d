SPECIFICATION MCSpec
CONSTANTS
  Scans = {s1, s2}
  Handlers = {h1, h2}
  Worker = worker  Boot = boot  Daemon = daemon
  Servers = {here, there}
  DefaultServer = here
  Tokens = {t1, t2}
  SyncTokens = {NoToken, t2}
  MaxScans = 3
  MaxStored = 1
  MaxFaults = 1
  Nothing = Nothing  NoServer = NoServer  NoToken = NoToken  Unreadable = Unreadable
  here = here  there = there  t1 = t1  t2 = t2  h1 = h1  h2 = h2
INVARIANT TypeOK
INVARIANT NewestScanShown
 
 
PROPERTY ScanEnds
CHECK_DEADLOCK FALSE
