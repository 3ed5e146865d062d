SPECIFICATION MCSpec
CONSTANTS
  Machines = {m1}
  Daemons = {daemon}
  Guis = {gui}
  HostOf <- MCHostOf
  Handlers = {h1, h2}
  Tick = tick
  ProbeMax = 1
  MaxCommands = 3
  MaxFaults = 1
  Events = {"pull", "probe", "bulk", "timer", "schedule", "window", "policy", "toggle"}
  NoMachine = NoMachine
  m1 = m1  m2 = m2  h1 = h1  h2 = h2  daemon = daemon  gui = gui
INVARIANT TypeOK
INVARIANT ProbeRateBounded
 
PROPERTY ImplementsQueue
PROPERTY PendingFetched
 
CHECK_DEADLOCK FALSE
