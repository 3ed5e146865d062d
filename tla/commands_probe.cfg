SPECIFICATION Spec
CONSTANTS
  Machines = {m1}
  Daemons = {daemon}
  Guis = {}
  HostOf <- MCHostOf
  Handlers = {h1}
  Tick = tick
  ProbeMax = 1
  MaxCommands = 2
  MaxFaults = 0
  Events = {"pull", "probe"}
  NoMachine = NoMachine
  m1 = m1  m2 = m2
PROPERTY ScanKeptByProbe
CHECK_DEADLOCK FALSE
