SPECIFICATION Spec
CONSTANTS
  Tenants = {t1}
  Emails = {alice, bob}
  Sessions = {reg1, reg2, addon1, addon2, invite1, foreign1}
  Kind <- MCKind
  For <- MCFor
  Buyer <- MCBuyer
  Enterprise = {reg1}
  Handlers = {h1}
  MaxSessions = 2
  ConsoleOwners = {bob}
  MaxFaults = 1
  Nobody = Nobody
  NoRow = NoRow  NoEvent = NoEvent
  Occurring <- MCOccurring
  t1 = t1  alice = alice  bob = bob
  reg1 = reg1  reg2 = reg2  addon1 = addon1  addon2 = addon2  invite1 = invite1  foreign1 = foreign1
CHECK_DEADLOCK FALSE
INVARIANT OneLicensePerSession
