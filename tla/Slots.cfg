SPECIFICATION FairSpec
CONSTANTS
  s1 = s1
  a1 = a1
  a2 = a2
  a3 = a3
  b1 = b1
  c1 = c1
  c2 = c2
  Jobs = {s1, a1, a2, b1, c1, c2}
  Tenants = {"smoke", "A", "B", "C"}
  TenantOf <- MCTenantOf
  Reserved = {"smoke"}
  Impatient = {c2}
  ProcessCap = 3
  TenantCap = 1
INVARIANTS
  CountersCountTheRunning
  SlotsKept
  SleepersHaveNoTurn
  NoIdleSlot
PROPERTIES
  StartInOrder
  WaitersServed

CHECK_DEADLOCK FALSE
