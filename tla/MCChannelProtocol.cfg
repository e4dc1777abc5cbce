\* Two tabs, two request slots, a node restart and a failure.
CONSTANTS
  Client = alice
  Node = node
  t1 = t1
  t2 = t2
  r1 = r1
  r2 = r2
  Tabs = {t1, t2}
  Requests = {r1, r2}
  Costs = {1}
  MaxCost = 1
  Amounts = {2}
  MaxDeposit = 2
  MaxWork = 2
  MaxRestarts = 1
  MaxReloads = 0
  MaxFailures = 1
  InitialUsdc = 2
  Patient = FALSE
  NoAck = NoAck
  NoWallet = NoWallet
  NoDeposit = NoDeposit
  NoReceipt = NoReceipt
  NoSlot = NoSlot
  NoTab = NoTab
SYMMETRY Interchangeable
SPECIFICATION Spec
INVARIANTS
  CloseAlwaysVerifies
  AckedIsBilateral
  PaidForWorkDone
CHECK_DEADLOCK FALSE
