\* One tab, no restart: lost responses, rejected signatures, failed waits, old
\* or failed readings, and reloads.
CONSTANTS
  Client = alice
  Node = node
  t1 = t1
  r1 = r1
  r2 = r2
  Tabs = {t1}
  Requests = {r1, r2}
  Costs = {1, 2}
  MaxCost = 2
  Amounts = {3}
  MaxDeposit = 3
  MaxWork = 4
  MaxRestarts = 0
  MaxReloads = 2
  MaxFailures = 2
  InitialUsdc = 3
  Patient = TRUE
  NoAck = NoAck
  NoWallet = NoWallet
  NoDeposit = NoDeposit
  NoReceipt = NoReceipt
  NoSlot = NoSlot
  NoTab = NoTab
SYMMETRY Interchangeable
SPECIFICATION Spec
INVARIANTS
  
  StorageKeepsLastAck
PROPERTIES
  ClosesAtNewestCosigned
CHECK_DEADLOCK FALSE
