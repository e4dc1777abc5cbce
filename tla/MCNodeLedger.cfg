\* Two overlapping requests, two wallets, a restart, work past the deposit.
CONSTANTS
  r1 = r1
  r2 = r2
  w1 = w1
  w2 = w2
  Requests = {r1, r2}
  Wallets = {w1, w2}
  Unissued <- MCUnissued
  Costs = {1, 2}
  MaxCost = 2
  Deposits = {0, 1}
  MaxDeposit = 1
  NoAck = NoAck
  NoWallet = NoWallet
  NoDeposit = NoDeposit
  NoReceipt = NoReceipt
  MaxWork = 5
  MaxRestarts = 1
SYMMETRY Interchangeable
SPECIFICATION Spec
INVARIANTS
  ReceiptsInOrder
  OvershootBounded
PROPERTIES
  ImplementsMeter
