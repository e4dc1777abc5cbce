\* Two nodes; a receipt a channel; any number of prompts, clicks and reloads.
CONSTANTS
  n1 = n1
  n2 = n2
  Nodes = {n1, n2}
  MaxNonce = 1
  MaxPending = 1
  NoNode = NoNode
  NoState = NoState
  NoReceipt = NoReceipt
  NoRead = NoRead
SYMMETRY Interchangeable
SPECIFICATION Spec
INVARIANTS
  StorageIsOwn
  UsesOwnChannel
  FundedIsKnown
PROPERTIES
  ErasedOnlyIfStale
CONSTRAINT Bounded
CHECK_DEADLOCK FALSE
