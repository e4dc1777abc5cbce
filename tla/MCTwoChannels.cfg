\* Two clients, each with a channel to the same node, one signed state each:
\* every deadline within the bound of the clock.
CONSTANTS
  Clients = {alice, bob}
  Nodes = {node}
  ChannelNonces = {0}
  Updates <- MCOneUpdate
  Amounts = {2}
  ChallengeWindow = 1
  ReclaimTimeout = 1
  InitialUsdc = 4
  MaxTime = 2
SPECIFICATION FairSpec
INVARIANTS
  EscrowBacksDeposits
PROPERTIES
  ChallengeResolves
  DepositReleased
CHECK_DEADLOCK FALSE
