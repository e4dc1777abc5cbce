\* One channel, two conflicting states at the highest nonce.
CONSTANTS
  Clients = {alice}
  Nodes = {node}
  ChannelNonces = {0}
  Updates <- MCThreeUpdates
  Amounts = {1, 2}
  ChallengeWindow = 2
  ReclaimTimeout = 2
  InitialUsdc = 3
  MaxTime = 4
SPECIFICATION Spec
INVARIANTS
  TypeOK
  PaidAsSigned
  FinalizePaysNewest
PROPERTIES
  ChallengeOnlyAdvances
  ImplementsPromise
CHECK_DEADLOCK FALSE
