\* Two nodes compete for a job while they register, bid, stop and expire.
CONSTANTS
  n1 = n1
  n2 = n2
  Nodes = {n1, n2}
  Offers <- MCOffers
  JobSpecs <- MCOneJob
  HeartbeatTimeout = 2
  GcInterval = 1
  RetryInterval = 1
  HeartbeatInterval = 1
  Refresh = 2
  ValidFor = 2
  MaxStarts = 1
  MaxOutages = 0
  MaxMissed = 0
  NoEntry = NoEntry
  NoBid = NoBid
  NoWalk = NoWalk
  NoOffer = NoOffer
  Waiting = Waiting
SYMMETRY Interchangeable
SPECIFICATION Spec
INVARIANTS
  SilentNodesGo
  CheapestSteadyOffer
