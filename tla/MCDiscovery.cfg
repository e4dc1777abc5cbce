\* One node, two lifetimes, a coordinator restart; one miss in a row is survived.
CONSTANTS
  n1 = n1
  Nodes = {n1}
  Offers <- MCOneOffer
  JobSpecs <- MCNoJobs
  HeartbeatTimeout = 3
  GcInterval = 1
  RetryInterval = 1
  HeartbeatInterval = 1
  Refresh = 1
  ValidFor = 3
  MaxStarts = 2
  MaxOutages = 1
  MaxMissed = 1
  NoEntry = NoEntry
  NoBid = NoBid
  NoWalk = NoWalk
  NoOffer = NoOffer
  Waiting = Waiting
SPECIFICATION FairSpec
INVARIANTS
  StaysListed
PROPERTIES
  BidSurvivesMiss
  RunningNodeListed
  StoppedNodeForgotten
