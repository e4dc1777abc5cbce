\* Two nodes, fetches as slow as the interval, so that polls overlap.
CONSTANTS
  n1 = n1
  n2 = n2
  Nodes = {n1, n2}
  Interval = 1
  Grace = 2
  NewGrace = 1
  MaxDelay = 1
  Settled = 6
  Never = Never
  NoEntry = NoEntry
SYMMETRY Interchangeable
SPECIFICATION ListSpec
INVARIANTS
  DeadNodesGo
  RunningNodesShown
