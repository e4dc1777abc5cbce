\* Three accounts that may all be listed, so that removing one moves another
\* past a third; stakes and minimum stakes of zero included.
CONSTANTS
  owner = owner
  n1 = n1
  n2 = n2
  Accounts = {owner, n1, n2}
  Owner = owner
  NoEscrow = none
  m1 = m1
  m2 = m2
  Metas = {m1, m2}
  NoMeta = nometa
  Stakes = {0, 1, 2}
  InitialUsdc = 2
  InitialMinStake = 1
SYMMETRY Interchangeable
SPECIFICATION Spec
INVARIANTS
  ListIsActiveNodes
PROPERTIES
  ImplementsStakeBook
