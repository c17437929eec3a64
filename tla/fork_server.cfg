SPECIFICATION ForkSpec
CONSTANTS
  c1 = c1
  c2 = c2
  c3 = c3
  c4 = c4
  c5 = c5
  Connections <- MCClients
  MaxPending = 2
SYMMETRY ClientSymmetry
\* when every client has been served the server waits for more
CHECK_DEADLOCK FALSE
INVARIANTS
  CountIsUnreaped
  DiesOnlyAfterTear
  AtMostOneZombieLeft
