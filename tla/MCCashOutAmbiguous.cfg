\* One cash-out and a rail whose errors may hide an executed transfer.
SPECIFICATION Spec
CONSTANTS
  u1 = u1
  p1 = p1
  p2 = p2
  p3 = p3
  w1 = w1
  w2 = w2
  Users <- OneUser
  Payouts <- OnePayout
  Workers <- TwoWorkers
  Owner <- OneOwner
  Amount <- OneAmount
  Funds <- ThreeKobo
  Ceiling = 4
  PayoutMaxAttempts = 3
  MaxCrashes = 1
INVARIANT NeverPaidAndReturned
CHECK_DEADLOCK FALSE
