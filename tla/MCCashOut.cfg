\* Three cash-outs: one fits in the wallet, two under the ceiling.
SPECIFICATION LiveSpec
CONSTANTS
  u1 = u1
  p1 = p1
  p2 = p2
  p3 = p3
  w1 = w1
  w2 = w2
  Users <- OneUser
  Payouts <- ThreePayouts
  Workers <- TwoWorkers
  Owner <- ThreeOwner
  Amount <- ThreeAmount
  Funds <- ThreeKobo
  Ceiling = 4
  PayoutMaxAttempts = 2
  MaxCrashes = 2
INVARIANTS TypeOK WalletConserved CeilingHolds OneCaller
  ReturnedOnlyIfDenied RecordMatchesRail
PROPERTIES OutcomeIsFinal Implements EventuallySettled
CHECK_DEADLOCK FALSE
