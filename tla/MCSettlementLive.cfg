\* Every queued payout leaves the queue for good.
SPECIFICATION LiveSpec
CONSTANTS
  pay1 = pay1
  pay2 = pay2
  b1 = b1
  b2 = b2
  s1 = s1
  s2 = s2
  admin1 = admin1
  admin2 = admin2
  Payments <- OnePayment
  Amount <- FourKobo
  Batches <- OneBatch
  Sessions <- OneSession
  Reviewers <- NoReviewer
  FeeBps = 2500
  MaxPayouts = 1
  PayoutMaxAttempts = 2
  Ceiling = 3
  MaxCrashes = 1
PROPERTY QueuedIsSettled
CHECK_DEADLOCK FALSE
