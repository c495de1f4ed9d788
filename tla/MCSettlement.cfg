\* Two payments, one batch with two payout rows, two sessions, a reviewer and a
\* crash: cuts, refunds, payouts, late answers, requeues, reversals, dispositions
\* and re-evaluations of held payouts interleave.
SPECIFICATION Spec
CONSTANTS
  pay1 = pay1
  pay2 = pay2
  b1 = b1
  b2 = b2
  s1 = s1
  s2 = s2
  admin1 = admin1
  admin2 = admin2
  Payments <- TwoPayments
  Amount <- FourKoboEach
  Batches <- OneBatch
  Sessions <- TwoSessions
  Reviewers <- OneReviewer
  FeeBps = 2500
  MaxPayouts = 2
  PayoutMaxAttempts = 1
  Ceiling = 5
  MaxCrashes = 1
INVARIANTS BooksBalance WalletNeverOverdrawn CompletedWasTransferred ProcessedHasPayout
PROPERTIES OutcomeIsFinal ReservationKept
SYMMETRY AllSymmetry
CONSTRAINT Apart
CHECK_DEADLOCK FALSE
