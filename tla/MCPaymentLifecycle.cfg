\* A payment of any kind; two goroutines draft, verify, confirm, cancel, expire and refund it.
SPECIFICATION Spec
CONSTANTS
  Payments = {pay1}
  Kinds <- AllKinds
  Sessions = {s1, s2}
  OpeningBalance = 1
  MaxWebhookTries = 2
  MaxHookTries = 2
  MaxFailures = 1
SYMMETRY Interchangeable
INVARIANT SucceededWasPaid
INVARIANT ReservedWhileItCounts
INVARIANT ToppedUpOnce
INVARIANT WalletExplained
PROPERTY OutcomeIsFinal
CHECK_DEADLOCK FALSE
