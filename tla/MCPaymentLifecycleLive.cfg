\* A card collection: what was paid is resolved and its purpose applied.
SPECIFICATION LiveSpec
CONSTANTS
  Payments = {pay1}
  Kinds <- CardCollections
  Sessions = {s1, s2}
  OpeningBalance = 0
  MaxWebhookTries = 1
  MaxHookTries = 2
  MaxFailures = 0
PROPERTY PaidIsResolved
PROPERTY PurposeApplied
CHECK_DEADLOCK FALSE
