\* Three payments of one invoice, tier or service, two overlapping hooks and one
\* refund; a group of one or two members with four payments, one of which fails,
\* is refunded or meets a hook that fails.
SPECIFICATION CollectionsSpec
CONSTANTS
  p1 = p1
  p2 = p2
  p3 = p3
  h1 = h1
  h2 = h2
  ana = ana
  ben = ben
  c1 = c1
  c2 = c2
  c3 = c3
  c4 = c4
  Appenders <- AllAppenders
  Payments <- ThreePayments
  Purposes <- OnePurpose
  Amount <- Amounts
  InvoiceTotal = 3
  Capacity = 2
  Runs <- TwoRuns
  MaxHookFaults = 1
  MaxTierEdits = 1
  MaxRefunds = 1
  Users <- TwoUsers
  Creator = ana
  Targets = {1, 2}
  Contributors <- FourPayments
  Others <- NobodyElse
  MaxMishaps = 1
INVARIANTS PurchasesSafe ThriftSafe
SYMMETRY Symmetry
CHECK_DEADLOCK FALSE
