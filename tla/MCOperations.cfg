\* Two remittances of one area, two agents whose cap allows one payout, two
\* consoles, one one-time code each with two guesses.  One batch of two items
\* with two location replies, two tries of a job and one fault.  One purse with
\* two grants and two payments.  Two data orders, two workers, one text.
SPECIFICATION OperationsSpec
CONSTANTS
  d1 = d1
  d2 = d2
  w1 = w1
  w2 = w2
  a1 = a1
  a2 = a2
  b1 = b1
  p1 = p1
  m1 = m1
  x1 = x1
  Remits <- TwoDeals
  Agents <- TwoAgents
  Desks <- TwoActors
  Amount = 2
  Commission = 1
  AgentDailyCap = 2
  MaxGuesses = 2
  MaxCodes = 1
  Batches <- OneBatch
  Lines <- TwoDeals
  Replies <- TwoActors
  LinePay = 1
  Opening = 2
  JobTries = 2
  PageLimit = 2
  MaxRunFaults = 1
  Purses <- OnePurse
  Shops <- OneShop
  Spends <- TwoDeals
  Grants <- TwoActors
  GrantKobo = 2
  Price = 3
  MaxEdits = 4
  Orders <- TwoDeals
  Commands <- OneCommand
  Fulfillers <- TwoActors
  ClaimLimit = 2
  MaxAsks = 2
  MaxDataFaults = 1
SYMMETRY Symmetry
INVARIANTS RemittanceSafe BulkSafe PurseSafe DataOrderSafe
CHECK_DEADLOCK FALSE
