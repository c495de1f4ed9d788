\* Two requests at a time throughout.  Two steps of the sign-in, two methods, two
\* wrong answers.  Two applications for two merchants of one name, two numbers.
\* One seat beside the owner, two sessions, two password links.  Four orders of
\* two merchants, two rows.  One sale of two units, two services, one reader.
\* A payment and one other record, one purger, one administrator's request.  Three
\* entries of the audit log, two appends, two sweepers, three sweeps.  One
\* chat and two numbers, a third account, two codes, one wrong answer, two addresses.  Two movements, two
\* ticks, two scans, one verdict or two.  Two people with one browser and one account
\* in common, two confirmed alerts, two verdicts.
SPECIFICATION OfficeSpec
CONSTANTS
  h1 = h1
  h2 = h2
  r1 = r1
  r2 = r2
  l1 = l1
  l2 = l2
  k1 = k1
  u1 = u1
  p1 = p1
  d1 = d1
  i1 = i1
  i2 = i2
  c1 = c1
  n1 = n1
  n2 = n2
  owner = owner
  customer = customer
  none = none
  Posts <- TwoHands
  Challenges <- TwoRows
  MaxMethods = 2
  Budget = 2
  NoStep = none
  Desks <- TwoHands
  Applications <- TwoRows
  Shops <- TwoLinks
  Savers <- OneSaver
  PoolSize = 2
  MaxSlugs = 2
  Visitors <- TwoHands
  Seats <- OneSeat
  Sessions <- TwoRows
  Links <- TwoLinks
  Owner = owner
  Calls <- TwoHands
  Orders <- FourOrders
  Records <- TwoLinks
  Credentials <- TwoRows
  NoRecord = none
  Sales <- OneSale
  Units <- TwoTickets
  Gatekeepers <- TwoRows
  Readers <- OneReader
  Hooks <- TwoHands
  NoSale = none
  Items <- TwoRecords
  MayBe <- EitherKind
  Customer = customer
  Purgers <- OneSaver
  Clerks <- OneSaver
  Nothing = none
  Authors <- TwoHands
  Sweepers <- TwoRows
  MaxEntries = 3
  MaxSweeps = 3
  Chats <- OneChat
  Numbers <- TwoNumbers
  MaxRows = 3
  Opened <- AChatAndANumber
  MaxCodes = 2
  MaxTries = 1
  Hands <- TwoHands
  Papers <- OneSale
  Addresses <- TwoLinks
  Nobody = none
  Movements <- TwoRecords
  Scenarios <- FiveScenarios
  Scanners <- TwoHands
  Officers <- OneSaver
  Window = 1
  MaxClock = 2
  MaxScans = 2
  NoMove = none
  People <- TwoPeople
  Browsers <- OneReader
  Accounts <- OneSale
  Requests <- TwoHands
  MaxConfirmed = 2
  MaxRulings = 2
  NoRing = none
SYMMETRY Symmetry
CONSTRAINT Apart
INVARIANTS OfficeSafe RetriesAreSafe
CHECK_DEADLOCK FALSE
