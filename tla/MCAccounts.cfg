\* One payment drafted in a conversation, a second channel racing at the
\* confirmation.  Two persons contending for one number, two requests at a time,
\* two screenings.  One business with two papers filed twice, two requests at a
\* time.  Two customers on two channels, two card requests, three codes, two
\* areas with one agent each, one gate.  Two tabs on the flows named, one on the
\* others, two payments.
SPECIFICATION AccountsSpec
CONSTANTS
  u1 = u1
  u2 = u2
  n1 = n1
  c1 = c1
  c2 = c2
  k1 = k1
  k2 = k2
  e1 = e1
  s1 = s1
  s2 = s2
  t1 = t1
  t2 = t2
  r1 = r1
  r2 = r2
  g1 = g1
  m1 = m1
  none = none
  MaxDrafts = 1
  RaceStates <- RacePoints
  People <- TwoPersons
  IDs <- OneNumber
  Clerks <- TwoHands
  Nobody = none
  MaxScreens = 2
  Firms <- OneFirm
  Papers <- TwoKeys
  Editions <- OneEdition
  Missing = none
  Offices <- TwoHands
  MaxFilings = 2
  Cards <- TwoCards
  Customers <- TwoPersons
  Areas <- TwoAreas
  Tellers <- TwoTellers
  HomeOf <- HomeArea
  Gates <- OneGate
  Chats <- TwoHands
  NoOne = none
  MaxPickups = 3
  Browsers <- TwoHands
  RacingFlows <- RaceFlows
  MaxWebPays = 2
SYMMETRY Symmetry
INVARIANTS AlwaysKnows AccountsSafe
PROPERTY GivenUpIsFinal
CHECK_DEADLOCK FALSE
