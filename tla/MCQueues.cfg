\* Inbound: two messages of one conversation, two replicas that claim one row at
\* a time, one fault, one handler slower than its lease.  Bus: two payments of
\* one request link and a process that fails once.  Outbox: one message, two
\* replicas, three faults.  Webhooks: one message posted alone and with another,
\* two requests at a time, on each platform.
SPECIFICATION QueuesSpec
CONSTANTS
  m1 = m1
  m2 = m2
  r1 = r1
  r2 = r2
  a1 = a1
  a2 = a2
  w1 = w1
  t1 = t1
  s1 = s1
  s2 = s2
  Messages <- TwoMessages
  Chats <- OneChat
  Recipient <- InOneChat
  Replicas <- TwoReplicas
  Limit = 1
  MaxAttempts = 2
  MaxFailures = 1
  MaxOverruns = 1
  MaxTries = 2
  Attempts <- TwoAttempts
  Processes <- OneProcess
  MaxBusFaults = 1
  Texts <- OneText
  Senders <- TwoSenders
  b1 = b1
  b2 = b2
  x1 = x1
  x2 = x2
  h1 = h1
  h2 = h2
  Posts <- TwoPosts
  Contents <- TwoContents
  Carries <- Overlapping
  Handlers <- TwoHandlers
  MaxOutboxFaults = 3
INVARIANTS HeldOnce ToldFaithfully
PROPERTIES FinishedStays EveryRowEnds
CHECK_DEADLOCK FALSE
