SPECIFICATION FairSpec
CONSTANTS
  t1 = t1
  t2 = t2
  Tabs <- MCTabs
  Kept = t1
  Teams <- MCTeams
  Steps = 2
  q1 = q1
  q2 = q2
  Quotes <- MCQuotes
  MaxNonce = 2
  PromptEvents = TRUE
  None = None
INVARIANTS
  SignedIsReviewed
  NeverAskedTwice
  ActiveIsVerified
PROPERTIES
  HashIsFollowed
CHECK_DEADLOCK FALSE
