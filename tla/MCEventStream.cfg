CONSTANTS
  Requests = {r1, r2}
  Capacity = 1
  Attempts = 2
  MaxCommits = 3
  MaxFaults = 3
SPECIFICATION FairSpec
INVARIANTS TypeOK NoLeak NothingMissed ResyncCloses
PROPERTIES Told Drains
CHECK_DEADLOCK FALSE
