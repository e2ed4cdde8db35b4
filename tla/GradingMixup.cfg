SPECIFICATION Spec
CHECK_DEADLOCK FALSE
CONSTANTS
  p1 = p1  r1 = r1
  PRs <- OnePR
  Revs <- OneRev
  NoRev = NoRev
  Latest = Latest
  Worker = worker
  Writers <- RunsAndWorker
  Runs <- TwoRuns
  Heads <- TwoHeads
  PrOf <- SamePR
  BaseOf <- SameBase
  Packets <- OnePacket
  Touched <- All
  Readable <- AsTouched
  Passing <- OnlyFirst
  Indexed0 <- OneRev
  Overlap = TRUE
  PageSize = 2
  MaxOthers = 1
  MaxFaults = 0
  MaxCrashes = 0
INVARIANTS PassIsEarned
