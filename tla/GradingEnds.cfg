SPECIFICATION FairSpec
CHECK_DEADLOCK FALSE
CONSTANTS
  p1 = p1  r1 = r1
  PRs <- OnePR
  Revs <- OneRev
  NoRev = NoRev
  Latest = Latest
  Worker = worker
  Writers <- RunsAndWorker
  Runs <- TwoRuns
  Heads <- TwoHeads
  PrOf <- SamePR
  BaseOf <- SameBase
  Packets <- OnePacket
  Touched <- All
  Readable <- AsTouched
  Passing <- OnlyFirst
  Indexed0 <- NoRevs
  Overlap = TRUE
  PageSize = 2
  MaxOthers = 0
  MaxFaults = 1
  MaxCrashes = 0
INVARIANTS HeldUpOnlyByFaults
PROPERTIES PendingIsResolved
