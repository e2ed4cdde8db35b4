SPECIFICATION Spec
CHECK_DEADLOCK FALSE
CONSTANTS
  p1 = p1  r1 = r1
  PRs <- OnePR
  Revs <- OneRev
  NoRev = NoRev
  Latest = Latest
  Worker = worker
  Writers <- RunsAndWorker
  Runs <- ThreeRuns
  Heads <- ThreeHeads
  PrOf <- SamePR
  BaseOf <- SameBase
  Packets <- TwoPackets
  Touched <- InAndOut
  Readable <- AsTouched
  Passing <- FirstPacket
  Indexed0 <- OneRev
  Overlap = FALSE
  PageSize = 2
  MaxOthers = 1
  MaxFaults = 1
  MaxCrashes = 1
INVARIANTS PassIsEarned OneGradingComment CommentAgreesWithStatus PinIsReleased
PROPERTIES ImplementsStore
