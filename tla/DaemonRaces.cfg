SPECIFICATION FairSpec
CONSTANTS
  Webhook = webhook
  Reconciler = reconciler
  Replay = replay
  Commits <- TwoCommits
  Enqueuers <- NoReplay
  Resident <- Daemon
  MaxAttempts = 2
  MaxCrashes = 1
  MaxFaults = 0
  PinWriters = {}
  MaxReplays = 0
  NoCommit = 0
  StateWriteMayFail = FALSE
  RevisionMayBeNull = TRUE
INVARIANTS LedgerAttemptsIncrease StatusAgreesWithStateFile OneIngestAtATime
PROPERTIES HeadIsSettled UsesQueueAsSpecified
