SPECIFICATION FairSpec
CONSTANTS
  Webhook = webhook
  Reconciler = reconciler
  Replay = replay
  Commits <- TwoCommits
  Enqueuers <- NoReplay
  Resident <- Daemon
  MaxAttempts = 1
  MaxCrashes = 0
  MaxFaults = 0
  PinWriters = {}
  MaxReplays = 0
  NoCommit = 0
  StateWriteMayFail = FALSE
  RevisionMayBeNull = FALSE
PROPERTIES StateFileCatchesUp
