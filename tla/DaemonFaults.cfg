SPECIFICATION Spec
CONSTANTS
  Webhook = webhook
  Reconciler = reconciler
  Replay = replay
  Commits <- TwoCommits
  Enqueuers <- NoWebhook
  Resident <- Daemon
  MaxAttempts = 1
  MaxCrashes = 1
  MaxFaults = 1
  PinWriters = {grader}
  MaxReplays = 2
  NoCommit = 0
  StateWriteMayFail = TRUE
  RevisionMayBeNull = TRUE
INVARIANTS TypeOK TerminalRowHasLedgerRow StateFileIsBacked ParentIsInAtlas
