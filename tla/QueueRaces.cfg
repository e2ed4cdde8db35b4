SPECIFICATION QueueSpec
CONSTANTS
  c1 = c1  c2 = c2  c3 = c3
  webhook = webhook  reconciler = reconciler  replay = replay
  Commits <- TwoCommits
  Enqueuers <- AllCallers
  Resident <- DaemonThreads
  MaxAttempts = 2
  MaxCrashes = 1
  MaxFaults = 1
  NoCommit = NoCommit
SYMMETRY CommitSymmetry
INVARIANTS RunningIsOwned AttemptsBounded
