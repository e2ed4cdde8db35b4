SPECIFICATION QueueSpec
CONSTANTS
  c1 = c1  c2 = c2  c3 = c3
  webhook = webhook  reconciler = reconciler  replay = replay
  Commits <- TwoCommits
  Enqueuers <- DaemonCallers
  Resident <- DaemonThreads
  MaxAttempts = 2
  MaxCrashes = 0
  MaxFaults = 0
  NoCommit = NoCommit
PROPERTIES SucceededIsFinal
