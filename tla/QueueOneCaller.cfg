SPECIFICATION FairQueueSpec
CONSTANTS
  c1 = c1  c2 = c2  c3 = c3
  webhook = webhook  reconciler = reconciler  replay = replay
  Commits <- ThreeCommits
  Enqueuers <- OneCaller
  Resident <- OneCaller
  MaxAttempts = 2
  MaxCrashes = 1
  MaxFaults = 0
  NoCommit = NoCommit
INVARIANTS HeldIsRunning
PROPERTIES SucceededIsFinal ImplementsJobQueue QueuedIsDrained
