---------------------------- MODULE MCIngestQueue ----------------------------
(* Instances of IngestQueue for TLC. *)
EXTENDS IngestQueue, TLC

CONSTANTS c1, c2, c3, webhook, reconciler, replay

TwoCommits     == {c1, c2}
ThreeCommits   == {c1, c2, c3}
OneCaller      == {webhook}
AllCallers     == {webhook, reconciler, replay}
DaemonCallers  == {webhook, reconciler}
DaemonThreads  == {webhook, reconciler} \cap Enqueuers

CommitSymmetry == Permutations(Commits)
=============================================================================
