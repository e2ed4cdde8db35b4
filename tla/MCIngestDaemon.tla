--------------------------- MODULE MCIngestDaemon ---------------------------
(* Instances of IngestDaemon for TLC. *)
EXTENDS IngestDaemon

TwoCommits == 1..2

NoWebhook  == {Reconciler, Replay}
NoReplay   == {Webhook, Reconciler}
Daemon     == Enqueuers \ {Replay}
=============================================================================
