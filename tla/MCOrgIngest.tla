----------------------------- MODULE MCOrgIngest -----------------------------
(* Three runs of two commits, two of them at a time, and one purge. *)
EXTENDS OrgIngest, TLC

CONSTANTS a, b

MCCommits   == {a, b}
MCCalls     == 1..3
MCTemplates == {None, 100}
MCPinned    == Revision(Continuous, "pinned")
MCLatest    == {Revision(Continuous, "latest")}
Symmetry    == Permutations(MCCommits)
=============================================================================
