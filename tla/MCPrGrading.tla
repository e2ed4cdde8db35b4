---------------------------- MODULE MCPrGrading ----------------------------
(* Instances of PrGrading for TLC. *)
EXTENDS PrGrading

CONSTANTS p1, r1

OnePR  == {p1}
OneRev  == {r1}
NoRevs == {}

TwoRuns   == 1..2
ThreeRuns == 1..3
RunsAndWorker == Runs \cup {Worker}

TwoHeads == 1..2
ThreeHeads == 1..3

SamePR == [h \in Heads |-> p1]
SameBase == [h \in Heads |-> r1]

OnePacket  == 1..1
TwoPackets == 1..2

\* Every head touches every packet.
All == [h \in Heads |-> Packets]
\* The second head adds a packet, the third takes both out.
InAndOut == [h \in Heads |-> CASE h = 1 -> {1} [] h = 2 -> {1, 2} [] h = 3 -> {}]

\* A file can be read at the heads that touch it.
AsTouched == {b \in Bodies : b[2] \in Touched[b[1]]}

OnlyFirst == {1} \X Packets
\* The packet that the second head adds is the one that fails.
FirstPacket == {b \in AsTouched : b[2] = 1}
=============================================================================
