----------------------------- MODULE MCApprovals ----------------------------
EXTENDS Approvals, TLC

\* 1 forks into the draft 2, its review 3 and the gate 4 of the revision
\* policy, and into the plain gate 5; the tool 6 joins them, gated by 4.
GateEdges == {<<1, 2>>, <<2, 3>>, <<3, 4>>, <<1, 5>>, <<4, 6>>, <<5, 6>>}
GatedTool == [n \in {6} |-> 4]
OneReview == [n \in Gates |-> 1]
=============================================================================
