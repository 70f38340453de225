---------------------------- MODULE MCDurableRun ----------------------------
(***************************************************************************)
(* Small instances of DurableRun for TLC.                                  *)
(***************************************************************************)
EXTENDS DurableRun, TLC

Unlabelled(a, b) == [from |-> a, to |-> b, label |-> ""]

\* A condition that chooses between a delay and going straight to the merge.
BranchEdges ==
  { [from |-> 1, to |-> 2, label |-> "later"],
    [from |-> 1, to |-> 3, label |-> "now"],
    Unlabelled(2, 3) }

\* An executor followed by a delay.
ChainEdges == {Unlabelled(1, 2)}

TwoAttempts == [n \in Nodes |-> 2]
ThreeAttempts == [n \in Nodes |-> 3]
ShortTimeout == [n \in Nodes |-> 1]
LongTimeout == [n \in Nodes |-> 2]
ShortDelay == [n \in Nodes |-> 1]

\* With and without graph.overall_timeout_seconds.
SomeDeadline == {4, NoTime}

SlotSymmetry == Permutations(Slots)
=============================================================================
