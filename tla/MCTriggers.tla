------------------------------ MODULE MCTriggers ----------------------------
EXTENDS Triggers, TLC

\* The target is saved, published or archived twice, in any order; the other
\* definition only serves a second request under the same key.
FewRevisions == [d \in Definitions |-> IF d = Target THEN 3 ELSE 2]
ClientSymmetry == Permutations(Clients)
=============================================================================
