---------------------------- MODULE MCParallelRun ---------------------------
(***************************************************************************)
(* Small instances of ParallelRun for TLC.                                 *)
(***************************************************************************)
EXTENDS ParallelRun, TLC

\* 1 forks into 2 and into the condition 3, which takes the delay 4 or goes
\* straight to the join 5; 2 may be tried again.
Fork ==
  [nodes |-> << Node("fork", <<"left", "right">>, 5, FALSE, 1),
                Node("code", <<>>, NoPartner, FALSE, 2),
                Node("condition", <<"wait", "go">>, NoPartner, FALSE, 1),
                Plain("delay"),
                Node("join", <<>>, 1, FALSE, 1) >>,
   edges |-> {Edge(1, 2, "left"), Edge(1, 3, "right"), Edge(3, 4, "wait"),
              Edge(3, 5, "go"), Edge(4, 5, Unlabelled), Edge(2, 5, Unlabelled)}]

\* 1 chooses between a region with the branches 3 and 4 and the merge 6.
Skipped ==
  [nodes |-> << Node("condition", <<"go", "skip">>, NoPartner, FALSE, 1),
                Node("fork", <<"left", "right">>, 5, FALSE, 1),
                Plain("code"), Plain("delay"),
                Node("join", <<>>, 2, FALSE, 1),
                Node("code", <<>>, NoPartner, TRUE, 1) >>,
   edges |-> {Edge(1, 2, "go"), Edge(1, 6, "skip"), Edge(2, 3, "left"), Edge(2, 4, "right"),
              Edge(3, 5, Unlabelled), Edge(4, 5, Unlabelled), Edge(5, 6, Unlabelled)}]

\* One change of a draft: an edge removed, or led elsewhere.
Edits(g) ==
  {[g EXCEPT !.edges = @ \ {e}] : e \in g.edges}
    \cup {[g EXCEPT !.edges = (@ \ {e}) \cup {[e EXCEPT !.to = n]}] :
            e \in g.edges, n \in Ids(g)}

\* Every node that several edges meet at is declared a merge.
Declared(g) ==
  [g EXCEPT !.nodes = [n \in Ids(g) |->
     [g.nodes[n] EXCEPT !.merge = Cardinality(Into(g, n)) > 1
                                   /\ g.nodes[n].type # "join"]]]

\* The drafts within two changes of the first, and within one of the second;
\* those that only exchange the labels of the first are it again.
Arrows(g) == {<<e.from, e.to>> : e \in g.edges}
SmallDrafts ==
  LET twice == UNION {Edits(g) : g \in Edits(Fork)}
      edited == Edits(Fork) \cup Edits(Skipped) \cup {Fork}
                  \cup {g \in twice : Arrows(g) # Arrows(Fork)}
  IN edited \cup {Declared(g) : g \in Edits(Skipped)}

SlotSymmetry == Permutations(Slots)
=============================================================================
