---------------------------- MODULE WorkflowGraph ----------------------------
(***************************************************************************)
(* Which graphs may be published: validate_graph_contract and what it      *)
(* calls (graph_validation.py, parallel_graph.py), on the shape of a graph *)
(* (schemas/workflow_graph.py).  Data contracts and expressions are left   *)
(* out, and so are the bounds on sizes.                                    *)
(*                                                                         *)
(* A node is a record                                                      *)
(*   [type, labels, partner, merge, attempts]                              *)
(* with the labels of the cases of a condition, its default last, or of    *)
(* the branches of a fork; the join of a fork or the fork of a join; the   *)
(* explicit exclusive merge; and retry.max_attempts.  An edge is a record  *)
(* [from, to, label].  entry_node is node 1.                               *)
(***************************************************************************)
EXTENDS Integers, Sequences, FiniteSets, SequencesExt

Entry == 1
Unlabelled == ""
NoPartner == 0

Node(type, labels, partner, merge, attempts) ==
  [type |-> type, labels |-> labels, partner |-> partner, merge |-> merge,
   attempts |-> attempts]
Plain(type) == Node(type, <<>>, NoPartner, FALSE, 1)
Edge(a, b, label) == [from |-> a, to |-> b, label |-> label]

Ids(g) == DOMAIN g.nodes
Of(g, type) == {n \in Ids(g) : g.nodes[n].type = type}
Out(g, n) == {e \in g.edges : e.from = n}
Into(g, n) == {e \in g.edges : e.to = n}
Labels(edges) == {e.label : e \in edges}
Successors(g, S) == {e.to : e \in {f \in g.edges : f.from \in S}}

\* The nodes on the ways from start, as far as stop.
Reach(g, start, stop) ==
  LET reached[k \in Nat] ==
        IF k = 0 THEN {start} \ {stop}
        ELSE (reached[k - 1] \cup Successors(g, reached[k - 1])) \ {stop}
  IN reached[Len(g.nodes)]

-----------------------------------------------------------------------------
(* The rules. *)

EdgesMeetNodes(g) == \A e \in g.edges : e.from \in Ids(g) /\ e.to \in Ids(g)

EntryLeadsEverywhere(g) ==
  /\ Into(g, Entry) = {}
  /\ Reach(g, Entry, NoPartner) = Ids(g)

Acyclic(g) == \A e \in g.edges : e.from \notin Reach(g, e.to, NoPartner)

\* Exactly one edge for each case and for the default.
OneEdgePerCase(g, n) ==
  LET labels == g.nodes[n].labels
  IN /\ IsInjective(labels)
     /\ ToSet(labels) = Labels(Out(g, n))
     /\ Cardinality(Out(g, n)) = Len(labels)

OneUnlabelledEdge(g, n) ==
  Cardinality(Out(g, n)) <= 1 /\ Labels(Out(g, n)) \subseteq {Unlabelled}

Matched(g, fork, join) ==
  /\ fork \in Of(g, "fork") /\ g.nodes[fork].partner = join
  /\ join \in Of(g, "join") /\ g.nodes[join].partner = fork

\* The nodes of the branch that an edge of the fork enters.
Branch(g, e) == Reach(g, e.to, g.nodes[e.from].partner)
Inside(g, fork) == UNION {Branch(g, e) : e \in Out(g, fork)}

\* Fault: a branch may end before its join.
EndsAnywhere(g, n) == TRUE
LeadsOn(g, n) == Out(g, n) # {}

\* validate_region
ClosedRegion(g, fork) ==
  LET join == g.nodes[fork].partner
      named == Out(g, fork)
  IN /\ Matched(g, fork, join)
     /\ Cardinality(named) >= 2
     /\ OneEdgePerCase(g, fork)
     /\ \A e \in named :
          /\ e.to # join
          /\ \A n \in Branch(g, e) :
               /\ LeadsOn(g, n)
               /\ \A f \in Into(g, n) : f.from \in Branch(g, e) \cup {fork}
     /\ \A e, f \in named : e # f => e.to # f.to /\ Branch(g, e) \cap Branch(g, f) = {}
     /\ \A e \in Into(g, join) : e.from \in Inside(g, fork)

\* The routes that lead to each node, as sets of edges; a region as a whole
\* is one step of a route (the routing signatures).
Routes(g) ==
  LET routes[n \in Ids(g)] ==
        IF n = Entry THEN {{}}
        ELSE IF g.nodes[n].type = "join" THEN routes[g.nodes[n].partner]
        ELSE UNION {{r \cup {e} : r \in routes[e.from]} : e \in Into(g, n)}
  IN routes

Exclusive(g, r, q) ==
  \E e \in r, f \in q :
    e.from = f.from /\ e.label # f.label /\ g.nodes[e.from].type = "condition"

ExclusiveMerge(g, n) ==
  Cardinality(Into(g, n)) > 1 =>
    /\ g.nodes[n].merge
    /\ \A r, q \in Routes(g)[n] : r # q => Exclusive(g, r, q)

\* branch_paths: where each node is, as the forks and branches around it.
Places(g) ==
  LET Onward(x) ==
        IF x.node = x.stop THEN {}
        ELSE IF g.nodes[x.node].type # "fork"
        THEN {[x EXCEPT !.node = e.to] : e \in Out(g, x.node)}
        ELSE {[node |-> e.to, stop |-> g.nodes[x.node].partner,
               path |-> Append(x.path, e)] : e \in Out(g, x.node)}
             \cup {[x EXCEPT !.node = g.nodes[x.node].partner]}
      places[k \in Nat] ==
        IF k = 0 THEN {[node |-> Entry, stop |-> NoPartner, path |-> <<>>]}
        ELSE places[k - 1] \cup UNION {Onward(x) : x \in places[k - 1]}
  IN {x \in places[Len(g.nodes)] : x.node # x.stop}

OnePlaceEach(g) == \A x, y \in Places(g) : x.node = y.node => x.path = y.path

Valid(g) ==
  /\ EdgesMeetNodes(g)
  /\ EntryLeadsEverywhere(g)
  /\ Acyclic(g)
  /\ \A n \in Of(g, "condition") : OneEdgePerCase(g, n)
  /\ \A n \in Of(g, "fork") : ClosedRegion(g, n)
  /\ \A n \in Of(g, "join") : Matched(g, g.nodes[n].partner, n)
  /\ \A n \in Ids(g) \ (Of(g, "condition") \cup Of(g, "fork")) : OneUnlabelledEdge(g, n)
  /\ \A n \in Ids(g) \ Of(g, "join") : ExclusiveMerge(g, n)
  /\ OnePlaceEach(g)

=============================================================================
