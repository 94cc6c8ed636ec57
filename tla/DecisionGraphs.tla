---------------------------- MODULE DecisionGraphs -----------------------------
(***************************************************************************)
(* The decision graph of a scheme (scheme.rs): nodes with an action, the   *)
(* branches on its outcomes, and a default child.  Node ids start at 0.    *)
(***************************************************************************)
EXTENDS Naturals, Sequences

CONSTANT None      \* no node

ASSUME NoneAssumption == None \notin Nat

Node(action, branches, default_child) ==
  [action |-> action, branches |-> branches, default_child |-> default_child]

NodeOf(s, id) == s.nodes[id + 1]

NodeIds(s) == {i - 1 : i \in DOMAIN s.nodes}

Children(node) ==
  {node.branches[i][2] : i \in DOMAIN node.branches}
    \cup (IF node.default_child = None THEN {} ELSE {node.default_child})

\* The nodes marked reachable once the nodes below id n have been looked at: one
\* pass in the order of the ids is enough, for edges lead to greater ids.
Reachable(s) ==
  LET reach[n \in 0..Len(s.nodes)] ==
        IF n = 0 THEN {0}
        ELSE reach[n - 1] \cup (IF n - 1 \in reach[n - 1] THEN Children(NodeOf(s, n - 1))
                                ELSE {})
  IN reach[Len(s.nodes)]

\* Mutant: a node may lead back to itself.
IsForwardOrLoop(s, id) ==
  \A child \in Children(NodeOf(s, id)) : child \in NodeIds(s) /\ child >= id

\* Branches lead to nodes with greater ids only.
IsForward(s, id) ==
  \A child \in Children(NodeOf(s, id)) : child \in NodeIds(s) /\ child > id

\* The branch atoms are in strict order, and values the action can have.
AreBranches(s, id, outcomes) ==
  LET node == NodeOf(s, id) IN
  /\ \A i \in DOMAIN node.branches :
       node.branches[i][1] < s.capacity /\ node.branches[i][1] < outcomes
  /\ \A i \in 1..(Len(node.branches) - 1) : node.branches[i][1] < node.branches[i + 1][1]

\* What Scheme::validate asks of the graph, given how many outcomes the action of
\* each node has.
IsGraph(s, outcomes) ==
  /\ s.root = IF s.nodes = <<>> THEN None ELSE 0
  /\ \A id \in NodeIds(s) :
       /\ AreBranches(s, id, outcomes[id])
       /\ IsForward(s, id)
  /\ NodeIds(s) \subseteq Reachable(s)

\* DecisionNode::child_for.
ChildFor(node, atom) ==
  IF \E i \in DOMAIN node.branches : node.branches[i][1] = atom
  THEN node.branches[CHOOSE i \in DOMAIN node.branches : node.branches[i][1] = atom][2]
  ELSE node.default_child
=============================================================================
