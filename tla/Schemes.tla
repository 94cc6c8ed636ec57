------------------------------- MODULE Schemes --------------------------------
(***************************************************************************)
(* Schemes (scheme.rs): a decision graph of probe bundles, and a fallback  *)
(* that continues every stream.                                            *)
(***************************************************************************)
EXTENDS Fallback, DecisionGraphs

\* Scheme::validate.
IsValidScheme(s) ==
  /\ s.capacity >= 2
  /\ IsValidFallback(s.fallback, s.capacity)
  /\ \A id \in NodeIds(s) : IsValidBundle(NodeOf(s, id).action, s.capacity)
  /\ IsGraph(s, [id \in NodeIds(s) |-> Outcomes(NodeOf(s, id).action)])

\* The iterator of a content (Address): the node whose atom is next, or None, and the
\* fallback in use, if any.
NewIterator(s) == [next_node |-> s.root, fallback |-> None]

\* The fallback in use, or the one that the call for the first of its atoms makes.
Current(s, bytes, it) ==
  IF it.fallback = None THEN NewFallback(s.fallback, bytes, s.capacity) ELSE it.fallback

\* next_checked at a node: the atom, and the iterator after it.
Descended(node, it, atom) == <<atom, [it EXCEPT !.next_node = ChildFor(node, atom)]>>

NodeStep(s, bytes, it) ==
  LET node == NodeOf(s, it.next_node)
  IN Descended(node, it, EvaluateBundle(node.action, s.codec, bytes))

\* next_checked past the last node.
Continued(it, next) == <<next[1], [it EXCEPT !.fallback = next[2]]>>

FallbackStep(s, bytes, it) == Continued(it, NextAtom(Current(s, bytes, it)))

StreamStep(s, bytes, it) ==
  IF it.next_node # None THEN NodeStep(s, bytes, it) ELSE FallbackStep(s, bytes, it)

\* Atoms and an iterator, one atom later.
Later(atoms, step) == <<Append(atoms, step[1]), step[2]>>

\* Scheme::prefix: the first n atoms of a content's stream.
Prefix(s, bytes, n) ==
  FoldLeft(LAMBDA last, k : Later(last[1], StreamStep(s, bytes, last[2])),
           <<<<>>, NewIterator(s)>>, [k \in 1..n |-> k])[1]
=============================================================================
