-------------------------- MODULE AddressStreamProofs --------------------------
(***************************************************************************)
(* Proofs about the address streams: the walk through a validated decision *)
(* graph ends, and the static continuation evaluates a content at every    *)
(* nonzero point of the field once in each pass, where its optimized       *)
(* points are in ascending order.                                          *)
(***************************************************************************)
EXTENDS AddressStream, PathLemmas

(***************************************************************************)
(* The walk through the decision graph.                                    *)
(***************************************************************************)

\* An iterator that has yielded n atoms and is at a node has passed n nodes before it.
IsWalk(s, it, n) ==
  it.next_node # None => it.next_node \in NodeIds(s) /\ n <= it.next_node

\* A static continuation in use is that of the scheme, at some depth.
StaticAt(s, c, depth) ==
  [kind |-> "StaticPolynomialV2", bytes |-> c, descriptor |-> s.fallback, depth |-> depth]

IsStatic(s, c, it) ==
  it.fallback # None /\ s.fallback.kind = "StaticPolynomialV2" =>
    \E depth \in Nat : it.fallback = StaticAt(s, c, depth)

IsIterator(it) == it = [next_node |-> it.next_node, fallback |-> it.fallback]

IInv ==
  /\ scheme \in Schemes /\ IsValidScheme(scheme)
  /\ iterators = [c \in Contents |-> iterators[c]]
  /\ emitted = [c \in Contents |-> emitted[c]]
  /\ \A c \in Contents : /\ IsList(emitted[c])
                         /\ IsIterator(iterators[c])
                         /\ IsWalk(scheme, iterators[c], Len(emitted[c]))
                         /\ IsStatic(scheme, c, iterators[c])

\* The ids of the nodes of a scheme that somebody wrote down.
LEMMA NodeIdsFacts ==
  ASSUME NEW s \in Schemes
  PROVE  /\ Len(s.nodes) \in Nat
         /\ \A id : id \in NodeIds(s) <=> id \in Nat /\ id < Len(s.nodes)
<1>1. Len(s.nodes) \in Nat /\ DOMAIN s.nodes = 1..Len(s.nodes)
  BY SchemeAssumption, ListDef DEF IsList
<1>2. ASSUME NEW id \in Nat, id < Len(s.nodes)
      PROVE  id \in NodeIds(s)
  <2>1. id + 1 \in DOMAIN s.nodes /\ id = (id + 1) - 1
    BY <1>1, <1>2
  <2> QED BY <2>1 DEF NodeIds
<1>3. ASSUME NEW id \in NodeIds(s)
      PROVE  id \in Nat /\ id < Len(s.nodes)
  BY <1>1 DEF NodeIds
<1> QED BY <1>1, <1>2, <1>3

\* DecisionNode::child_for finds a child of the node, or none.
LEMMA ChildForFacts ==
  ASSUME NEW node, NEW atom, ChildFor(node, atom) # None
  PROVE  ChildFor(node, atom) \in Children(node)
<1>1. CASE \E i \in DOMAIN node.branches : node.branches[i][1] = atom
  <2> DEFINE i == CHOOSE i \in DOMAIN node.branches : node.branches[i][1] = atom
  <2>1. i \in DOMAIN node.branches
    BY <1>1
  <2>2. ChildFor(node, atom) = node.branches[i][2]
    BY <1>1 DEF ChildFor
  <2> HIDE DEF i
  <2> QED BY <2>1, <2>2 DEF Children
<1>2. CASE ~(\E i \in DOMAIN node.branches : node.branches[i][1] = atom)
  <2>1. ChildFor(node, atom) = node.default_child
    BY <1>2 DEF ChildFor
  <2> QED BY <2>1 DEF Children
<1> QED BY <1>1, <1>2

\* next_checked at a node of a validated graph: the next node, if any, is a later one.
LEMMA DescentGoesOn ==
  ASSUME NEW s \in Schemes, IsValidScheme(s), NEW id \in NodeIds(s), NEW atom,
         ChildFor(NodeOf(s, id), atom) # None
  PROVE  /\ ChildFor(NodeOf(s, id), atom) \in NodeIds(s)
         /\ ChildFor(NodeOf(s, id), atom) > id
BY ChildForFacts DEF IsValidScheme, IsGraph, IsForward

\* A scheme's stream starts at its first node, or past the last one.
LEMMA StartsAtRoot ==
  ASSUME NEW s \in Schemes, IsValidScheme(s)
  PROVE  s.root # None => s.root \in NodeIds(s) /\ 0 <= s.root
<1>1. s.root = IF s.nodes = <<>> THEN None ELSE 0
  BY DEF IsValidScheme, IsGraph
<1>2. ASSUME s.root # None
      PROVE  s.root = 0 /\ Len(s.nodes) # 0
  <2>1. s.nodes # <<>> /\ s.root = 0
    BY <1>1, <1>2
  <2>2. IsList(s.nodes)
    BY SchemeAssumption DEF IsList
  <2> QED BY <2>1, <2>2 DEF IsList
<1> QED BY <1>2, NodeIdsFacts

\* Address::new.
LEMMA IteratorsStart ==
  ASSUME Init
  PROVE  IInv
<1>1. scheme \in Schemes /\ IsValidScheme(scheme)
  BY DEF Init
<1>2. ASSUME NEW c \in Contents
      PROVE  /\ emitted[c] = <<>>
             /\ iterators[c] = [next_node |-> scheme.root, fallback |-> None]
  BY DEF Init, NewIterator
<1>3. IsList(<<>>) /\ Len(<<>>) = 0
  BY ListDef DEF IsList
<1>4. scheme.root # None => scheme.root \in NodeIds(scheme) /\ 0 <= scheme.root
  BY <1>1, StartsAtRoot
<1>5. ASSUME NEW c \in Contents
      PROVE  /\ IsList(emitted[c])
             /\ IsIterator(iterators[c])
             /\ IsWalk(scheme, iterators[c], Len(emitted[c]))
             /\ IsStatic(scheme, c, iterators[c])
  BY <1>2, <1>3, <1>4 DEF IsIterator, IsWalk, IsStatic
<1> QED BY <1>1, <1>5 DEF Init, IInv

\* One atom more of the content c leaves every other stream as it is.
LEMMA YieldKeeps ==
  ASSUME IInv, NEW c \in Contents, NEW atom, NEW it, Yield(c, <<atom, it>>),
         IsIterator(it), IsWalk(scheme, it, Len(emitted[c]) + 1), IsStatic(scheme, c, it)
  PROVE  IInv'
<1>1. /\ emitted' = [emitted EXCEPT ![c] = Append(@, atom)]
      /\ iterators' = [iterators EXCEPT ![c] = it]
      /\ scheme' = scheme
  BY DEF Yield
<1>2. /\ emitted'[c] = Append(emitted[c], atom) /\ iterators'[c] = it
      /\ \A d \in Contents \ {c} : emitted'[d] = emitted[d] /\ iterators'[d] = iterators[d]
      /\ emitted' = [d \in Contents |-> emitted'[d]]
      /\ iterators' = [d \in Contents |-> iterators'[d]]
  BY <1>1 DEF IInv
<1>3. IsList(emitted'[c]) /\ Len(emitted'[c]) = Len(emitted[c]) + 1
  BY <1>2, ListAppend DEF IInv
<1>4. ASSUME NEW d \in Contents
      PROVE  /\ IsList(emitted'[d])
             /\ IsIterator(iterators'[d])
             /\ IsWalk(scheme', iterators'[d], Len(emitted'[d]))
             /\ IsStatic(scheme', d, iterators'[d])
  <2>1. CASE d = c
    BY <1>1, <1>2, <1>3, <2>1
  <2>2. CASE d # c
    BY <1>1, <1>2, <2>2 DEF IInv
  <2> QED BY <2>1, <2>2
<1> QED BY <1>1, <1>2, <1>4 DEF IInv

\* next_checked at a node.
LEMMA NodeAtomKeeps ==
  ASSUME IInv, NEW c \in Contents, NodeAtom(c)
  PROVE  IInv'
<1> DEFINE it == iterators[c]
           node == NodeOf(scheme, it.next_node)
           atom == EvaluateBundle(node.action, scheme.codec, c)
           after == [it EXCEPT !.next_node = ChildFor(node, atom)]
<1>1. it.next_node # None /\ Yield(c, <<atom, after>>)
  BY DEF NodeAtom, NodeStep, Descended
<1>2. /\ scheme \in Schemes /\ IsValidScheme(scheme) /\ IsList(emitted[c])
      /\ IsIterator(it) /\ IsWalk(scheme, it, Len(emitted[c])) /\ IsStatic(scheme, c, it)
  BY DEF IInv
<1> HIDE DEF it, atom
<1>3. after = [next_node |-> ChildFor(node, atom), fallback |-> it.fallback]
  BY <1>2 DEF IsIterator
<1>4. IsIterator(after) /\ IsStatic(scheme, c, after)
  BY <1>2, <1>3 DEF IsIterator, IsStatic
<1>5. it.next_node \in NodeIds(scheme) /\ Len(emitted[c]) <= it.next_node
  BY <1>1, <1>2 DEF IsWalk
<1>6. IsWalk(scheme, after, Len(emitted[c]) + 1)
  <2> SUFFICES ASSUME ChildFor(node, atom) # None
               PROVE  /\ ChildFor(node, atom) \in NodeIds(scheme)
                      /\ Len(emitted[c]) + 1 <= ChildFor(node, atom)
    BY <1>3 DEF IsWalk
  <2>1. ChildFor(node, atom) \in NodeIds(scheme) /\ ChildFor(node, atom) > it.next_node
    BY <1>2, <1>5, DescentGoesOn
  <2>2. ChildFor(node, atom) \in Nat /\ it.next_node \in Nat /\ Len(emitted[c]) \in Nat
    BY <1>2, <1>5, <2>1, NodeIdsFacts, ListDef
  <2> QED BY <1>5, <2>1, <2>2
<1> QED BY <1>1, <1>2, <1>4, <1>6, YieldKeeps

\* next_checked past the last node.
LEMMA FallbackAtomKeeps ==
  ASSUME IInv, NEW c \in Contents, FallbackAtom(c)
  PROVE  IInv'
<1> DEFINE it == iterators[c]
           now == Current(scheme, c, it)
           next == NextAtom(now)
           atom == next[1]
           after == [it EXCEPT !.fallback = next[2]]
<1>1. it.next_node = None /\ Yield(c, <<atom, after>>)
  BY DEF FallbackAtom, FallbackStep, Continued
<1>2. IsIterator(it) /\ IsStatic(scheme, c, it)
  BY DEF IInv
<1> HIDE DEF it, atom, next
<1>3. after = [next_node |-> it.next_node, fallback |-> next[2]]
  BY <1>2 DEF IsIterator
<1>4. IsIterator(after) /\ IsWalk(scheme, after, Len(emitted[c]) + 1)
  BY <1>1, <1>3 DEF IsIterator, IsWalk
<1>5. ASSUME scheme.fallback.kind = "StaticPolynomialV2"
      PROVE  \E depth \in Nat : next[2] = StaticAt(scheme, c, depth)
  <2>1. PICK depth \in Nat : now = StaticAt(scheme, c, depth)
    <3>1. CASE it.fallback = None
      <4>1. now = StaticAt(scheme, c, 0)
        BY <1>5, <3>1 DEF Current, NewFallback, NewStatic, StaticAt
      <4> QED BY <4>1
    <3>2. CASE it.fallback # None
      BY <1>2, <1>5, <3>2 DEF Current, IsStatic
    <3> QED BY <3>1, <3>2
  <2> HIDE DEF now
  <2>2. next[2] = AfterStatic(now)
    BY <2>1 DEF next, NextAtom, StaticAt
  <2>3. AfterStatic(now) = StaticAt(scheme, c, depth + 1)
    BY <2>1 DEF AfterStatic, StaticAt
  <2> QED BY <2>2, <2>3
<1>6. IsStatic(scheme, c, after)
  BY <1>3, <1>5 DEF IsStatic
<1> QED BY <1>1, <1>4, <1>6, YieldKeeps

\* Every step keeps the invariant.
LEMMA StreamsKeep ==
  IInv /\ [Next]_vars => IInv'
<1> SUFFICES ASSUME IInv, [Next]_vars PROVE IInv'
  OBVIOUS
<1>1. CASE Next
  BY <1>1, NodeAtomKeeps, FallbackAtomKeeps DEF Next
<1>2. CASE UNCHANGED vars
  BY <1>2 DEF vars, IInv
<1> QED BY <1>1, <1>2

\* Scheme::validate makes the walk of every content end: past as many atoms as the
\* scheme has nodes, the content is with its fallback, whatever the graph and the
\* values of its bundles.
THEOREM WalksEnd == Spec => []WalkEnds
<1>1. IInv => WalkEnds
  <2> SUFFICES ASSUME IInv, NEW c \in Contents, Len(emitted[c]) >= Len(scheme.nodes),
                      iterators[c].next_node # None
               PROVE  FALSE
    BY DEF WalkEnds
  <2> DEFINE id == iterators[c].next_node
  <2>1. scheme \in Schemes /\ IsList(emitted[c]) /\ id \in NodeIds(scheme) /\ Len(emitted[c]) <= id
    BY DEF IInv, IsWalk
  <2>2. id \in Nat /\ id < Len(scheme.nodes) /\ Len(emitted[c]) \in Nat
        /\ Len(scheme.nodes) \in Nat
    BY <2>1, NodeIdsFacts, ListDef
  <2> QED BY <2>1, <2>2
<1> QED BY <1>1, IteratorsStart, StreamsKeep, PTL DEF Spec

(***************************************************************************)
(* The points of a pass of the static continuation.                        *)
(***************************************************************************)

\* Four of the points 1..p, in ascending order.
AreAscending(points, p) ==
  /\ points[1] \in 1..p /\ points[2] \in 1..p /\ points[3] \in 1..p /\ points[4] \in 1..p
  /\ points[1] < points[2] /\ points[2] < points[3] /\ points[3] < points[4]

\* The slots after the first four, in the order of their points.
Past(points, candidate) ==
  Skip(Skip(Skip(Skip(candidate, points[1]), points[2]), points[3]), points[4])

\* A candidate ends as far past its place as optimized points are up to there.
LEMMA PastIs ==
  ASSUME NEW p \in Nat, NEW points, AreAscending(points, p), NEW k \in Nat
  PROVE  Past(points, k) = IF k < points[1] THEN k
                           ELSE IF k + 1 < points[2] THEN k + 1
                           ELSE IF k + 2 < points[3] THEN k + 2
                           ELSE IF k + 3 < points[4] THEN k + 3
                           ELSE k + 4
<1> DEFINE a == points[1]
           b == points[2]
           c == points[3]
           d == points[4]
<1>1. a \in Nat /\ b \in Nat /\ c \in Nat /\ d \in Nat /\ a < b /\ b < c /\ c < d
  BY DEF AreAscending
<1>2. Past(points, k) = Skip(Skip(Skip(Skip(k, a), b), c), d)
  BY DEF Past
<1> HIDE DEF a, b, c, d
<1>3. Skip(Skip(Skip(Skip(k, a), b), c), d)
        = IF k < a THEN k ELSE IF k + 1 < b THEN k + 1 ELSE IF k + 2 < c THEN k + 2
          ELSE IF k + 3 < d THEN k + 3 ELSE k + 4
  <2>1. CASE k < a
    BY <1>1, <2>1 DEF Skip
  <2>2. CASE k >= a /\ k + 1 < b
    BY <1>1, <2>2 DEF Skip
  <2>3. CASE k >= a /\ k + 1 >= b /\ k + 2 < c
    BY <1>1, <2>3 DEF Skip
  <2>4. CASE k >= a /\ k + 1 >= b /\ k + 2 >= c /\ k + 3 < d
    BY <1>1, <2>4 DEF Skip
  <2>5. CASE k >= a /\ k + 1 >= b /\ k + 2 >= c /\ k + 3 >= d
    BY <1>1, <2>5 DEF Skip
  <2> QED BY <1>1, <2>1, <2>2, <2>3, <2>4, <2>5
<1> QED BY <1>2, <1>3 DEF a, b, c, d

\* The slots of a pass have the points 1..p, each of them once.
PointAt(points, slot) == IF slot < 4 THEN points[slot + 1] ELSE Past(points, slot - 4 + 1)

LEMMA PointsApart ==
  ASSUME NEW p \in Nat, NEW points, AreAscending(points, p)
  PROVE  /\ \A k \in 0..(p - 1) : PointAt(points, k) \in 1..p
         /\ \A j, k \in 0..(p - 1) : PointAt(points, j) = PointAt(points, k) => j = k
         /\ \A v \in 1..p : \E k \in 0..(p - 1) : PointAt(points, k) = v
<1> DEFINE a == points[1]
           b == points[2]
           c == points[3]
           d == points[4]
           At(k) == IF k = 0 THEN a ELSE IF k = 1 THEN b ELSE IF k = 2 THEN c
                    ELSE IF k = 3 THEN d
                    ELSE IF k - 3 < a THEN k - 3 ELSE IF k - 2 < b THEN k - 2
                    ELSE IF k - 1 < c THEN k - 1 ELSE IF k < d THEN k ELSE k + 1
<1>1. /\ a \in 1..p /\ b \in 1..p /\ c \in 1..p /\ d \in 1..p
      /\ a < b /\ b < c /\ c < d
  BY DEF AreAscending
<1>2. ASSUME NEW k \in 0..(p - 1)
      PROVE  PointAt(points, k) = At(k)
  <2>1. CASE k < 4
    <3>1. k = 0 \/ k = 1 \/ k = 2 \/ k = 3
      BY <2>1
    <3> QED BY <2>1, <3>1 DEF PointAt
  <2>2. CASE ~(k < 4)
    <3>1. k - 3 \in Nat /\ k - 4 + 1 = k - 3
      BY <2>2
    <3>2. PointAt(points, k) = Past(points, k - 3)
      BY <2>2, <3>1 DEF PointAt
    <3>3. Past(points, k - 3) = IF k - 3 < a THEN k - 3
                                ELSE IF (k - 3) + 1 < b THEN (k - 3) + 1
                                ELSE IF (k - 3) + 2 < c THEN (k - 3) + 2
                                ELSE IF (k - 3) + 3 < d THEN (k - 3) + 3
                                ELSE (k - 3) + 4
      BY <3>1, PastIs
    <3> HIDE DEF a, b, c, d
    <3>4. Past(points, k - 3) = IF k - 3 < a THEN k - 3 ELSE IF k - 2 < b THEN k - 2
                                ELSE IF k - 1 < c THEN k - 1 ELSE IF k < d THEN k ELSE k + 1
      BY <1>1, <3>1, <3>3
    <3> QED BY <2>2, <3>2, <3>4
  <2> QED BY <2>1, <2>2
<1> HIDE DEF a, b, c, d
<1>3. \A k \in 0..(p - 1) : At(k) \in 1..p
  BY <1>1
<1>4. \A j, k \in 0..(p - 1) : At(j) = At(k) => j = k
  <2> TAKE j, k \in 0..(p - 1)
  <2>1. CASE j < 4 /\ k < 4
    BY <1>1, <2>1
  <2>2. CASE j >= 4 /\ k >= 4
    BY <1>1, <2>2
  <2>3. CASE j < 4 /\ k >= 4
    BY <1>1, <2>3
  <2>4. CASE j >= 4 /\ k < 4
    BY <1>1, <2>4
  <2> QED BY <2>1, <2>2, <2>3, <2>4
<1>5. ASSUME NEW v \in 1..p
      PROVE  \E k \in 0..(p - 1) : At(k) = v
  <2>1. CASE v = a \/ v = b \/ v = c \/ v = d
    <3>1. 0 \in 0..(p - 1) /\ 1 \in 0..(p - 1) /\ 2 \in 0..(p - 1) /\ 3 \in 0..(p - 1)
      BY <1>1
    <3>2. At(0) = a /\ At(1) = b /\ At(2) = c /\ At(3) = d
      OBVIOUS
    <3> QED BY <2>1, <3>1, <3>2
  <2>2. CASE v < a
    <3>1. v + 3 \in 0..(p - 1) /\ At(v + 3) = v
      BY <1>1, <2>2
    <3> QED BY <3>1
  <2>3. CASE a < v /\ v < b
    <3>1. v + 2 \in 0..(p - 1) /\ At(v + 2) = v
      BY <1>1, <2>3
    <3> QED BY <3>1
  <2>4. CASE b < v /\ v < c
    <3>1. v + 1 \in 0..(p - 1) /\ At(v + 1) = v
      BY <1>1, <2>4
    <3> QED BY <3>1
  <2>5. CASE c < v /\ v < d
    <3>1. v \in 0..(p - 1) /\ At(v) = v
      BY <1>1, <2>5
    <3> QED BY <3>1
  <2>6. CASE d < v
    <3>1. v - 1 \in 0..(p - 1) /\ At(v - 1) = v
      BY <1>1, <2>6
    <3> QED BY <3>1
  <2> QED BY <1>1, <2>1, <2>2, <2>3, <2>4, <2>5, <2>6
<1> HIDE DEF At
<1>6. \A k \in 0..(p - 1) : PointAt(points, k) = At(k)
  BY <1>2
<1> QED BY <1>3, <1>4, <1>5, <1>6

\* The optimized points of a scheme's static continuation are in ascending order.
IsAscending(s) ==
  s.fallback.kind = "StaticPolynomialV2" =>
    LET points == s.fallback.optimized_points
    IN points[1] < points[2] /\ points[2] < points[3] /\ points[3] < points[4]

\* A slot and a pass of the points of a valid static continuation.
LEMMA StaticFacts ==
  ASSUME NEW s \in Schemes, IsValidScheme(s), s.fallback.kind = "StaticPolynomialV2",
         IsAscending(s)
  PROVE  /\ PointCount(s.fallback) \in Nat /\ PointCount(s.fallback) >= 4
         /\ AreAscending(s.fallback.optimized_points, PointCount(s.fallback))
         /\ \A slot : Point(s.fallback, slot) = PointAt(s.fallback.optimized_points, slot)
<1> DEFINE d == s.fallback
           points == d.optimized_points
<1>1. Order(d.field) \in Nat
  <2>1. d.field \in DOMAIN FieldOf
    BY SchemeAssumption
  <2> QED BY <2>1, FieldOfAssumption
<1>2. \A i \in 1..4 : points[i] \in 1..(Order(d.field) - 1)
  BY DEF IsValidScheme, IsValidFallback
<1>3. points[1] < points[2] /\ points[2] < points[3] /\ points[3] < points[4]
  BY DEF IsAscending
<1>4. AreAscending(points, PointCount(d))
  BY <1>1, <1>2, <1>3 DEF AreAscending, PointCount
<1>5. PointCount(d) \in Nat /\ PointCount(d) >= 4
  <2> DEFINE p == PointCount(d)
  <2>1. p = Order(d.field) - 1
    BY DEF PointCount
  <2>2. p \in Int
    BY <1>1, <2>1
  <2> HIDE DEF p
  <2>3. p >= 4
    BY <1>4, <2>2 DEF AreAscending, p
  <2> QED BY <2>2, <2>3 DEF p
<1>6. \A slot : Point(d, slot) = PointAt(points, slot)
  BY DEF Point, PointAt, Past
<1> QED BY <1>4, <1>5, <1>6

\* A depth is a pass and a slot in it.
LEMMA DepthParts ==
  ASSUME NEW p \in Nat, p > 0, NEW k \in Nat
  PROVE  k \div p \in Nat /\ k % p \in 0..(p - 1) /\ k = p * (k \div p) + (k % p)
OBVIOUS

\* The depths of a pass are at most as many as there are points, in a row.
LEMMA PassIsRow ==
  ASSUME NEW p \in Nat, p > 0, NEW n \in Nat, NEW q \in Nat,
         NEW pass, pass = {k \in 0..(n - 1) : k \div p = q}, Cardinality(pass) = p
  PROVE  \A r \in 0..(p - 1) : p * q + r \in pass
<1> DEFINE lo == p * q
           hi == p * q + p - 1
<1>1. lo \in Int /\ hi \in Int /\ hi - lo + 1 = p /\ lo <= hi
  OBVIOUS
<1>2. pass \subseteq lo..hi
  <2> SUFFICES ASSUME NEW k \in pass PROVE k \in lo..hi
    OBVIOUS
  <2>1. k \in Nat /\ k \div p = q
    OBVIOUS
  <2>2. k % p \in 0..(p - 1) /\ k = p * q + (k % p)
    BY <2>1, DepthParts
  <2> QED BY <2>1, <2>2
<1>3. \A r \in 0..(p - 1) : p * q + r \in lo..hi
  OBVIOUS
<1> HIDE DEF lo, hi
<1>4. IsFiniteSet(lo..hi) /\ Cardinality(lo..hi) = p
  BY <1>1, FS_Interval
<1>5. pass = lo..hi
  BY <1>2, <1>4, FS_Subset
<1> QED BY <1>3, <1>5

\* next_static: with the optimized points in ascending order, as cook_static has them
\* where it takes the first of the field, a pass evaluates a content at every nonzero
\* point of the field, and at none of them twice.
THEOREM PassesVisitEachPointOnce ==
  Spec /\ IsAscending(scheme) => []PassVisitsEachPointOnce
<1> DEFINE AInv == IInv /\ IsAscending(scheme)
<1>1. Init /\ IsAscending(scheme) => AInv
  BY IteratorsStart
<1>2. AInv /\ [Next]_vars => AInv'
  <2>1. [Next]_vars => scheme' = scheme
    BY DEF Next, NodeAtom, FallbackAtom, Yield, vars
  <2> QED BY <2>1, StreamsKeep
<1>3. AInv => PassVisitsEachPointOnce
  <2> SUFFICES ASSUME AInv, NEW c \in Contents,
                      scheme.fallback.kind = "StaticPolynomialV2", iterators[c].fallback # None
               PROVE  LET d     == scheme.fallback
                          n     == iterators[c].fallback.depth
                          pass  == PassOf(d, n)
                          at(k) == Point(d, k % PointCount(d))
                      IN /\ \A j, k \in pass : j # k => at(j) # at(k)
                         /\ Cardinality(pass) = PointCount(d)
                              => {at(k) : k \in pass} = 1..PointCount(d)
    BY DEF PassVisitsEachPointOnce
  <2> DEFINE d == scheme.fallback
             n == iterators[c].fallback.depth
             p == PointCount(d)
             q == (n - 1) \div p
             pass == PassOf(d, n)
             points == d.optimized_points
             At(k) == PointAt(points, k % p)
  <2>1. n \in Nat
    <3>1. PICK depth \in Nat : iterators[c].fallback = StaticAt(scheme, c, depth)
      BY DEF IInv, IsStatic
    <3> QED BY <3>1 DEF StaticAt
  <2>2. /\ p \in Nat /\ p >= 4 /\ p > 0 /\ AreAscending(points, p)
        /\ \A slot : Point(d, slot) = PointAt(points, slot)
    BY StaticFacts DEF IInv
  <2>3. pass = {k \in 0..(n - 1) : k \div p = q}
    BY DEF PassOf
  <2> HIDE DEF n, p, q, pass, points
  <2>4. /\ \A k \in 0..(p - 1) : PointAt(points, k) \in 1..p
        /\ \A j, k \in 0..(p - 1) : PointAt(points, j) = PointAt(points, k) => j = k
        /\ \A v \in 1..p : \E k \in 0..(p - 1) : PointAt(points, k) = v
    BY <2>2, PointsApart
  <2>5. ASSUME NEW k \in pass
        PROVE  k \in Nat /\ k % p \in 0..(p - 1) /\ k = p * q + (k % p)
    <3>1. k \in Nat /\ k \div p = q
      BY <2>1, <2>3
    <3> QED BY <2>2, <3>1, DepthParts
  <2>6. \A j, k \in pass : j # k => At(j) # At(k)
    <3> SUFFICES ASSUME NEW j \in pass, NEW k \in pass, At(j) = At(k)
                 PROVE  j = k
      OBVIOUS
    <3>1. j % p = k % p
      BY <2>4, <2>5
    <3> QED BY <2>5, <3>1
  <2>7. ASSUME Cardinality(pass) = p
        PROVE  {At(k) : k \in pass} = 1..p
    <3>1. n - 1 \in Nat
      <4>1. CASE n = 0
        <5>1. pass = {}
          BY <2>3, <4>1
        <5> QED BY <2>2, <2>7, <5>1, FS_EmptySet
      <4> QED BY <2>1, <4>1
    <3>2. q \in Nat
      BY <2>2, <3>1, DepthParts DEF q
    <3>3. \A r \in 0..(p - 1) : p * q + r \in pass
      BY <2>1, <2>2, <2>3, <2>7, <3>2, PassIsRow
    <3>4. ASSUME NEW v \in 1..p
          PROVE  \E k \in pass : At(k) = v
      <4>1. PICK r \in 0..(p - 1) : PointAt(points, r) = v
        BY <2>4
      <4> DEFINE k == p * q + r
      <4>2. k \in pass
        BY <3>3
      <4>3. k % p = r
        <5>1. k % p \in 0..(p - 1) /\ k = p * q + (k % p)
          BY <2>5, <4>2
        <5> QED BY <2>2, <3>2, <5>1
      <4> QED BY <4>1, <4>2, <4>3
    <3>5. \A k \in pass : At(k) \in 1..p
      BY <2>4, <2>5
    <3> QED BY <3>4, <3>5
  <2>8. \A k : Point(d, k % p) = At(k)
    BY <2>2
  <2> HIDE DEF d, At
  <2>9. /\ \A j, k \in pass : j # k => Point(d, j % p) # Point(d, k % p)
        /\ Cardinality(pass) = p => {Point(d, k % p) : k \in pass} = 1..p
    BY <2>6, <2>7, <2>8
  <2> QED BY <2>9 DEF d, n, p, pass
<1> QED BY <1>1, <1>2, <1>3, PTL DEF Spec
=============================================================================
