-------------------------- MODULE NeighborhoodLemmas --------------------------
(***************************************************************************)
(* What the operations of a neighborhood do to its trees.  First trees     *)
(* alone: in a canonical tree every member has the address that the header *)
(* of neighborhood.rs defines (TreeIsCanonical), and the four ways in      *)
(* which neighborhood.rs changes its members keep a tree canonical: a new  *)
(* leaf (GrowLeaf), a split of a member's leaf (GrowSplit), a removal      *)
(* (ShrinkLeaf), and a removal whose path collapses onto the one member    *)
(* left below it (ShrinkOnto).  Then the operations: what each answers     *)
(* from a sound neighborhood is a sound neighborhood.                      *)
(***************************************************************************)
EXTENDS NeighborhoodInvariant, AddressTrees, PathLemmas

(***************************************************************************)
(* Trees of addresses.                                                     *)
(***************************************************************************)

\* Prefix(b, k) is the first k atoms of b's stream (Scheme::prefix).
LEMMA PrefixProperties ==
  ASSUME NEW b \in Contents, NEW k \in Nat
  PROVE  /\ Prefix(b, k) \in Seq(Atoms)
         /\ Len(Prefix(b, k)) = k
         /\ \A i \in 1..k : Prefix(b, k)[i] = Stream(b, i)
<1>1. \A i \in 1..k : Stream(b, i) \in Atoms
  BY CodeAssumption DEF Stream
<1>2. QED
  BY <1>1 DEF Prefix

\* The prefixes of one stream.
LEMMA PrefixOfPrefix ==
  ASSUME NEW b \in Contents, NEW k \in Nat, NEW p \in Seq(Atoms)
  PROVE  IsPrefix(p, Prefix(b, k)) <=> Len(p) <= k /\ p = Prefix(b, Len(p))
<1>1. Len(p) \in Nat
  OBVIOUS
<1>2. /\ Prefix(b, k) \in Seq(Atoms) /\ Len(Prefix(b, k)) = k
      /\ \A i \in 1..k : Prefix(b, k)[i] = Stream(b, i)
      /\ Prefix(b, Len(p)) \in Seq(Atoms) /\ Len(Prefix(b, Len(p))) = Len(p)
      /\ \A i \in 1..Len(p) : Prefix(b, Len(p))[i] = Stream(b, i)
  BY <1>1, PrefixProperties
<1>3. p = Prefix(b, Len(p)) <=> \A i \in 1..Len(p) : p[i] = Stream(b, i)
  BY <1>2
<1>4. IsPrefix(p, Prefix(b, k)) <=>
        Len(p) <= k /\ \A i \in 1..Len(p) : p[i] = Prefix(b, k)[i]
  BY <1>2, PrefixDef
<1>5. QED
  BY <1>1, <1>2, <1>3, <1>4

\* A node of the trie is the root or a prefix of an address.
LEMMA NodesDef ==
  ASSUME NEW A, IsAddressMap(A), NEW p
  PROVE  p \in Nodes(A) <=> \/ p = <<>>
                            \/ p \in Seq(Atoms) /\ \E b \in DOMAIN A : IsPrefix(p, A[b])
<1>1. ASSUME NEW b \in DOMAIN A
      PROVE  p \in Prefixes(A[b]) <=> p \in Seq(Atoms) /\ IsPrefix(p, A[b])
  <2>1. A[b] \in Seq(Atoms)
    BY DEF IsAddressMap
  <2>2. ASSUME NEW k \in 0..Len(A[b]), p = SubSeq(A[b], 1, k)
        PROVE  p \in Seq(Atoms) /\ IsPrefix(p, A[b])
    BY <2>1, <2>2, SubSeqIsPrefix
  <2>3. ASSUME p \in Seq(Atoms), IsPrefix(p, A[b])
        PROVE  \E k \in 0..Len(A[b]) : p = SubSeq(A[b], 1, k)
    BY <2>1, <2>3, PrefixIsSubSeq
  <2>4. QED
    BY <2>2, <2>3 DEF Prefixes
<1>2. QED
  BY <1>1 DEF Nodes

\* Nodes are sequences of atoms.
LEMMA NodesType ==
  ASSUME NEW A, IsAddressMap(A), NEW p \in Nodes(A)
  PROVE  p \in Seq(Atoms) /\ Len(p) \in Nat
<1>1. <<>> \in Seq(Atoms)
  OBVIOUS
<1>2. p \in Seq(Atoms)
  BY <1>1, NodesDef
<1>3. QED
  BY <1>2

\* What is above a node is a node.
LEMMA NodesBelow ==
  ASSUME NEW A, IsAddressMap(A), NEW q \in Nodes(A), NEW p \in Seq(Atoms), IsPrefix(p, q)
  PROVE  p \in Nodes(A)
<1>1. CASE q = <<>>
  <2>1. <<>> \in Seq(Atoms) /\ Len(<<>>) = 0
    OBVIOUS
  <2>2. Len(p) <= 0
    BY <1>1, <2>1, PrefixDef
  <2>3. p = <<>>
    BY <2>2
  <2>4. QED
    BY <2>3, NodesDef
<1>2. CASE q # <<>>
  <2>1. q \in Seq(Atoms)
    BY NodesType
  <2>2. PICK b \in DOMAIN A : IsPrefix(q, A[b])
    BY <1>2, NodesDef
  <2>3. A[b] \in Seq(Atoms)
    BY DEF IsAddressMap
  <2>4. IsPrefix(p, A[b])
    BY <2>1, <2>2, <2>3, PrefixTransitive
  <2>5. QED
    BY <2>4, NodesDef
<1>3. QED
  BY <1>1, <1>2

\* The parent of the node at depth d + 1 of b's stream is the one at depth d.
LEMMA ParentOfPrefix ==
  ASSUME NEW b \in Contents, NEW d \in Nat
  PROVE  Parent(Prefix(b, d + 1)) = Prefix(b, d)
<1>1. /\ Prefix(b, d + 1) \in Seq(Atoms) /\ Len(Prefix(b, d + 1)) = d + 1
      /\ \A i \in 1..(d + 1) : Prefix(b, d + 1)[i] = Stream(b, i)
      /\ Prefix(b, d) \in Seq(Atoms) /\ Len(Prefix(b, d)) = d
      /\ \A i \in 1..d : Prefix(b, d)[i] = Stream(b, i)
  BY PrefixProperties
<1>2. QED
  BY <1>1 DEF Parent

(***************************************************************************)
(* In a tree every member has the canonical address that the header of     *)
(* neighborhood.rs defines: unique, and as short as that allows.           *)
(***************************************************************************)
THEOREM TreeIsCanonical ==
  ASSUME NEW A, IsTree(A), NEW b \in DOMAIN A
  PROVE  IsCanonicalAddress(DOMAIN A, b, A[b])
<1> DEFINE M == DOMAIN A
           k == Len(A[b])
<1>1. \A c \in M : /\ c \in Contents /\ A[c] \in Seq(Atoms) /\ Len(A[c]) \in Nat
                   /\ Len(A[c]) > 0 /\ A[c] = Prefix(c, Len(A[c]))
  BY DEF IsTree, IsAddressMap, Follows
<1>2. \A c \in M : \A i \in 1..Len(A[c]) : A[c][i] = Stream(c, i)
  BY <1>1, PrefixProperties
<1>3. IsUnique(M, b, k)
  <2> SUFFICES ASSUME NEW c \in M \ {b}, Agree(b, c, k)
               PROVE  FALSE
    BY DEF IsUnique
  <2>1. CASE Len(A[c]) >= k
    <3>1. \A i \in 1..k : A[b][i] = A[c][i]
      BY <1>1, <1>2, <2>1 DEF Agree
    <3>2. IsPrefix(A[b], A[c])
      BY <1>1, <2>1, <3>1, PrefixDef
    <3>3. QED
      BY <3>2 DEF IsTree, Separate
  <2>2. CASE Len(A[c]) < k
    <3>1. \A i \in 1..Len(A[c]) : A[c][i] = A[b][i]
      BY <1>1, <1>2, <2>2 DEF Agree
    <3>2. IsPrefix(A[c], A[b])
      BY <1>1, <2>2, <3>1, PrefixDef
    <3>3. QED
      BY <3>2 DEF IsTree, Separate
  <2>3. QED
    BY <1>1, <2>1, <2>2
<1>4. ASSUME NEW j \in 1..(k - 1)
      PROVE  ~IsUnique(M, b, j)
  <2>1. Len(A[b]) > 1
    BY <1>1
  <2>2. PICK c \in M \ {b} : IsPrefix(Parent(A[b]), A[c])
    BY <2>1 DEF IsTree, Tight
  <2>3. /\ Parent(A[b]) \in Seq(Atoms) /\ Len(Parent(A[b])) = k - 1
        /\ \A i \in 1..(k - 1) : Parent(A[b])[i] = A[b][i]
    BY <1>1, <2>1, SubSeqIsPrefix DEF Parent
  <2>4. k - 1 <= Len(A[c]) /\ \A i \in 1..(k - 1) : A[b][i] = A[c][i]
    BY <1>1, <2>2, <2>3, PrefixDef
  <2>5. Agree(b, c, j)
    BY <1>1, <1>2, <2>4 DEF Agree
  <2>6. QED
    BY <2>5 DEF IsUnique
<1>5. QED
  BY <1>1, <1>3, <1>4 DEF IsCanonicalAddress, IsCanonicalLength

-----------------------------------------------------------------------------
(* Growing.                                                                *)

\* Put adds one point to an address map.
LEMMA PutIsFunction ==
  ASSUME NEW A, NEW b, NEW a, NEW S,
         \A c \in DOMAIN Put(A, b, a) : Put(A, b, a)[c] \in S
  PROVE  Put(A, b, a) \in [DOMAIN Put(A, b, a) -> S]
BY DEF Put

\* The members below a node once b has an address.
LEMMA UnderPut ==
  ASSUME NEW A, NEW b, NEW a, NEW p
  PROVE  Under(Put(A, b, a), p) =
           (Under(A, p) \ {b}) \cup (IF IsPrefix(p, a) THEN {b} ELSE {})
<1>1. \A c : c \in DOMAIN Put(A, b, a) <=> c \in DOMAIN A \/ c = b
  BY DEF Put
<1>2. Put(A, b, a)[b] = a /\ \A c \in DOMAIN A : c # b => Put(A, b, a)[c] = A[c]
  BY DEF Put
<1>3. \A c : c \in Under(Put(A, b, a), p) <=>
             \/ c \in DOMAIN A /\ IsPrefix(p, A[c]) /\ c # b
             \/ c = b /\ IsPrefix(p, a)
  BY <1>1, <1>2 DEF Under
<1>4. QED
  BY <1>3 DEF Under

(***************************************************************************)
(* A member gets a leaf below a node that is no leaf.                      *)
(***************************************************************************)
THEOREM GrowLeaf ==
  ASSUME NEW A, IsTree(A), NEW b \in Contents \ DOMAIN A, NEW d \in Nat,
         Prefix(b, d) \in Nodes(A),
         Prefix(b, d + 1) \notin Nodes(A),
         \A k \in 0..d, c \in DOMAIN A : A[c] # Prefix(b, k)
  PROVE  LET a == Prefix(b, d + 1)
             G == Put(A, b, a)
         IN /\ IsTree(G)
            /\ Nodes(G) = Nodes(A) \cup {a}
            /\ \A p \in Nodes(A) : Under(G, p) =
                 Under(A, p) \cup (IF p = Prefix(b, Len(p)) THEN {b} ELSE {})
            /\ Under(G, a) = {b}
<1> DEFINE a == Prefix(b, d + 1)
           G == Put(A, b, a)
<1>0. IsAddressMap(A) /\ Follows(A) /\ Separate(A) /\ Tight(A)
  BY DEF IsTree
<1>1. \A c \in DOMAIN A : /\ c \in Contents /\ A[c] \in Seq(Atoms) /\ A[c] # <<>>
                          /\ Len(A[c]) \in Nat
  BY <1>0 DEF IsAddressMap
<1>2. a \in Seq(Atoms) /\ Len(a) = d + 1 /\ a # <<>>
  BY PrefixProperties
<1>3. /\ DOMAIN G = DOMAIN A \cup {b} /\ G[b] = a
      /\ \A c \in DOMAIN A : G[c] = A[c]
  BY DEF Put
<1> HIDE DEF G
<1>4. IsAddressMap(G)
  <2>1. IsFiniteSet(DOMAIN G)
    BY <1>0, <1>3, FS_AddElement DEF IsAddressMap
  <2>2. \A c \in DOMAIN G : G[c] \in Seq(Atoms) \ {<<>>}
    BY <1>1, <1>2, <1>3
  <2>3. G \in [DOMAIN G -> Seq(Atoms) \ {<<>>}]
    BY <2>2, PutIsFunction DEF G
  <2>4. QED
    BY <1>1, <1>3, <2>1, <2>3 DEF IsAddressMap
<1>5. \A c \in DOMAIN A : ~IsPrefix(a, A[c])
  BY <1>0, <1>2, NodesDef
<1>6. ASSUME NEW c \in DOMAIN A
      PROVE  ~IsPrefix(A[c], a)
  <2>1. SUFFICES ASSUME IsPrefix(A[c], a)
                 PROVE  FALSE
    OBVIOUS
  <2>2. Len(A[c]) <= d + 1 /\ A[c] = Prefix(b, Len(A[c]))
    BY <1>1, <2>1, PrefixOfPrefix
  <2>3. A[c] # a
    BY <1>1, <1>2, <1>5, PrefixReflexive
  <2>4. Len(A[c]) \in 0..d
    BY <1>1, <2>2, <2>3
  <2>5. QED
    BY <2>2, <2>4
<1>7. Follows(G)
  BY <1>0, <1>2, <1>3 DEF Follows
<1>8. Separate(G)
  BY <1>0, <1>3, <1>5, <1>6 DEF Separate
<1>9. Tight(G)
  <2>1. ASSUME d > 0
        PROVE  \E c \in DOMAIN A : IsPrefix(Prefix(b, d), A[c])
    <3>1. Prefix(b, d) # <<>>
      BY <2>1, PrefixProperties
    <3>2. QED
      BY <1>0, <3>1, NodesDef
  <2>2. Parent(a) = Prefix(b, d)
    BY <1>2, ParentOfPrefix
  <2>3. Len(a) > 1 => \E c \in DOMAIN G \ {b} : IsPrefix(Parent(a), G[c])
    BY <1>2, <1>3, <2>1, <2>2
  <2>4. QED
    BY <1>0, <1>3, <2>3 DEF Tight
<1>10. Nodes(G) = Nodes(A) \cup {a}
  <2>1. \A p \in Seq(Atoms) : IsPrefix(p, a) => p = a \/ p \in Nodes(A)
    <3> SUFFICES ASSUME NEW p \in Seq(Atoms), IsPrefix(p, a), p # a
                 PROVE  p \in Nodes(A)
      OBVIOUS
    <3>1. Len(p) <= d + 1 /\ p = Prefix(b, Len(p)) /\ Len(p) \in Nat
      BY PrefixOfPrefix
    <3>2. Len(p) <= d
      BY <3>1
    <3>3. IsPrefix(p, Prefix(b, d))
      BY <3>1, <3>2, PrefixOfPrefix
    <3>4. QED
      BY <1>0, <3>3, NodesBelow
  <2>2. IsPrefix(a, a)
    BY <1>2, PrefixReflexive
  <2>3. \A p : p \in Nodes(G) <=> p \in Nodes(A) \cup {a}
    BY <1>0, <1>2, <1>3, <1>4, <2>1, <2>2, NodesDef
  <2>4. QED
    BY <2>3
<1>11. ASSUME NEW p \in Nodes(A)
       PROVE  IsPrefix(p, a) <=> p = Prefix(b, Len(p))
  <2>1. p \in Seq(Atoms) /\ Len(p) \in Nat
    BY <1>0, NodesType
  <2>2. ASSUME p = Prefix(b, Len(p)), Len(p) > d
        PROVE  FALSE
    <3>1. IsPrefix(a, p)
      BY <1>2, <2>1, <2>2, PrefixOfPrefix
    <3>2. a \in Nodes(A)
      BY <1>0, <1>2, <3>1, NodesBelow
    <3>3. QED
      BY <3>2
  <2>3. QED
    BY <2>1, <2>2, PrefixOfPrefix
<1>12. \A p : Under(G, p) = Under(A, p) \cup (IF IsPrefix(p, a) THEN {b} ELSE {})
  <2>1. \A p : b \notin Under(A, p)
    BY DEF Under
  <2>2. QED
    BY <2>1, UnderPut DEF G
<1>13. Under(A, a) = {} /\ IsPrefix(a, a)
  BY <1>2, <1>5, PrefixReflexive DEF Under
<1>14. IsTree(G)
  BY <1>4, <1>7, <1>8, <1>9 DEF IsTree
<1>15. QED
  BY <1>10, <1>11, <1>12, <1>13, <1>14 DEF G

(***************************************************************************)
(* The leaf of a member m splits: b's stream leads to it, shares j atoms   *)
(* more with m's stream and parts from it at the next.                     *)
(***************************************************************************)
THEOREM GrowSplit ==
  ASSUME NEW A, IsTree(A), NEW b \in Contents \ DOMAIN A, NEW m \in DOMAIN A,
         NEW d \in Nat, NEW j \in Nat,
         A[m] = Prefix(b, d),
         \A i \in (d + 1)..(d + j) : Stream(b, i) = Stream(m, i),
         Stream(b, d + j + 1) # Stream(m, d + j + 1)
  PROVE  LET a  == Prefix(b, d + j + 1)
             am == Prefix(m, d + j + 1)
             G  == Put(Put(A, m, am), b, a)
         IN /\ IsTree(G)
            /\ Nodes(G) = Nodes(A) \cup {Prefix(b, d + i) : i \in 1..j} \cup {a, am}
            /\ \A p \in Nodes(A) : Under(G, p) =
                 Under(A, p) \cup (IF p = Prefix(b, Len(p)) THEN {b} ELSE {})
            /\ \A i \in 1..j : Under(G, Prefix(b, d + i)) = {b, m}
            /\ Under(G, a) = {b}
            /\ Under(G, am) = {m}
<1> DEFINE e  == d + j + 1
           a  == Prefix(b, e)
           am == Prefix(m, e)
           G  == Put(Put(A, m, am), b, a)
<1>0. IsAddressMap(A) /\ Follows(A) /\ Separate(A) /\ Tight(A)
  BY DEF IsTree
<1>1. \A c \in DOMAIN A : /\ c \in Contents /\ A[c] \in Seq(Atoms) /\ A[c] # <<>>
                          /\ Len(A[c]) \in Nat
  BY <1>0 DEF IsAddressMap
<1>2. /\ a \in Seq(Atoms) /\ Len(a) = e /\ a # <<>>
      /\ am \in Seq(Atoms) /\ Len(am) = e /\ am # <<>>
      /\ Len(A[m]) = d /\ a # am /\ b # m /\ e \in Nat /\ d < e
  <2> e \in Nat /\ b \in Contents /\ m \in Contents
    BY <1>1
  <2> HIDE DEF e
  <2>1. /\ a \in Seq(Atoms) /\ Len(a) = e /\ \A i \in 1..e : a[i] = Stream(b, i)
        /\ am \in Seq(Atoms) /\ Len(am) = e /\ \A i \in 1..e : am[i] = Stream(m, i)
    BY PrefixProperties
  <2>2. a[e] # am[e]
    BY <2>1 DEF e
  <2>3. Len(A[m]) = d
    BY PrefixProperties
  <2>4. QED
    BY <2>1, <2>2, <2>3 DEF e
<1>3. /\ DOMAIN G = DOMAIN A \cup {b} /\ G[b] = a /\ G[m] = am
      /\ \A c \in DOMAIN A : c # m => G[c] = A[c]
  BY <1>2 DEF Put
\* Up to atom d + j the two streams are the same.
<1>4. \A k \in 0..(d + j) : Prefix(m, k) = Prefix(b, k)
  <2>1. A[m] = Prefix(m, d)
    BY <1>0, <1>2 DEF Follows
  <2>2. \A i \in 1..d : Stream(m, i) = Stream(b, i)
    <3>1. \A i \in 1..d : Prefix(m, d)[i] = Stream(m, i)
      BY <1>1, PrefixProperties
    <3>2. \A i \in 1..d : Prefix(b, d)[i] = Stream(b, i)
      BY PrefixProperties
    <3>3. QED
      BY <2>1, <3>1, <3>2
  <2>3. \A i \in 1..(d + j) : Stream(m, i) = Stream(b, i)
    BY <2>2
  <2>4. QED
    BY <2>3 DEF Prefix
<1>5. IsPrefix(A[m], a) /\ IsPrefix(A[m], am)
  <2>1. A[m] = Prefix(b, Len(A[m])) /\ A[m] = Prefix(m, Len(A[m]))
    BY <1>0, <1>2 DEF Follows
  <2>2. QED
    BY <1>1, <1>2, <2>1, PrefixOfPrefix
<1> HIDE DEF G, e, a, am
<1>6. ASSUME NEW c \in DOMAIN A, c # m, NEW q \in {a, am}
      PROVE  ~IsPrefix(A[c], q) /\ ~IsPrefix(q, A[c])
  <2>1. ~IsPrefix(A[c], A[m]) /\ ~IsPrefix(A[m], A[c])
    BY <1>0, <1>6 DEF Separate
  <2>2. IsPrefix(A[c], q) => IsPrefix(A[c], A[m]) \/ IsPrefix(A[m], A[c])
    BY <1>1, <1>2, <1>5, PrefixesCompare
  <2>3. IsPrefix(q, A[c]) => IsPrefix(A[m], A[c])
    BY <1>1, <1>2, <1>5, PrefixTransitive
  <2>4. QED
    BY <2>1, <2>2, <2>3
<1>7. ~IsPrefix(a, am) /\ ~IsPrefix(am, a)
  BY <1>2, PrefixReflexive, PrefixesCompare
<1>8. IsAddressMap(G)
  <2>1. IsFiniteSet(DOMAIN G)
    BY <1>0, <1>3, FS_AddElement DEF IsAddressMap
  <2>2. \A c \in DOMAIN G : G[c] \in Seq(Atoms) \ {<<>>}
    BY <1>1, <1>2, <1>3
  <2>3. G \in [DOMAIN G -> Seq(Atoms) \ {<<>>}]
    BY <2>2, PutIsFunction DEF G
  <2>4. QED
    BY <1>1, <1>3, <2>1, <2>3 DEF IsAddressMap
<1>9. Follows(G)
  BY <1>0, <1>2, <1>3 DEF Follows, a, am
<1>10. Separate(G)
  BY <1>0, <1>3, <1>6, <1>7 DEF Separate
<1>11. Parent(a) = Prefix(b, d + j) /\ Parent(am) = Prefix(b, d + j)
  <2>1. d + j \in Nat /\ b \in Contents /\ m \in Contents /\ e = (d + j) + 1
    BY <1>1 DEF e
  <2>2. Parent(a) = Prefix(b, d + j) /\ Parent(am) = Prefix(m, d + j)
    BY <2>1, ParentOfPrefix DEF a, am
  <2>3. QED
    BY <1>4, <2>1, <2>2
<1>12. IsPrefix(Prefix(b, d + j), a) /\ IsPrefix(Prefix(b, d + j), am)
  <2>1. /\ d + j \in Nat /\ Prefix(b, d + j) \in Seq(Atoms) /\ Len(Prefix(b, d + j)) = d + j
        /\ Prefix(m, d + j) = Prefix(b, d + j) /\ d + j <= e
    BY <1>4, PrefixProperties DEF e
  <2>2. QED
    BY <1>1, <1>2, <2>1, PrefixOfPrefix DEF a, am
<1>13. Tight(G)
  <2>1. ASSUME NEW c \in DOMAIN A, c # m, Len(A[c]) > 1
        PROVE  \E x \in DOMAIN G \ {c} : IsPrefix(Parent(A[c]), G[x])
    <3>1. PICK x \in DOMAIN A \ {c} : IsPrefix(Parent(A[c]), A[x])
      BY <1>0, <2>1 DEF Tight
    <3>2. CASE x # m
      BY <1>3, <3>1, <3>2
    <3>3. CASE x = m
      <4>1. Parent(A[c]) \in Seq(Atoms)
        BY <1>1, <2>1, SubSeqIsPrefix DEF Parent
      <4>2. IsPrefix(Parent(A[c]), am)
        BY <1>1, <1>2, <1>5, <3>1, <3>3, <4>1, PrefixTransitive
      <4>3. QED
        BY <1>3, <2>1, <4>2
    <3>4. QED
      BY <3>2, <3>3
  <2>2. QED
    BY <1>2, <1>3, <1>11, <1>12, <2>1 DEF Tight
\* Below the leaf of m there was nothing.
<1>14. ASSUME NEW p \in Nodes(A), IsPrefix(A[m], p)
       PROVE  p = A[m]
  <2>1. p \in Seq(Atoms) /\ Len(p) \in Nat
    BY <1>0, NodesType
  <2>2. p # <<>>
    BY <1>1, <1>14, <2>1, PrefixDef
  <2>3. PICK c \in DOMAIN A : IsPrefix(p, A[c])
    BY <1>0, <2>2, NodesDef
  <2>4. IsPrefix(A[m], A[c])
    BY <1>1, <1>14, <2>1, <2>3, PrefixTransitive
  <2>5. c = m
    BY <1>0, <2>4 DEF Separate
  <2>6. Len(p) = Len(A[m])
    BY <1>1, <1>14, <2>1, <2>3, <2>5, PrefixDef
  <2>7. QED
    BY <1>1, <1>14, <2>1, <2>6, PrefixReflexive, PrefixesCompare
<1>15. ASSUME NEW p \in Nodes(A)
       PROVE  /\ IsPrefix(p, a) <=> p = Prefix(b, Len(p))
              /\ IsPrefix(p, am) <=> IsPrefix(p, A[m])
  <2>1. p \in Seq(Atoms) /\ Len(p) \in Nat
    BY <1>0, NodesType
  <2>2. A[m] = Prefix(b, d) /\ A[m] = Prefix(m, d)
    BY <1>4
  <2>3. ASSUME NEW c \in {b, m}, p = Prefix(c, Len(p))
        PROVE  Len(p) <= d
    <3>1. c \in Contents
      BY <1>1
    <3>2. Len(p) > d => IsPrefix(A[m], p)
      <4>1. A[m] \in Seq(Atoms) /\ Len(A[m]) = d /\ A[m] = Prefix(c, d)
        BY <1>1, <1>2, <2>2
      <4>2. Len(p) > d => IsPrefix(A[m], Prefix(c, Len(p)))
        BY <2>1, <3>1, <4>1, PrefixOfPrefix
      <4>3. QED
        BY <2>3, <4>2
    <3>3. QED
      BY <1>2, <1>14, <2>1, <3>2
  <2>4. IsPrefix(p, a) <=> p = Prefix(b, Len(p))
    BY <1>2, <2>1, <2>3, PrefixOfPrefix DEF a
  <2>5. IsPrefix(p, am) <=> p = Prefix(m, Len(p))
    BY <1>1, <1>2, <2>1, <2>3, PrefixOfPrefix DEF am
  <2>6. IsPrefix(p, A[m]) <=> p = Prefix(m, Len(p))
    BY <1>1, <2>1, <2>2, <2>3, PrefixOfPrefix
  <2>7. QED
    BY <2>4, <2>5, <2>6
<1>16. Nodes(G) = Nodes(A) \cup {Prefix(b, d + i) : i \in 1..j} \cup {a, am}
  <2>1. ASSUME NEW p \in Seq(Atoms), NEW c \in {b, m}, IsPrefix(p, Prefix(c, e))
        PROVE  p \in Nodes(A) \cup {Prefix(b, d + i) : i \in 1..j} \cup {a, am}
    <3>1. c \in Contents /\ Len(p) \in Nat
      BY <1>1
    <3>2. Len(p) <= e /\ p = Prefix(c, Len(p))
      BY <1>2, <2>1, <3>1, PrefixOfPrefix
    <3>3. CASE Len(p) = e
      BY <3>2, <3>3 DEF a, am
    <3>4. CASE Len(p) \in (d + 1)..(d + j)
      <4>1. p = Prefix(b, d + (Len(p) - d)) /\ Len(p) - d \in 1..j
        BY <1>4, <3>1, <3>2, <3>4
      <4>2. QED
        BY <4>1
    <3>5. CASE Len(p) <= d
      <4>1. IsPrefix(p, A[m])
        BY <1>1, <1>4, <3>1, <3>2, <3>5, PrefixOfPrefix
      <4>2. QED
        BY <1>0, <4>1, NodesDef
    <3>6. QED
      BY <3>1, <3>2, <3>3, <3>4, <3>5 DEF e
  <2>2. \A p \in Nodes(G) : p \in Nodes(A) \cup {Prefix(b, d + i) : i \in 1..j} \cup {a, am}
    <3> TAKE p \in Nodes(G)
    <3>1. CASE p = <<>>
      BY <1>0, <3>1, NodesDef
    <3>2. CASE p # <<>>
      <4>1. p \in Seq(Atoms)
        BY <1>8, NodesType
      <4>2. PICK c \in DOMAIN G : IsPrefix(p, G[c])
        BY <1>8, <3>2, NodesDef
      <4>3. CASE c \in {b, m}
        BY <1>3, <2>1, <4>1, <4>2, <4>3 DEF a, am
      <4>4. CASE c \notin {b, m}
        BY <1>0, <1>3, <4>1, <4>2, <4>4, NodesDef
      <4>5. QED
        BY <4>3, <4>4
    <3>3. QED
      BY <3>1, <3>2
  <2>3. a \in Nodes(G) /\ am \in Nodes(G)
    BY <1>2, <1>3, <1>8, PrefixReflexive, NodesDef
  <2>4. ASSUME NEW i \in 1..j
        PROVE  Prefix(b, d + i) \in Nodes(G)
    <3>1. /\ d + i \in Nat /\ d + i <= e
          /\ Prefix(b, d + i) \in Seq(Atoms) /\ Len(Prefix(b, d + i)) = d + i
      BY PrefixProperties DEF e
    <3>2. IsPrefix(Prefix(b, d + i), a)
      BY <1>2, <3>1, PrefixOfPrefix DEF a
    <3>3. QED
      BY <1>3, <1>8, <3>1, <3>2, NodesDef
  <2>5. ASSUME NEW p \in Nodes(A)
        PROVE  p \in Nodes(G)
    <3>1. CASE p = <<>>
      BY <1>8, <3>1, NodesDef
    <3>2. CASE p # <<>>
      <4>1. p \in Seq(Atoms)
        BY <1>0, NodesType
      <4>2. PICK c \in DOMAIN A : IsPrefix(p, A[c])
        BY <1>0, <3>2, NodesDef
      <4>3. IsPrefix(p, G[c])
        BY <1>3, <1>15, <4>2
      <4>4. QED
        BY <1>3, <1>8, <4>1, <4>3, NodesDef
    <3>3. QED
      BY <3>1, <3>2
  <2>6. QED
    BY <2>2, <2>3, <2>4, <2>5
<1>17. \A p, c : c \in Under(G, p) <=> \/ c = b /\ IsPrefix(p, a)
                                       \/ c = m /\ IsPrefix(p, am)
                                       \/ c \in DOMAIN A \ {m} /\ IsPrefix(p, A[c])
  BY <1>2, <1>3 DEF Under
<1>18. ASSUME NEW p \in Nodes(A)
       PROVE  Under(G, p) = Under(A, p) \cup (IF p = Prefix(b, Len(p)) THEN {b} ELSE {})
  BY <1>15, <1>17 DEF Under
<1>19. Under(G, a) = {b} /\ Under(G, am) = {m}
  BY <1>2, <1>6, <1>7, <1>17, PrefixReflexive
<1>20. ASSUME NEW i \in 1..j
       PROVE  Under(G, Prefix(b, d + i)) = {b, m}
  <2> DEFINE p == Prefix(b, d + i)
  <2>1. d + i \in Nat /\ d + i <= e /\ p \in Seq(Atoms) /\ Len(p) = d + i
    BY PrefixProperties DEF e
  <2>2. p = Prefix(b, Len(p)) /\ p = Prefix(m, Len(p))
    BY <1>4, <2>1
  <2> HIDE DEF p
  <2>3. IsPrefix(p, a) /\ IsPrefix(p, am)
    BY <1>1, <1>2, <2>1, <2>2, PrefixOfPrefix DEF a, am
  <2>4. IsPrefix(A[m], p)
    BY <1>1, <1>2, <2>1, <2>2, PrefixOfPrefix
  <2>5. \A c \in DOMAIN A \ {m} : ~IsPrefix(p, A[c])
    BY <1>0, <1>1, <2>1, <2>4, PrefixTransitive DEF Separate
  <2>6. QED
    BY <1>17, <2>3, <2>5 DEF p
<1>21. IsTree(G)
  BY <1>8, <1>9, <1>10, <1>13 DEF IsTree
<1>22. QED
  BY <1>16, <1>18, <1>19, <1>20, <1>21 DEF G, a, am, e

-----------------------------------------------------------------------------
(* Shrinking.                                                              *)

\* The levels above the leaf of b at which b and one other member meet.
Lonely(A, b) ==
  {k \in 1..(Len(A[b]) - 1) :
     \E c : Under(Drop(A, b), SubSeq(A[b], 1, k)) = {c}}

\* Facts about a tree A and a member b that the proofs below share.
LEMMA DropFacts ==
  ASSUME NEW A, IsTree(A), NEW b \in DOMAIN A
  PROVE  /\ DOMAIN Drop(A, b) = DOMAIN A \ {b}
         /\ \A c \in DOMAIN A \ {b} : Drop(A, b)[c] = A[c]
         /\ \A p, c : c \in Under(Drop(A, b), p) <=>
                       c \in DOMAIN A /\ c # b /\ IsPrefix(p, A[c])
         /\ IsAddressMap(Drop(A, b))
         /\ \A c \in DOMAIN A : /\ c \in Contents /\ A[c] \in Seq(Atoms) /\ A[c] # <<>>
                                /\ Len(A[c]) \in Nat /\ Len(A[c]) > 0
                                /\ IsPrefix(A[c], A[b]) => c = b
                                /\ IsPrefix(A[b], A[c]) => c = b
         /\ \A k \in 0..Len(A[b]) :
              /\ SubSeq(A[b], 1, k) \in Seq(Atoms) /\ Len(SubSeq(A[b], 1, k)) = k
              /\ IsPrefix(SubSeq(A[b], 1, k), A[b])
<1>1. \A c \in DOMAIN A : A[c] \in Seq(Atoms) /\ A[c] # <<>>
  BY DEF IsTree, IsAddressMap
<1>2. IsFiniteSet(DOMAIN A) /\ DOMAIN A \subseteq Contents
  BY DEF IsTree, IsAddressMap
<1>3. IsFiniteSet(DOMAIN A \ {b})
  BY <1>2, FS_RemoveElement
<1>4. DOMAIN Drop(A, b) = DOMAIN A \ {b} /\ \A c \in DOMAIN A \ {b} : Drop(A, b)[c] = A[c]
  BY DEF Drop
<1>5. Drop(A, b) \in [DOMAIN A \ {b} -> Seq(Atoms) \ {<<>>}]
  BY <1>1 DEF Drop
<1>6. IsAddressMap(Drop(A, b))
  BY <1>2, <1>3, <1>4, <1>5 DEF IsAddressMap
<1>7. \A c \in DOMAIN A : Len(A[c]) \in Nat /\ Len(A[c]) > 0
  BY <1>1
<1>8. \A c \in DOMAIN A : /\ IsPrefix(A[c], A[b]) => c = b
                          /\ IsPrefix(A[b], A[c]) => c = b
  BY DEF IsTree, Separate
<1>9. \A k \in 0..Len(A[b]) :
        /\ SubSeq(A[b], 1, k) \in Seq(Atoms) /\ Len(SubSeq(A[b], 1, k)) = k
        /\ IsPrefix(SubSeq(A[b], 1, k), A[b])
  BY <1>1, SubSeqIsPrefix
<1>10. \A p, c : c \in Under(Drop(A, b), p) <=>
                 c \in DOMAIN A /\ c # b /\ IsPrefix(p, A[c])
  BY <1>4 DEF Under
<1>11. QED
  BY <1>1, <1>2, <1>4, <1>6, <1>7, <1>8, <1>9, <1>10

\* A level at which b meets the one member c: below it the trie without b's leaf
\* has a single child, on the way to c.
LEMMA LonelyChild ==
  ASSUME NEW A, IsTree(A), NEW b \in DOMAIN A, NEW k \in 1..(Len(A[b]) - 1), NEW c,
         Under(Drop(A, b), SubSeq(A[b], 1, k)) = {c}
  PROVE  /\ c \in DOMAIN A \ {b} /\ IsPrefix(SubSeq(A[b], 1, k), A[c]) /\ k < Len(A[c])
         /\ {q \in Nodes(A) \ {A[b]} : Len(q) = k + 1 /\ IsPrefix(SubSeq(A[b], 1, k), q)}
              = {SubSeq(A[c], 1, k + 1)}
<1> DEFINE f == SubSeq(A[b], 1, k)
           child == SubSeq(A[c], 1, k + 1)
<1>a. Under(Drop(A, b), f) = {c}
  OBVIOUS
<1> HIDE DEF f, child
<1>0. \A x : x \in DOMAIN A /\ x # b /\ IsPrefix(f, A[x]) <=> x = c
  <2>1. \A x : x \in Under(Drop(A, b), f) <=> x \in DOMAIN A /\ x # b /\ IsPrefix(f, A[x])
    BY DropFacts
  <2>2. QED
    BY <1>a, <2>1
<1>1. c \in DOMAIN A \ {b} /\ IsPrefix(f, A[c])
  BY <1>0
<1>2. /\ A[b] \in Seq(Atoms) /\ Len(A[b]) \in Nat
      /\ A[c] \in Seq(Atoms) /\ Len(A[c]) \in Nat
      /\ ~IsPrefix(A[c], A[b]) /\ ~IsPrefix(A[b], A[c])
  BY <1>1, DropFacts
<1>3. f \in Seq(Atoms) /\ Len(f) = k /\ IsPrefix(f, A[b]) /\ k < Len(A[b]) /\ k \in Nat
  <2>1. k \in 0..Len(A[b]) /\ k < Len(A[b]) /\ k \in Nat
    BY <1>2
  <2>2. QED
    BY <1>2, <2>1, SubSeqIsPrefix DEF f
<1>4. k < Len(A[c])
  <2>1. k <= Len(A[c])
    BY <1>1, <1>2, <1>3, PrefixDef
  <2>2. Len(A[c]) = k => IsPrefix(A[c], A[b])
    BY <1>1, <1>2, <1>3, PrefixesCompare, PrefixReflexive
  <2>3. QED
    BY <1>2, <2>1, <2>2
<1>5. child \in Seq(Atoms) /\ Len(child) = k + 1 /\ IsPrefix(child, A[c])
  BY <1>2, <1>3, <1>4, SubSeqIsPrefix DEF child
<1>6. IsPrefix(f, child)
  BY <1>1, <1>2, <1>3, <1>5, PrefixesCompare
<1>7. IsAddressMap(A) /\ Tight(A)
  BY DEF IsTree
<1>8. child \in Nodes(A)
  BY <1>1, <1>5, <1>7, NodesDef
<1>9. child # A[b]
  BY <1>2, <1>5
<1>10. ASSUME NEW q \in Nodes(A), q # A[b], Len(q) = k + 1, IsPrefix(f, q)
       PROVE  q = child
  <2>1. q \in Seq(Atoms)
    BY <1>7, NodesType
  <2>2. PICK x \in DOMAIN A : IsPrefix(q, A[x])
    <3>1. q # <<>>
      BY <1>3, <1>10
    <3>2. QED
      BY <1>7, <3>1, NodesDef
  <2>3. A[x] \in Seq(Atoms) /\ IsPrefix(f, A[x])
    BY <1>3, <1>10, <2>1, <2>2, DropFacts, PrefixTransitive
  <2>4. ASSUME IsPrefix(q, A[c])
        PROVE  q = child
    BY <1>2, <1>5, <1>10, <2>1, <2>4, PrefixesCompare
  <2>5. CASE x # b
    <3>1. x = c
      BY <1>0, <2>3, <2>5
    <3>2. QED
      BY <2>2, <2>4, <3>1
  <2>6. CASE x = b
    <3>1. Len(q) < Len(A[b])
      <4>1. Len(q) <= Len(A[b])
        BY <1>2, <2>1, <2>2, <2>6, PrefixDef
      <4>2. Len(q) # Len(A[b])
        BY <1>2, <1>10, <2>1, <2>2, <2>6, PrefixReflexive, PrefixesCompare
      <4>3. QED
        BY <1>2, <1>3, <1>10, <4>1, <4>2
    <3>2. /\ Parent(A[b]) \in Seq(Atoms) /\ Len(Parent(A[b])) = Len(A[b]) - 1
          /\ IsPrefix(Parent(A[b]), A[b])
      <4>1. Len(A[b]) - 1 \in 0..Len(A[b])
        BY <1>2, <1>3
      <4>2. QED
        BY <1>2, <4>1, SubSeqIsPrefix DEF Parent
    <3>3. IsPrefix(q, Parent(A[b]))
      BY <1>2, <1>3, <1>10, <2>1, <2>2, <2>6, <3>1, <3>2, PrefixesCompare
    <3>4. PICK y \in DOMAIN A \ {b} : IsPrefix(Parent(A[b]), A[y])
      BY <1>2, <1>3, <1>7 DEF Tight
    <3>5. A[y] \in Seq(Atoms)
      BY <3>4, DropFacts
    <3>6. IsPrefix(q, A[y])
      BY <2>1, <3>2, <3>3, <3>4, <3>5, PrefixTransitive
    <3>7. IsPrefix(f, A[y])
      BY <1>3, <1>10, <2>1, <3>5, <3>6, PrefixTransitive
    <3>8. y = c
      BY <1>0, <3>4, <3>7
    <3>9. QED
      BY <2>4, <3>6, <3>8
  <2>7. QED
    BY <2>5, <2>6
<1>11. {q \in Nodes(A) \ {A[b]} : Len(q) = k + 1 /\ IsPrefix(f, q)} = {child}
  BY <1>5, <1>6, <1>8, <1>9, <1>10
<1>12. QED
  BY <1>1, <1>4, <1>11 DEF f, child

\* The members below a node once b is gone.
LEMMA UnderDrop ==
  ASSUME NEW A, IsTree(A), NEW b \in DOMAIN A, NEW p
  PROVE  Under(Drop(A, b), p) = Under(A, p) \ {b}
<1>1. \A c : c \in Under(Drop(A, b), p) <=> c \in Under(A, p) /\ c # b
  BY DropFacts DEF Under
<1>2. QED
  BY <1>1

(***************************************************************************)
(* A member goes, and no level of its path is left with one member.        *)
(***************************************************************************)
THEOREM ShrinkLeaf ==
  ASSUME NEW A, IsTree(A), NEW b \in DOMAIN A, Lonely(A, b) = {}
  PROVE  /\ IsTree(Drop(A, b))
         /\ Nodes(Drop(A, b)) = Nodes(A) \ {A[b]}
<1> DEFINE S == Drop(A, b)
           a == A[b]
<1>0. IsAddressMap(A) /\ Follows(A) /\ Separate(A) /\ Tight(A)
  BY DEF IsTree
<1>1. /\ DOMAIN S = DOMAIN A \ {b} /\ \A c \in DOMAIN A \ {b} : S[c] = A[c]
      /\ IsAddressMap(S)
  BY DropFacts
<1>2. \A c \in DOMAIN A : /\ A[c] \in Seq(Atoms) /\ A[c] # <<>> /\ Len(A[c]) \in Nat
                          /\ Len(A[c]) > 0
                          /\ c # b => ~IsPrefix(A[c], a) /\ ~IsPrefix(a, A[c])
  BY DropFacts
<1> HIDE DEF S
<1>3. Follows(S) /\ Separate(S)
  BY <1>0, <1>1 DEF Follows, Separate
<1>4. Tight(S)
  <2> SUFFICES ASSUME NEW c \in DOMAIN A \ {b}, Len(A[c]) > 1,
                      \A x \in DOMAIN A \ {b, c} : ~IsPrefix(Parent(A[c]), A[x])
               PROVE  FALSE
    BY <1>1 DEF Tight
  <2> DEFINE f == Parent(A[c])
             k == Len(A[c]) - 1
  <2>1. k \in 1..Len(A[c]) /\ k \in Nat
    BY <1>2
  <2>2. f \in Seq(Atoms) /\ Len(f) = k /\ IsPrefix(f, A[c])
    <3>1. A[c] \in Seq(Atoms) /\ k \in 0..Len(A[c])
      BY <1>2, <2>1
    <3>2. QED
      BY <3>1, SubSeqIsPrefix DEF Parent
  <2> HIDE DEF f, k
  <2>3. IsPrefix(f, a)
    <3>1. PICK x \in DOMAIN A \ {c} : IsPrefix(f, A[x])
      BY <1>0 DEF Tight, f
    <3>2. x = b
      BY <3>1 DEF f
    <3>3. QED
      BY <3>1, <3>2
  <2>4. k <= Len(a) /\ f = SubSeq(a, 1, k)
    BY <1>2, <2>2, <2>3, PrefixIsSubSeq
  <2>5. k # Len(a)
    BY <1>2, <2>2, <2>3, PrefixReflexive, PrefixesCompare
  <2>6. Under(S, f) = {c}
    <3>1. \A x : x \in Under(S, f) <=> x \in DOMAIN A /\ x # b /\ IsPrefix(f, A[x])
      BY DropFacts DEF S
    <3>2. \A x \in DOMAIN A : x # b /\ x # c => ~IsPrefix(f, A[x])
      BY DEF f
    <3>3. QED
      BY <2>2, <3>1, <3>2
  <2>7. k \in Lonely(A, b)
    <3>1. k \in 1..(Len(a) - 1)
      BY <1>2, <2>1, <2>4, <2>5
    <3>2. Under(Drop(A, b), SubSeq(A[b], 1, k)) = {c}
      BY <2>4, <2>6 DEF S
    <3>3. QED
      BY <3>1, <3>2 DEF Lonely
  <2>8. QED
    BY <2>7
<1>5. Nodes(S) = Nodes(A) \ {a}
  <2>1. ASSUME NEW p \in Nodes(S)
        PROVE  p \in Nodes(A) /\ p # a
    <3>1. CASE p = <<>>
      BY <1>0, <1>2, <3>1, NodesDef
    <3>2. CASE p # <<>>
      <4>1. p \in Seq(Atoms)
        BY <1>1, NodesType
      <4>2. PICK c \in DOMAIN S : IsPrefix(p, S[c])
        BY <1>1, <3>2, NodesDef
      <4>3. QED
        BY <1>0, <1>1, <1>2, <4>1, <4>2, NodesDef
    <3>3. QED
      BY <3>1, <3>2
  <2>2. ASSUME NEW p \in Nodes(A), p # a
        PROVE  p \in Nodes(S)
    <3>1. CASE p = <<>>
      BY <1>1, <3>1, NodesDef
    <3>2. CASE p # <<>>
      <4>1. p \in Seq(Atoms) /\ Len(p) \in Nat /\ Len(p) > 0
        BY <1>0, <3>2, NodesType
      <4>2. PICK c \in DOMAIN A : IsPrefix(p, A[c])
        BY <1>0, <3>2, NodesDef
      <4>3. CASE c # b
        BY <1>1, <4>1, <4>2, <4>3, NodesDef
      <4>4. CASE c = b
        <5>1. Len(p) <= Len(a) /\ Len(p) # Len(a)
          BY <1>2, <2>2, <4>1, <4>2, <4>4, PrefixReflexive, PrefixesCompare, PrefixDef
        <5>2. /\ Parent(a) \in Seq(Atoms) /\ Len(Parent(a)) = Len(a) - 1
              /\ IsPrefix(Parent(a), a)
          <6>1. Len(a) - 1 \in 0..Len(a)
            BY <1>2
          <6>2. QED
            BY <1>2, <6>1, SubSeqIsPrefix DEF Parent
        <5>3. IsPrefix(p, Parent(a))
          BY <1>2, <4>1, <4>2, <4>4, <5>1, <5>2, PrefixesCompare
        <5>4. PICK y \in DOMAIN A \ {b} : IsPrefix(Parent(a), A[y])
          BY <1>0, <1>2, <4>1, <5>1 DEF Tight
        <5>5. IsPrefix(p, A[y])
          BY <1>2, <4>1, <5>2, <5>3, <5>4, PrefixTransitive
        <5>6. QED
          BY <1>1, <4>1, <5>4, <5>5, NodesDef
      <4>5. QED
        BY <4>3, <4>4
    <3>3. QED
      BY <3>1, <3>2
  <2>3. QED
    BY <2>1, <2>2
<1>6. QED
  BY <1>1, <1>3, <1>4, <1>5 DEF IsTree, S

\* G is the tree A without b in which m, the one member left below low, has moved
\* up to t.
IsShrunk(A, b, m, low, t, G) ==
  /\ m \in DOMAIN A \ {b}
  /\ IsPrefix(low, A[m])
  /\ DOMAIN G = DOMAIN A \ {b}
  /\ IsTree(G)
  /\ Nodes(G) = {q \in Nodes(A) \ {A[b]} : ~IsStrictPrefix(t, q)}
  /\ Under(G, t) = {m}
  /\ \A p \in Nodes(G) : Under(G, p) = Under(A, p) \ {b}

(***************************************************************************)
(* A member goes, and the levels of its path that one member is left below *)
(* collapse onto it: it gets the address of the topmost of them.           *)
(***************************************************************************)
THEOREM ShrinkOnto ==
  ASSUME NEW A, IsTree(A), NEW b \in DOMAIN A, Lonely(A, b) # {},
         NEW m, Under(Drop(A, b), SubSeq(A[b], 1, Max(Lonely(A, b)))) = {m}
  PROVE  IsShrunk(A, b, m, SubSeq(A[b], 1, Max(Lonely(A, b))),
                  SubSeq(A[b], 1, Min(Lonely(A, b))),
                  Put(Drop(A, b), m, SubSeq(A[b], 1, Min(Lonely(A, b)))))
<1> DEFINE L == Lonely(A, b)
           a == A[b]
           S == Drop(A, b)
           t == SubSeq(a, 1, Min(L))
           low == SubSeq(a, 1, Max(L))
           G == Put(S, m, t)
<1>0. IsAddressMap(A) /\ Follows(A) /\ Separate(A) /\ Tight(A)
  BY DEF IsTree
<1>1. /\ DOMAIN S = DOMAIN A \ {b} /\ \A c \in DOMAIN A \ {b} : S[c] = A[c]
      /\ IsAddressMap(S)
  BY DropFacts, ZenonT(60)
<1>2. \A c \in DOMAIN A : /\ c \in Contents /\ A[c] \in Seq(Atoms) /\ A[c] # <<>>
                          /\ Len(A[c]) \in Nat /\ Len(A[c]) > 0
                          /\ c # b => ~IsPrefix(A[c], a) /\ ~IsPrefix(a, A[c])
  BY DropFacts
<1>3. L \in SUBSET (1..(Len(a) - 1)) /\ Len(a) - 1 \in Nat /\ L # {}
  <2>1. Lonely(A, b) \in SUBSET (1..(Len(A[b]) - 1))
    BY DEF Lonely
  <2>2. Len(a) \in Nat /\ Len(a) > 0
    BY <1>2
  <2>3. QED
    BY <2>1, <2>2
<1>4. /\ Min(L) \in L /\ \A k \in L : Min(L) <= k
      /\ Max(L) \in L /\ \A k \in L : k <= Max(L)
  BY <1>3, MinOfPositions, MaxOfPositions
<1>5. /\ Min(L) \in 0..Len(a) /\ Max(L) \in 0..Len(a) /\ Min(L) <= Max(L)
      /\ Min(L) \in Nat /\ Max(L) \in Nat /\ Min(L) < Len(a) /\ Min(L) > 0
  BY <1>2, <1>3, <1>4
<1>6. /\ t \in Seq(Atoms) /\ Len(t) = Min(L) /\ IsPrefix(t, a) /\ t # <<>>
      /\ low \in Seq(Atoms) /\ Len(low) = Max(L) /\ IsPrefix(low, a)
  <2>1. /\ t \in Seq(Atoms) /\ Len(t) = Min(L) /\ IsPrefix(t, a)
        /\ low \in Seq(Atoms) /\ Len(low) = Max(L) /\ IsPrefix(low, a)
    BY <1>2, <1>5, SubSeqIsPrefix
  <2>2. QED
    BY <1>5, <2>1
<1>7. Under(S, low) = {m}
  OBVIOUS
<1>8. PICK n : Under(S, t) = {n}
  BY <1>4 DEF Lonely
<1> HIDE DEF L, S, t, low, G
<1>9. \A p, c : c \in Under(S, p) <=> c \in DOMAIN A /\ c # b /\ IsPrefix(p, A[c])
  BY DropFacts DEF S
<1>10. m \in DOMAIN A /\ m # b /\ IsPrefix(low, A[m])
  BY <1>7, <1>9
<1>11. IsPrefix(t, low)
  BY <1>2, <1>5, <1>6, PrefixesCompare
\* One member is left below the topmost level too: the same one.
<1>12. IsPrefix(t, A[m])
  BY <1>2, <1>6, <1>10, <1>11, PrefixTransitive
<1>13. n = m
  BY <1>8, <1>9, <1>10, <1>12
<1>14. \A c \in DOMAIN A \ {b, m} : ~IsPrefix(t, A[c])
  BY <1>8, <1>9, <1>13
<1>15. \A c \in DOMAIN A \ {b, m} : ~IsPrefix(A[c], t)
  BY <1>2, <1>6, PrefixTransitive
<1>16. /\ DOMAIN G = DOMAIN A \ {b} /\ G[m] = t
       /\ \A c \in DOMAIN A \ {b, m} : G[c] = A[c]
  BY <1>1, <1>10 DEF G, Put
<1>17. IsAddressMap(G)
  <2>1. IsFiniteSet(DOMAIN G)
    BY <1>1, <1>16 DEF IsAddressMap
  <2>2. \A c \in DOMAIN G : G[c] \in Seq(Atoms) \ {<<>>}
    BY <1>2, <1>6, <1>10, <1>16
  <2>3. G \in [DOMAIN G -> Seq(Atoms) \ {<<>>}]
    BY <2>2, PutIsFunction DEF G
  <2>4. QED
    BY <1>2, <1>16, <2>1, <2>3 DEF IsAddressMap
<1>18. Follows(G)
  <2>1. A[m] = Prefix(m, Len(A[m])) /\ m \in Contents /\ Len(A[m]) \in Nat
    BY <1>0, <1>2, <1>10 DEF Follows
  <2>2. t = Prefix(m, Len(t))
    BY <1>6, <1>12, <2>1, PrefixOfPrefix
  <2>3. QED
    BY <1>0, <1>16, <2>2 DEF Follows
<1>19. Separate(G)
  BY <1>0, <1>14, <1>15, <1>16 DEF Separate
\* The level above the topmost one leads to a third member.
<1>20. Len(t) > 1 => \E c \in DOMAIN A \ {b, m} : IsPrefix(Parent(t), A[c])
  <2> SUFFICES ASSUME Len(t) > 1, \A c \in DOMAIN A \ {b, m} : ~IsPrefix(Parent(t), A[c])
               PROVE  FALSE
    OBVIOUS
  <2> DEFINE k == Min(L) - 1
             f == Parent(t)
  <2>1. k \in 1..(Len(a) - 1) /\ k \in 0..Len(t) /\ k \in 0..Len(a)
    BY <1>2, <1>5, <1>6
  <2>2. f \in Seq(Atoms) /\ Len(f) = k /\ IsPrefix(f, t)
    BY <1>6, <2>1, SubSeqIsPrefix DEF Parent
  <2> HIDE DEF f
  <2>3. f = SubSeq(a, 1, k)
    <3>1. IsPrefix(f, a)
      BY <1>2, <1>6, <2>2, PrefixTransitive
    <3>2. QED
      BY <1>2, <2>2, <3>1, PrefixIsSubSeq
  <2>4. IsPrefix(f, A[m])
    BY <1>2, <1>6, <1>10, <1>12, <2>2, PrefixTransitive
  <2>5. \A x : x \in Under(S, f) <=> x = m
    BY <1>9, <1>10, <2>4 DEF f
  <2>6. Under(S, SubSeq(a, 1, k)) = {m}
    BY <2>3, <2>5
  <2>7. k \in L
    BY <2>1, <2>6 DEF Lonely, L, S
  <2>8. QED
    BY <1>4, <1>5, <2>7
<1>21. Tight(G)
  <2>1. ASSUME NEW c \in DOMAIN A \ {b, m}, Len(A[c]) > 1
        PROVE  \E x \in DOMAIN G \ {c} : IsPrefix(Parent(A[c]), G[x])
    <3> DEFINE f == Parent(A[c])
    <3>1. f \in Seq(Atoms) /\ Len(f) = Len(A[c]) - 1 /\ IsPrefix(f, A[c])
      <4>1. A[c] \in Seq(Atoms) /\ Len(A[c]) - 1 \in 0..Len(A[c])
        BY <1>2, <2>1
      <4>2. QED
        BY <4>1, SubSeqIsPrefix DEF Parent
    <3>2. PICK x \in DOMAIN A \ {c} : IsPrefix(f, A[x])
      BY <1>0, <2>1 DEF Tight
    <3> HIDE DEF f
    <3>3. CASE x \notin {b, m}
      BY <1>16, <3>2, <3>3 DEF f
    <3>4. CASE x \in {b, m}
      <4>1. A[x] \in Seq(Atoms) /\ IsPrefix(t, A[x])
        BY <1>2, <1>6, <1>12, <3>2, <3>4
      <4>2. ~IsPrefix(t, f)
        BY <1>2, <1>6, <1>14, <3>1, PrefixTransitive
      <4>3. IsPrefix(f, t)
        BY <1>6, <3>1, <3>2, <4>1, <4>2, PrefixesCompare
      <4>4. m \in DOMAIN G \ {c} /\ G[m] = t
        BY <1>10, <1>16
      <4>5. QED
        BY <4>3, <4>4 DEF f
    <3>5. QED
      BY <3>3, <3>4
  <2>2. Len(t) > 1 => \E x \in DOMAIN G \ {m} : IsPrefix(Parent(t), G[x])
    BY <1>16, <1>20
  <2>3. QED
    BY <1>16, <2>1, <2>2 DEF Tight
<1>22. \A q : q \in Nodes(G) <=> q \in Nodes(A) /\ q # a /\ ~IsStrictPrefix(t, q)
  <2>1. ASSUME NEW q \in Nodes(G)
        PROVE  q \in Nodes(A) /\ q # a /\ ~IsStrictPrefix(t, q)
    <3>1. CASE q = <<>>
      <4>1. Len(t) > 0 /\ Len(<<>>) = 0
        BY <1>6
      <4>2. ~IsPrefix(t, <<>>)
        BY <4>1 DEF IsPrefix
      <4>3. QED
        BY <1>0, <1>2, <3>1, <4>2, NodesDef DEF IsStrictPrefix
    <3>2. CASE q # <<>>
      <4>1. q \in Seq(Atoms)
        BY <1>17, NodesType
      <4>2. PICK c \in DOMAIN G : IsPrefix(q, G[c])
        BY <1>17, <3>2, NodesDef
      <4>3. CASE c = m
        <5>1. IsPrefix(q, t)
          BY <1>16, <4>2, <4>3
        <5>2. IsPrefix(q, A[m])
          BY <1>2, <1>6, <1>10, <1>12, <4>1, <5>1, PrefixTransitive
        <5>3. q # a
          BY <1>2, <1>10, <5>2
        <5>4. ~IsStrictPrefix(t, q)
          <6>1. IsPrefix(t, q) => Len(t) = Len(q)
            BY <1>6, <4>1, <5>1, PrefixDef
          <6>2. IsPrefix(t, q) => t = q
            BY <1>6, <4>1, <5>1, <6>1, PrefixReflexive, PrefixesCompare
          <6>3. QED
            BY <6>2 DEF IsStrictPrefix
        <5>5. QED
          BY <1>0, <1>10, <4>1, <5>2, <5>3, <5>4, NodesDef
      <4>4. CASE c # m
        <5>1. c \in DOMAIN A \ {b, m} /\ IsPrefix(q, A[c])
          BY <1>16, <4>2, <4>4
        <5>2. q # a
          BY <1>2, <5>1
        <5>3. ~IsPrefix(t, q)
          BY <1>2, <1>6, <1>14, <4>1, <5>1, PrefixTransitive
        <5>4. QED
          BY <1>0, <4>1, <5>1, <5>2, <5>3, NodesDef DEF IsStrictPrefix
      <4>5. QED
        BY <4>3, <4>4
    <3>3. QED
      BY <3>1, <3>2
  <2>2. ASSUME NEW q \in Nodes(A), q # a, ~IsStrictPrefix(t, q)
        PROVE  q \in Nodes(G)
    <3>1. CASE q = <<>>
      BY <1>17, <3>1, NodesDef
    <3>2. CASE q # <<>>
      <4>1. q \in Seq(Atoms)
        BY <1>0, NodesType
      <4>2. PICK c \in DOMAIN A : IsPrefix(q, A[c])
        BY <1>0, <3>2, NodesDef
      <4>3. CASE c \in {b, m}
        <5>1. A[c] \in Seq(Atoms) /\ IsPrefix(t, A[c])
          BY <1>2, <1>6, <1>12, <4>2, <4>3
        <5>2. IsPrefix(q, t) \/ IsPrefix(t, q)
          BY <1>6, <4>1, <4>2, <5>1, PrefixesCompare
        <5>3. IsPrefix(q, t)
          BY <1>6, <2>2, <5>2, PrefixReflexive DEF IsStrictPrefix
        <5>4. m \in DOMAIN G /\ G[m] = t
          BY <1>10, <1>16
        <5>5. QED
          BY <1>17, <4>1, <5>3, <5>4, NodesDef
      <4>4. CASE c \notin {b, m}
        BY <1>16, <1>17, <4>1, <4>2, <4>4, NodesDef
      <4>5. QED
        BY <4>3, <4>4
    <3>3. QED
      BY <3>1, <3>2
  <2>3. QED
    BY <2>1, <2>2
<1>23. Nodes(G) = {q \in Nodes(A) \ {a} : ~IsStrictPrefix(t, q)}
  BY <1>22
<1>24. \A p, c : c \in Under(G, p) <=> \/ c = m /\ IsPrefix(p, t)
                                       \/ c \in DOMAIN A \ {b, m} /\ IsPrefix(p, A[c])
  BY <1>10, <1>16 DEF Under
<1>25. Under(G, t) = {m}
  BY <1>6, <1>14, <1>24, PrefixReflexive
<1>26. ASSUME NEW p \in Nodes(G)
       PROVE  Under(G, p) = Under(A, p) \ {b}
  <2>1. p \in Seq(Atoms) /\ ~IsStrictPrefix(t, p)
    BY <1>17, <1>22, NodesType
  <2>2. A[m] \in Seq(Atoms)
    BY <1>2, <1>10
  <2>3. IsPrefix(p, t) => IsPrefix(p, A[m])
    BY <1>6, <1>12, <2>1, <2>2, PrefixTransitive
  <2>4. IsPrefix(p, A[m]) => IsPrefix(p, t) \/ IsPrefix(t, p)
    BY <1>6, <1>12, <2>1, <2>2, PrefixesCompare
  <2>5. IsPrefix(p, t) <=> IsPrefix(p, A[m])
    BY <1>6, <2>1, <2>3, <2>4, PrefixReflexive DEF IsStrictPrefix
  <2>6. \A c : c \in Under(G, p) <=> c \in Under(A, p) /\ c # b
    BY <1>10, <1>24, <2>5 DEF Under
  <2>7. QED
    BY <2>6
<1>27. IsTree(G)
  BY <1>17, <1>18, <1>19, <1>21 DEF IsTree
<1>28. QED
  BY <1>10, <1>16, <1>23, <1>25, <1>26, <1>27 DEF IsShrunk, G, S, t, low, L

(***************************************************************************)
(* The operations of a neighborhood.                                       *)
(***************************************************************************)

\* The addresses of sorted entries: one for each member, the one its entry has.
LEMMA EntriesFacts ==
  ASSUME NEW es \in Seq(Entry), InByteOrder(es)
  PROVE  LET A == AddressesOf(es) IN
         /\ \A b : b \in DOMAIN A <=> \E i \in 1..Len(es) : es[i].bytes = b
         /\ \A i \in 1..Len(es) : /\ es[i] \in Entry
                                  /\ es[i].bytes \in Contents /\ es[i].bytes \in Nat
                                  /\ es[i].address \in Seq(Atoms) /\ es[i].address # <<>>
                                  /\ es[i].bytes \in DOMAIN A
                                  /\ A[es[i].bytes] = es[i].address
         /\ \A i, j \in 1..Len(es) : es[i].bytes = es[j].bytes => i = j
<1> DEFINE A == AddressesOf(es)
<1>1. DOMAIN es = 1..Len(es) /\ Len(es) \in Nat
  OBVIOUS
<1>2. \A i \in 1..Len(es) : /\ es[i] \in Entry
                            /\ es[i].bytes \in Contents /\ es[i].bytes \in Nat
                            /\ es[i].address \in Seq(Atoms) /\ es[i].address # <<>>
  <2> TAKE i \in 1..Len(es)
  <2>1. es[i] \in Entry
    OBVIOUS
  <2> QED BY <2>1, ContentsAssumption DEF Entry, Address
<1>3. \A i, j \in 1..Len(es) : es[i].bytes = es[j].bytes => i = j
  <2> SUFFICES ASSUME NEW i \in 1..Len(es), NEW j \in 1..Len(es), i < j
               PROVE  es[i].bytes # es[j].bytes
    OBVIOUS
  <2>1. es[i].bytes < es[j].bytes
    BY <1>1 DEF InByteOrder
  <2>2. es[i].bytes \in Nat /\ es[j].bytes \in Nat
    BY <1>2
  <2> QED BY <2>1, <2>2
<1>4. \A b : b \in DOMAIN A <=> \E i \in 1..Len(es) : es[i].bytes = b
  BY <1>1 DEF AddressesOf
<1>5. ASSUME NEW i \in 1..Len(es)
      PROVE  es[i].bytes \in DOMAIN A /\ A[es[i].bytes] = es[i].address
  <2> DEFINE k == CHOOSE k \in DOMAIN es : es[k].bytes = es[i].bytes
  <2>1. k \in 1..Len(es) /\ es[k].bytes = es[i].bytes
    BY <1>1
  <2>2. k = i
    BY <2>1, <1>3
  <2>3. es[i].bytes \in DOMAIN A
    BY <1>4
  <2>4. A[es[i].bytes] = es[k].address
    BY <1>1, <2>3 DEF AddressesOf
  <2> QED BY <2>2, <2>3, <2>4
<1> HIDE DEF A
<1>6. /\ \A b : b \in DOMAIN A <=> \E i \in 1..Len(es) : es[i].bytes = b
      /\ \A i \in 1..Len(es) : /\ es[i] \in Entry
                               /\ es[i].bytes \in Contents /\ es[i].bytes \in Nat
                               /\ es[i].address \in Seq(Atoms) /\ es[i].address # <<>>
                               /\ es[i].bytes \in DOMAIN A
                               /\ A[es[i].bytes] = es[i].address
      /\ \A i, j \in 1..Len(es) : es[i].bytes = es[j].bytes => i = j
  BY <1>2, <1>3, <1>4, <1>5
<1> QED BY <1>6 DEF A

\* A function is the addresses of the entries if it agrees with each of them.
LEMMA AddressesAre ==
  ASSUME NEW es \in Seq(Entry), InByteOrder(es), NEW F, F = [b \in DOMAIN F |-> F[b]],
         \A b \in DOMAIN F : \E i \in 1..Len(es) : es[i].bytes = b,
         \A i \in 1..Len(es) : es[i].bytes \in DOMAIN F /\ F[es[i].bytes] = es[i].address
  PROVE  AddressesOf(es) = F
<1> DEFINE A == AddressesOf(es)
<1>1. A = [b \in DOMAIN A |-> A[b]]
  BY DEF AddressesOf
<1>2. /\ \A b : b \in DOMAIN A <=> \E i \in 1..Len(es) : es[i].bytes = b
      /\ \A i \in 1..Len(es) : A[es[i].bytes] = es[i].address
  BY EntriesFacts
<1> HIDE DEF A
<1>3. DOMAIN A = DOMAIN F
  <2>1. \A b : b \in DOMAIN A <=> b \in DOMAIN F
    BY <1>2
  <2> QED BY <2>1
<1>4. \A b \in DOMAIN A : A[b] = F[b]
  BY <1>2
<1>5. A = F
  BY <1>1, <1>3, <1>4
<1> QED BY <1>5 DEF A

\* Inserting an entry at its place in byte order adds its address and no other
\* (apply_insert, Vec::insert).
LEMMA AddressesOfInsert ==
  ASSUME NEW es \in Seq(Entry), InByteOrder(es), NEW pos \in 1..(Len(es) + 1),
         NEW e \in Entry,
         \A j \in 1..(pos - 1) : es[j].bytes < e.bytes,
         \A j \in pos..Len(es) : es[j].bytes > e.bytes
  PROVE  LET new == InsertAt(es, pos, e) IN
         /\ new \in Seq(Entry)
         /\ InByteOrder(new)
         /\ AddressesOf(new) = Put(AddressesOf(es), e.bytes, e.address)
<1> DEFINE new == InsertAt(es, pos, e)
           F == Put(AddressesOf(es), e.bytes, e.address)
           Up(i) == IF i >= pos THEN i + 1 ELSE i
           Down(i) == IF i > pos THEN i - 1 ELSE i
<1>1. /\ new \in Seq(Entry) /\ Len(new) = Len(es) + 1 /\ new[pos] = e
      /\ \A i \in 1..Len(es) : new[Up(i)] = es[i]
  BY InsertAtProperties
<1>2. ASSUME NEW i \in 1..Len(new), i # pos
      PROVE  Down(i) \in 1..Len(es) /\ Up(Down(i)) = i /\ new[i] = es[Down(i)]
  <2>1. Down(i) \in 1..Len(es) /\ Up(Down(i)) = i
    BY <1>1, <1>2
  <2> HIDE DEF Down, Up
  <2> QED BY <2>1, <1>1
<1>3. e.bytes \in Nat /\ e.bytes \in Contents
  BY ContentsAssumption DEF Entry
<1>4. /\ \A i \in 1..Len(es) : /\ es[i].bytes \in Nat /\ es[i].bytes \in DOMAIN AddressesOf(es)
                               /\ AddressesOf(es)[es[i].bytes] = es[i].address
      /\ \A b : b \in DOMAIN AddressesOf(es) <=> \E i \in 1..Len(es) : es[i].bytes = b
  BY EntriesFacts
<1>5. ASSUME NEW i \in 1..Len(es) PROVE es[i].bytes # e.bytes
  <2>1. i \in 1..(pos - 1) \/ i \in pos..Len(es)
    OBVIOUS
  <2>2. es[i].bytes < e.bytes \/ es[i].bytes > e.bytes
    BY <2>1
  <2> QED BY <2>2, <1>3, <1>4
<1> HIDE DEF new
<1>6. InByteOrder(new)
  <2> SUFFICES ASSUME NEW i \in 1..Len(new), NEW j \in 1..Len(new), i < j
               PROVE  new[i].bytes < new[j].bytes
    BY <1>1 DEF InByteOrder
  <2>1. CASE i = pos
    <3>1. Down(j) \in pos..Len(es) /\ new[j] = es[Down(j)]
      BY <1>2, <2>1, <1>1
    <3>2. es[Down(j)].bytes > e.bytes
      BY <3>1
    <3> QED BY <3>1, <3>2, <1>1, <2>1, <1>3, <1>4
  <2>2. CASE j = pos
    <3>1. Down(i) \in 1..(pos - 1) /\ new[i] = es[Down(i)]
      BY <1>2, <2>2, <1>1
    <3>2. es[Down(i)].bytes < e.bytes
      BY <3>1
    <3> QED BY <3>1, <3>2, <1>1, <2>2, <1>3, <1>4
  <2>3. CASE i # pos /\ j # pos
    <3>1. /\ Down(i) \in 1..Len(es) /\ new[i] = es[Down(i)]
          /\ Down(j) \in 1..Len(es) /\ new[j] = es[Down(j)]
      BY <1>2, <2>3
    <3>2. Down(i) < Down(j)
      BY <2>3
    <3> HIDE DEF Down
    <3>3. es[Down(i)].bytes < es[Down(j)].bytes
      BY <3>1, <3>2 DEF InByteOrder
    <3> QED BY <3>1, <3>3
  <2> QED BY <2>1, <2>2, <2>3
<1>7. F = [b \in DOMAIN F |-> F[b]] /\ DOMAIN F = DOMAIN AddressesOf(es) \cup {e.bytes}
  BY DEF Put
<1>8. ASSUME NEW i \in 1..Len(new)
      PROVE  new[i].bytes \in DOMAIN F /\ F[new[i].bytes] = new[i].address
  <2>1. CASE i = pos
    BY <1>1, <2>1 DEF Put
  <2>2. CASE i # pos
    <3>1. Down(i) \in 1..Len(es) /\ new[i] = es[Down(i)]
      BY <1>2, <2>2
    <3> HIDE DEF Down
    <3>2. new[i].bytes # e.bytes /\ new[i].bytes \in DOMAIN AddressesOf(es)
      BY <3>1, <1>4, <1>5
    <3>3. F[new[i].bytes] = AddressesOf(es)[new[i].bytes]
      BY <3>2 DEF Put
    <3> QED BY <3>1, <3>2, <3>3, <1>4, <1>7
  <2> QED BY <2>1, <2>2
<1>9. \A b \in DOMAIN F : \E i \in 1..Len(new) : new[i].bytes = b
  <2> SUFFICES ASSUME NEW b \in DOMAIN F
               PROVE  \E i \in 1..Len(new) : new[i].bytes = b
    OBVIOUS
  <2>1. CASE b = e.bytes
    BY <2>1, <1>1
  <2>2. CASE b # e.bytes
    <3>1. PICK i \in 1..Len(es) : es[i].bytes = b
      BY <2>2, <1>7, <1>4
    <3>2. Up(i) \in 1..Len(new)
      BY <1>1
    <3> HIDE DEF Up
    <3>3. new[Up(i)] = es[i]
      BY <1>1
    <3> QED BY <3>1, <3>2, <3>3
  <2> QED BY <2>1, <2>2
<1> HIDE DEF F
<1>10. AddressesOf(new) = F
  BY <1>1, <1>6, <1>7, <1>8, <1>9, AddressesAre
<1> QED BY <1>1, <1>6, <1>10 DEF new, F

\* One entry with another address.
LEMMA AddressesOfMove ==
  ASSUME NEW es \in Seq(Entry), InByteOrder(es), NEW m \in 1..Len(es), NEW a \in Address
  PROVE  LET new == [es EXCEPT ![m].address = a] IN
         /\ new \in Seq(Entry) /\ Len(new) = Len(es)
         /\ \A i \in 1..Len(es) : /\ new[i].bytes = es[i].bytes
                                  /\ new[i].identifier = es[i].identifier
                                  /\ new[i].address = IF i = m THEN a ELSE es[i].address
         /\ InByteOrder(new)
         /\ AddressesOf(new) = Put(AddressesOf(es), es[m].bytes, a)
<1> DEFINE new == [es EXCEPT ![m].address = a]
           F == Put(AddressesOf(es), es[m].bytes, a)
<1>1. /\ new \in Seq(Entry) /\ Len(new) = Len(es)
      /\ \A i \in 1..Len(es) : /\ new[i].bytes = es[i].bytes
                               /\ new[i].identifier = es[i].identifier
                               /\ new[i].address = IF i = m THEN a ELSE es[i].address
  <2>1. es[m] \in Entry
    OBVIOUS
  <2>2. [es[m] EXCEPT !.address = a] \in Entry
    BY <2>1 DEF Entry
  <2>3. new = [es EXCEPT ![m] = [es[m] EXCEPT !.address = a]]
    OBVIOUS
  <2>4. new \in Seq(Entry) /\ Len(new) = Len(es)
    BY <2>2, <2>3
  <2>5. \A i \in 1..Len(es) : new[i] = IF i = m THEN [es[m] EXCEPT !.address = a] ELSE es[i]
    BY <2>3
  <2>6. /\ [es[m] EXCEPT !.address = a].bytes = es[m].bytes
        /\ [es[m] EXCEPT !.address = a].identifier = es[m].identifier
        /\ [es[m] EXCEPT !.address = a].address = a
    BY <2>1 DEF Entry
  <2> HIDE DEF new
  <2> QED BY <2>4, <2>5, <2>6
<1> HIDE DEF new
<1>2. InByteOrder(new)
  BY <1>1 DEF InByteOrder
<1>3. F = [b \in DOMAIN F |-> F[b]] /\ DOMAIN F = DOMAIN AddressesOf(es) \cup {es[m].bytes}
  BY DEF Put
<1>4. /\ \A b : b \in DOMAIN AddressesOf(es) <=> \E i \in 1..Len(es) : es[i].bytes = b
      /\ \A i \in 1..Len(es) : /\ es[i].bytes \in DOMAIN AddressesOf(es)
                               /\ AddressesOf(es)[es[i].bytes] = es[i].address
      /\ \A i, j \in 1..Len(es) : es[i].bytes = es[j].bytes => i = j
  BY EntriesFacts
<1>5. ASSUME NEW i \in 1..Len(new)
      PROVE  new[i].bytes \in DOMAIN F /\ F[new[i].bytes] = new[i].address
  <2>1. CASE i = m
    BY <1>1, <1>4, <2>1 DEF Put
  <2>2. CASE i # m
    <3>1. es[i].bytes # es[m].bytes
      BY <1>1, <1>4, <2>2
    <3> QED BY <1>1, <1>4, <2>2, <3>1 DEF Put
  <2> QED BY <2>1, <2>2
<1>6. \A b \in DOMAIN F : \E i \in 1..Len(new) : new[i].bytes = b
  BY <1>1, <1>3, <1>4
<1> HIDE DEF F
<1>7. AddressesOf(new) = F
  BY <1>1, <1>2, <1>3, <1>5, <1>6, AddressesAre, SMTT(40)
<1> QED BY <1>1, <1>2, <1>7 DEF new, F

\* One entry less.
LEMMA AddressesOfRemove ==
  ASSUME NEW es \in Seq(Entry), InByteOrder(es), NEW pos \in 1..Len(es)
  PROVE  LET new == RemoveAt(es, pos) IN
         /\ new \in Seq(Entry)
         /\ InByteOrder(new)
         /\ AddressesOf(new) = Drop(AddressesOf(es), es[pos].bytes)
<1> DEFINE new == RemoveAt(es, pos)
           F == Drop(AddressesOf(es), es[pos].bytes)
           Up(i) == IF i >= pos THEN i + 1 ELSE i
           Down(i) == IF i > pos THEN i - 1 ELSE i
<1>1. /\ new \in Seq(Entry) /\ Len(new) = Len(es) - 1
      /\ \A i \in 1..Len(es) : i # pos => new[Down(i)] = es[i]
  BY RemoveAtProperties
<1>2. ASSUME NEW i \in 1..Len(new)
      PROVE  /\ Up(i) \in 1..Len(es) /\ Up(i) # pos /\ Down(Up(i)) = i /\ new[i] = es[Up(i)]
  <2>1. Up(i) \in 1..Len(es) /\ Up(i) # pos /\ Down(Up(i)) = i
    BY <1>1
  <2> HIDE DEF Down, Up
  <2> QED BY <2>1, <1>1
<1> HIDE DEF new
<1>3. InByteOrder(new)
  <2> HIDE DEF Down, Up
  <2>0. DOMAIN new = 1..Len(new)
    BY <1>1
  <2> SUFFICES ASSUME NEW i \in 1..Len(new), NEW j \in 1..Len(new), i < j
               PROVE  new[i].bytes < new[j].bytes
    BY <2>0 DEF InByteOrder
  <2> USE DEF Up
  <2>1. /\ Up(i) \in 1..Len(es) /\ new[i] = es[Up(i)]
        /\ Up(j) \in 1..Len(es) /\ new[j] = es[Up(j)]
    BY <1>2
  <2>2. Up(i) < Up(j) /\ Up(i) \in DOMAIN es /\ Up(j) \in DOMAIN es
    BY <2>1
  <2> HIDE DEF Up
  <2>3. es[Up(i)].bytes < es[Up(j)].bytes
    BY <2>2 DEF InByteOrder
  <2> QED BY <2>1, <2>3
<1>4. /\ \A b : b \in DOMAIN AddressesOf(es) <=> \E i \in 1..Len(es) : es[i].bytes = b
      /\ \A i \in 1..Len(es) : AddressesOf(es)[es[i].bytes] = es[i].address
      /\ \A i, j \in 1..Len(es) : es[i].bytes = es[j].bytes => i = j
  BY EntriesFacts
<1>5. /\ F = [b \in DOMAIN F |-> F[b]] /\ DOMAIN F = DOMAIN AddressesOf(es) \ {es[pos].bytes}
      /\ \A b \in DOMAIN F : F[b] = AddressesOf(es)[b]
  BY DEF Drop
<1> HIDE DEF F, Up
<1>6. ASSUME NEW i \in 1..Len(new)
      PROVE  new[i].bytes \in DOMAIN F /\ F[new[i].bytes] = new[i].address
  BY <1>2, <1>4, <1>5
<1>7. \A b \in DOMAIN F : \E i \in 1..Len(new) : new[i].bytes = b
  <2> SUFFICES ASSUME NEW b \in DOMAIN F
               PROVE  \E i \in 1..Len(new) : new[i].bytes = b
    OBVIOUS
  <2>1. PICK i \in 1..Len(es) : es[i].bytes = b
    BY <1>4, <1>5
  <2>2. i # pos
    BY <1>5, <2>1
  <2>3. Down(i) \in 1..Len(new)
    BY <1>1, <2>2
  <2> HIDE DEF Down
  <2> QED BY <1>1, <2>1, <2>2, <2>3
<1>8. AddressesOf(new) = F
  BY <1>1, <1>3, <1>5, <1>6, <1>7, AddressesAre
<1> QED BY <1>1, <1>3, <1>8 DEF new, F

-----------------------------------------------------------------------------
(* Insertion.                                                              *)

\* What soundness says of the entries and of the trie, member by member.
LEMMA SoundFacts ==
  ASSUME NEW n, Sound(n)
  PROVE  LET A == AddressesOf(n.entries) IN
         /\ n.entries \in Seq(Entry) /\ DOMAIN n.entries = 1..Len(n.entries)
         /\ Len(n.entries) \in Nat
         /\ DOMAIN n.trie = Nodes(A) /\ n.trie \in [Nodes(A) -> TrieNode]
         /\ \A p \in Nodes(A) :
              /\ p \in Seq(Atoms) /\ Len(p) \in Nat
              /\ n.trie[p] \in TrieNode
              /\ n.trie[p].slot \in Nat /\ n.trie[p].content \in Int
              /\ n.trie[p].count = Cardinality(Under(A, p))
              /\ n.trie[p].content \in 1..Len(n.entries) \cup {Vacant}
              /\ n.trie[p].content # Vacant => n.entries[n.trie[p].content].address = p
              /\ \A i \in 1..Len(n.entries) :
                   n.entries[i].address = p => n.trie[p].content = i
         /\ \A i \in 1..Len(n.entries) : n.entries[i].address \in Nodes(A)
<1> DEFINE A == AddressesOf(n.entries)
<1>1. /\ n.entries \in Seq(Entry) /\ DOMAIN n.entries = 1..Len(n.entries)
      /\ Len(n.entries) \in Nat
  BY DEF Sound, IsNeighborhood
<1>2. DOMAIN n.trie = Nodes(A) /\ n.trie \in [Nodes(A) -> TrieNode] /\ IsAddressMap(A)
  BY DEF Sound, TrieSpans, IsNeighborhood, IsTree
<1>3. InByteOrder(n.entries)
  BY DEF Sound
<1>4. ASSUME NEW p \in Nodes(A)
      PROVE  /\ p \in Seq(Atoms) /\ Len(p) \in Nat
             /\ n.trie[p] \in TrieNode
             /\ n.trie[p].slot \in Nat /\ n.trie[p].content \in Int
             /\ n.trie[p].count = Cardinality(Under(A, p))
             /\ n.trie[p].content \in 1..Len(n.entries) \cup {Vacant}
             /\ n.trie[p].content # Vacant => n.entries[n.trie[p].content].address = p
             /\ \A i \in 1..Len(n.entries) :
                  n.entries[i].address = p => n.trie[p].content = i
  <2>1. p \in Seq(Atoms) /\ Len(p) \in Nat
    BY <1>2, NodesType
  <2>2. n.trie[p] \in TrieNode
    BY <1>2
  <2>3. n.trie[p].slot \in Nat /\ n.trie[p].content \in Int
    BY <2>2 DEF TrieNode
  <2>4. /\ n.trie[p].count = Cardinality(Under(A, p))
        /\ n.trie[p].content \in DOMAIN n.entries \cup {Vacant}
        /\ \A i \in DOMAIN n.entries : n.trie[p].content = i <=> n.entries[i].address = p
    BY <1>2 DEF Sound, TrieSpans
  <2> HIDE DEF A
  <2> QED BY <1>1, <2>1, <2>2, <2>3, <2>4
<1>5. ASSUME NEW i \in 1..Len(n.entries)
      PROVE  n.entries[i].address \in Nodes(A)
  <2>1. /\ n.entries[i].address \in Seq(Atoms) /\ n.entries[i].bytes \in DOMAIN A
        /\ A[n.entries[i].bytes] = n.entries[i].address
    BY <1>1, <1>3, EntriesFacts
  <2>2. IsPrefix(A[n.entries[i].bytes], A[n.entries[i].bytes])
    BY <2>1, PrefixReflexive
  <2> HIDE DEF A
  <2> QED BY <1>2, <2>1, <2>2, NodesDef
<1> QED BY <1>1, <1>2, <1>4, <1>5

\* Two entries never have the same address.
LEMMA AddressIsOwn ==
  ASSUME NEW es \in Seq(Entry), InByteOrder(es), IsTree(AddressesOf(es)),
         NEW i \in 1..Len(es), NEW k \in 1..Len(es),
         IsPrefix(es[i].address, es[k].address)
  PROVE  i = k
<1> DEFINE A == AddressesOf(es)
<1>1. /\ es[i].bytes \in DOMAIN A /\ A[es[i].bytes] = es[i].address
      /\ es[k].bytes \in DOMAIN A /\ A[es[k].bytes] = es[k].address
      /\ es[i].bytes = es[k].bytes => i = k
  BY EntriesFacts
<1> HIDE DEF A
<1>2. es[i].bytes = es[k].bytes
  BY <1>1 DEF IsTree, Separate, A
<1> QED BY <1>1, <1>2

\* Where plan_insert's walk ends, for a content that is not a member.
LEMMA WalkFacts ==
  ASSUME NEW n, Sound(n), NEW b \in Contents, NEW d \in WalkEnds(n, b)
  PROVE  LET A == AddressesOf(n.entries)
             c == n.trie[Prefix(b, d)].content
         IN /\ d \in Nat
            /\ Prefix(b, d) \in Nodes(A)
            /\ \A k \in 0..(d - 1), i \in 1..Len(n.entries) :
                 n.entries[i].address # Prefix(b, k)
            /\ c = Vacant => /\ Prefix(b, d + 1) \notin Nodes(A)
                             /\ \A i \in 1..Len(n.entries) :
                                  n.entries[i].address # Prefix(b, d)
            /\ c # Vacant => c \in 1..Len(n.entries) /\ n.entries[c].address = Prefix(b, d)
<1> DEFINE A == AddressesOf(n.entries)
           c == n.trie[Prefix(b, d)].content
<1>1. /\ DOMAIN n.trie = Nodes(A)
      /\ \A p \in Nodes(A) :
           /\ Len(p) \in Nat
           /\ n.trie[p].content \in 1..Len(n.entries) \cup {Vacant}
           /\ n.trie[p].content # Vacant => n.entries[n.trie[p].content].address = p
           /\ \A i \in 1..Len(n.entries) :
                n.entries[i].address = p => n.trie[p].content = i
      /\ \A i \in 1..Len(n.entries) : n.entries[i].address \in Nodes(A)
  BY SoundFacts
<1>2. /\ d \in {Len(p) : p \in DOMAIN n.trie}
      /\ \A k \in 0..d : Prefix(b, k) \in DOMAIN n.trie
      /\ \A k \in 0..(d - 1) : n.trie[Prefix(b, k)].content = Vacant
      /\ \/ n.trie[Prefix(b, d)].content # Vacant
         \/ Prefix(b, d + 1) \notin DOMAIN n.trie
  BY DEF WalkEnds
<1> HIDE DEF A
<1>3. d \in Nat
  BY <1>1, <1>2
<1>4. Prefix(b, d) \in Nodes(A)
  BY <1>1, <1>2, <1>3
<1>5. ASSUME NEW k \in 0..(d - 1), NEW i \in 1..Len(n.entries)
      PROVE  n.entries[i].address # Prefix(b, k)
  <2>1. Prefix(b, k) \in Nodes(A) /\ n.trie[Prefix(b, k)].content = Vacant
    BY <1>1, <1>2, <1>3
  <2> QED BY <1>1, <2>1 DEF Vacant
<1>6. c = Vacant => /\ Prefix(b, d + 1) \notin Nodes(A)
                    /\ \A i \in 1..Len(n.entries) : n.entries[i].address # Prefix(b, d)
  BY <1>1, <1>2, <1>4 DEF Vacant
<1>7. c # Vacant => c \in 1..Len(n.entries) /\ n.entries[c].address = Prefix(b, d)
  BY <1>1, <1>4
<1> QED BY <1>3, <1>4, <1>5, <1>6, <1>7 DEF A

\* The addresses after the insertion of b by a plan.
Grown(n, b, plan) ==
  LET A   == AddressesOf(n.entries)
      end == plan.base + plan.shared + 1
      m   == n.entries[plan.member].bytes
  IN Put(IF plan.member = Vacant THEN A ELSE Put(A, m, Prefix(m, end)), b, Prefix(b, end))

\* A plan that turns a tree of addresses into another.
PlanFits(n, b, plan) ==
  LET A     == AddressesOf(n.entries)
      G     == Grown(n, b, plan)
      paths == NewPaths(n, b, plan)
      k     == NewCount(plan)
      m     == n.entries[plan.member].bytes
  IN /\ plan = [base |-> plan.base, member |-> plan.member, shared |-> plan.shared]
     /\ plan.base \in Nat /\ plan.shared \in Nat
     /\ plan.member \in 1..Len(n.entries) \cup {Vacant}
     /\ plan.member = Vacant => plan.shared = 0
     /\ \A i \in 1..Len(n.entries) :
          n.entries[i].address = Prefix(b, plan.base) <=> i = plan.member
     /\ Len(paths) = k /\ DOMAIN paths = 1..k
     /\ \A i \in 1..k : paths[i] \in Seq(Atoms) /\ paths[i] # <<>>
     /\ paths[k] = Prefix(b, plan.base + plan.shared + 1)
     /\ plan.member # Vacant => paths[k - 1] = Prefix(m, plan.base + plan.shared + 1)
     /\ \A i \in 1..plan.shared : Len(paths[i]) = plan.base + i
     /\ IsTree(G)
     /\ Nodes(G) = Nodes(A) \cup Range(paths)
     /\ \A p \in Nodes(A) :
          Under(G, p) = Under(A, p) \cup (IF p = Prefix(b, Len(p)) THEN {b} ELSE {})
     /\ \A p \in Nodes(A) \ Range(paths) : p = Prefix(b, Len(p)) => Len(p) <= plan.base
     /\ \A i \in 1..plan.shared : Under(G, paths[i]) = {b, m}
     /\ plan.member # Vacant => Under(G, paths[k - 1]) = {m}
     /\ Under(G, paths[k]) = {b}

\* The plan of a new leaf.
LEMMA LeafFits ==
  ASSUME NEW n, Sound(n), NEW b \in Contents, b \notin DOMAIN AddressesOf(n.entries),
         NEW d \in WalkEnds(n, b), n.trie[Prefix(b, d)].content = Vacant
  PROVE  PlanFits(n, b, [base |-> d, member |-> Vacant, shared |-> 0])
<1> DEFINE A == AddressesOf(n.entries)
           plan == [base |-> d, member |-> Vacant, shared |-> 0]
           a == Prefix(b, d + 1)
           G == Put(A, b, a)
<1>1. /\ d \in Nat
      /\ Prefix(b, d) \in Nodes(A)
      /\ \A k \in 0..(d - 1), i \in 1..Len(n.entries) : n.entries[i].address # Prefix(b, k)
      /\ Prefix(b, d + 1) \notin Nodes(A)
      /\ \A i \in 1..Len(n.entries) : n.entries[i].address # Prefix(b, d)
  BY WalkFacts
<1>2. IsTree(A) /\ IsAddressMap(A)
  BY DEF Sound, IsTree
<1>3. ASSUME NEW k \in 0..d, NEW c \in DOMAIN A
      PROVE  A[c] # Prefix(b, k)
  <2>1. PICK i \in 1..Len(n.entries) : n.entries[i].bytes = c
    BY EntriesFacts, SoundFacts DEF Sound
  <2>2. A[c] = n.entries[i].address
    BY <2>1, EntriesFacts, SoundFacts DEF Sound
  <2>3. k = d \/ k \in 0..(d - 1)
    BY <1>1
  <2> QED BY <1>1, <2>2, <2>3
<1>4. /\ IsTree(G)
      /\ Nodes(G) = Nodes(A) \cup {a}
      /\ \A p \in Nodes(A) :
           Under(G, p) = Under(A, p) \cup (IF p = Prefix(b, Len(p)) THEN {b} ELSE {})
      /\ Under(G, a) = {b}
  <2> HIDE DEF A
  <2> QED BY <1>1, <1>2, <1>3, GrowLeaf DEF A
<1>5. /\ a \in Seq(Atoms) /\ Len(a) = d + 1 /\ a # <<>>
  BY <1>1, PrefixProperties
<1>6. /\ NewPaths(n, b, plan) = <<a>> /\ NewCount(plan) = 1
      /\ Grown(n, b, plan) = G
  BY <1>1 DEF NewPaths, NewCount, Grown
<1>7. ASSUME NEW p \in Nodes(A), p = Prefix(b, Len(p))
      PROVE  Len(p) <= d
  <2> SUFFICES ASSUME Len(p) > d PROVE FALSE
    BY <1>1, <1>2, NodesType
  <2>1. p \in Seq(Atoms) /\ Len(p) \in Nat
    BY <1>2, NodesType
  <2>2. IsPrefix(a, Prefix(b, Len(p)))
    BY <1>1, <1>5, <2>1, PrefixOfPrefix
  <2> QED BY <1>1, <1>2, <1>5, <1>7, <2>2, NodesBelow
<1>8. Range(<<a>>) = {a}
  BY DEF Range
<1>9. \A i \in 1..Len(n.entries) : n.entries[i].address = Prefix(b, d) <=> i = Vacant
  BY <1>1 DEF Vacant
<1> HIDE DEF A, a, G
<1>10. /\ plan.base = d /\ plan.member = Vacant /\ plan.shared = 0
       /\ plan = [base |-> plan.base, member |-> plan.member, shared |-> plan.shared]
  OBVIOUS
<1>11. Prefix(b, d + 0 + 1) = a
  BY <1>1 DEF a
<1> HIDE DEF plan
<1>12. PlanFits(n, b, plan)
  BY <1>1, <1>4, <1>5, <1>6, <1>7, <1>8, <1>9, <1>10, <1>11 DEF PlanFits, A
<1> QED BY <1>12 DEF plan

\* The plan of a split.
LEMMA SplitFits ==
  ASSUME NEW n, Sound(n), NEW b \in Contents, b \notin DOMAIN AddressesOf(n.entries),
         NEW d \in WalkEnds(n, b), NEW m, m = n.trie[Prefix(b, d)].content, m # Vacant,
         NEW j \in SharedAtoms(b, n.entries[m].bytes, d)
  PROVE  PlanFits(n, b, [base |-> d, member |-> m, shared |-> j])
<1> DEFINE A == AddressesOf(n.entries)
           plan == [base |-> d, member |-> m, shared |-> j]
           end == d + j + 1
           c == n.entries[m].bytes
           a == Prefix(b, end)
           am == Prefix(c, end)
           G == Put(Put(A, c, am), b, a)
           chain == [i \in 1..j |-> Prefix(b, d + i)]
           paths == chain \o <<am, a>>
<1>1. /\ d \in Nat
      /\ Prefix(b, d) \in Nodes(A)
      /\ m \in 1..Len(n.entries) /\ n.entries[m].address = Prefix(b, d)
  BY WalkFacts
<1>2. IsTree(A) /\ IsAddressMap(A) /\ n.entries \in Seq(Entry) /\ InByteOrder(n.entries)
  BY DEF Sound, IsTree, IsNeighborhood
<1>3. /\ c \in Contents /\ c \in DOMAIN A /\ A[c] = Prefix(b, d)
  BY <1>1, <1>2, EntriesFacts
<1>4. /\ j \in Nat
      /\ \A i \in (d + 1)..(d + j) : Stream(b, i) = Stream(c, i)
      /\ Stream(b, d + j + 1) # Stream(c, d + j + 1)
  BY DivergenceAssumption DEF SharedAtoms
<1>5. /\ IsTree(G)
      /\ Nodes(G) = Nodes(A) \cup {Prefix(b, d + i) : i \in 1..j} \cup {a, am}
      /\ \A p \in Nodes(A) :
           Under(G, p) = Under(A, p) \cup (IF p = Prefix(b, Len(p)) THEN {b} ELSE {})
      /\ \A i \in 1..j : Under(G, Prefix(b, d + i)) = {b, c}
      /\ Under(G, a) = {b}
      /\ Under(G, am) = {c}
  <2> HIDE DEF A, c
  <2> QED BY <1>1, <1>2, <1>3, <1>4, GrowSplit DEF A
<1>6. /\ a \in Seq(Atoms) /\ Len(a) = end /\ am \in Seq(Atoms) /\ Len(am) = end
      /\ \A i \in 1..j : Prefix(b, d + i) \in Seq(Atoms) /\ Len(Prefix(b, d + i)) = d + i
      /\ a # <<>> /\ am # <<>>
  <2>1. end \in Nat /\ \A i \in 1..j : d + i \in Nat
    BY <1>1, <1>4
  <2>2. /\ a \in Seq(Atoms) /\ Len(a) = end /\ am \in Seq(Atoms) /\ Len(am) = end
    BY <2>1, <1>3, PrefixProperties
  <2>3. \A i \in 1..j : Prefix(b, d + i) \in Seq(Atoms) /\ Len(Prefix(b, d + i)) = d + i
    BY <2>1, PrefixProperties
  <2>4. a # <<>> /\ am # <<>>
    <3>1. end > 0
      BY <1>1, <1>4
    <3> HIDE DEF a, am, end
    <3> QED BY <2>2, <3>1
  <2> QED BY <2>2, <2>3, <2>4
<1> HIDE DEF a, am
<1>7. /\ chain \in Seq(Seq(Atoms)) /\ Len(chain) = j
      /\ \A i \in 1..j : chain[i] = Prefix(b, d + i)
  BY <1>4, <1>6
<1>8. /\ Len(paths) = j + 2 /\ DOMAIN paths = 1..(j + 2)
      /\ \A i \in 1..j : paths[i] = Prefix(b, d + i)
      /\ paths[j + 1] = am /\ paths[j + 2] = a
  <2> HIDE DEF chain
  <2>1. /\ paths \in Seq(Seq(Atoms))
        /\ Len(paths) = Len(chain) + 2
        /\ \A i \in 1..Len(chain) : paths[i] = chain[i]
        /\ paths[Len(chain) + 1] = am
        /\ paths[Len(chain) + 2] = a
    BY <1>6, <1>7, ConcatPair
  <2> HIDE DEF paths
  <2> QED BY <1>4, <1>7, <2>1
<1>9. NewPaths(n, b, plan) = paths
  <2>1. plan.base = d /\ plan.shared = j /\ plan.member = m
    OBVIOUS
  <2> HIDE DEF plan
  <2> QED BY <2>1 DEF NewPaths, a, am
<1> HIDE DEF paths, chain
<1>10. Range(paths) = {Prefix(b, d + i) : i \in 1..j} \cup {a, am}
  <2>1. \A p : p \in Range(paths) <=> \E i \in 1..(j + 2) : paths[i] = p
    BY <1>8 DEF Range
  <2>2. ASSUME NEW p, p \in Range(paths)
        PROVE  p \in {Prefix(b, d + i) : i \in 1..j} \cup {a, am}
    <3>1. PICK i \in 1..(j + 2) : paths[i] = p
      BY <2>1, <2>2
    <3>2. i \in 1..j \/ i = j + 1 \/ i = j + 2
      BY <1>4
    <3> QED BY <3>1, <3>2, <1>8
  <2>3. ASSUME NEW p, p \in {Prefix(b, d + i) : i \in 1..j} \cup {a, am}
        PROVE  p \in Range(paths)
    <3>1. (\E i \in 1..j : p = paths[i]) \/ p = paths[j + 1] \/ p = paths[j + 2]
      BY <2>3, <1>8
    <3>2. j + 1 \in 1..(j + 2) /\ j + 2 \in 1..(j + 2) /\ 1..j \subseteq 1..(j + 2)
      BY <1>4
    <3> QED BY <3>1, <3>2, <2>1
  <2> QED BY <2>2, <2>3
<1>11. ASSUME NEW p \in Nodes(A), p = Prefix(b, Len(p))
       PROVE  Len(p) <= d
  <2> SUFFICES ASSUME Len(p) > d PROVE FALSE
    BY <1>1, <1>2, NodesType
  <2>1. p \in Seq(Atoms) /\ Len(p) \in Nat
    BY <1>2, NodesType
  <2>2. Prefix(b, d) \in Seq(Atoms) /\ Len(Prefix(b, d)) = d
    BY <1>1, PrefixProperties
  <2>3. IsPrefix(Prefix(b, d), p)
    BY <1>1, <1>11, <2>1, <2>2, PrefixOfPrefix
  <2>4. PICK x \in DOMAIN A : IsPrefix(p, A[x])
    <3> HIDE DEF A
    <3>1. p # <<>>
      BY <2>1, <1>1
    <3> QED BY <1>2, <2>1, <3>1, NodesDef
  <2>5. A[x] \in Seq(Atoms)
    BY <1>2 DEF IsAddressMap
  <2>6. IsPrefix(Prefix(b, d), A[x])
    BY <2>1, <2>2, <2>3, <2>4, <2>5, PrefixTransitive
  <2>7. x = c
    BY <1>2, <1>3, <2>6 DEF IsTree, Separate
  <2>8. Len(p) <= d
    <3>1. IsPrefix(p, A[c]) /\ A[c] \in Seq(Atoms)
      BY <2>4, <2>5, <2>7
    <3>2. Len(A[c]) = d
      BY <1>3, <2>2
    <3> HIDE DEF A, c
    <3>3. Len(p) <= Len(A[c])
      BY <2>1, <3>1, PrefixDef, ZenonT(30)
    <3> QED BY <3>2, <3>3
  <2> QED BY <2>1, <2>8, <1>1
<1>12. ASSUME NEW i \in 1..Len(n.entries)
       PROVE  n.entries[i].address = Prefix(b, d) <=> i = m
  <2>1. n.entries[i].address \in Seq(Atoms)
    BY <1>2, EntriesFacts
  <2>2. n.entries[i].address = Prefix(b, d) => i = m
    BY <1>1, <1>2, <2>1, PrefixReflexive, AddressIsOwn
  <2> QED BY <1>1, <2>2
<1>13. NewCount(plan) = j + 2 /\ Grown(n, b, plan) = G
  BY DEF NewCount, Grown, a, am
<1>14. \A i \in 1..(j + 2) : paths[i] \in Seq(Atoms) /\ paths[i] # <<>>
  <2> TAKE i \in 1..(j + 2)
  <2>1. i \in 1..j \/ i = j + 1 \/ i = j + 2
    BY <1>4
  <2>2. CASE i \in 1..j
    <3>1. Len(paths[i]) = d + i /\ paths[i] \in Seq(Atoms)
      BY <1>6, <1>8, <2>2
    <3> QED BY <3>1, <1>1, <1>4
  <2>3. CASE i = j + 1 \/ i = j + 2
    BY <1>6, <1>8, <2>3
  <2> QED BY <2>1, <2>2, <2>3
<1>15. /\ plan.base = d /\ plan.member = m /\ plan.shared = j
       /\ plan = [base |-> plan.base, member |-> plan.member, shared |-> plan.shared]
  OBVIOUS
<1> HIDE DEF A, G, c, plan
<1>16. /\ Prefix(b, plan.base + plan.shared + 1) = a /\ j + 2 - 1 = j + 1
       /\ Prefix(c, plan.base + plan.shared + 1) = am
  BY <1>4, <1>15 DEF a, am
<1>17. \A i \in 1..j : Len(paths[i]) = d + i /\ Under(G, paths[i]) = {b, c}
  BY <1>5, <1>6, <1>8
<1>18. n.entries[plan.member].bytes = c
  BY <1>15 DEF c
<1>19. Nodes(G) = Nodes(A) \cup Range(paths)
  BY <1>5, <1>10
<1>20. /\ \A i \in 1..Len(n.entries) :
             n.entries[i].address = Prefix(b, plan.base) <=> i = plan.member
       /\ Len(paths) = NewCount(plan) /\ DOMAIN paths = 1..NewCount(plan)
       /\ \A i \in 1..NewCount(plan) : paths[i] \in Seq(Atoms) /\ paths[i] # <<>>
       /\ paths[NewCount(plan)] = a
       /\ paths[NewCount(plan) - 1] = am
       /\ \A i \in 1..plan.shared : Len(paths[i]) = plan.base + i
       /\ \A p \in Nodes(A) \ Range(paths) : p = Prefix(b, Len(p)) => Len(p) <= plan.base
       /\ \A i \in 1..plan.shared : Under(G, paths[i]) = {b, c}
  <2>1. NewCount(plan) = j + 2 /\ NewCount(plan) - 1 = j + 1
    BY <1>4, <1>13
  <2>2. /\ Len(paths) = NewCount(plan) /\ DOMAIN paths = 1..NewCount(plan)
        /\ \A i \in 1..NewCount(plan) : paths[i] \in Seq(Atoms) /\ paths[i] # <<>>
        /\ paths[NewCount(plan)] = a
        /\ paths[NewCount(plan) - 1] = am
    BY <1>8, <1>14, <2>1
  <2>3. \A p \in Nodes(A) \ Range(paths) : p = Prefix(b, Len(p)) => Len(p) <= plan.base
    BY <1>11, <1>15
  <2>4. \A i \in 1..plan.shared : Len(paths[i]) = plan.base + i /\ Under(G, paths[i]) = {b, c}
    BY <1>15, <1>17
  <2> QED BY <1>12, <1>15, <2>2, <2>3, <2>4
<1>21. PlanFits(n, b, plan)
  BY <1>1, <1>4, <1>5, <1>8, <1>9, <1>13, <1>15, <1>16, <1>18, <1>19, <1>20
  DEF PlanFits, A
<1> QED BY <1>21 DEF plan

\* The slots an insertion takes, the free list and the arena it leaves.
LEMMA SlotTypes ==
  ASSUME NEW n, IsNeighborhood(n), NEW k \in Nat
  PROVE  /\ \A i \in 1..k : NewSlots(n, k)[i] \in Nat
         /\ FreeAfter(n, k) \in Seq(Nat)
         /\ ArenaAfter(n, k) \in Nat
<1>1. n.free_nodes \in Seq(Nat) /\ n.arena \in Nat /\ Len(n.free_nodes) \in Nat
  BY DEF IsNeighborhood
<1>2. ASSUME NEW i \in 1..k
      PROVE  NewSlots(n, k)[i] \in Nat
  <2>1. CASE i <= Len(n.free_nodes)
    <3>1. Len(n.free_nodes) + 1 - i \in 1..Len(n.free_nodes)
      BY <1>1, <2>1
    <3>2. NewSlots(n, k)[i] = n.free_nodes[Len(n.free_nodes) + 1 - i]
      BY <2>1 DEF NewSlots
    <3> QED BY <1>1, <3>1, <3>2
  <2>2. CASE ~(i <= Len(n.free_nodes))
    BY <1>1, <2>2 DEF NewSlots
  <2> QED BY <2>1, <2>2
<1>3. FreeAfter(n, k) \in Seq(Nat)
  <2>1. Len(n.free_nodes) - k \in Int /\ Len(n.free_nodes) - k <= Len(n.free_nodes)
    BY <1>1
  <2> QED BY <1>1, <2>1 DEF FreeAfter
<1>4. ArenaAfter(n, k) \in Nat
  BY <1>1 DEF ArenaAfter
<1> QED BY <1>2, <1>3, <1>4

\* The entries after an insertion.
LEMMA EntriesGrow ==
  ASSUME NEW n, Sound(n), NEW b \in Contents, b \notin DOMAIN AddressesOf(n.entries),
         NEW id \in Identifiers \cup {NoId}, NEW pos \in InsertPositions(n, b),
         NEW plan, PlanFits(n, b, plan)
  PROVE  LET end   == plan.base + plan.shared + 1
             moved == Prefix(n.entries[plan.member].bytes, end)
             entry == [address |-> Prefix(b, end), bytes |-> b, identifier |-> id]
             new   == EntriesAfterInsert(n, plan, moved, pos, entry)
         IN /\ pos \in 1..(Len(n.entries) + 1)
            /\ Prefix(b, end) \in Address
            /\ plan.member # Vacant => moved \in Address
            /\ new \in Seq(Entry) /\ Len(new) = Len(n.entries) + 1
            /\ InByteOrder(new)
            /\ AddressesOf(new) = Grown(n, b, plan)
            /\ new[pos].address = Prefix(b, end)
            /\ \A i \in 1..Len(n.entries) :
                 new[IF i >= pos THEN i + 1 ELSE i].address =
                   IF i = plan.member THEN moved ELSE n.entries[i].address
<1> DEFINE es    == n.entries
           m     == plan.member
           end   == plan.base + plan.shared + 1
           moved == Prefix(es[m].bytes, end)
           entry == [address |-> Prefix(b, end), bytes |-> b, identifier |-> id]
           old   == IF m = Vacant THEN es ELSE [es EXCEPT ![m].address = moved]
           new   == InsertAt(old, pos, entry)
           Up(i) == IF i >= pos THEN i + 1 ELSE i
<1>1. es \in Seq(Entry) /\ InByteOrder(es) /\ Len(es) \in Nat /\ DOMAIN es = 1..Len(es)
  BY SoundFacts DEF Sound
<1>2. /\ plan.base \in Nat /\ plan.shared \in Nat /\ m \in 1..Len(es) \cup {Vacant}
      /\ Grown(n, b, plan) =
           Put(IF m = Vacant THEN AddressesOf(es) ELSE Put(AddressesOf(es), es[m].bytes, moved),
               b, Prefix(b, end))
  BY DEF PlanFits, Grown
<1>3. end \in Nat /\ end > 0
  BY <1>2
<1>4. Prefix(b, end) \in Address
  <2>1. Prefix(b, end) \in Seq(Atoms) /\ Len(Prefix(b, end)) = end
    BY <1>3, PrefixProperties
  <2>2. Prefix(b, end) # <<>>
    BY <1>3, <2>1
  <2> QED BY <2>1, <2>2 DEF Address
<1>5. m # Vacant => moved \in Address
  <2> SUFFICES ASSUME m # Vacant PROVE moved \in Address
    OBVIOUS
  <2>1. es[m].bytes \in Contents
    BY <1>1, <1>2, EntriesFacts
  <2>2. moved \in Seq(Atoms) /\ Len(moved) = end
    BY <1>3, <2>1, PrefixProperties
  <2>3. moved # <<>>
    BY <1>3, <2>2
  <2> QED BY <2>2, <2>3 DEF Address
<1>6. entry \in Entry
  BY <1>4 DEF Entry
<1>7. /\ pos \in 1..(Len(es) + 1)
      /\ \A i \in 1..(pos - 1) : es[i].bytes < b
      /\ \A i \in pos..Len(es) : es[i].bytes > b
  BY DEF InsertPositions
<1> HIDE DEF es, m, moved, end
<1>8. /\ old \in Seq(Entry) /\ Len(old) = Len(es) /\ InByteOrder(old)
      /\ \A i \in 1..Len(es) : /\ old[i].bytes = es[i].bytes
                               /\ old[i].address = IF i = m THEN moved ELSE es[i].address
      /\ AddressesOf(old) = IF m = Vacant THEN AddressesOf(es)
                            ELSE Put(AddressesOf(es), es[m].bytes, moved)
  <2>1. CASE m = Vacant
    <3>1. old = es /\ \A i \in 1..Len(es) : i # m
      BY <2>1, <1>1 DEF Vacant
    <3> QED BY <2>1, <3>1, <1>1
  <2>2. CASE m # Vacant
    <3> DEFINE e2 == [es EXCEPT ![m].address = moved]
    <3>1. old = e2 /\ m \in 1..Len(es) /\ moved \in Address
      BY <1>2, <1>5, <2>2
    <3>2. /\ e2 \in Seq(Entry) /\ Len(e2) = Len(es)
          /\ \A i \in 1..Len(es) : /\ e2[i].bytes = es[i].bytes
                                   /\ e2[i].identifier = es[i].identifier
                                   /\ e2[i].address = IF i = m THEN moved ELSE es[i].address
          /\ InByteOrder(e2)
          /\ AddressesOf(e2) = Put(AddressesOf(es), es[m].bytes, moved)
      BY <1>1, <3>1, AddressesOfMove
    <3> HIDE DEF e2, old
    <3> QED BY <2>2, <3>1, <3>2
  <2> QED BY <2>1, <2>2
<1>9. entry.bytes = b /\ entry.address = Prefix(b, end)
  OBVIOUS
<1> HIDE DEF old, entry
<1>10. /\ \A i \in 1..(pos - 1) : old[i].bytes < entry.bytes
       /\ \A i \in pos..Len(old) : old[i].bytes > entry.bytes
       /\ pos \in 1..(Len(old) + 1)
  <2>1. ASSUME NEW i \in 1..(pos - 1) PROVE old[i].bytes < b
    <3>1. i \in 1..Len(es)
      BY <1>1, <1>7
    <3> QED BY <1>7, <1>8, <3>1
  <2>2. ASSUME NEW i \in pos..Len(old) PROVE old[i].bytes > b
    <3>1. i \in 1..Len(es) /\ i \in pos..Len(es)
      BY <1>1, <1>7, <1>8
    <3> QED BY <1>7, <1>8, <3>1
  <2> QED BY <1>7, <1>8, <1>9, <2>1, <2>2
<1>11. /\ new \in Seq(Entry)
       /\ InByteOrder(new)
       /\ AddressesOf(new) = Put(AddressesOf(old), entry.bytes, entry.address)
  BY <1>6, <1>8, <1>10, AddressesOfInsert
<1>12. /\ Len(new) = Len(old) + 1 /\ new[pos] = entry
       /\ \A i \in 1..Len(old) : new[Up(i)] = old[i]
  BY <1>6, <1>8, <1>10, InsertAtProperties
<1>13. AddressesOf(new) = Grown(n, b, plan)
  BY <1>2, <1>8, <1>9, <1>11
<1>14. new = EntriesAfterInsert(n, plan, moved, pos, entry)
  BY DEF EntriesAfterInsert, old, es, m
<1> HIDE DEF new, Up
<1>15. \A i \in 1..Len(es) : new[Up(i)].address = IF i = m THEN moved ELSE es[i].address
  BY <1>8, <1>12
<1>16. new[pos].address = Prefix(b, end) /\ Len(new) = Len(es) + 1
  BY <1>8, <1>9, <1>12
<1> QED BY <1>4, <1>5, <1>7, <1>11, <1>13, <1>14, <1>15, <1>16 DEF es, m, moved, end, entry, Up

\* The members below a node are finitely many.
LEMMA UnderFinite ==
  ASSUME NEW A, IsAddressMap(A), NEW p
  PROVE  IsFiniteSet(Under(A, p)) /\ Cardinality(Under(A, p)) \in Nat
<1>1. Under(A, p) \subseteq DOMAIN A
  BY DEF Under
<1>2. IsFiniteSet(DOMAIN A)
  BY DEF IsAddressMap
<1> QED BY <1>1, <1>2, FS_Subset, FS_CardinalityType

\* A new node: its count is right, and it holds the position of the entry at its
\* path, if there is one.
LEMMA NewNodeIsRight ==
  ASSUME NEW n, Sound(n), NEW b \in Contents, b \notin DOMAIN AddressesOf(n.entries),
         NEW id \in Identifiers \cup {NoId}, NEW pos \in InsertPositions(n, b),
         NEW plan, PlanFits(n, b, plan), NEW c \in 1..NewCount(plan)
  PROVE  LET end   == plan.base + plan.shared + 1
             moved == Prefix(n.entries[plan.member].bytes, end)
             entry == [address |-> Prefix(b, end), bytes |-> b, identifier |-> id]
             new   == EntriesAfterInsert(n, plan, moved, pos, entry)
             G     == Grown(n, b, plan)
             p     == NewPaths(n, b, plan)[c]
             node  == NewNode(n, plan, c)
             x     == ShiftUp(node.content, pos)
         IN /\ node \in TrieNode
            /\ node.count = Cardinality(Under(G, p))
            /\ x \in 1..Len(new) \cup {Vacant}
            /\ x # Vacant => new[x].address = p
            /\ x = Vacant => \A i \in 1..Len(new) : new[i].address # p
<1> DEFINE es    == n.entries
           m     == plan.member
           k     == NewCount(plan)
           j     == plan.shared
           end   == plan.base + plan.shared + 1
           moved == Prefix(es[m].bytes, end)
           entry == [address |-> Prefix(b, end), bytes |-> b, identifier |-> id]
           new   == EntriesAfterInsert(n, plan, moved, pos, entry)
           A     == AddressesOf(es)
           G     == Grown(n, b, plan)
           p     == NewPaths(n, b, plan)[c]
           node  == NewNode(n, plan, c)
           x     == ShiftUp(node.content, pos)
           Up(i) == IF i >= pos THEN i + 1 ELSE i
<1>1. es \in Seq(Entry) /\ InByteOrder(es) /\ Len(es) \in Nat /\ IsNeighborhood(n)
  BY SoundFacts DEF Sound
<1>2. /\ plan.base \in Nat /\ j \in Nat
      /\ m \in 1..Len(es) \cup {Vacant}
      /\ m = Vacant => j = 0
      /\ p \in Seq(Atoms)
      /\ NewPaths(n, b, plan)[k] = Prefix(b, end)
      /\ m # Vacant => NewPaths(n, b, plan)[k - 1] = moved
      /\ \A i \in 1..j : Len(NewPaths(n, b, plan)[i]) = plan.base + i
      /\ IsTree(G)
      /\ \A i \in 1..j : Under(G, NewPaths(n, b, plan)[i]) = {b, es[m].bytes}
      /\ m # Vacant => Under(G, NewPaths(n, b, plan)[k - 1]) = {es[m].bytes}
      /\ Under(G, NewPaths(n, b, plan)[k]) = {b}
  BY DEF PlanFits
<1>3. /\ pos \in 1..(Len(es) + 1)
      /\ Prefix(b, end) \in Address
      /\ new \in Seq(Entry) /\ Len(new) = Len(es) + 1
      /\ InByteOrder(new)
      /\ AddressesOf(new) = G
      /\ new[pos].address = Prefix(b, end)
      /\ \A i \in 1..Len(es) :
           new[Up(i)].address = IF i = m THEN moved ELSE es[i].address
  BY EntriesGrow, SMTT(40)
<1>4. k = IF m = Vacant THEN 1 ELSE j + 2
  BY DEF NewCount
<1>5. /\ node = [slot |-> NewSlots(n, k)[c],
                 content |-> IF c = k THEN PLACEHOLDER ELSE IF c > j THEN m ELSE Vacant,
                 count |-> IF c <= j THEN 2 ELSE 1]
  BY DEF NewNode
<1>6. NewSlots(n, k)[c] \in Nat
  <2>1. k \in Nat
    BY <1>2, <1>4
  <2>2. c \in 1..k
    OBVIOUS
  <2> HIDE DEF k
  <2> QED BY <1>1, <2>1, <2>2, SlotTypes
<1>7. /\ node \in TrieNode
      /\ node.content = IF c = k THEN PLACEHOLDER ELSE IF c > j THEN m ELSE Vacant
      /\ node.count = IF c <= j THEN 2 ELSE 1
  BY <1>2, <1>5, <1>6, <1>1 DEF TrieNode, PLACEHOLDER, Vacant
<1> HIDE DEF es, m, k, j, end, moved, new, A, G, p, node, entry
<1>8. \/ c = k
      \/ c = k - 1 /\ m # Vacant /\ c > j /\ c # k
      \/ c \in 1..j /\ m # Vacant /\ c # k
  BY <1>2, <1>4 DEF k
<1>9. CASE c = k
  <2>1. p = Prefix(b, end) /\ Under(G, p) = {b}
    BY <1>2, <1>9 DEF p
  <2>2. node.content = PLACEHOLDER /\ node.count = 1
    BY <1>2, <1>4, <1>7, <1>9
  <2>3. x = pos
    BY <2>2 DEF ShiftUp, x
  <2>4. Cardinality({b}) = 1
    BY FS_Singleton
  <2>5. pos \in 1..Len(new) /\ pos # Vacant
    BY <1>1, <1>3 DEF Vacant
  <2> HIDE DEF x
  <2>6. /\ node.count = Cardinality(Under(G, p))
        /\ x \in 1..Len(new) /\ x # Vacant /\ new[x].address = p
    BY <1>3, <2>1, <2>2, <2>3, <2>4, <2>5
  <2> QED BY <1>7, <2>6 DEF x, node, p, G, new, moved, entry, end, m, es
<1>10. CASE c = k - 1 /\ m # Vacant /\ c > j /\ c # k
  <2>1. p = moved /\ Under(G, p) = {es[m].bytes}
    BY <1>2, <1>10 DEF p
  <2>2. node.content = m /\ node.count = 1
    BY <1>2, <1>7, <1>10
  <2>3. m \in 1..Len(es)
    BY <1>2, <1>10
  <2>4. x = Up(m) /\ Up(m) \in 1..Len(new) /\ Up(m) # Vacant
    BY <1>1, <1>3, <2>2, <2>3 DEF ShiftUp, x, PLACEHOLDER, Vacant
  <2>5. new[Up(m)].address = moved
    BY <1>3, <2>3
  <2>6. Cardinality({es[m].bytes}) = 1
    BY FS_Singleton
  <2> HIDE DEF x, Up
  <2>7. /\ node.count = Cardinality(Under(G, p))
        /\ x \in 1..Len(new) /\ x # Vacant /\ new[x].address = p
    BY <2>1, <2>2, <2>4, <2>5, <2>6
  <2> QED BY <1>7, <2>7 DEF x, node, p, G, new, moved, entry, end, m, es
<1>11. CASE c \in 1..j /\ m # Vacant /\ c # k
  <2>1. Under(G, p) = {b, es[m].bytes} /\ Len(p) = plan.base + c
    BY <1>2, <1>11 DEF p
  <2>2. node.content = Vacant /\ node.count = 2
    BY <1>2, <1>7, <1>11
  <2>3. x = Vacant
    BY <1>3, <2>2, <1>1 DEF ShiftUp, x, PLACEHOLDER, Vacant
  <2>4. m \in 1..Len(es) /\ es[m].bytes \in Contents /\ es[m].bytes \in DOMAIN A
    BY <1>1, <1>2, <1>11, EntriesFacts DEF A
  <2>5. b # es[m].bytes
    BY <2>4 DEF A, es
  <2>6. Cardinality({b, es[m].bytes}) = 2
    <3>1. IsFiniteSet({es[m].bytes}) /\ Cardinality({es[m].bytes}) = 1
      BY FS_Singleton
    <3>2. b \notin {es[m].bytes}
      BY <2>5
    <3>3. Cardinality({es[m].bytes} \cup {b}) = Cardinality({es[m].bytes}) + 1
      BY <3>1, <3>2, FS_AddElement
    <3>4. {es[m].bytes} \cup {b} = {b, es[m].bytes}
      OBVIOUS
    <3> QED BY <3>1, <3>3, <3>4
  <2>7. ASSUME NEW i \in 1..Len(new), new[i].address = p
        PROVE  FALSE
    <3>1. /\ new[i].bytes \in DOMAIN G /\ G[new[i].bytes] = p
      BY <1>3, <2>7, EntriesFacts
    <3>2. new[i].bytes \in Under(G, p)
      <4>1. IsPrefix(p, p)
        BY <1>2, PrefixReflexive
      <4> QED BY <3>1, <4>1 DEF Under
    <3>3. new[i].bytes = b \/ new[i].bytes = es[m].bytes
      BY <2>1, <3>2
    <3>4. G[b] = Prefix(b, end)
      BY DEF G, Grown, Put, end
    <3>5. G[es[m].bytes] = moved
      BY <1>11, <2>5 DEF G, Grown, Put, end, moved, es, m
    <3>6. end \in Nat /\ end > Len(p)
      BY <1>2, <1>11, <2>1 DEF end, j
    <3>7. Len(Prefix(b, end)) = end /\ Len(moved) = end
      BY <2>4, <3>6, PrefixProperties DEF moved
    <3> QED BY <3>1, <3>3, <3>4, <3>5, <3>6, <3>7
  <2> HIDE DEF x
  <2>8. /\ node.count = Cardinality(Under(G, p))
        /\ x = Vacant /\ \A i \in 1..Len(new) : new[i].address # p
    BY <2>1, <2>2, <2>3, <2>6, <2>7
  <2> QED BY <1>7, <2>8 DEF x, node, p, G, new, moved, entry, end, m, es
<1> QED BY <1>8, <1>9, <1>10, <1>11

\* The same for a node that was there before.
LEMMA OldNodeIsRight ==
  ASSUME NEW n, Sound(n), NEW b \in Contents, b \notin DOMAIN AddressesOf(n.entries),
         NEW id \in Identifiers \cup {NoId}, NEW pos \in InsertPositions(n, b),
         NEW plan, PlanFits(n, b, plan),
         NEW p \in Nodes(AddressesOf(n.entries)) \ Range(NewPaths(n, b, plan))
  PROVE  LET end   == plan.base + plan.shared + 1
             moved == Prefix(n.entries[plan.member].bytes, end)
             entry == [address |-> Prefix(b, end), bytes |-> b, identifier |-> id]
             new   == EntriesAfterInsert(n, plan, moved, pos, entry)
             G     == Grown(n, b, plan)
             node  == OldNode(n, b, plan, p)
             x     == ShiftUp(node.content, pos)
         IN /\ node \in TrieNode
            /\ node.count = Cardinality(Under(G, p))
            /\ x \in 1..Len(new) \cup {Vacant}
            /\ x # Vacant => new[x].address = p
            /\ x = Vacant => \A i \in 1..Len(new) : new[i].address # p
<1> DEFINE es    == n.entries
           m     == plan.member
           k     == NewCount(plan)
           paths == NewPaths(n, b, plan)
           end   == plan.base + plan.shared + 1
           moved == Prefix(es[m].bytes, end)
           entry == [address |-> Prefix(b, end), bytes |-> b, identifier |-> id]
           new   == EntriesAfterInsert(n, plan, moved, pos, entry)
           A     == AddressesOf(es)
           G     == Grown(n, b, plan)
           node  == OldNode(n, b, plan, p)
           x     == ShiftUp(node.content, pos)
           onWay == Len(p) <= plan.base /\ p = Prefix(b, Len(p))
           Up(i) == IF i >= pos THEN i + 1 ELSE i
<1>1. /\ es \in Seq(Entry) /\ InByteOrder(es) /\ Len(es) \in Nat /\ IsAddressMap(A)
      /\ p \in Seq(Atoms) /\ Len(p) \in Nat
      /\ n.trie[p] \in TrieNode
      /\ n.trie[p].slot \in Nat /\ n.trie[p].content \in Int
      /\ n.trie[p].count = Cardinality(Under(A, p))
      /\ n.trie[p].content \in 1..Len(es) \cup {Vacant}
      /\ n.trie[p].content # Vacant => es[n.trie[p].content].address = p
      /\ \A i \in 1..Len(es) : es[i].address = p => n.trie[p].content = i
  BY SoundFacts DEF Sound, IsTree
<1>2. /\ plan.base \in Nat
      /\ m \in 1..Len(es) \cup {Vacant}
      /\ \A i \in 1..Len(es) : es[i].address = Prefix(b, plan.base) <=> i = m
      /\ DOMAIN paths = 1..k
      /\ paths[k] = Prefix(b, end)
      /\ m # Vacant => paths[k - 1] = moved
      /\ Under(G, p) = Under(A, p) \cup (IF p = Prefix(b, Len(p)) THEN {b} ELSE {})
      /\ p = Prefix(b, Len(p)) => Len(p) <= plan.base
  BY DEF PlanFits
<1>3. /\ pos \in 1..(Len(es) + 1)
      /\ new \in Seq(Entry) /\ Len(new) = Len(es) + 1
      /\ new[pos].address = Prefix(b, end)
      /\ \A i \in 1..Len(es) :
           new[Up(i)].address = IF i = m THEN moved ELSE es[i].address
  BY EntriesGrow, SMTT(40)
<1>4. p # Prefix(b, end) /\ (m # Vacant => p # moved)
  <2>1. k \in 1..k /\ (m # Vacant => k - 1 \in 1..k)
    BY DEF NewCount, PlanFits
  <2>2. paths[k] \in Range(paths) /\ (m # Vacant => paths[k - 1] \in Range(paths))
    BY <1>2, <2>1 DEF Range
  <2> QED BY <1>2, <2>2
<1>5. node = IF ~onWay THEN n.trie[p]
             ELSE [slot    |-> n.trie[p].slot,
                   content |-> IF Len(p) = plan.base THEN Vacant ELSE n.trie[p].content,
                   count   |-> n.trie[p].count + 1]
  BY <1>1, <1>2 DEF OldNode
<1>6. IsFiniteSet(Under(A, p)) /\ Cardinality(Under(A, p)) \in Nat
  BY <1>1, UnderFinite
<1>7. b \notin Under(A, p)
  BY DEF Under
<1> HIDE DEF es, m, k, end, moved, new, A, G, paths, entry, node
<1>8. /\ node \in TrieNode
      /\ node.count = IF onWay THEN n.trie[p].count + 1 ELSE n.trie[p].count
      /\ node.content = IF onWay /\ Len(p) = plan.base THEN Vacant ELSE n.trie[p].content
  <2>1. CASE ~onWay
    <3>1. node = n.trie[p]
      BY <1>5, <2>1
    <3> HIDE DEF onWay
    <3> QED BY <1>1, <2>1, <3>1
  <2>2. CASE onWay
    <3> DEFINE c == IF Len(p) = plan.base THEN Vacant ELSE n.trie[p].content
    <3>1. node = [slot |-> n.trie[p].slot, content |-> c, count |-> n.trie[p].count + 1]
      BY <1>5, <2>2
    <3>2. c \in Int /\ n.trie[p].count + 1 \in Int
      BY <1>1, <1>6 DEF Vacant
    <3>3. c = IF onWay /\ Len(p) = plan.base THEN Vacant ELSE n.trie[p].content
      BY <2>2
    <3> HIDE DEF c, onWay
    <3> QED BY <1>1, <2>2, <3>1, <3>2, <3>3 DEF TrieNode
  <2> QED BY <2>1, <2>2
<1>9. node.count = Cardinality(Under(G, p))
  <2>1. CASE onWay
    <3>1. Under(G, p) = Under(A, p) \cup {b}
      BY <1>2, <2>1
    <3>2. Cardinality(Under(G, p)) = Cardinality(Under(A, p)) + 1
      BY <1>6, <1>7, <3>1, FS_AddElement
    <3> QED BY <1>1, <1>8, <2>1, <3>2
  <2>2. CASE ~onWay
    <3>1. Under(G, p) = Under(A, p)
      BY <1>2, <2>2
    <3> QED BY <1>1, <1>8, <2>2, <3>1
  <2> QED BY <2>1, <2>2
<1>10. ASSUME NEW y \in 1..Len(new)
       PROVE  y = pos \/ \E i \in 1..Len(es) : y = Up(i)
  <2>1. CASE y < pos
    <3>1. y \in 1..Len(es) /\ y = Up(y)
      BY <1>1, <1>3, <2>1
    <3> QED BY <3>1
  <2>2. CASE y > pos
    <3>1. y - 1 \in 1..Len(es) /\ y = Up(y - 1)
      BY <1>1, <1>3, <2>2
    <3> QED BY <3>1
  <2> QED BY <1>3, <2>1, <2>2
<1>11. CASE onWay /\ Len(p) = plan.base
  <2>1. x = Vacant
    BY <1>3, <1>8, <1>11 DEF ShiftUp, PLACEHOLDER, Vacant
  <2>2. ASSUME NEW y \in 1..Len(new) PROVE new[y].address # p
    <3>1. CASE y = pos
      BY <1>3, <1>4, <3>1
    <3>2. ASSUME NEW i \in 1..Len(es), y = Up(i) PROVE new[y].address # p
      <4>1. i = m => m # Vacant
        BY DEF Vacant
      <4>2. i # m => es[i].address # p
        BY <1>2, <1>11
      <4> HIDE DEF Up
      <4> QED BY <1>3, <1>4, <3>2, <4>1, <4>2
    <3> QED BY <1>10, <3>1, <3>2
  <2> HIDE DEF x
  <2>3. x = Vacant /\ \A i \in 1..Len(new) : new[i].address # p
    BY <2>1, <2>2
  <2> QED BY <1>8, <1>9, <2>3 DEF x, node, G, new, moved, entry, end, m, es
<1>12. CASE ~(onWay /\ Len(p) = plan.base)
  <2>1. node.content = n.trie[p].content
    BY <1>8, <1>12
  <2>2. m # Vacant => es[m].address # p
    <3> SUFFICES ASSUME m # Vacant, es[m].address = p PROVE FALSE
      OBVIOUS
    <3>1. p = Prefix(b, plan.base)
      BY <1>2
    <3>2. Len(p) = plan.base
      BY <1>2, <3>1, PrefixProperties
    <3> QED BY <1>2, <1>12, <3>1, <3>2
  <2>3. CASE node.content = Vacant
    <3>1. x = Vacant
      BY <1>3, <2>3 DEF ShiftUp, PLACEHOLDER, Vacant
    <3>2. ASSUME NEW y \in 1..Len(new) PROVE new[y].address # p
      <4>1. CASE y = pos
        BY <1>3, <1>4, <4>1
      <4>2. ASSUME NEW i \in 1..Len(es), y = Up(i) PROVE new[y].address # p
        <5>1. i = m => m # Vacant
          BY DEF Vacant
        <5>2. es[i].address # p
          BY <1>1, <2>1, <2>3 DEF Vacant
        <5> HIDE DEF Up
        <5> QED BY <1>3, <1>4, <4>2, <5>1, <5>2
      <4> QED BY <1>10, <4>1, <4>2
    <3> HIDE DEF x
    <3>3. x = Vacant /\ \A i \in 1..Len(new) : new[i].address # p
      BY <3>1, <3>2
    <3> QED BY <1>8, <1>9, <3>3 DEF x, node, G, new, moved, entry, end, m, es
  <2>4. CASE node.content # Vacant
    <3> DEFINE c == n.trie[p].content
    <3>1. c \in 1..Len(es) /\ es[c].address = p /\ c # m
      BY <1>1, <2>1, <2>2, <2>4
    <3>2. x = Up(c) /\ Up(c) \in 1..Len(new) /\ Up(c) # Vacant
      <4>1. node.content = c
        BY <2>1
      <4> HIDE DEF c
      <4> QED BY <1>1, <1>3, <3>1, <4>1 DEF ShiftUp, PLACEHOLDER, Vacant
    <3> HIDE DEF x, Up, c
    <3>3. x \in 1..Len(new) /\ x # Vacant /\ new[x].address = p
      BY <1>3, <3>1, <3>2
    <3> QED BY <1>8, <1>9, <3>3 DEF x, node, G, new, moved, entry, end, m, es
  <2> QED BY <2>3, <2>4
<1> QED BY <1>11, <1>12

\* What the proofs need of an answer.
IsAnswer(a) ==
  /\ Sound(a.nb)
  /\ a.status \in Successes \cup Failures
  /\ a.address \in Seq(Atoms)
  /\ a.changes \in Seq(AddressChange)

\* The trie after an insertion.
LEMMA TrieGrow ==
  ASSUME NEW n, Sound(n), NEW b \in Contents, b \notin DOMAIN AddressesOf(n.entries),
         NEW id \in Identifiers \cup {NoId}, NEW pos \in InsertPositions(n, b),
         NEW plan, PlanFits(n, b, plan)
  PROVE  LET r == ApplyInsert(n, b, id, pos, plan).nb IN
         /\ r.trie \in [DOMAIN r.trie -> TrieNode]
         /\ \A p \in DOMAIN r.trie : p \in Seq(Atoms)
         /\ TrieSpans(r)
<1> DEFINE end   == plan.base + plan.shared + 1
           moved == Prefix(n.entries[plan.member].bytes, end)
           entry == [address |-> Prefix(b, end), bytes |-> b, identifier |-> id]
           new   == EntriesAfterInsert(n, plan, moved, pos, entry)
           A     == AddressesOf(n.entries)
           G     == Grown(n, b, plan)
           paths == NewPaths(n, b, plan)
           T     == Attach(n, b, plan)
           trie  == [p \in DOMAIN T |-> [T[p] EXCEPT !.content = ShiftUp(@, pos)]]
           r     == ApplyInsert(n, b, id, pos, plan).nb
<1>1. r.trie = trie /\ r.entries = new
  BY DEF ApplyInsert, Answer
<1>2. DOMAIN n.trie = Nodes(A)
  BY SoundFacts
<1>3. /\ DOMAIN paths = 1..NewCount(plan)
      /\ Nodes(G) = Nodes(A) \cup Range(paths)
      /\ IsTree(G) /\ IsAddressMap(G)
  BY DEF PlanFits, IsTree
<1>4. /\ pos \in 1..(Len(n.entries) + 1) /\ Len(n.entries) \in Nat
      /\ new \in Seq(Entry) /\ InByteOrder(new) /\ AddressesOf(new) = G
      /\ DOMAIN new = 1..Len(new)
  BY EntriesGrow, SoundFacts, SMTT(40)
<1>5. DOMAIN T = Nodes(G)
  BY <1>2, <1>3 DEF Attach
<1>6. ASSUME NEW p \in Nodes(G)
      PROVE  LET x == ShiftUp(T[p].content, pos) IN
             /\ T[p] \in TrieNode
             /\ T[p].count = Cardinality(Under(G, p))
             /\ x \in 1..Len(new) \cup {Vacant}
             /\ x # Vacant => new[x].address = p
             /\ x = Vacant => \A i \in 1..Len(new) : new[i].address # p
  <2>1. CASE p \in Range(paths)
    <3> DEFINE c == CHOOSE i \in DOMAIN paths : paths[i] = p
    <3>1. \E i \in DOMAIN paths : paths[i] = p
      BY <2>1 DEF Range
    <3>2. c \in 1..NewCount(plan) /\ paths[c] = p
      BY <1>3, <3>1
    <3>3. T[p] = NewNode(n, plan, c)
      BY <2>1 DEF Attach
    <3> HIDE DEF c, T, G
    <3> QED BY <3>2, <3>3, NewNodeIsRight, SMTT(40) DEF G
  <2>2. CASE p \notin Range(paths)
    <3>1. p \in Nodes(A) \ Range(paths)
      BY <1>3, <2>2
    <3>2. T[p] = OldNode(n, b, plan, p)
      BY <1>2, <2>2, <3>1 DEF Attach
    <3> HIDE DEF T, G, A
    <3> QED BY <3>1, <3>2, OldNodeIsRight, SMTT(40) DEF G, A
  <2> QED BY <2>1, <2>2
<1> HIDE DEF T, G, A, paths, new, r
<1>7. DOMAIN trie = Nodes(G)
  BY <1>5
<1>8. ASSUME NEW p \in Nodes(G)
      PROVE  /\ trie[p] \in TrieNode
             /\ trie[p].count = T[p].count
             /\ trie[p].content = ShiftUp(T[p].content, pos)
  <2>1. trie[p] = [T[p] EXCEPT !.content = ShiftUp(@, pos)]
    BY <1>5
  <2>2. ShiftUp(T[p].content, pos) \in Int /\ T[p] \in TrieNode
    BY <1>6, <1>4 DEF Vacant
  <2> HIDE DEF trie
  <2> QED BY <2>1, <2>2 DEF TrieNode
<1>9. trie \in [DOMAIN trie -> TrieNode]
  BY <1>7, <1>8
<1>10. \A p \in Nodes(G) : p \in Seq(Atoms)
  BY <1>3, NodesType
<1> HIDE DEF trie
<1>11. ASSUME NEW p \in Nodes(G)
       PROVE  /\ trie[p].count = Cardinality(Under(G, p))
              /\ trie[p].content \in 1..Len(new) \cup {Vacant}
              /\ \A i \in 1..Len(new) : trie[p].content = i <=> new[i].address = p
  <2> DEFINE x == trie[p].content
  <2>1. /\ trie[p].count = Cardinality(Under(G, p))
        /\ x \in 1..Len(new) \cup {Vacant}
        /\ x # Vacant => new[x].address = p
        /\ x = Vacant => \A i \in 1..Len(new) : new[i].address # p
    BY <1>6, <1>8
  <2>2. ASSUME NEW i \in 1..Len(new)
        PROVE  x = i <=> new[i].address = p
    <3>1. x = i => new[i].address = p
      BY <2>1 DEF Vacant
    <3>2. ASSUME new[i].address = p PROVE x = i
      <4>1. x # Vacant /\ x \in 1..Len(new) /\ new[x].address = p
        BY <2>1, <3>2
      <4>2. IsPrefix(p, p)
        BY <1>10, PrefixReflexive
      <4> HIDE DEF x
      <4> QED BY <1>3, <1>4, <3>2, <4>1, <4>2, AddressIsOwn
    <3> QED BY <3>1, <3>2
  <2> QED BY <2>1, <2>2
<1>12. TrieSpans(r)
  BY <1>1, <1>4, <1>7, <1>11 DEF TrieSpans
<1> QED BY <1>1, <1>7, <1>9, <1>10, <1>12 DEF r

\* apply_insert turns a sound neighborhood and a plan that fits it into a sound
\* neighborhood: with the new leaf, the split chain and the shifted positions the
\* trie is again the one the addresses span.
THEOREM ApplySound ==
  ASSUME NEW n, Sound(n), NEW b \in Contents, b \notin DOMAIN AddressesOf(n.entries),
         NEW id \in Identifiers \cup {NoId}, NEW pos \in InsertPositions(n, b),
         NEW plan, PlanFits(n, b, plan)
  PROVE  IsAnswer(ApplyInsert(n, b, id, pos, plan))
<1> DEFINE m     == plan.member
           end   == plan.base + plan.shared + 1
           k     == NewCount(plan)
           slots == NewSlots(n, k)
           moved == Prefix(n.entries[m].bytes, end)
           entry == [address |-> Prefix(b, end), bytes |-> b, identifier |-> id]
           new   == EntriesAfterInsert(n, plan, moved, pos, entry)
           nodes == IF m # Vacant THEN [n.entry_nodes EXCEPT ![m] = slots[k - 1]]
                    ELSE n.entry_nodes
           answer == ApplyInsert(n, b, id, pos, plan)
           r     == answer.nb
<1>1. /\ r.entries = new
      /\ r.free_nodes = FreeAfter(n, k)
      /\ r.arena = ArenaAfter(n, k)
      /\ r.entry_nodes = InsertAt(nodes, pos, slots[k])
      /\ r.identifier_index = IndexAfterInsert(n, pos, id)
      /\ r = [entries |-> r.entries, trie |-> r.trie, free_nodes |-> r.free_nodes,
              arena |-> r.arena, entry_nodes |-> r.entry_nodes,
              identifier_index |-> r.identifier_index]
      /\ answer.status = "Inserted" /\ answer.address = Prefix(b, end)
      /\ answer.changes =
           IF m # Vacant
           THEN <<[bytes |-> n.entries[m].bytes, identifier |-> n.entries[m].identifier,
                   old |-> n.entries[m].address, new |-> moved]>>
           ELSE <<>>
  BY DEF ApplyInsert, Answer
<1>2. /\ r.trie \in [DOMAIN r.trie -> TrieNode]
      /\ \A p \in DOMAIN r.trie : p \in Seq(Atoms)
      /\ TrieSpans(r)
  BY TrieGrow
<1>3. /\ plan.base \in Nat /\ plan.shared \in Nat
      /\ m \in 1..Len(n.entries) \cup {Vacant}
      /\ IsTree(Grown(n, b, plan))
  BY DEF PlanFits
<1>4. /\ pos \in 1..(Len(n.entries) + 1)
      /\ Prefix(b, end) \in Address
      /\ m # Vacant => moved \in Address
      /\ new \in Seq(Entry) /\ Len(new) = Len(n.entries) + 1
      /\ InByteOrder(new)
      /\ AddressesOf(new) = Grown(n, b, plan)
  BY EntriesGrow, SMTT(40)
<1>5. k \in Nat /\ k > 0 /\ (m # Vacant => k > 1)
  BY <1>3 DEF NewCount
<1>6. IsNeighborhood(n) /\ Len(n.entry_nodes) = Len(n.entries) /\ n.entry_nodes \in Seq(Nat)
  BY DEF Sound, IsNeighborhood
<1>7. /\ \A i \in 1..k : slots[i] \in Nat
      /\ FreeAfter(n, k) \in Seq(Nat)
      /\ ArenaAfter(n, k) \in Nat
  BY <1>5, <1>6, SlotTypes
<1>8. nodes \in Seq(Nat) /\ Len(nodes) = Len(n.entries)
  <2>1. CASE m = Vacant
    BY <1>6, <2>1
  <2>2. CASE m # Vacant
    <3>1. k - 1 \in 1..k
      BY <1>5, <2>2
    <3> DEFINE s == slots[k - 1]
    <3>2. s \in Nat
      BY <1>7, <3>1
    <3>3. nodes = [n.entry_nodes EXCEPT ![m] = s]
      BY <2>2
    <3>4. m \in 1..Len(n.entry_nodes)
      BY <1>3, <1>6, <2>2
    <3> DEFINE N == Nat
    <3>5. n.entry_nodes \in Seq(N) /\ s \in N
      BY <1>6, <3>2
    <3> HIDE DEF s, nodes, m, N
    <3>6. nodes \in Seq(N) /\ Len(nodes) = Len(n.entry_nodes)
      BY <3>3, <3>4, <3>5, UpdateAt
    <3> QED BY <1>6, <3>6 DEF N
  <2> QED BY <2>1, <2>2
<1>9. /\ InsertAt(nodes, pos, slots[k]) \in Seq(Nat)
      /\ Len(InsertAt(nodes, pos, slots[k])) = Len(n.entries) + 1
  <2> DEFINE s == slots[k]
  <2>1. s \in Nat
    BY <1>5, <1>7
  <2>2. pos \in 1..(Len(nodes) + 1)
    BY <1>4, <1>8
  <2> DEFINE N == Nat
  <2>3. nodes \in Seq(N) /\ s \in N
    BY <1>8, <2>1
  <2> HIDE DEF nodes, s, N
  <2>4. InsertAt(nodes, pos, s) \in Seq(N) /\ Len(InsertAt(nodes, pos, s)) = Len(nodes) + 1
    BY <2>2, <2>3, InsertAtProperties
  <2> QED BY <1>8, <2>4 DEF s, N
<1>10. /\ DOMAIN r.identifier_index \subseteq Identifiers
       /\ r.identifier_index \in [DOMAIN r.identifier_index -> Nat]
  <2> DEFINE index == n.identifier_index
             shifted == [y \in DOMAIN index |-> ShiftUp(index[y], pos)]
  <2>1. DOMAIN index \subseteq Identifiers /\ index \in [DOMAIN index -> Nat]
    BY <1>6 DEF IsNeighborhood
  <2>2. pos \in Nat
    BY <1>4, <1>6
  <2>3. \A y \in DOMAIN index : ShiftUp(index[y], pos) \in Nat
    BY <2>1, <2>2 DEF ShiftUp
  <2>4. shifted \in [DOMAIN index -> Nat] /\ DOMAIN shifted = DOMAIN index
    BY <2>3
  <2>5. r.identifier_index = IF id = NoId THEN shifted ELSE Put(shifted, id, pos)
    BY <1>1 DEF IndexAfterInsert
  <2> HIDE DEF index, shifted, r
  <2>6. CASE id = NoId
    BY <2>1, <2>4, <2>5, <2>6
  <2>7. CASE id # NoId
    <3>1. id \in Identifiers
      BY <2>7
    <3>2. /\ DOMAIN Put(shifted, id, pos) = DOMAIN index \cup {id}
          /\ \A y \in DOMAIN Put(shifted, id, pos) : Put(shifted, id, pos)[y] \in Nat
      BY <2>2, <2>4 DEF Put
    <3>3. Put(shifted, id, pos) \in [DOMAIN Put(shifted, id, pos) -> Nat]
      BY <3>2, PutIsFunction
    <3> QED BY <2>1, <2>5, <2>7, <3>1, <3>2, <3>3
  <2> QED BY <2>6, <2>7
<1>11. answer.changes \in Seq(AddressChange)
  <2>1. CASE m = Vacant
    BY <1>1, <2>1
  <2>2. CASE m # Vacant
    <3>1. n.entries[m] \in Entry
      BY <1>3, <2>2, SoundFacts
    <3> HIDE DEF moved, answer
    <3>2. [bytes |-> n.entries[m].bytes, identifier |-> n.entries[m].identifier,
           old |-> n.entries[m].address, new |-> moved] \in AddressChange
      BY <1>4, <2>2, <3>1 DEF Entry, AddressChange
    <3> QED BY <1>1, <2>2, <3>2
  <2> QED BY <2>1, <2>2
<1>12. Prefix(b, end) \in Seq(Atoms)
  BY <1>4 DEF Address
<1> HIDE DEF r, answer, new, nodes, slots, k, m, end
<1>13. IsNeighborhood(r)
  BY <1>1, <1>2, <1>4, <1>7, <1>9, <1>10 DEF IsNeighborhood
<1>14. Sound(r)
  BY <1>1, <1>2, <1>3, <1>4, <1>9, <1>13 DEF Sound
<1>15. answer.status \in Successes \cup Failures
  BY <1>1 DEF Successes
<1> QED BY <1>1, <1>11, <1>12, <1>14, <1>15 DEF IsAnswer, answer, r

-----------------------------------------------------------------------------
(* Identifiers, and the whole of insert_inner and set_identifier.          *)

\* One entry with another identifier: the addresses and the trie stay right.
LEMMA RenameSound ==
  ASSUME NEW n, Sound(n), NEW i \in 1..Len(n.entries), NEW id \in Identifiers \cup {NoId},
         NEW index, DOMAIN index \subseteq Identifiers, index \in [DOMAIN index -> Nat]
  PROVE  Sound([n EXCEPT !.entries = [@ EXCEPT ![i].identifier = id],
                         !.identifier_index = index])
<1> DEFINE es == n.entries
           e2 == [es EXCEPT ![i] = [es[i] EXCEPT !.identifier = id]]
           r  == [n EXCEPT !.entries = [@ EXCEPT ![i].identifier = id],
                           !.identifier_index = index]
<1>1. es \in Seq(Entry) /\ InByteOrder(es) /\ DOMAIN es = 1..Len(es)
  BY SoundFacts DEF Sound
<1>2. es[i] \in Entry
  BY <1>1
<1>3. /\ [es[i] EXCEPT !.identifier = id] \in Entry
      /\ [es[i] EXCEPT !.identifier = id].bytes = es[i].bytes
      /\ [es[i] EXCEPT !.identifier = id].address = es[i].address
  BY <1>2 DEF Entry
<1>4. /\ e2 \in Seq(Entry) /\ Len(e2) = Len(es) /\ DOMAIN e2 = DOMAIN es
      /\ \A k \in 1..Len(es) : e2[k].bytes = es[k].bytes /\ e2[k].address = es[k].address
  <2>1. /\ e2 \in Seq(Entry) /\ Len(e2) = Len(es) /\ DOMAIN e2 = DOMAIN es
        /\ \A k \in 1..Len(es) :
             e2[k] = IF k = i THEN [es[i] EXCEPT !.identifier = id] ELSE es[k]
    BY <1>1, <1>3, UpdateAt
  <2> HIDE DEF e2
  <2> QED BY <1>3, <2>1
<1>5. /\ r.entries = e2 /\ r.trie = n.trie /\ r.free_nodes = n.free_nodes
      /\ r.arena = n.arena /\ r.entry_nodes = n.entry_nodes /\ r.identifier_index = index
      /\ r = [entries |-> r.entries, trie |-> r.trie, free_nodes |-> r.free_nodes,
              arena |-> r.arena, entry_nodes |-> r.entry_nodes,
              identifier_index |-> r.identifier_index]
  <2>1. n = [entries |-> n.entries, trie |-> n.trie, free_nodes |-> n.free_nodes,
             arena |-> n.arena, entry_nodes |-> n.entry_nodes,
             identifier_index |-> n.identifier_index]
    BY DEF Sound, IsNeighborhood
  <2>2. [es EXCEPT ![i].identifier = id] = e2
    OBVIOUS
  <2>3. r = [n EXCEPT !.entries = e2, !.identifier_index = index]
    BY <2>2
  <2> HIDE DEF r, e2
  <2>4. r = [entries |-> e2, trie |-> n.trie, free_nodes |-> n.free_nodes,
             arena |-> n.arena, entry_nodes |-> n.entry_nodes, identifier_index |-> index]
    BY <2>1, <2>3
  <2> QED BY <2>4
<1> HIDE DEF e2, r
<1>6. InByteOrder(e2)
  BY <1>1, <1>4 DEF InByteOrder
<1>7. AddressesOf(e2) = AddressesOf(es)
  <2> DEFINE F == AddressesOf(es)
  <2>0. F = [b \in DOMAIN F |-> F[b]]
    BY DEF AddressesOf
  <2>1. /\ \A b \in DOMAIN F : \E k \in 1..Len(es) : es[k].bytes = b
        /\ \A k \in 1..Len(es) : es[k].bytes \in DOMAIN F /\ F[es[k].bytes] = es[k].address
    BY <1>1, EntriesFacts
  <2> HIDE DEF F
  <2>2. /\ \A b \in DOMAIN F : \E k \in 1..Len(e2) : e2[k].bytes = b
        /\ \A k \in 1..Len(e2) : e2[k].bytes \in DOMAIN F /\ F[e2[k].bytes] = e2[k].address
    BY <1>4, <2>1
  <2>3. e2 \in Seq(Entry)
    BY <1>4
  <2>4. AddressesOf(e2) = F
    BY <1>6, <2>0, <2>2, <2>3, AddressesAre
  <2> QED BY <2>4 DEF F
<1>8. TrieSpans(r)
  BY <1>1, <1>4, <1>5, <1>7 DEF TrieSpans, Sound
<1>9. IsNeighborhood(r)
  BY <1>4, <1>5 DEF Sound, IsNeighborhood
<1>10. Sound(r)
  BY <1>4, <1>5, <1>6, <1>7, <1>8, <1>9 DEF Sound
<1> QED BY <1>10 DEF r

\* A refused call returns the neighborhood as it was.
LEMMA RefusedIsAnswer ==
  ASSUME NEW n, Sound(n), NEW status \in Successes \cup Failures
  PROVE  IsAnswer(Refused(n, status))
BY DEF Refused, Answer, IsAnswer

\* Every answer of insert is a neighborhood that is sound again.
THEOREM InsertSound ==
  ASSUME NEW n, Sound(n), NEW b \in Contents, NEW id \in Identifiers \cup {NoId},
         NEW a \in InsertInner(n, b, id)
  PROVE  IsAnswer(a)
<1> DEFINE A == AddressesOf(n.entries)
<1>1. /\ n.entries \in Seq(Entry) /\ InByteOrder(n.entries)
      /\ DOMAIN n.entries = 1..Len(n.entries)
      /\ DOMAIN n.identifier_index \subseteq Identifiers
      /\ n.identifier_index \in [DOMAIN n.identifier_index -> Nat]
  BY SoundFacts DEF Sound, IsNeighborhood
<1>2. CASE Find(n, b) # {}
  <2>1. PICK i \in Find(n, b) : a = InsertExisting(n, i, id)
    BY <1>2 DEF InsertInner
  <2>2. i \in 1..Len(n.entries) /\ i \in Nat
    BY <1>1 DEF Find
  <2>3. n.entries[i] \in Entry
    BY <1>1, <2>2
  <2>4. CASE id = NoId \/ id = n.entries[i].identifier
    <3>1. a = Answer(n, "Existing", n.entries[i].address, <<>>)
      BY <2>1, <2>4 DEF InsertExisting
    <3>2. n.entries[i].address \in Seq(Atoms)
      BY <2>3 DEF Entry, Address
    <3> QED BY <3>1, <3>2 DEF Answer, IsAnswer, Successes
  <2>5. CASE ~(id = NoId \/ id = n.entries[i].identifier)
    <3>1. \/ a = Refused(n, "ConflictingIdentifierForContent")
          \/ a = Refused(n, "IdentifierAlreadyAssigned")
          \/ a = Answer(Assign(n, i, id), "Existing", n.entries[i].address, <<>>)
      BY <2>1, <2>5 DEF InsertExisting
    <3>2. CASE a = Answer(Assign(n, i, id), "Existing", n.entries[i].address, <<>>)
      <4>1. n.entries[i].address \in Seq(Atoms)
        BY <2>3 DEF Entry, Address
      <4> DEFINE index == Put(n.identifier_index, id, i)
      <4>2. DOMAIN index = DOMAIN n.identifier_index \cup {id}
        BY DEF Put
      <4>3. \A x \in DOMAIN index : index[x] \in Nat
        BY <1>1, <2>2 DEF Put
      <4>4. DOMAIN index \subseteq Identifiers /\ index \in [DOMAIN index -> Nat]
        BY <1>1, <2>5, <4>2, <4>3, PutIsFunction
      <4> DEFINE r == [n EXCEPT !.entries = [@ EXCEPT ![i].identifier = id],
                                !.identifier_index = index]
      <4>5. Assign(n, i, id) = r
        BY DEF Assign
      <4> HIDE DEF index
      <4>6. Sound(r)
        BY <2>2, <4>4, RenameSound
      <4> HIDE DEF r
      <4> QED BY <3>2, <4>1, <4>5, <4>6 DEF Answer, IsAnswer, Successes
    <3>3. CASE \/ a = Refused(n, "ConflictingIdentifierForContent")
               \/ a = Refused(n, "IdentifierAlreadyAssigned")
      BY <3>3, RefusedIsAnswer DEF Failures
    <3> QED BY <3>1, <3>2, <3>3
  <2> QED BY <2>4, <2>5
<1>3. CASE Find(n, b) = {} /\ id \in DOMAIN n.identifier_index
  <2>1. a = Refused(n, "IdentifierAlreadyAssigned")
    BY <1>3 DEF InsertInner
  <2> QED BY <2>1, RefusedIsAnswer DEF Failures
<1>4. CASE Find(n, b) = {} /\ id \notin DOMAIN n.identifier_index
  <2>1. PICK pos \in InsertPositions(n, b), d \in WalkEnds(n, b) :
          a \in InsertNew(n, b, id, pos, d)
    BY <1>4 DEF InsertInner
  <2>2. b \notin DOMAIN A
    <3> SUFFICES ASSUME b \in DOMAIN A PROVE FALSE
      OBVIOUS
    <3>1. PICK i \in 1..Len(n.entries) : n.entries[i].bytes = b
      BY <1>1, EntriesFacts
    <3>2. i \in Find(n, b)
      BY <1>1, <3>1 DEF Find
    <3> QED BY <1>4, <3>2
  <2> DEFINE m == n.trie[Prefix(b, d)].content
             shared == SharedAtoms(b, n.entries[m].bytes, d)
             leaf == [base |-> d, member |-> Vacant, shared |-> 0]
             split(j) == [base |-> d, member |-> m, shared |-> j]
  <2> HIDE DEF A
  <2>3. CASE m = Vacant
    <3>1. a = ApplyInsert(n, b, id, pos, leaf)
      BY <2>1, <2>3 DEF InsertNew
    <3>2. PlanFits(n, b, leaf)
      BY <2>2, <2>3, LeafFits DEF A
    <3> HIDE DEF leaf
    <3> QED BY <2>2, <3>1, <3>2, ApplySound DEF A
  <2>4. CASE m # Vacant
    <3>1. \/ a = Refused(n, "Panic")
          \/ a = Refused(n, "ContentsNotDistinguishable")
          \/ \E j \in shared : a = ApplyInsert(n, b, id, pos, split(j))
      BY <2>1, <2>4 DEF InsertNew
    <3>2. ASSUME NEW j \in shared, a = ApplyInsert(n, b, id, pos, split(j))
          PROVE  IsAnswer(a)
      <4>1. PlanFits(n, b, split(j))
        BY <2>2, <2>4, SplitFits DEF A
      <4> HIDE DEF split
      <4> QED BY <2>2, <3>2, <4>1, ApplySound DEF A
    <3>3. CASE \/ a = Refused(n, "Panic")
               \/ a = Refused(n, "ContentsNotDistinguishable")
      BY <3>3, RefusedIsAnswer DEF Failures
    <3> QED BY <3>1, <3>2, <3>3
  <2> QED BY <2>3, <2>4
<1> QED BY <1>2, <1>3, <1>4

\* The same for set_identifier.
THEOREM SetIdentifierSound ==
  ASSUME NEW n, Sound(n), NEW b \in Contents, NEW id \in Identifiers \cup {NoId},
         NEW a \in SetIdentifierInner(n, b, id)
  PROVE  IsAnswer(a)
<1>1. /\ DOMAIN n.entries = 1..Len(n.entries) /\ Len(n.entries) \in Nat
      /\ DOMAIN n.identifier_index \subseteq Identifiers
      /\ n.identifier_index \in [DOMAIN n.identifier_index -> Nat]
  BY SoundFacts DEF Sound, IsNeighborhood
<1>2. \/ a = Refused(n, "ContentNotFound")
      \/ \E i \in Find(n, b) : a = SetIdentifierAt(n, i, id)
  BY DEF SetIdentifierInner
<1>3. CASE a = Refused(n, "ContentNotFound")
  BY <1>3, RefusedIsAnswer DEF Failures
<1>4. ASSUME NEW i \in Find(n, b), a = SetIdentifierAt(n, i, id)
      PROVE  IsAnswer(a)
  <2>1. i \in 1..Len(n.entries) /\ i \in Nat
    BY <1>1 DEF Find
  <2> DEFINE index == IF id # NoId THEN Put(n.identifier_index, id, i)
                      ELSE Drop(n.identifier_index, n.entries[i].identifier)
             r == [n EXCEPT !.entries = [@ EXCEPT ![i].identifier = id],
                            !.identifier_index = index]
  <2>2. \/ a = Refused(n, "IdentifierAlreadyAssigned")
        \/ a = Answer(r, "Ok", <<>>, <<>>)
    BY <1>4 DEF SetIdentifierAt, Assign
  <2>3. DOMAIN index \subseteq Identifiers /\ index \in [DOMAIN index -> Nat]
    <3>1. CASE id # NoId
      <4> DEFINE put == Put(n.identifier_index, id, i)
      <4>1. DOMAIN put = DOMAIN n.identifier_index \cup {id}
        BY DEF Put
      <4>2. \A x \in DOMAIN put : put[x] \in Nat
        BY <1>1, <2>1 DEF Put
      <4>3. put \in [DOMAIN put -> Nat]
        BY <4>2, PutIsFunction
      <4>4. index = put
        BY <3>1
      <4> HIDE DEF put, index
      <4> QED BY <1>1, <3>1, <4>1, <4>3, <4>4
    <3>2. CASE id = NoId
      BY <1>1, <3>2 DEF Drop
    <3> QED BY <3>1, <3>2
  <2> HIDE DEF index
  <2>4. Sound(r)
    BY <2>1, <2>3, RenameSound
  <2> HIDE DEF r
  <2>5. CASE a = Answer(r, "Ok", <<>>, <<>>)
    BY <2>4, <2>5 DEF Answer, IsAnswer, Successes
  <2>6. CASE a = Refused(n, "IdentifierAlreadyAssigned")
    BY <2>6, RefusedIsAnswer DEF Failures
  <2> QED BY <2>2, <2>5, <2>6
<1> QED BY <1>2, <1>3, <1>4

-----------------------------------------------------------------------------
(* Removal.                                                                *)

\* The entry at idx goes, when the trie is already the one of the others.
LEMMA EvictSound ==
  ASSUME NEW n, IsNeighborhood(n), InByteOrder(n.entries),
         Len(n.entry_nodes) = Len(n.entries), NEW idx \in 1..Len(n.entries),
         NEW G, G = Drop(AddressesOf(n.entries), n.entries[idx].bytes),
         IsTree(G), DOMAIN n.trie = Nodes(G),
         \A p \in Nodes(G) :
           /\ n.trie[p].count = Cardinality(Under(G, p))
           /\ n.trie[p].content \in 1..Len(n.entries) \cup {Vacant}
           /\ n.trie[p].content # idx
           /\ \A i \in 1..Len(n.entries) :
                i # idx => (n.trie[p].content = i <=> n.entries[i].address = p)
  PROVE  Sound(Evict(n, idx))
<1> DEFINE es   == n.entries
           new  == RemoveAt(es, idx)
           trie == [p \in DOMAIN n.trie |-> [n.trie[p] EXCEPT !.content = ShiftDown(@, idx)]]
           r    == Evict(n, idx)
           Down(i) == IF i > idx THEN i - 1 ELSE i
           Up(i)   == IF i >= idx THEN i + 1 ELSE i
<1>1. /\ r.entries = new /\ r.trie = trie /\ r.free_nodes = n.free_nodes
      /\ r.arena = n.arena /\ r.entry_nodes = RemoveAt(n.entry_nodes, idx)
      /\ r.identifier_index = IndexAfterRemove(n, idx)
      /\ r = [entries |-> r.entries, trie |-> r.trie, free_nodes |-> r.free_nodes,
              arena |-> r.arena, entry_nodes |-> r.entry_nodes,
              identifier_index |-> r.identifier_index]
  BY DEF Evict
<1>2. /\ es \in Seq(Entry) /\ Len(es) \in Nat /\ idx \in Nat
      /\ n.trie \in [Nodes(G) -> TrieNode] /\ IsAddressMap(G)
      /\ \A p \in Nodes(G) : p \in Seq(Atoms)
      /\ n.free_nodes \in Seq(Nat) /\ n.arena \in Nat /\ n.entry_nodes \in Seq(Nat)
  BY NodesType DEF IsNeighborhood, IsTree
<1>3. /\ new \in Seq(Entry)
      /\ InByteOrder(new)
      /\ AddressesOf(new) = G
      /\ Len(new) = Len(es) - 1
      /\ \A i \in 1..Len(es) : i # idx => new[Down(i)] = es[i]
  <2>1. InByteOrder(es) /\ idx \in 1..Len(es)
    OBVIOUS
  <2> HIDE DEF es
  <2>2. /\ new \in Seq(Entry)
        /\ InByteOrder(new)
        /\ AddressesOf(new) = Drop(AddressesOf(es), es[idx].bytes)
    BY <1>2, <2>1, AddressesOfRemove
  <2>3. /\ Len(new) = Len(es) - 1
        /\ \A i \in 1..Len(es) : i # idx => new[Down(i)] = es[i]
    BY <1>2, <2>1, RemoveAtProperties
  <2> QED BY <2>2, <2>3 DEF es
<1>4. ASSUME NEW i \in 1..Len(new)
      PROVE  /\ Up(i) \in 1..Len(es) /\ Up(i) # idx /\ Down(Up(i)) = i /\ new[i] = es[Up(i)]
  <2>1. Len(es) \in Nat /\ idx \in 1..Len(es) /\ i \in 1..(Len(es) - 1)
    BY <1>2, <1>3
  <2> HIDE DEF es, new
  <2>2. Up(i) \in 1..Len(es) /\ Up(i) # idx /\ Down(Up(i)) = i
    BY <2>1
  <2> QED BY <2>2, <1>3
<1> HIDE DEF new, r
<1>5. ASSUME NEW p \in Nodes(G)
      PROVE  /\ trie[p] \in TrieNode
             /\ trie[p].count = Cardinality(Under(G, p))
             /\ trie[p].content = ShiftDown(n.trie[p].content, idx)
             /\ trie[p].content \in 1..Len(new) \cup {Vacant}
             /\ \A i \in 1..Len(new) : trie[p].content = i <=> new[i].address = p
  <2> DEFINE c == n.trie[p].content
             x == ShiftDown(c, idx)
  <2>1. /\ n.trie[p] \in TrieNode /\ c \in 1..Len(es) \cup {Vacant} /\ c # idx
        /\ n.trie[p].count = Cardinality(Under(G, p))
    BY <1>2
  <2>2. trie[p] = [n.trie[p] EXCEPT !.content = x]
    OBVIOUS
  <2> HIDE DEF c
  <2>3. x \in Int /\ x \in 1..Len(new) \cup {Vacant}
    <3>1. CASE c = Vacant
      BY <1>2, <3>1 DEF ShiftDown, Vacant
    <3>2. CASE c \in 1..Len(es)
      <4>1. idx \in 1..Len(es)
        OBVIOUS
      <4> HIDE DEF es
      <4> QED BY <1>2, <1>3, <2>1, <3>2, <4>1 DEF ShiftDown
    <3> QED BY <2>1, <3>1, <3>2
  <2>4. ASSUME NEW i \in 1..Len(new)
        PROVE  x = i <=> new[i].address = p
    <3>1. Up(i) \in 1..Len(es) /\ Up(i) # idx /\ new[i] = es[Up(i)]
      BY <1>4
    <3>2. c = Up(i) <=> es[Up(i)].address = p
      BY <3>1 DEF c
    <3>3. x = i <=> c = Up(i)
      BY <1>2, <1>3, <2>1 DEF ShiftDown, Vacant
    <3> HIDE DEF x, Up
    <3> QED BY <3>1, <3>2, <3>3
  <2> HIDE DEF x, trie
  <2>5. /\ trie[p] \in TrieNode /\ trie[p].count = n.trie[p].count /\ trie[p].content = x
    BY <2>1, <2>2, <2>3 DEF TrieNode
  <2> QED BY <2>1, <2>3, <2>4, <2>5 DEF x, c
<1>6. DOMAIN trie = Nodes(G) /\ trie \in [DOMAIN trie -> TrieNode]
  BY <1>5
<1> HIDE DEF trie
<1>7. DOMAIN new = 1..Len(new)
  BY <1>3
<1>8. TrieSpans(r)
  BY <1>1, <1>3, <1>5, <1>6, <1>7 DEF TrieSpans
<1>9. /\ RemoveAt(n.entry_nodes, idx) \in Seq(Nat)
      /\ Len(RemoveAt(n.entry_nodes, idx)) = Len(new)
  <2> DEFINE N == Nat
             nodes == n.entry_nodes
  <2>1. nodes \in Seq(N) /\ idx \in 1..Len(nodes) /\ Len(nodes) = Len(es)
    BY <1>2
  <2> HIDE DEF N, nodes
  <2>2. RemoveAt(nodes, idx) \in Seq(N) /\ Len(RemoveAt(nodes, idx)) = Len(nodes) - 1
    BY <2>1, RemoveAtProperties, ZenonT(40)
  <2> QED BY <1>3, <2>1, <2>2 DEF N, nodes
<1>10. /\ DOMAIN r.identifier_index \subseteq Identifiers
       /\ r.identifier_index \in [DOMAIN r.identifier_index -> Nat]
  <2> DEFINE index == Drop(n.identifier_index, es[idx].identifier)
             shifted == [x \in DOMAIN index |-> ShiftDown(index[x], idx)]
  <2>1. /\ DOMAIN n.identifier_index \subseteq Identifiers
        /\ n.identifier_index \in [DOMAIN n.identifier_index -> Nat]
    BY DEF IsNeighborhood
  <2>2. DOMAIN index \subseteq Identifiers /\ \A x \in DOMAIN index : index[x] \in Nat
    BY <2>1 DEF Drop
  <2> HIDE DEF index
  <2>3. \A x \in DOMAIN index : ShiftDown(index[x], idx) \in Nat
    BY <1>2, <2>2 DEF ShiftDown
  <2>4. shifted \in [DOMAIN shifted -> Nat] /\ DOMAIN shifted \subseteq Identifiers
    BY <2>2, <2>3
  <2>5. r.identifier_index = shifted
    BY <1>1 DEF IndexAfterRemove, index
  <2> QED BY <2>4, <2>5
<1>11. IsNeighborhood(r)
  BY <1>1, <1>2, <1>3, <1>6, <1>9, <1>10 DEF IsNeighborhood
<1>12. Sound(r)
  BY <1>1, <1>3, <1>8, <1>9, <1>11 DEF Sound
<1> QED BY <1>12 DEF r

\* T is the trie once the leaf a of b, the entry at idx, is unlinked and the counts
\* of its path are down by one.
IsDetached(n, idx, A, b, a, T) ==
  /\ b \in DOMAIN A /\ A[b] = a /\ a \in Nodes(A)
  /\ DOMAIN T = Nodes(A) \ {a}
  /\ \A p \in Nodes(A) \ {a} :
       /\ p \in Seq(Atoms)
       /\ T[p] \in TrieNode
       /\ T[p].slot = n.trie[p].slot
       /\ T[p].content = n.trie[p].content
       /\ T[p].count = Cardinality(Under(Drop(A, b), p))
       /\ IsFiniteSet(Under(Drop(A, b), p))
       /\ T[p].content \in 1..Len(n.entries) \cup {Vacant}
       /\ T[p].content # idx
       /\ \A i \in 1..Len(n.entries) :
            i # idx => (T[p].content = i <=> n.entries[i].address = p)

\* What Detach makes is that trie.
LEMMA DetachFacts ==
  ASSUME NEW n, Sound(n), NEW idx \in 1..Len(n.entries)
  PROVE  IsDetached(n, idx, AddressesOf(n.entries), n.entries[idx].bytes,
                    n.entries[idx].address, Detach(n, n.entries[idx].address))
<1> DEFINE es == n.entries
           A == AddressesOf(es)
           b == es[idx].bytes
           a == es[idx].address
           T == Detach(n, a)
<1>1. /\ es \in Seq(Entry) /\ InByteOrder(es) /\ IsTree(A) /\ IsAddressMap(A)
      /\ DOMAIN n.trie = Nodes(A)
      /\ a \in Nodes(A)
      /\ \A p \in Nodes(A) :
           /\ p \in Seq(Atoms)
           /\ n.trie[p] \in TrieNode
           /\ n.trie[p].count = Cardinality(Under(A, p))
           /\ n.trie[p].content \in 1..Len(es) \cup {Vacant}
           /\ n.trie[p].content # Vacant => es[n.trie[p].content].address = p
           /\ \A i \in 1..Len(es) : es[i].address = p => n.trie[p].content = i
  BY SoundFacts DEF Sound, IsTree
<1>2. b \in DOMAIN A /\ A[b] = a
  BY <1>1, EntriesFacts
<1>3. DOMAIN T = Nodes(A) \ {a}
  BY <1>1 DEF Detach
<1>4. ASSUME NEW p \in Nodes(A) \ {a}
      PROVE  /\ p \in Seq(Atoms)
             /\ T[p] \in TrieNode
             /\ T[p].slot = n.trie[p].slot
             /\ T[p].content = n.trie[p].content
             /\ T[p].count = Cardinality(Under(Drop(A, b), p))
             /\ IsFiniteSet(Under(Drop(A, b), p))
             /\ T[p].content \in 1..Len(es) \cup {Vacant}
             /\ T[p].content # idx
             /\ \A i \in 1..Len(es) : i # idx => (T[p].content = i <=> es[i].address = p)
  <2>1. /\ p \in Seq(Atoms) /\ n.trie[p] \in TrieNode
        /\ n.trie[p].count = Cardinality(Under(A, p))
        /\ n.trie[p].content \in 1..Len(es) \cup {Vacant}
        /\ n.trie[p].content # Vacant => es[n.trie[p].content].address = p
        /\ \A i \in 1..Len(es) : es[i].address = p => n.trie[p].content = i
    BY <1>1
  <2>2. T[p] = IF IsPrefix(p, a) THEN [n.trie[p] EXCEPT !.count = @ - 1] ELSE n.trie[p]
    BY <1>1 DEF Detach
  <2>3. IsFiniteSet(Under(A, p)) /\ Cardinality(Under(A, p)) \in Nat
    BY <1>1, UnderFinite
  <2>4. Under(Drop(A, b), p) = Under(A, p) \ {b}
    BY <1>1, <1>2, UnderDrop
  <2>5. b \in Under(A, p) <=> IsPrefix(p, a)
    BY <1>2 DEF Under
  <2>6. /\ IsFiniteSet(Under(A, p) \ {b})
        /\ Cardinality(Under(A, p) \ {b}) =
             IF b \in Under(A, p) THEN Cardinality(Under(A, p)) - 1
             ELSE Cardinality(Under(A, p))
    BY <2>3, FS_RemoveElement
  <2> HIDE DEF A, T
  <2>7. /\ T[p] \in TrieNode
        /\ T[p].slot = n.trie[p].slot
        /\ T[p].content = n.trie[p].content
        /\ T[p].count = Cardinality(Under(Drop(A, b), p))
    <3>1. CASE IsPrefix(p, a)
      <4> DEFINE c == n.trie[p].count - 1
      <4>1. T[p] = [n.trie[p] EXCEPT !.count = c] /\ c \in Int
        BY <2>1, <2>2, <2>3, <3>1
      <4>2. c = Cardinality(Under(Drop(A, b), p))
        BY <2>1, <2>4, <2>5, <2>6, <3>1
      <4> HIDE DEF c
      <4> QED BY <2>1, <4>1, <4>2 DEF TrieNode
    <3>2. CASE ~IsPrefix(p, a)
      BY <2>1, <2>2, <2>4, <2>5, <2>6, <3>2
    <3> QED BY <3>1, <3>2
  <2>8. n.trie[p].content # idx
    <3>1. p # a /\ idx # Vacant
      BY DEF Vacant
    <3> QED BY <2>1, <3>1
  <2>9. \A i \in 1..Len(es) : n.trie[p].content = i <=> es[i].address = p
    BY <2>1 DEF Vacant
  <2> QED BY <2>1, <2>4, <2>6, <2>7, <2>8, <2>9
<1>5. a \in Nodes(A)
  BY <1>1
<1> HIDE DEF A, T, a, b
<1>6. IsDetached(n, idx, A, b, a, T)
  BY <1>2, <1>3, <1>4, <1>5 DEF IsDetached
<1> QED BY <1>6 DEF A, T, a, b

\* The levels that the loop collapses are those at which one member is left.
LEMMA LevelsAreLonely ==
  ASSUME NEW n, Sound(n), NEW idx \in 1..Len(n.entries)
  PROVE  CollapseLevels(Detach(n, n.entries[idx].address), n.entries[idx].address)
           = Lonely(AddressesOf(n.entries), n.entries[idx].bytes)
<1> DEFINE es == n.entries
           A == AddressesOf(es)
           b == es[idx].bytes
           a == es[idx].address
           T == Detach(n, a)
<1>1. /\ es \in Seq(Entry) /\ InByteOrder(es) /\ IsTree(A) /\ IsAddressMap(A)
  BY SoundFacts DEF Sound, IsTree
<1>d. IsDetached(n, idx, A, b, a, T)
  BY DetachFacts
<1>n. n.entries = es
  OBVIOUS
<1> HIDE DEF A, T, a, b, es
<1>2. /\ b \in DOMAIN A /\ A[b] = a /\ a \in Nodes(A)
      /\ DOMAIN T = Nodes(A) \ {a}
      /\ \A p \in Nodes(A) \ {a} :
           /\ T[p].count = Cardinality(Under(Drop(A, b), p))
           /\ IsFiniteSet(Under(Drop(A, b), p))
           /\ T[p].content \in 1..Len(es) \cup {Vacant}
           /\ T[p].content # idx
           /\ \A i \in 1..Len(es) : i # idx => (T[p].content = i <=> es[i].address = p)
  BY <1>d, <1>n DEF IsDetached
<1>3. a \in Seq(Atoms) /\ Len(a) \in Nat
  BY <1>1, <1>2, NodesType
<1>4. \A k \in 1..(Len(a) - 1) :
        /\ SubSeq(a, 1, k) \in Nodes(A) \ {a}
        /\ SubSeq(a, 1, k) \in Seq(Atoms) /\ IsPrefix(SubSeq(a, 1, k), a)
        /\ Len(SubSeq(a, 1, k)) = k
  <2> TAKE k \in 1..(Len(a) - 1)
  <2>1. k \in 0..Len(a)
    BY <1>3
  <2>2. /\ SubSeq(a, 1, k) \in Seq(Atoms) /\ Len(SubSeq(a, 1, k)) = k
        /\ IsPrefix(SubSeq(a, 1, k), a)
    BY <1>3, <2>1, SubSeqIsPrefix
  <2>3. SubSeq(a, 1, k) \in Nodes(A)
    BY <1>1, <1>2, <2>2, NodesBelow
  <2>4. SubSeq(a, 1, k) # a
    BY <1>3, <2>2
  <2> QED BY <2>2, <2>3, <2>4
<1> HIDE DEF A, T, a, b, es
<1>5. ASSUME NEW k \in 1..(Len(a) - 1)
      PROVE  LET p == SubSeq(a, 1, k) IN
             (T[p].count = 1 /\ T[p].content = Vacant /\ Cardinality(Children(T, p)) = 1)
               <=> \E c : Under(Drop(A, b), p) = {c}
  <2> DEFINE p == SubSeq(a, 1, k)
  <2>1. /\ p \in Nodes(A) \ {a} /\ p \in Seq(Atoms) /\ IsPrefix(p, a) /\ Len(p) = k
    BY <1>4
  <2> HIDE DEF p
  <2>2. T[p].count = 1 <=> \E c : Under(Drop(A, b), p) = {c}
    <3>1. /\ T[p].count = Cardinality(Under(Drop(A, b), p))
          /\ IsFiniteSet(Under(Drop(A, b), p))
      BY <1>2, <2>1
    <3> QED BY <3>1, FS_Singleton
  <2>3. T[p].content = Vacant
    <3>1. ASSUME NEW i \in 1..Len(es), i # idx, es[i].address = p
          PROVE  FALSE
      <4>1. IsPrefix(es[i].address, es[idx].address)
        BY <2>1, <3>1 DEF a
      <4>2. idx \in 1..Len(es)
        BY DEF es
      <4> QED BY <1>1, <3>1, <4>1, <4>2, AddressIsOwn DEF A
    <3> QED BY <1>2, <2>1, <3>1
  <2>4. ASSUME NEW c, Under(Drop(A, b), p) = {c}
        PROVE  Cardinality(Children(T, p)) = 1
    <3>1. k \in 1..(Len(A[b]) - 1)
      BY <1>2
    <3>2. {q \in Nodes(A) \ {A[b]} : Len(q) = k + 1 /\ IsPrefix(SubSeq(A[b], 1, k), q)}
            = {SubSeq(A[c], 1, k + 1)}
      <4>1. Under(Drop(A, b), SubSeq(A[b], 1, k)) = {c}
        BY <1>2, <2>4 DEF p
      <4>2. IsTree(A) /\ b \in DOMAIN A
        BY <1>1, <1>2
      <4>3. /\ c \in DOMAIN A \ {b} /\ IsPrefix(SubSeq(A[b], 1, k), A[c]) /\ k < Len(A[c])
            /\ {q \in Nodes(A) \ {A[b]} : Len(q) = k + 1 /\ IsPrefix(SubSeq(A[b], 1, k), q)}
                 = {SubSeq(A[c], 1, k + 1)}
        BY <3>1, <4>1, <4>2, LonelyChild
      <4> QED BY <4>3
    <3>3. Children(T, p)
            = {q \in Nodes(A) \ {A[b]} : Len(q) = k + 1 /\ IsPrefix(SubSeq(A[b], 1, k), q)}
      BY <1>2, <2>1 DEF Children, p
    <3> QED BY <3>2, <3>3, FS_Singleton
  <2> QED BY <2>2, <2>3, <2>4 DEF p
<1>6. \A k \in 1..(Len(a) - 1) : k \in CollapseLevels(T, a) <=> k \in Lonely(A, b)
  BY <1>2, <1>5 DEF CollapseLevels, Lonely
<1>7. CollapseLevels(T, a) \subseteq 1..(Len(a) - 1) /\ Lonely(A, b) \subseteq 1..(Len(a) - 1)
  BY <1>2 DEF CollapseLevels, Lonely
<1>8. CollapseLevels(T, a) = Lonely(A, b)
  BY <1>6, <1>7
<1> QED BY <1>8 DEF T, A, a, b, es

\* A neighborhood without members, whatever its index holds.
LEMMA EmptySound ==
  ASSUME NEW index, DOMAIN index \subseteq Identifiers, index \in [DOMAIN index -> Nat]
  PROVE  Sound([New EXCEPT !.identifier_index = index])
<1> DEFINE r == [New EXCEPT !.identifier_index = index]
           A == AddressesOf(<<>>)
<1>1. /\ r.entries = <<>> /\ r.trie = EmptyTrie /\ r.free_nodes = <<>> /\ r.arena = 1
      /\ r.entry_nodes = <<>> /\ r.identifier_index = index
      /\ r = [entries |-> r.entries, trie |-> r.trie, free_nodes |-> r.free_nodes,
              arena |-> r.arena, entry_nodes |-> r.entry_nodes,
              identifier_index |-> r.identifier_index]
  BY DEF New
<1>2. DOMAIN A = {} /\ A = [b \in {} |-> <<>>]
  BY DEF AddressesOf
<1> HIDE DEF r, A
<1>3. IsTree(A)
  BY <1>2, FS_EmptySet DEF IsTree, IsAddressMap, Follows, Separate, Tight
<1>4. Nodes(A) = {<<>>} /\ Under(A, <<>>) = {}
  BY <1>2 DEF Nodes, Under
<1>5. /\ DOMAIN EmptyTrie = {<<>>}
      /\ EmptyTrie[<<>>] = [slot |-> 0, content |-> Vacant, count |-> 0]
  BY DEF EmptyTrie
<1>6. EmptyTrie[<<>>] \in TrieNode /\ EmptyTrie[<<>>].content = Vacant /\ EmptyTrie[<<>>].count = 0
  BY <1>5 DEF TrieNode, Vacant
<1>7. EmptyTrie \in [{<<>>} -> TrieNode]
  BY <1>5, <1>6 DEF EmptyTrie
<1> HIDE DEF EmptyTrie
<1>8. TrieSpans(r)
  <2>1. DOMAIN r.entries = {}
    BY <1>1
  <2>2. Cardinality({}) = 0
    BY FS_EmptySet
  <2>3. A = AddressesOf(r.entries)
    BY <1>1 DEF A
  <2>4. DOMAIN r.trie = Nodes(A) /\ DOMAIN r.trie = {<<>>}
    BY <1>1, <1>4, <1>5
  <2>5. /\ r.trie[<<>>].count = Cardinality(Under(A, <<>>))
        /\ r.trie[<<>>].content \in DOMAIN r.entries \cup {Vacant}
    BY <1>1, <1>4, <1>6, <2>2
  <2> QED BY <2>1, <2>3, <2>4, <2>5 DEF TrieSpans
<1>9. <<>> \in Seq(Entry) /\ <<>> \in Seq(Nat) /\ <<>> \in Seq(Atoms) /\ InByteOrder(<<>>)
  BY DEF InByteOrder
<1>10. IsNeighborhood(r)
  BY <1>1, <1>5, <1>7, <1>9 DEF IsNeighborhood
<1>11. Sound(r)
  BY <1>1, <1>3, <1>8, <1>9, <1>10 DEF Sound, A
<1> QED BY <1>11 DEF r

\* The last member gets a leaf of its own below the root.
LEMMA ReseatSound ==
  ASSUME NEW n, Sound(n), Len(n.entries) = 1
  PROVE  Sound(Reseat(n)) /\ ReseatChanges(n) \in Seq(AddressChange)
<1> DEFINE es    == n.entries
           b     == es[1].bytes
           first == Prefix(b, 1)
           leaf  == NewSlots(n, 1)[1]
           root  == [n.trie[<<>>] EXCEPT !.count = 1]
           e2    == [es EXCEPT ![1].address = first]
           trie  == [p \in {<<>>, first} |->
                       IF p = <<>> THEN root
                       ELSE [slot |-> leaf, content |-> 1, count |-> 1]]
           r     == Reseat(n)
           A     == AddressesOf(es)
           G     == AddressesOf(e2)
<1>1. /\ r.entries = e2 /\ r.trie = trie /\ r.free_nodes = <<>> /\ r.arena = ArenaAfter(n, 1)
      /\ r.entry_nodes = <<leaf>> /\ r.identifier_index = n.identifier_index
      /\ r = [entries |-> r.entries, trie |-> r.trie, free_nodes |-> r.free_nodes,
              arena |-> r.arena, entry_nodes |-> r.entry_nodes,
              identifier_index |-> r.identifier_index]
  BY DEF Reseat
<1>2. /\ es \in Seq(Entry) /\ InByteOrder(es) /\ Len(es) = 1 /\ IsAddressMap(A)
      /\ DOMAIN n.trie = Nodes(A) /\ IsNeighborhood(n)
      /\ \A p \in Nodes(A) :
           /\ n.trie[p] \in TrieNode
           /\ n.trie[p].content \in 1..Len(es) \cup {Vacant}
           /\ n.trie[p].content # Vacant => es[n.trie[p].content].address = p
  BY SoundFacts DEF Sound, IsTree
<1>3. /\ b \in Contents /\ b \in DOMAIN A
      /\ es[1] \in Entry /\ es[1].address # <<>> /\ es[1].bytes = b
  BY <1>2, EntriesFacts
<1>4. first \in Seq(Atoms) /\ Len(first) = 1 /\ first # <<>> /\ first \in Address
  <2>1. first \in Seq(Atoms) /\ Len(first) = 1
    BY <1>3, PrefixProperties
  <2>2. first # <<>>
    BY <2>1
  <2> QED BY <2>1, <2>2 DEF Address
<1>5. leaf \in Nat /\ ArenaAfter(n, 1) \in Nat
  BY <1>2, SlotTypes
<1>6. <<>> \in Nodes(A)
  BY DEF Nodes
<1> HIDE DEF first, leaf, r
<1>7. /\ root \in TrieNode /\ root.count = 1 /\ root.content = Vacant
  <2> DEFINE old == n.trie[<<>>]
  <2>1. old \in TrieNode
    BY <1>2, <1>6
  <2>2. old.content = Vacant
    <3> SUFFICES ASSUME old.content # Vacant PROVE FALSE
      OBVIOUS
    <3>1. old.content = 1 /\ es[1].address = <<>>
      BY <1>2, <1>6
    <3> QED BY <1>3, <3>1
  <2> HIDE DEF old
  <2> QED BY <2>1, <2>2 DEF TrieNode, old
<1>8. [slot |-> leaf, content |-> 1, count |-> 1] \in TrieNode
  BY <1>5 DEF TrieNode
<1> HIDE DEF root
<1>9. /\ DOMAIN trie = {<<>>, first} /\ trie \in [DOMAIN trie -> TrieNode]
      /\ trie[<<>>] = root /\ trie[first] = [slot |-> leaf, content |-> 1, count |-> 1]
  BY <1>4, <1>7, <1>8
<1> HIDE DEF trie
<1>10. /\ e2 \in Seq(Entry) /\ Len(e2) = 1
       /\ e2[1].bytes = b /\ e2[1].address = first
       /\ InByteOrder(e2)
  <2>1. 1 \in 1..Len(es) /\ es \in Seq(Entry) /\ InByteOrder(es) /\ first \in Address
    BY <1>2, <1>4
  <2> HIDE DEF es
  <2>2. /\ e2 \in Seq(Entry) /\ Len(e2) = Len(es)
        /\ \A i \in 1..Len(es) : /\ e2[i].bytes = es[i].bytes
                                 /\ e2[i].identifier = es[i].identifier
                                 /\ e2[i].address = IF i = 1 THEN first ELSE es[i].address
        /\ InByteOrder(e2)
        /\ AddressesOf(e2) = Put(AddressesOf(es), es[1].bytes, first)
    BY <2>1, AddressesOfMove
  <2> HIDE DEF e2
  <2> QED BY <1>2, <2>1, <2>2
<1> HIDE DEF e2
<1>11. /\ \A x : x \in DOMAIN G <=> x = b
       /\ G[b] = first
  <2>1. /\ \A x : x \in DOMAIN G <=> \E i \in 1..Len(e2) : e2[i].bytes = x
        /\ \A i \in 1..Len(e2) : G[e2[i].bytes] = e2[i].address
    BY <1>10, EntriesFacts
  <2> QED BY <1>10, <2>1
<1>12. DOMAIN G = {b} /\ G = [x \in DOMAIN G |-> G[x]]
  <2>1. G = [x \in DOMAIN G |-> G[x]]
    BY DEF AddressesOf
  <2> HIDE DEF G
  <2> QED BY <1>11, <2>1
<1> HIDE DEF G, b, A
<1>13. IsTree(G)
  <2>1. IsFiniteSet({b})
    BY FS_Singleton
  <2>2. IsAddressMap(G)
    BY <1>3, <1>4, <1>11, <1>12, <2>1 DEF IsAddressMap
  <2>3. Follows(G)
    BY <1>4, <1>11 DEF Follows, first
  <2>4. Separate(G)
    BY <1>11 DEF Separate
  <2>5. Tight(G)
    <3>1. ASSUME NEW x \in DOMAIN G
          PROVE  ~(Len(G[x]) > 1)
      <4>1. Len(G[x]) = 1
        BY <1>4, <1>11
      <4> QED BY <4>1
    <3> QED BY <3>1 DEF Tight
  <2> QED BY <2>2, <2>3, <2>4, <2>5 DEF IsTree
<1>14. IsAddressMap(G)
  BY <1>13 DEF IsTree
<1>15. IsPrefix(<<>>, first) /\ IsPrefix(first, first)
  <2> DEFINE none == <<>>
  <2>1. none \in Seq(Atoms) /\ Len(none) = 0
    OBVIOUS
  <2> HIDE DEF none
  <2>2. none = SubSeq(first, 1, 0)
    BY <1>4 DEF none
  <2>3. IsPrefix(none, first)
    <3>1. 0 \in 0..Len(first) /\ first \in Seq(Atoms)
      BY <1>4
    <3> QED BY <2>2, <3>1, SubSeqIsPrefix
  <2>4. IsPrefix(first, first)
    BY <1>4, PrefixReflexive
  <2> QED BY <2>3, <2>4 DEF none
<1>16. Nodes(G) = {<<>>, first}
  <2>1. ASSUME NEW p \in Seq(Atoms), p # <<>>, IsPrefix(p, first)
        PROVE  p = first
    <3>1. Len(p) = 1 /\ p[1] = first[1]
      BY <1>4, <2>1, PrefixDef
    <3> QED BY <1>4, <3>1
  <2>2. \A p : p \in Nodes(G) <=> p = <<>> \/ (p \in Seq(Atoms) /\ IsPrefix(p, first))
    BY <1>11, <1>14, NodesDef
  <2>3. \A p : p \in Nodes(G) <=> p = <<>> \/ p = first
    BY <1>4, <1>15, <2>1, <2>2
  <2> QED BY <2>3
<1>17. Under(G, <<>>) = {b} /\ Under(G, first) = {b}
  BY <1>11, <1>12, <1>15 DEF Under
<1>18. TrieSpans(r)
  <2>1. Cardinality({b}) = 1
    BY FS_Singleton
  <2>2. DOMAIN e2 = {1}
    <3>1. DOMAIN e2 = 1..1
      BY <1>10
    <3> QED BY <3>1
  <2>3. /\ trie[<<>>].count = 1 /\ trie[<<>>].content = Vacant
        /\ trie[first].count = 1 /\ trie[first].content = 1
    BY <1>7, <1>9
  <2>4. r.entries = e2 /\ r.trie = trie /\ DOMAIN trie = Nodes(G) /\ DOMAIN trie = {<<>>, first}
    BY <1>1, <1>9, <1>16
  <2>5. /\ trie[<<>>].count = Cardinality(Under(G, <<>>))
        /\ trie[first].count = Cardinality(Under(G, first))
    BY <1>17, <2>1, <2>3
  <2>6. /\ trie[<<>>].content \in DOMAIN e2 \cup {Vacant}
        /\ trie[first].content \in DOMAIN e2 \cup {Vacant}
    BY <2>2, <2>3
  <2>7. \A i \in DOMAIN e2 : /\ trie[<<>>].content = i <=> e2[i].address = <<>>
                             /\ trie[first].content = i <=> e2[i].address = first
    BY <1>4, <1>10, <2>2, <2>3 DEF Vacant
  <2>8. G = AddressesOf(r.entries)
    BY <1>1 DEF G
  <2> QED BY <2>4, <2>5, <2>6, <2>7, <2>8, ZenonT(60) DEF TrieSpans
<1>19. <<leaf>> \in Seq(Nat) /\ Len(<<leaf>>) = 1
  BY <1>5
<1>20. IsNeighborhood(r)
  <2>1. /\ DOMAIN n.identifier_index \subseteq Identifiers
        /\ n.identifier_index \in [DOMAIN n.identifier_index -> Nat]
    BY <1>2 DEF IsNeighborhood
  <2>2. <<>> \in Seq(Nat) /\ <<>> \in Seq(Atoms)
    OBVIOUS
  <2> QED BY <1>1, <1>4, <1>5, <1>9, <1>10, <1>19, <2>1, <2>2 DEF IsNeighborhood
<1>21. Sound(r)
  BY <1>1, <1>10, <1>13, <1>18, <1>19, <1>20 DEF Sound, G
<1>22. ReseatChanges(n) \in Seq(AddressChange)
  <2> DEFINE c == [bytes |-> es[1].bytes, identifier |-> es[1].identifier,
                   old |-> es[1].address, new |-> first]
  <2>1. c \in AddressChange
    BY <1>3, <1>4 DEF Entry, AddressChange
  <2>2. ReseatChanges(n) = <<>> \/ ReseatChanges(n) = <<c>>
    BY DEF ReseatChanges, first, b
  <2> HIDE DEF c
  <2>3. <<>> \in Seq(AddressChange) /\ <<c>> \in Seq(AddressChange)
    BY <2>1
  <2> QED BY <2>2, <2>3
<1> QED BY <1>21, <1>22 DEF r

\* The end of remove_inner.
LEMMA SettleSound ==
  ASSUME NEW n, Sound(n), NEW address \in Seq(Atoms), NEW changes \in Seq(AddressChange)
  PROVE  IsAnswer(Settle(n, address, changes))
<1>1. CASE Len(n.entries) = 0
  <2> DEFINE r == [New EXCEPT !.identifier_index = n.identifier_index]
  <2>1. Sound(r)
    BY EmptySound DEF Sound, IsNeighborhood
  <2>2. Settle(n, address, changes) = Answer(r, "Removed", address, changes)
    BY <1>1 DEF Settle
  <2> HIDE DEF r
  <2> QED BY <2>1, <2>2 DEF Answer, IsAnswer, Successes
<1>2. CASE Len(n.entries) = 1
  <2> DEFINE all == changes \o ReseatChanges(n)
  <2>1. Sound(Reseat(n)) /\ ReseatChanges(n) \in Seq(AddressChange)
    BY <1>2, ReseatSound
  <2>2. all \in Seq(AddressChange)
    BY <2>1
  <2>3. Settle(n, address, changes) = Answer(Reseat(n), "Removed", address, all)
    BY <1>2 DEF Settle
  <2> HIDE DEF all
  <2> QED BY <2>1, <2>2, <2>3 DEF Answer, IsAnswer, Successes
<1>3. CASE Len(n.entries) # 0 /\ Len(n.entries) # 1
  <2>1. Settle(n, address, changes) = Answer(n, "Removed", address, changes)
    BY <1>3 DEF Settle
  <2> QED BY <2>1 DEF Answer, IsAnswer, Successes
<1> QED BY <1>1, <1>2, <1>3

\* The nodes above the leaf of b, but the root.
LEMMA AboveLeaf ==
  ASSUME NEW A, IsTree(A), NEW b \in DOMAIN A, NEW k \in 1..(Len(A[b]) - 1)
  PROVE  LET p == SubSeq(A[b], 1, k) IN
         /\ p \in Nodes(A) \ {A[b]} /\ p \in Address /\ p \in Seq(Atoms)
         /\ Len(p) = k /\ IsPrefix(p, A[b])
<1> DEFINE a == A[b]
           p == SubSeq(a, 1, k)
<1>1. IsAddressMap(A) /\ a \in Seq(Atoms) /\ Len(a) \in Nat
  BY DropFacts DEF IsTree
<1>2. k \in 0..Len(a) /\ k \in 1..(Len(a) - 1)
  BY <1>1
<1>3. a \in Nodes(A)
  BY <1>1, NodesDef, PrefixReflexive
<1> HIDE DEF a
<1>4. p \in Seq(Atoms) /\ Len(p) = k /\ IsPrefix(p, a)
  BY <1>1, <1>2, SubSeqIsPrefix
<1> HIDE DEF p
<1>5. p \in Nodes(A)
  BY <1>1, <1>3, <1>4, NodesBelow
<1>6. p # a /\ p # <<>>
  BY <1>1, <1>2, <1>4
<1> QED BY <1>4, <1>5, <1>6 DEF a, p, Address

\* The removal of a leaf whose neighbors keep their addresses, before the last cases.
LEMMA LeafEvictSound ==
  ASSUME NEW n, Sound(n), NEW idx \in 1..Len(n.entries),
         Lonely(AddressesOf(n.entries), n.entries[idx].bytes) = {}
  PROVE  LET a == n.entries[idx].address IN
         /\ a \in Seq(Atoms)
         /\ Sound(Evict([n EXCEPT !.trie = Detach(n, a),
                                  !.free_nodes = Append(@, n.trie[a].slot)], idx))
<1> DEFINE es == n.entries
           A  == AddressesOf(es)
           b  == es[idx].bytes
           a  == es[idx].address
           T  == Detach(n, a)
           G  == Drop(A, b)
           freed == Append(n.free_nodes, n.trie[a].slot)
           r  == [n EXCEPT !.trie = T, !.free_nodes = freed]
<1>1. IsDetached(n, idx, A, b, a, T)
  BY DetachFacts
<1>2. /\ IsTree(A) /\ InByteOrder(es) /\ Len(n.entry_nodes) = Len(es) /\ IsNeighborhood(n)
  BY DEF Sound
<1>3. \A p \in Nodes(A) : n.trie[p].slot \in Nat
  BY SoundFacts
<1>4. a \in Seq(Atoms)
  BY SoundFacts, <1>1 DEF IsDetached
<1>5. Lonely(A, b) = {} /\ AddressesOf(n.entries) = A /\ b = n.entries[idx].bytes
  OBVIOUS
<1>6. /\ r.entries = n.entries /\ r.trie = T /\ r.free_nodes = freed /\ r.arena = n.arena
      /\ r.entry_nodes = n.entry_nodes /\ r.identifier_index = n.identifier_index
      /\ r = [entries |-> r.entries, trie |-> r.trie, free_nodes |-> r.free_nodes,
              arena |-> r.arena, entry_nodes |-> r.entry_nodes,
              identifier_index |-> r.identifier_index]
  <2>1. n = [entries |-> n.entries, trie |-> n.trie, free_nodes |-> n.free_nodes,
             arena |-> n.arena, entry_nodes |-> n.entry_nodes,
             identifier_index |-> n.identifier_index]
    BY <1>2 DEF IsNeighborhood
  <2>2. r = [n EXCEPT !.trie = T, !.free_nodes = freed]
    OBVIOUS
  <2> HIDE DEF T, freed, r
  <2>3. r = [entries |-> n.entries, trie |-> T, free_nodes |-> freed,
             arena |-> n.arena, entry_nodes |-> n.entry_nodes,
             identifier_index |-> n.identifier_index]
    BY <2>1, <2>2
  <2> QED BY <2>3
<1> HIDE DEF A, b, a, T, freed, r
<1>7. /\ b \in DOMAIN A /\ A[b] = a /\ a \in Nodes(A)
      /\ DOMAIN T = Nodes(A) \ {a}
      /\ \A p \in Nodes(A) \ {a} :
           /\ p \in Seq(Atoms)
           /\ T[p] \in TrieNode
           /\ T[p].count = Cardinality(Under(Drop(A, b), p))
           /\ T[p].content \in 1..Len(es) \cup {Vacant}
           /\ T[p].content # idx
           /\ \A i \in 1..Len(es) :
                i # idx => (T[p].content = i <=> es[i].address = p)
  BY <1>1 DEF IsDetached
<1>8. IsTree(G) /\ Nodes(G) = Nodes(A) \ {a}
  BY <1>2, <1>5, <1>7, ShrinkLeaf
<1>9. /\ T \in [DOMAIN T -> TrieNode]
      /\ \A p \in DOMAIN T : p \in Seq(Atoms)
  <2>1. T = [p \in DOMAIN T |-> T[p]]
    BY DEF T, Detach
  <2>2. \A p \in DOMAIN T : T[p] \in TrieNode /\ p \in Seq(Atoms)
    BY <1>7
  <2> QED BY <2>1, <2>2
<1>10. freed \in Seq(Nat)
  <2>1. n.free_nodes \in Seq(Nat) /\ n.trie[a].slot \in Nat
    BY <1>2, <1>3, <1>7 DEF IsNeighborhood
  <2> QED BY <2>1 DEF freed
<1>11. IsNeighborhood(r)
  BY <1>2, <1>6, <1>9, <1>10 DEF IsNeighborhood
<1>12. Sound(Evict(r, idx))
  <2>1. /\ IsNeighborhood(r) /\ InByteOrder(r.entries)
        /\ Len(r.entry_nodes) = Len(r.entries) /\ idx \in 1..Len(r.entries)
        /\ G = Drop(AddressesOf(r.entries), r.entries[idx].bytes)
        /\ IsTree(G) /\ DOMAIN r.trie = Nodes(G)
    BY <1>2, <1>5, <1>6, <1>7, <1>8, <1>11
  <2>2. \A p \in Nodes(G) :
           /\ r.trie[p].count = Cardinality(Under(G, p))
           /\ r.trie[p].content \in 1..Len(r.entries) \cup {Vacant}
           /\ r.trie[p].content # idx
           /\ \A i \in 1..Len(r.entries) :
                i # idx => (r.trie[p].content = i <=> r.entries[i].address = p)
    BY <1>6, <1>7, <1>8
  <2> HIDE DEF G
  <2> QED BY <2>1, <2>2, EvictSound
<1> QED BY <1>4, <1>12 DEF r, a, T, freed

\* And with them.
LEMMA LeafRemovalSound ==
  ASSUME NEW n, Sound(n), NEW idx \in 1..Len(n.entries),
         Lonely(AddressesOf(n.entries), n.entries[idx].bytes) = {}
  PROVE  LET a == n.entries[idx].address IN
         IsAnswer(Settle(Evict([n EXCEPT !.trie = Detach(n, a),
                                         !.free_nodes = Append(@, n.trie[a].slot)], idx),
                         a, <<>>))
<1> DEFINE a == n.entries[idx].address
           r == Evict([n EXCEPT !.trie = Detach(n, a),
                                !.free_nodes = Append(@, n.trie[a].slot)], idx)
<1>1. a \in Seq(Atoms) /\ Sound(r)
  BY LeafEvictSound
<1>2. <<>> \in Seq(AddressChange)
  OBVIOUS
<1> HIDE DEF r, a
<1>3. IsAnswer(Settle(r, a, <<>>))
  BY <1>1, <1>2, SettleSound
<1> QED BY <1>3 DEF r, a

\* What a collapse of b's lonely levels goes through: the marker of the entry m,
\* the only other member below the lowest level l, takes the highest one, t.
IsCollapse(n, idx, A, b, a, T, marker, m, top, low, t, l) ==
  /\ top \in Nat /\ low \in Nat /\ 1 <= top /\ top <= low /\ low <= Len(a) - 1
  /\ m \in 1..Len(n.entries) /\ m # idx /\ n.entries[m].address = marker
  /\ n.entries[m].bytes \in DOMAIN A /\ n.entries[m].bytes # b
  /\ A[n.entries[m].bytes] = marker
  /\ marker \in Nodes(A) \ {a} /\ T[marker].content = m
  /\ t \in Nodes(A) \ {a} /\ t \in Address /\ IsPrefix(t, a) /\ IsPrefix(t, marker)
  /\ l \in Address /\ IsPrefix(l, marker) /\ Len(l) = low
  /\ Under(Drop(A, b), l) = {n.entries[m].bytes}

\* The marker that the walk down from the lowest level finds is that member's.
LEMMA CollapseFacts ==
  ASSUME NEW n, Sound(n), NEW idx \in 1..Len(n.entries),
         NEW levels, levels = Lonely(AddressesOf(n.entries), n.entries[idx].bytes),
         levels # {},
         NEW marker \in MarkersBelow(Detach(n, n.entries[idx].address),
                                     SubSeq(n.entries[idx].address, 1, Max(levels)))
  PROVE  IsCollapse(n, idx, AddressesOf(n.entries), n.entries[idx].bytes,
                    n.entries[idx].address, Detach(n, n.entries[idx].address), marker,
                    Detach(n, n.entries[idx].address)[marker].content,
                    Min(levels), Max(levels),
                    SubSeq(n.entries[idx].address, 1, Min(levels)),
                    SubSeq(n.entries[idx].address, 1, Max(levels)))
<1> DEFINE es  == n.entries
           A   == AddressesOf(es)
           b   == es[idx].bytes
           a   == es[idx].address
           T   == Detach(n, a)
           top == Min(levels)
           low == Max(levels)
           t   == SubSeq(a, 1, top)
           l   == SubSeq(a, 1, low)
           m   == T[marker].content
           c   == es[m].bytes
<1>1. IsDetached(n, idx, A, b, a, T)
  BY DetachFacts
<1>2. IsTree(A) /\ InByteOrder(es) /\ es \in Seq(Entry)
  BY SoundFacts DEF Sound
<1>3. levels = Lonely(A, b) /\ n.entries = es /\ idx \in 1..Len(es)
  OBVIOUS
<1>4. marker \in MarkersBelow(T, l)
  OBVIOUS
<1>5. /\ \A i \in 1..Len(es) : es[i].bytes \in DOMAIN A /\ A[es[i].bytes] = es[i].address
      /\ \A i, j \in 1..Len(es) : es[i].bytes = es[j].bytes => i = j
  BY <1>2, EntriesFacts
<1>6. b = es[idx].bytes /\ a = es[idx].address
  OBVIOUS
<1> HIDE DEF A, b, a, T, es
<1>7. /\ b \in DOMAIN A /\ A[b] = a /\ a \in Nodes(A)
      /\ DOMAIN T = Nodes(A) \ {a}
      /\ \A p \in Nodes(A) \ {a} :
           /\ p \in Seq(Atoms)
           /\ T[p].content \in 1..Len(es) \cup {Vacant}
           /\ T[p].content # idx
           /\ \A i \in 1..Len(es) :
                i # idx => (T[p].content = i <=> es[i].address = p)
  BY <1>1, <1>3 DEF IsDetached
<1>8. a \in Seq(Atoms) /\ Len(a) \in Nat /\ Len(a) > 0
  BY <1>2, <1>7, DropFacts
<1>9. /\ top \in levels /\ low \in levels /\ top <= low
      /\ top \in 1..(Len(a) - 1) /\ low \in 1..(Len(a) - 1)
  <2>1. levels \subseteq 1..(Len(a) - 1) /\ Len(a) - 1 \in Nat
    <3>1. Len(A[b]) = Len(a)
      BY <1>7
    <3>2. Lonely(A, b) \subseteq 1..(Len(A[b]) - 1)
      BY DEF Lonely
    <3> QED BY <1>3, <1>8, <3>1, <3>2
  <2>2. /\ top \in levels /\ \A y \in levels : top <= y
        /\ low \in levels /\ \A y \in levels : y <= low
    BY <2>1, MinOfPositions, MaxOfPositions
  <2> QED BY <2>1, <2>2
<1> HIDE DEF top, low
<1>10. /\ t \in Nodes(A) \ {a} /\ t \in Address /\ t \in Seq(Atoms)
       /\ Len(t) = top /\ IsPrefix(t, a)
  BY <1>2, <1>7, <1>9, AboveLeaf
<1>11. /\ l \in Nodes(A) \ {a} /\ l \in Address /\ l \in Seq(Atoms)
       /\ Len(l) = low /\ IsPrefix(l, a)
  BY <1>2, <1>7, <1>9, AboveLeaf
<1>12. PICK d : Under(Drop(A, b), l) = {d}
  BY <1>3, <1>7, <1>9 DEF Lonely
<1> HIDE DEF t, l
<1>13. /\ marker \in Nodes(A) \ {a} /\ IsPrefix(l, marker) /\ T[marker].content # Vacant
       /\ marker \in Seq(Atoms)
  BY <1>4, <1>7 DEF MarkersBelow
<1>14. m \in 1..Len(es) /\ m # idx /\ es[m].address = marker
  BY <1>7, <1>13
<1> HIDE DEF m
<1>15. c \in DOMAIN A /\ c # b /\ A[c] = marker
  BY <1>3, <1>5, <1>6, <1>14
<1>16. c \in Under(Drop(A, b), l)
  <2>1. b \in DOMAIN A /\ IsTree(A)
    BY <1>2, <1>7
  <2>2. \A p, x : x \in Under(Drop(A, b), p) <=> x \in DOMAIN A /\ x # b /\ IsPrefix(p, A[x])
    BY ONLY <2>1, DropFacts
  <2>3. IsPrefix(l, A[c])
    BY <1>13, <1>15
  <2> HIDE DEF c
  <2> QED BY <1>15, <2>2, <2>3
<1>17. Under(Drop(A, b), l) = {c}
  BY <1>12, <1>16
<1>18. IsPrefix(t, marker)
  <2>1. Len(t) <= Len(l)
    BY <1>9, <1>10, <1>11
  <2>2. IsPrefix(t, l)
    BY <1>8, <1>10, <1>11, <2>1, PrefixesCompare
  <2> QED BY <1>10, <1>11, <1>13, <2>2, PrefixTransitive
<1>19. T[marker].content = m
  BY DEF m
<1>20. top \in Nat /\ low \in Nat /\ 1 <= top /\ low <= Len(a) - 1
  BY <1>8, <1>9
<1>21. IsCollapse(n, idx, A, b, a, T, marker, m, top, low, t, l)
  BY <1>3, <1>9, <1>10, <1>11, <1>13, <1>14, <1>15, <1>17, <1>18, <1>19, <1>20
     DEF IsCollapse
<1> QED BY <1>21 DEF m, t, l, top, low, T, a, b, A, es

\* The nodes down to another member's marker stay when the leaf of b goes.
LEMMA PathOfOther ==
  ASSUME NEW A, IsTree(A), NEW b \in DOMAIN A, NEW c \in DOMAIN A, c # b,
         NEW k \in 0..Len(A[c])
  PROVE  /\ SubSeq(A[c], 1, k) \in Nodes(A) \ {A[b]} /\ SubSeq(A[c], 1, k) \in Seq(Atoms)
         /\ Len(SubSeq(A[c], 1, k)) = k /\ IsPrefix(SubSeq(A[c], 1, k), A[c])
<1> DEFINE a == A[c]
           p == SubSeq(a, 1, k)
<1>1. IsAddressMap(A) /\ a \in Seq(Atoms) /\ ~IsPrefix(A[b], a)
  BY DropFacts DEF IsTree
<1>2. a \in Nodes(A)
  BY <1>1, NodesDef, PrefixReflexive
<1>3. k \in 0..Len(a)
  OBVIOUS
<1> HIDE DEF a
<1>4. p \in Seq(Atoms) /\ Len(p) = k /\ IsPrefix(p, a)
  BY <1>1, <1>3, SubSeqIsPrefix
<1> HIDE DEF p
<1>5. p \in Nodes(A)
  BY <1>1, <1>2, <1>4, NodesBelow
<1>6. p # A[b]
  BY <1>1, <1>4
<1> QED BY <1>4, <1>5, <1>6 DEF a, p

\* The slots that a collapse frees and the changes it reports are of their types.
LEMMA CollapseTypes ==
  ASSUME NEW n, Sound(n), NEW idx \in 1..Len(n.entries), NEW A, A = AddressesOf(n.entries),
         NEW b, b = n.entries[idx].bytes,
         NEW a, NEW T, IsDetached(n, idx, A, b, a, T),
         NEW marker, NEW m, NEW top, NEW low, NEW t, NEW l,
         IsCollapse(n, idx, A, b, a, T, marker, m, top, low, t, l)
  PROVE  /\ CollapsedSlots(T, a, top, low, marker) \in Seq(Nat)
         /\ CollapseChanges(n.entries[m], a, top, low) \in Seq(AddressChange)
<1> DEFINE es == n.entries
           chain == Len(marker) - low
<1>1. /\ IsTree(A) /\ IsAddressMap(A) /\ InByteOrder(es) /\ es \in Seq(Entry)
  BY SoundFacts DEF Sound, IsTree
<1>2. es[m] \in Entry /\ es[m].address = marker
  BY <1>1, EntriesFacts DEF IsCollapse
<1> HIDE DEF es
<1>3. /\ b \in DOMAIN A /\ A[b] = a
      /\ \A p \in Nodes(A) \ {a} : T[p].slot \in Nat
  BY DEF IsDetached, TrieNode
<1>4. /\ top \in Nat /\ low \in Nat /\ 1 <= top /\ top <= low /\ low <= Len(a) - 1
      /\ marker \in Nodes(A) \ {a} /\ l \in Seq(Atoms) /\ IsPrefix(l, marker)
      /\ Len(l) = low
  BY DEF IsCollapse, Address
<1>5. a \in Seq(Atoms) /\ Len(a) \in Nat /\ marker \in Seq(Atoms) /\ Len(marker) \in Nat
  <2>1. a \in Seq(Atoms) /\ Len(a) \in Nat
    <3>1. A[b] \in Seq(Atoms)
      BY <1>1, <1>3 DEF IsAddressMap
    <3> QED BY <1>3, <3>1
  <2>2. marker \in Seq(Atoms) /\ Len(marker) \in Nat
    BY <1>1, <1>4, NodesType
  <2> QED BY <2>1, <2>2
<1>6. \A k \in 1..(Len(a) - 1) :
        SubSeq(a, 1, k) \in Nodes(A) \ {a} /\ SubSeq(a, 1, k) \in Address
  BY <1>1, <1>3, AboveLeaf
<1>7. chain \in Nat
  BY <1>4, <1>5, PrefixDef
<1>8. \A k \in low..Len(marker) : SubSeq(marker, 1, k) \in Nodes(A) \ {a}
  <2> TAKE k \in low..Len(marker)
  <2>1. k \in 0..Len(marker)
    BY <1>4, <1>5
  <2>2. /\ es[m].bytes \in DOMAIN A /\ es[m].bytes # b
        /\ A[b] = a /\ A[es[m].bytes] = marker
    BY <1>3 DEF IsCollapse, es
  <2> QED BY <1>1, <1>3, <2>1, <2>2, PathOfOther
<1>9. CollapsedSlots(T, a, top, low, marker) \in Seq(Nat)
  <2> DEFINE size == chain + low - top
             slots == CollapsedSlots(T, a, top, low, marker)
  <2>1. size \in Nat
    BY <1>4, <1>7
  <2>2. slots = [i \in 1..size |->
                   IF i <= chain THEN T[SubSeq(marker, 1, low + i)].slot
                   ELSE T[SubSeq(a, 1, low + chain + 1 - i)].slot]
    BY DEF CollapsedSlots
  <2>3. ASSUME NEW i \in 1..size
        PROVE  slots[i] \in Nat
    <3>1. CASE i <= chain
      <4>1. low + i \in low..Len(marker)
        BY <1>4, <1>5, <1>7, <2>1, <3>1
      <4>2. slots[i] = T[SubSeq(marker, 1, low + i)].slot
        BY <2>2, <3>1
      <4> QED BY <1>3, <1>8, <4>1, <4>2
    <3>2. CASE ~(i <= chain)
      <4>1. low + chain + 1 - i \in 1..(Len(a) - 1)
        BY <1>4, <1>5, <1>7, <2>1, <3>2
      <4>2. slots[i] = T[SubSeq(a, 1, low + chain + 1 - i)].slot
        BY <2>2, <3>2
      <4> QED BY <1>3, <1>6, <4>1, <4>2
    <3> QED BY <3>1, <3>2
  <2>4. slots \in [1..size -> Nat]
    BY <2>2, <2>3
  <2> HIDE DEF slots, size
  <2> QED BY <2>1, <2>4 DEF slots
<1>10. CollapseChanges(es[m], a, top, low) \in Seq(AddressChange)
  <2> DEFINE size == low - top + 1
             changes == CollapseChanges(es[m], a, top, low)
             old(i) == IF i = 1 THEN es[m].address ELSE SubSeq(a, 1, low + 2 - i)
             new(i) == SubSeq(a, 1, low + 1 - i)
  <2>1. size \in Nat
    BY <1>4
  <2>2. changes = [i \in 1..size |->
                     [bytes |-> es[m].bytes, identifier |-> es[m].identifier,
                      old |-> old(i), new |-> new(i)]]
    BY DEF CollapseChanges
  <2>3. /\ es[m].bytes \in Contents /\ es[m].identifier \in Identifiers \cup {NoId}
        /\ es[m].address \in Address
    BY <1>2 DEF Entry
  <2>4. ASSUME NEW i \in 1..size
        PROVE  old(i) \in Address /\ new(i) \in Address
    <3>1. low + 1 - i \in 1..(Len(a) - 1)
      BY <1>4, <1>5
    <3>2. i = 1 \/ low + 2 - i \in 1..(Len(a) - 1)
      BY <1>4, <1>5
    <3> QED BY <1>6, <2>3, <3>1, <3>2
  <2> HIDE DEF size, old, new
  <2>5. \A i \in 1..size : [bytes |-> es[m].bytes, identifier |-> es[m].identifier,
                            old |-> old(i), new |-> new(i)] \in AddressChange
    BY <2>3, <2>4 DEF AddressChange
  <2>6. changes \in [1..size -> AddressChange]
    BY <2>2, <2>5
  <2> HIDE DEF changes
  <2> QED BY <2>1, <2>6 DEF changes
<1> QED BY <1>9, <1>10 DEF es

\* x is what the removal of the entry at idx, which collapses the levels onto the entry
\* at m, has before the last cases.
IsCollapsed(n, x, freed, idx, levels, marker) ==
  LET a == n.entries[idx].address
      m == Detach(n, a)[marker].content
      changes == CollapseChanges(n.entries[m], a, Min(levels), Max(levels))
  IN /\ Sound(x) /\ a \in Seq(Atoms) /\ changes \in Seq(AddressChange)
     /\ x.entries = RemoveAt([n.entries EXCEPT ![m].address = SubSeq(a, 1, Min(levels))], idx)
     /\ CollapseOnto(n, Detach(n, a), freed, idx, levels, marker) = Settle(x, a, changes)

\* The removal of a leaf that collapses the levels above it onto another member.
LEMMA CollapseEvictSound ==
  ASSUME NEW n, Sound(n), NEW idx \in 1..Len(n.entries),
         NEW levels, levels = Lonely(AddressesOf(n.entries), n.entries[idx].bytes),
         levels # {}, NEW freed \in Seq(Nat),
         NEW marker \in MarkersBelow(Detach(n, n.entries[idx].address),
                                     SubSeq(n.entries[idx].address, 1, Max(levels)))
  PROVE  \E x : IsCollapsed(n, x, freed, idx, levels, marker)
<1> DEFINE es  == n.entries
           A   == AddressesOf(es)
           b   == es[idx].bytes
           a   == es[idx].address
           T   == Detach(n, a)
           top == Min(levels)
           low == Max(levels)
           t   == SubSeq(a, 1, top)
           l   == SubSeq(a, 1, low)
           m   == T[marker].content
           c   == es[m].bytes
           e2  == [es EXCEPT ![m].address = t]
           trie  == Collapse(T, a, top, m)
           slots == CollapsedSlots(T, a, top, low, marker)
           free  == freed \o slots
           nodes == [n.entry_nodes EXCEPT ![m] = T[t].slot]
           r   == [n EXCEPT !.entries = [@ EXCEPT ![m].address = t], !.trie = trie,
                            !.free_nodes = free, !.entry_nodes = [@ EXCEPT ![m] = T[t].slot]]
           changes == CollapseChanges(es[m], a, top, low)
           G   == Put(Drop(A, b), c, t)
<1>1. IsDetached(n, idx, A, b, a, T)
  BY DetachFacts
<1>2. IsCollapse(n, idx, A, b, a, T, marker, m, top, low, t, l)
  BY CollapseFacts
<1>3. /\ IsTree(A) /\ InByteOrder(es) /\ es \in Seq(Entry) /\ IsNeighborhood(n)
      /\ Len(n.entry_nodes) = Len(es) /\ DOMAIN es = 1..Len(es)
  BY SoundFacts DEF Sound
<1>4. levels = Lonely(A, b) /\ levels # {} /\ idx \in 1..Len(es) /\ a = es[idx].address
  OBVIOUS
<1>5. /\ \A i, j \in 1..Len(es) : es[i].bytes = es[j].bytes => i = j
      /\ b = es[idx].bytes
  BY <1>3, EntriesFacts
<1>6. CollapseOnto(n, T, freed, idx, levels, marker)
        = IF m \notin DOMAIN es THEN Refused(n, "Panic")
          ELSE Settle(Evict(r, idx), a, changes)
  BY DEF CollapseOnto
<1>7. slots \in Seq(Nat) /\ changes \in Seq(AddressChange)
  <2> HIDE DEF m, t, l, top, low, T, a
  <2> QED BY <1>1, <1>2, CollapseTypes
<1>8. r = [n EXCEPT !.entries = e2, !.trie = trie, !.free_nodes = free,
                    !.entry_nodes = nodes]
  <2>1. [es EXCEPT ![m].address = t] = e2 /\ [n.entry_nodes EXCEPT ![m] = T[t].slot] = nodes
    OBVIOUS
  <2> HIDE DEF trie, free
  <2> QED BY <2>1
<1>9. IsCollapse(n, idx, A, b, a, T, marker, m, top, low, t, l) /\ AddressesOf(es) = A
      /\ n.entries = es
  BY <1>2
<1> HIDE DEF r
<1>10. /\ r.entries = e2 /\ r.trie = trie /\ r.free_nodes = free /\ r.arena = n.arena
       /\ r.entry_nodes = nodes /\ r.identifier_index = n.identifier_index
       /\ r = [entries |-> r.entries, trie |-> r.trie, free_nodes |-> r.free_nodes,
               arena |-> r.arena, entry_nodes |-> r.entry_nodes,
               identifier_index |-> r.identifier_index]
  <2>1. n = [entries |-> n.entries, trie |-> n.trie, free_nodes |-> n.free_nodes,
             arena |-> n.arena, entry_nodes |-> n.entry_nodes,
             identifier_index |-> n.identifier_index]
    BY <1>3 DEF IsNeighborhood
  <2> HIDE DEF e2, trie, free, nodes
  <2>2. r = [entries |-> e2, trie |-> trie, free_nodes |-> free,
             arena |-> n.arena, entry_nodes |-> nodes,
             identifier_index |-> n.identifier_index]
    BY <1>8, <2>1
  <2> QED BY <2>2
<1>l. t = SubSeq(a, 1, Min(levels)) /\ l = SubSeq(a, 1, Max(levels)) /\ top = Min(levels)
  OBVIOUS
<1>t. trie = Collapse(T, a, top, m) /\ t = SubSeq(a, 1, top)
  OBVIOUS
<1> HIDE DEF A, b, a, T, top, low, t, l, m, es, trie, slots, changes
<1>11. /\ m \in 1..Len(es) /\ m # idx /\ es[m].address = marker
       /\ c \in DOMAIN A /\ c # b /\ A[c] = marker
       /\ marker \in Nodes(A) \ {a} /\ T[marker].content = m
       /\ t \in Nodes(A) \ {a} /\ t \in Address /\ IsPrefix(t, a) /\ IsPrefix(t, marker)
       /\ Under(Drop(A, b), l) = {c}
  BY <1>9 DEF IsCollapse
<1>12. /\ b \in DOMAIN A /\ A[b] = a
       /\ DOMAIN T = Nodes(A) \ {a}
       /\ \A p \in Nodes(A) \ {a} :
           /\ p \in Seq(Atoms)
           /\ T[p] \in TrieNode
           /\ T[p].count = Cardinality(Under(Drop(A, b), p))
           /\ T[p].content \in 1..Len(es) \cup {Vacant}
           /\ T[p].content # idx
           /\ \A i \in 1..Len(es) :
                i # idx => (T[p].content = i <=> es[i].address = p)
  BY <1>1, <1>9 DEF IsDetached
<1> HIDE DEF c, G
<1>13. /\ IsTree(G)
       /\ Nodes(G) = {q \in Nodes(A) \ {a} : ~IsStrictPrefix(t, q)}
       /\ Under(G, t) = {c}
       /\ \A p \in Nodes(G) : Under(G, p) = Under(A, p) \ {b}
  <2>1. Under(Drop(A, b), SubSeq(A[b], 1, Max(Lonely(A, b)))) = {c}
    BY <1>4, <1>11, <1>12, <1>l
  <2>2. Lonely(A, b) # {}
    BY <1>4
  <2>3. SubSeq(A[b], 1, Min(Lonely(A, b))) = t
    BY <1>4, <1>12, <1>l
  <2>4. IsTree(A) /\ b \in DOMAIN A
    BY <1>3, <1>12
  <2>5. IsShrunk(A, b, c, SubSeq(A[b], 1, Max(Lonely(A, b))),
                 SubSeq(A[b], 1, Min(Lonely(A, b))),
                 Put(Drop(A, b), c, SubSeq(A[b], 1, Min(Lonely(A, b)))))
    BY <2>1, <2>2, <2>4, ShrinkOnto
  <2>6. IsShrunk(A, b, c, SubSeq(A[b], 1, Max(Lonely(A, b))), t, G)
    BY <2>3, <2>5 DEF G
  <2> QED BY <1>12, <2>6 DEF IsShrunk
<1>14. \A p \in Nodes(G) : Under(G, p) = Under(Drop(A, b), p)
  <2> TAKE p \in Nodes(G)
  <2>1. \A x : x \in Under(A, p) \ {b} <=> x \in Under(Drop(A, b), p)
    <3>1. \A x : x \in Under(Drop(A, b), p) <=> x \in DOMAIN A /\ x # b /\ IsPrefix(p, A[x])
      BY <1>3, <1>12, DropFacts
    <3> QED BY <3>1 DEF Under
  <2> QED BY <1>13, <2>1
<1>15. /\ e2 \in Seq(Entry) /\ Len(e2) = Len(es)
       /\ \A i \in 1..Len(es) : /\ e2[i].bytes = es[i].bytes
                                /\ e2[i].address = IF i = m THEN t ELSE es[i].address
       /\ InByteOrder(e2)
       /\ AddressesOf(e2) = Put(A, c, t)
  <2>1. /\ e2 \in Seq(Entry) /\ Len(e2) = Len(es)
        /\ \A i \in 1..Len(es) : /\ e2[i].bytes = es[i].bytes
                                 /\ e2[i].identifier = es[i].identifier
                                 /\ e2[i].address = IF i = m THEN t ELSE es[i].address
        /\ InByteOrder(e2)
        /\ AddressesOf(e2) = Put(AddressesOf(es), es[m].bytes, t)
    <3>1. es \in Seq(Entry) /\ InByteOrder(es) /\ m \in 1..Len(es) /\ t \in Address
      BY <1>3, <1>11
    <3> QED BY <3>1, AddressesOfMove
  <2> HIDE DEF e2
  <2> QED BY <1>9, <2>1 DEF c
<1> HIDE DEF e2
<1>16. Drop(AddressesOf(e2), e2[idx].bytes) = G
  <2>1. e2[idx].bytes = b
    BY <1>4, <1>5, <1>15
  <2>2. Drop(Put(A, c, t), b) = Put(Drop(A, b), c, t)
    BY <1>11 DEF Put, Drop
  <2> QED BY <1>15, <2>1, <2>2 DEF G
<1>17. /\ DOMAIN trie = Nodes(G)
       /\ \A p \in Nodes(G) : trie[p] = IF p = t THEN [slot |-> T[t].slot, content |-> m, count |-> 1]
                                        ELSE T[p]
       /\ trie = [p \in DOMAIN trie |-> trie[p]]
  <2>1. trie = [q \in {q \in DOMAIN T : ~IsStrictPrefix(t, q)} |->
                  IF q = t THEN [slot |-> T[t].slot, content |-> m, count |-> 1] ELSE T[q]]
    BY <1>t DEF Collapse
  <2>2. {q \in DOMAIN T : ~IsStrictPrefix(t, q)} = Nodes(G)
    BY <1>12, <1>13
  <2> QED BY <2>1, <2>2
<1>18. ASSUME NEW p \in Nodes(G)
       PROVE  /\ p \in Seq(Atoms) /\ trie[p] \in TrieNode
              /\ trie[p].count = Cardinality(Under(G, p))
              /\ trie[p].content \in 1..Len(es) \cup {Vacant}
              /\ trie[p].content # idx
              /\ \A i \in 1..Len(es) :
                   i # idx => (trie[p].content = i <=> e2[i].address = p)
  <2>1. p \in Nodes(A) \ {a} /\ ~IsStrictPrefix(t, p)
    BY <1>13
  <2>2. CASE p = t
    <3>1. trie[p] = [slot |-> T[t].slot, content |-> m, count |-> 1]
      BY <1>17, <2>2
    <3>2. T[t].slot \in Nat /\ m \in Int
      BY <1>11, <1>12 DEF TrieNode
    <3>3. trie[p] \in TrieNode /\ trie[p].content = m /\ trie[p].count = 1
      BY <3>1, <3>2 DEF TrieNode
    <3>4. Cardinality(Under(G, p)) = 1
      BY <1>13, <2>2, FS_Singleton
    <3>5. ASSUME NEW i \in 1..Len(es), i # idx
          PROVE  m = i <=> e2[i].address = p
      <4>1. CASE i = m
        BY <1>15, <2>2, <4>1
      <4>2. CASE i # m
        <5>1. ASSUME es[i].address = t
              PROVE  FALSE
          <6>1. IsPrefix(es[i].address, es[idx].address)
            BY <1>4, <1>11, <5>1
          <6>2. IsTree(AddressesOf(es))
            BY <1>3, <1>9
          <6>3. i = idx
            BY <1>3, <1>4, <6>1, <6>2, AddressIsOwn
          <6> QED BY <3>5, <6>3
        <5>2. e2[i].address = es[i].address
          BY <1>15, <4>2
        <5> QED BY <2>2, <4>2, <5>1, <5>2
      <4> QED BY <4>1, <4>2
    <3>6. p \in Seq(Atoms)
      BY <1>12, <2>1
    <3> QED BY <1>11, <3>3, <3>4, <3>5, <3>6
  <2>3. CASE p # t
    <3>1. trie[p] = T[p]
      BY <1>17, <2>3
    <3>2. T[p].count = Cardinality(Under(G, p))
      BY <1>12, <1>14, <2>1
    <3>3. ASSUME NEW i \in 1..Len(es), i # idx
          PROVE  T[p].content = i <=> e2[i].address = p
      <4>1. T[p].content = i <=> es[i].address = p
        BY <1>12, <2>1, <3>3
      <4>2. CASE i = m
        <5>1. e2[i].address = t
          BY <1>15, <4>2
        <5>2. marker # p
          BY <1>11, <2>1, <2>3 DEF IsStrictPrefix
        <5> QED BY <1>11, <2>3, <4>1, <4>2, <5>1, <5>2
      <4>3. CASE i # m
        BY <1>15, <4>1, <4>3
      <4> QED BY <4>2, <4>3
    <3> QED BY <1>12, <2>1, <3>1, <3>2, <3>3
  <2> QED BY <2>2, <2>3
<1>19. trie \in [DOMAIN trie -> TrieNode] /\ \A p \in DOMAIN trie : p \in Seq(Atoms)
  BY <1>17, <1>18
<1>20. free \in Seq(Nat)
  BY <1>7
<1>21. nodes \in Seq(Nat) /\ Len(nodes) = Len(es)
  <2> DEFINE N == Nat
             old == n.entry_nodes
             s   == T[t].slot
  <2>1. old \in Seq(N) /\ m \in 1..Len(old) /\ s \in N /\ Len(old) = Len(es)
    BY <1>3, <1>11, <1>12 DEF IsNeighborhood, TrieNode
  <2>2. nodes = [old EXCEPT ![m] = s]
    OBVIOUS
  <2> HIDE DEF N, old, s
  <2>3. [old EXCEPT ![m] = s] \in Seq(N) /\ Len([old EXCEPT ![m] = s]) = Len(old)
    BY <2>1, UpdateAt
  <2> QED BY <2>1, <2>2, <2>3 DEF N
<1> HIDE DEF free, nodes
<1>22. IsNeighborhood(r)
  BY <1>3, <1>10, <1>15, <1>19, <1>20, <1>21 DEF IsNeighborhood
<1>23. Sound(Evict(r, idx))
  <2>1. /\ IsNeighborhood(r) /\ InByteOrder(r.entries)
        /\ Len(r.entry_nodes) = Len(r.entries) /\ idx \in 1..Len(r.entries)
        /\ G = Drop(AddressesOf(r.entries), r.entries[idx].bytes)
        /\ IsTree(G) /\ DOMAIN r.trie = Nodes(G)
    BY <1>4, <1>10, <1>13, <1>15, <1>16, <1>17, <1>21, <1>22
  <2>2. \A p \in Nodes(G) :
           /\ r.trie[p].count = Cardinality(Under(G, p))
           /\ r.trie[p].content \in 1..Len(r.entries) \cup {Vacant}
           /\ r.trie[p].content # idx
           /\ \A i \in 1..Len(r.entries) :
                i # idx => (r.trie[p].content = i <=> r.entries[i].address = p)
    BY <1>10, <1>15, <1>18
  <2> QED BY <2>1, <2>2, EvictSound
<1>24. a \in Seq(Atoms)
  BY <1>3, <1>12 DEF IsTree, IsAddressMap
<1>25. Evict(r, idx).entries = RemoveAt(e2, idx)
  BY <1>10 DEF Evict
<1>26. CollapseOnto(n, T, freed, idx, levels, marker) = Settle(Evict(r, idx), a, changes)
  BY <1>3, <1>6, <1>11
<1>27. changes \in Seq(AddressChange)
  BY <1>7
<1> DEFINE x == Evict(r, idx)
<1> HIDE DEF x
<1>28. /\ Sound(x) /\ x.entries = RemoveAt(e2, idx)
       /\ CollapseOnto(n, T, freed, idx, levels, marker) = Settle(x, a, changes)
  BY <1>23, <1>25, <1>26 DEF x
<1>29. IsCollapsed(n, x, freed, idx, levels, marker)
  BY <1>24, <1>27, <1>28 DEF IsCollapsed, T, a, es, e2, m, t, changes, top, low
<1> QED BY <1>29

\* And with them.
LEMMA CollapseSound ==
  ASSUME NEW n, Sound(n), NEW idx \in 1..Len(n.entries),
         NEW levels, levels = Lonely(AddressesOf(n.entries), n.entries[idx].bytes),
         levels # {}, NEW freed \in Seq(Nat),
         NEW marker \in MarkersBelow(Detach(n, n.entries[idx].address),
                                     SubSeq(n.entries[idx].address, 1, Max(levels)))
  PROVE  IsAnswer(CollapseOnto(n, Detach(n, n.entries[idx].address), freed, idx, levels,
                               marker))
<1>1. PICK x : IsCollapsed(n, x, freed, idx, levels, marker)
  BY CollapseEvictSound
<1> QED BY <1>1, SettleSound DEF IsCollapsed

\* The same for remove.
THEOREM RemoveSound ==
  ASSUME NEW n, Sound(n), NEW idx, NEW answer \in RemoveInner(n, idx)
  PROVE  IsAnswer(answer)
<1> DEFINE a == n.entries[idx].address
           T == Detach(n, a)
           freed  == Append(n.free_nodes, n.trie[a].slot)
           levels == CollapseLevels(T, a)
<1>1. \/ answer = Refused(n, "Panic")
      \/ /\ idx \in DOMAIN n.entries /\ levels = {}
         /\ answer = Settle(Evict([n EXCEPT !.trie = T, !.free_nodes = freed], idx), a, <<>>)
      \/ /\ idx \in DOMAIN n.entries /\ levels # {}
         /\ \E marker \in MarkersBelow(T, SubSeq(a, 1, Max(levels))) :
              answer = CollapseOnto(n, T, freed, idx, levels, marker)
  <2> HIDE DEF T, a, freed, levels
  <2> QED BY DEF RemoveInner, T, a, freed, levels
<1>2. DOMAIN n.entries = 1..Len(n.entries)
  BY SoundFacts
<1>3. CASE answer = Refused(n, "Panic")
  BY <1>3, RefusedIsAnswer DEF Failures
<1>4. ASSUME idx \in 1..Len(n.entries)
      PROVE  levels = Lonely(AddressesOf(n.entries), n.entries[idx].bytes)
  BY <1>4, LevelsAreLonely
<1>5. CASE /\ idx \in DOMAIN n.entries /\ levels = {}
           /\ answer = Settle(Evict([n EXCEPT !.trie = T, !.free_nodes = freed], idx), a, <<>>)
  <2>1. idx \in 1..Len(n.entries) /\ Lonely(AddressesOf(n.entries), n.entries[idx].bytes) = {}
    BY <1>2, <1>4, <1>5
  <2>2. IsAnswer(Settle(Evict([n EXCEPT !.trie = Detach(n, n.entries[idx].address),
                   !.free_nodes = Append(@, n.trie[n.entries[idx].address].slot)], idx),
                         n.entries[idx].address, <<>>))
    BY <2>1, LeafRemovalSound
  <2> QED BY <1>5, <2>2
<1>6. CASE /\ idx \in DOMAIN n.entries /\ levels # {}
           /\ \E marker \in MarkersBelow(T, SubSeq(a, 1, Max(levels))) :
                answer = CollapseOnto(n, T, freed, idx, levels, marker)
  <2>1. PICK marker \in MarkersBelow(T, SubSeq(a, 1, Max(levels))) :
               answer = CollapseOnto(n, T, freed, idx, levels, marker)
    BY <1>6
  <2>2. idx \in 1..Len(n.entries) /\ levels # {}
        /\ levels = Lonely(AddressesOf(n.entries), n.entries[idx].bytes)
    BY <1>2, <1>4, <1>6
  <2>3. freed \in Seq(Nat)
    <3>1. n.free_nodes \in Seq(Nat) /\ n.trie[a].slot \in Nat
      BY <2>2, SoundFacts DEF Sound, IsNeighborhood
    <3> QED BY <3>1
  <2> HIDE DEF levels, freed
  <2> QED BY <2>1, <2>2, <2>3, CollapseSound
<1> QED BY <1>1, <1>3, <1>5, <1>6
=============================================================================
