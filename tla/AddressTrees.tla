---------------------------- MODULE AddressTrees ----------------------------
(***************************************************************************)
(* Sets of addresses as trees, whatever data structure holds them: A is a  *)
(* function from members to addresses.  A tree is canonical when each      *)
(* address follows its member's stream, none is a prefix of another, and   *)
(* none can be shortened.                                                  *)
(***************************************************************************)
EXTENDS Streams, Integers, FiniteSets, SequencesExt

\* The function f with one key added or changed, and with one key less.
Put(f, key, value) ==
  [x \in DOMAIN f \cup {key} |-> IF x = key THEN value ELSE f[x]]

Drop(f, key) == [x \in DOMAIN f \ {key} |-> f[x]]

Parent(p) == SubSeq(p, 1, Len(p) - 1)

\* The nodes a trie of the addresses has, and the members below a node.
Nodes(A) == {<<>>} \cup UNION {Prefixes(A[b]) : b \in DOMAIN A}

Under(A, p) == {b \in DOMAIN A : IsPrefix(p, A[b])}

IsAddressMap(A) ==
  /\ IsFiniteSet(DOMAIN A)
  /\ DOMAIN A \subseteq Contents
  /\ A \in [DOMAIN A -> Seq(Atoms) \ {<<>>}]

\* Every address is a prefix of its member's stream.
Follows(A) == \A b \in DOMAIN A : A[b] = Prefix(b, Len(A[b]))

\* No address is a prefix of another member's.
Separate(A) == \A b, c \in DOMAIN A : IsPrefix(A[b], A[c]) => b = c

\* No address can be shortened: its parent leads to another member as well.
Tight(A) ==
  \A b \in DOMAIN A : Len(A[b]) > 1 =>
    \E c \in DOMAIN A \ {b} : IsPrefix(Parent(A[b]), A[c])

IsTree(A) == IsAddressMap(A) /\ Follows(A) /\ Separate(A) /\ Tight(A)
=============================================================================
