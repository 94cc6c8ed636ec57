------------------------ MODULE NeighborhoodInvariant ------------------------
(***************************************************************************)
(* What every neighborhood that its operations produce satisfies, the      *)
(* working copies of the row-by-row calls included: the inductive          *)
(* invariant of module Neighborhood, one operator for each data structure  *)
(* and the relations between them.                                         *)
(***************************************************************************)
EXTENDS NeighborhoodOps

\* The address of each member.
AddressesOf(entries) ==
  [b \in {entries[i].bytes : i \in DOMAIN entries} |->
     entries[CHOOSE i \in DOMAIN entries : entries[i].bytes = b].address]

\* The entries are in strict byte order, as the binary searches need.
InByteOrder(entries) ==
  \A i, j \in DOMAIN entries : i < j => entries[i].bytes < entries[j].bytes

\* The trie is exactly the one the addresses span: its nodes are the prefixes
\* of addresses, a node counts the members below it, and an entry's position is
\* the content of the node at the entry's address and of no other node.
TrieSpans(n) ==
  LET A == AddressesOf(n.entries) IN
  /\ DOMAIN n.trie = Nodes(A)
  /\ \A p \in DOMAIN n.trie :
       /\ n.trie[p].count = Cardinality(Under(A, p))
       /\ n.trie[p].content \in DOMAIN n.entries \cup {Vacant}
       /\ \A i \in DOMAIN n.entries :
            n.trie[p].content = i <=> n.entries[i].address = p

Sound(n) ==
  /\ IsNeighborhood(n)
  /\ InByteOrder(n.entries)
  /\ Len(n.entry_nodes) = Len(n.entries)
  /\ IsTree(AddressesOf(n.entries))
  /\ TrieSpans(n)
=============================================================================
