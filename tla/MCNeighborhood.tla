--------------------------- MODULE MCNeighborhood ---------------------------
(***************************************************************************)
(* Instances of Neighborhood for TLC.                                      *)
(***************************************************************************)
EXTENDS NeighborhoodProperties

\* Three contents: 1 and 2 share two atoms, 3 shares none.
Fork == 1 :> <<0, 1, 1>> @@ 2 :> <<0, 1>> @@ 3 :> <<1>>

\* Four contents: 1 and 2 share three atoms, 3 shares one with them, and no atom tells
\* 2 and 4 apart.
Twins == 1 :> <<0, 1, 0, 1>> @@ 2 :> <<0, 1>> @@ 3 :> <<0, 0, 1>> @@ 4 :> <<0, 1, 0>>

\* Further apart than a bound of two sees: 1 and 2 share three atoms, and 3, the last in
\* byte order, shares two with them, so that either can be inserted after it.
Late == 1 :> <<0, 1, 1, 1>> @@ 2 :> <<0, 1, 1>> @@ 3 :> <<0, 1>>

R(b, id) == [bytes |-> b, identifier |-> id]

\* Row lists: in and out of byte order, with the same identifier for different
\* contents, with an identifier that some neighborhoods give to another content,
\* and with one content twice.
Batches ==
  {<<R(2, NoId), R(3, NoId)>>, <<R(3, NoId), R(2, NoId), R(1, NoId)>>} \cup
  {<<R(1, NoId), R(3, id)>> : id \in Identifiers} \cup
  {<<R(1, id), R(2, id)>> : id \in Identifiers} \cup
  {<<R(1, NoId), R(1, id)>> : id \in Identifiers}

\* Identifiers are opaque: permuting them changes nothing.
Symmetry == Permutations(Identifiers)
=============================================================================
