---------------------------- MODULE ArtifactValues ----------------------------
(***************************************************************************)
(* What artifacts hold, and what is asked of it before it is written and   *)
(* after it is read (the validate_ functions of artifact.rs).  A string is *)
(* its bytes.                                                              *)
(***************************************************************************)
EXTENDS ByteFormat, FixedPointPriors, Schemes

CONSTANTS
  Horizon,      \* bound: atoms compared before two contents count as the same
  CtmWidth      \* symbols of a string in a CTM table: 6

AreDistinct(s) == \A i, j \in DOMAIN s : i # j => s[i] # s[j]

-----------------------------------------------------------------------------
(* Schemes.                                                                *)

\* The order of BigUint.
AtMost(a, b) ==
  \/ Len(a) < Len(b)
  \/ Len(a) = Len(b) /\ ~SeqLess(b, a)

\* validate_certificate_kind.
IsValidCertificate(c) ==
  /\ c.objective_cost.fractional_bits = c.total_weight.fractional_bits
  /\ c.root_lower_bound.fractional_bits = c.total_weight.fractional_bits
  /\ AtMost(c.total_weight.units, c.root_lower_bound.units)
  /\ AtMost(c.root_lower_bound.units, c.objective_cost.units)

IsValidSchemeArtifact(a) == IsValidScheme(a.scheme) /\ IsValidCertificate(a.certificate)

-----------------------------------------------------------------------------
(* Priors.                                                                 *)

\* The derived order of PriorTransform: by variant, then by name.
TransformLess(a, b) ==
  \/ a.tag < b.tag
  \/ a.tag = b.tag /\ SeqLess(a.name, b.name)

\* The order of (left, right).
PairLess(s, t) ==
  \/ SeqLess(s.left, t.left)
  \/ s.left = t.left /\ SeqLess(s.right, t.right)

IsCanonical == [tag |-> 0, name |-> <<>>]     \* PairOrderCanonicalized
IsAggregated == [tag |-> 1, name |-> <<>>]    \* GlobalBinaryComplementAggregated

AreScenarios(prior) ==
  LET ss == prior.scenarios IN
  /\ \A i \in 1..(Len(ss) - 1) : PairLess(ss[i], ss[i + 1])
  /\ \A i \in DOMAIN ss :
       /\ ss[i].left # ss[i].right
       /\ \A k \in DOMAIN ss[i].left : ss[i].left[k] < prior.cardinality
       /\ \A k \in DOMAIN ss[i].right : ss[i].right[k] < prior.cardinality
       /\ ss[i].weight.units # <<>>
       /\ ss[i].weight.fractional_bits = ss[1].weight.fractional_bits
  /\ Contains(prior.transformations, IsCanonical) =>
       \A i \in DOMAIN ss : ~SeqLess(ss[i].right, ss[i].left)

\* validate_prior.
IsValidPrior(prior) ==
  /\ prior.cardinality >= 2
  /\ \A i \in 1..(Len(prior.transformations) - 1) :
       TransformLess(prior.transformations[i], prior.transformations[i + 1])
  /\ Contains(prior.transformations, IsAggregated) => prior.cardinality = 2
  /\ AreScenarios(prior)
  /\ IF prior.metadata.tag = 0 THEN prior.cardinality = 9
     ELSE prior.metadata.model_identity # <<>> /\ prior.metadata.builder_identity # <<>>

\* The symbols of a string of a CTM table, which keeps it as a number (digits).
CtmSymbols(n) == [i \in 1..CtmWidth |-> (n \div 9^(CtmWidth - i)) % 9]

\* load_canonical_b9, once the rows are read: numbers and their symbols have one order.
CtmPrior(rows) ==
  LET table == [i \in DOMAIN rows |-> Scenario(rows[i].left % 9^CtmWidth,
                                               rows[i].right % 9^CtmWidth, rows[i].units, 96)]
      shaped == Shaped(table, 96)
      InSymbols(s) == [left |-> CtmSymbols(s.left), right |-> CtmSymbols(s.right),
                       weight |-> [units |-> BigUint(s.units),
                                   fractional_bits |-> s.fractional_bits]]
  IN [cardinality |-> 9, name |-> <<1>>,
      scenarios |-> [k \in DOMAIN shaped |-> InSymbols(shaped[k])],
      transformations |-> <<IsCanonical>>,
      metadata |-> [tag |-> 0, provenance |-> <<2>>],
      provenance |-> <<[name |-> <<1>>, source |-> <<3>>, license |-> <<4>>]>>]

-----------------------------------------------------------------------------
(* Lexicons.                                                               *)

\* Lexicon::new.
IsLexicon(atoms) == Len(atoms) >= 2 /\ AreDistinct(atoms)

\* validate_lexicon_artifact.
IsValidLexicon(a) ==
  /\ a.renderer # <<>> /\ a.profile # <<>>
  /\ a.validation # <<>> /\ ~Contains(a.validation, <<>>)
  /\ ~Contains(a.tokenizer_families, <<>>) /\ AreDistinct(a.tokenizer_families)

-----------------------------------------------------------------------------
(* Neighborhoods.  What inserts make of rows is the subject of             *)
(* Neighborhood.tla; here it is what that module proves of it, the         *)
(* shortest nonempty prefixes no other row shares.                         *)

Streams(scheme, rows) ==
  FoldLeft(LAMBDA ss, row : Append(ss, Prefix(scheme, row.bytes, Horizon)), <<>>, rows)

ShortestUnique(streams, i) ==
  LET IsUnique(n) == \A j \in DOMAIN streams \ {i} :
                       SubSeq(streams[j], 1, n) # SubSeq(streams[i], 1, n)
  IN SubSeq(streams[i], 1,
            CHOOSE n \in 1..Horizon : IsUnique(n) /\ \A m \in 1..(n - 1) : ~IsUnique(m))

CanonicalAddresses(streams) == [i \in DOMAIN streams |-> ShortestUnique(streams, i)]

\* Whether Neighborhood::from_rows takes the rows and gives them the addresses they have.
IsReconstructed(scheme, rows) ==
  LET ids == SelectSeq([i \in DOMAIN rows |-> rows[i].identifier], LAMBDA id : id # None)
      AreAddresses(streams) ==
        /\ AreDistinct(streams)
        /\ CanonicalAddresses(streams) = [i \in DOMAIN rows |-> rows[i].atoms]
  IN /\ AreDistinct(ids)
     /\ AreAddresses(Streams(scheme, rows))

AreRows(scheme, rows) ==
  /\ \A i \in 1..(Len(rows) - 1) : SeqLess(rows[i].bytes, rows[i + 1].bytes)
  /\ \A i \in DOMAIN rows : rows[i].atoms # <<>>
  /\ \A i \in DOMAIN rows : \A k \in DOMAIN rows[i].atoms : rows[i].atoms[k] < scheme.capacity

IsValidNeighborhood(nb) == AreRows(nb.scheme, nb.rows) /\ IsReconstructed(nb.scheme, nb.rows)
=============================================================================
