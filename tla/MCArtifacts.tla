------------------------------ MODULE MCArtifacts ------------------------------
(***************************************************************************)
(* Instances of Artifacts for TLC.  Bytes are half as wide as they are, and *)
(* integers narrower: what does not fit a byte or an integer still occurs. *)
(***************************************************************************)
EXTENDS Artifacts, StandardFF

\* The smallest fields, as the code builds them.
StandardFields ==
  [d \in {e \in (2..31) \X (1..5) : IsValid(e) /\ Order(e) <= 32} |-> StandardField(d)]

W(units, bits) == [units |-> BigUint(units), fractional_bits |-> bits]

Record(name) == [name |-> name, source |-> <<2>>, license |-> <<>>]

-----------------------------------------------------------------------------
(* Schemes.                                                                *)

SchemeOf(capacity, codec, nodes, descriptor) ==
  [capacity |-> capacity, codec |-> codec, nodes |-> nodes, fallback |-> descriptor,
   root |-> IF nodes = <<>> THEN None ELSE 0]

Static(codec, field, points) == StaticPolynomialV2(codec, field, points)

GF4 == Probe(<<2, 2>>, 2, 1)

OneNode == <<Node(<<GF4>>, <<>>, None)>>

\* A branch and a default, two probes, and nodes that do not validate: one that leads to
\* itself, one without probes, one whose branches are out of order.
NodeLists ==
  {<<>>, OneNode,
   <<Node(<<Probe(<<2, 1>>, 0, 0), GF4>>, <<<<3, 1>>>>, 2), Node(<<GF4>>, <<>>, 2),
     Node(<<GF4>>, <<>>, None)>>,
   <<Node(<<GF4>>, <<>>, 0)>>, <<Node(<<>>, <<>>, None)>>,
   <<Node(<<GF4>>, <<<<1, 1>>, <<0, 1>>>>, None), Node(<<GF4>>, <<>>, None)>>}

TheSchemes ==
  {SchemeOf(18, "BinaryMsb0", nodes, DirectRadixV1) : nodes \in NodeLists} \cup
  {SchemeOf(20, "CtmB9", <<>>, Static("BinaryMsb0", <<17, 1>>, <<1, 2, 3, 16>>)),
   SchemeOf(9, "BinaryMsb0", OneNode, Static("CtmB9", <<3, 2>>, <<8, 1, 2, 4>>)),
   SchemeOf(8, "CtmB9", <<>>, Static("CtmB9", <<3, 2>>, <<1, 2, 3, 4>>)),
   SchemeOf(1, "CtmB9", <<>>, DirectRadixV1)}

Certificate(total, lower, objective) ==
  [total_weight |-> total, objective_cost |-> objective, root_lower_bound |-> lower,
   explored_states |-> 300, memoized_states |-> 7]

\* Certificates in and out of order, on one scale and on two.
Certificates ==
  {Certificate(W(0, 0), W(0, 0), W(0, 0)), Certificate(W(20, 96), W(30, 96), W(300, 96)),
   Certificate(W(20, 96), W(300, 96), W(30, 96)), Certificate(W(1, 1), W(1, 1), W(1, 2))}

SchemeArtifact(scheme, certificate, is_exact, revision) ==
  [scheme |-> scheme, objective |-> 0, is_exact |-> is_exact, certificate |-> certificate,
   spec_revision |-> revision, cooker_revision |-> <<1>>]

SchemeArtifacts ==
  {SchemeArtifact(s, Certificate(W(0, 0), W(0, 0), W(0, 0)), TRUE, <<1>>) : s \in TheSchemes} \cup
  {SchemeArtifact(SchemeOf(2, "CtmB9", <<>>, DirectRadixV1), c, FALSE, <<12, 8>>) :
     c \in Certificates}

-----------------------------------------------------------------------------
(* Priors.                                                                 *)

S(left, right, weight) == [left |-> left, right |-> right, weight |-> weight]

\* Scenarios in order; and a pair that comes twice, a string with itself, one out of order,
\* no weight, two scales, a symbol that is not there.
ScenarioLists ==
  {<<>>, <<S(<<0>>, <<1>>, W(3, 5))>>,
   <<S(<<>>, <<0, 1>>, W(300, 5)), S(<<0>>, <<1>>, W(1, 5)), S(<<0>>, <<1, 0>>, W(16, 5))>>,
   <<S(<<0>>, <<1>>, W(3, 5)), S(<<0>>, <<1>>, W(4, 5))>>,
   <<S(<<1>>, <<1>>, W(3, 5))>>, <<S(<<1>>, <<0>>, W(3, 5))>>,
   <<S(<<1>>, <<0>>, W(3, 5)), S(<<0>>, <<1>>, W(3, 5))>>,
   <<S(<<0>>, <<1>>, W(0, 5))>>, <<S(<<0>>, <<1>>, W(3, 5)), S(<<1>>, <<>>, W(3, 6))>>,
   <<S(<<0>>, <<2>>, W(3, 5))>>}

Named(name) == [tag |-> 2, name |-> name]

TransformationLists ==
  {<<>>, <<IsCanonical>>, <<IsCanonical, IsAggregated, Named(<<1>>), Named(<<1, 2>>)>>,
   <<IsAggregated, IsCanonical>>, <<Named(<<1>>), Named(<<1>>)>>}

External(model, budget) ==
  [tag |-> 2, model_identity |-> model, builder_identity |-> <<2>>, budget |-> budget,
   uncertainty_note |-> <<>>]

Prior(cardinality, scenarios, transformations, metadata, records) ==
  [cardinality |-> cardinality, name |-> <<1>>, scenarios |-> scenarios,
   transformations |-> transformations, metadata |-> metadata, provenance |-> records]

Priors ==
  {Prior(2, ss, ts, External(<<1>>, None), <<>>) :
     ss \in ScenarioLists, ts \in {<<>>, <<IsCanonical>>}} \cup
  {Prior(n, <<S(<<0>>, <<1>>, W(3, 5))>>, ts, m, <<Record(<<1>>), Record(<<>>)>>) :
     n \in {1, 2, 9}, ts \in TransformationLists,
     m \in {[tag |-> 0, provenance |-> <<1, 1>>], External(<<1>>, <<3, 4>>), External(<<>>, None)}}

\* Tables of two rows: a pair in both orders, a string with itself, no weight, numbers past
\* the width of a string, and equal to others modulo it.
CtmNumbers == {0, 1, 82}

CtmTable(rows) ==
  Magic("ctm") \o PutU32(1) \o PutU32(96) \o PutU32(9) \o PutU32(CtmWidth)
    \o PutU64(5) \o PutU64(4) \o PutU64(Len(rows)) \o [i \in 1..CtmAuditBytes |-> 9]
    \o FlattenSeq([i \in DOMAIN rows |-> PutU32(rows[i][1]) \o PutU32(rows[i][2])
                                           \o PutU128(rows[i][3])])

Tables ==
  {CtmTable(<<>>), CtmTable(<<<<255, 7, 1>>>>)} \cup
  {CtmTable(<<<<1, 0, 2>>, <<k, l, n>>>>) : k, l \in CtmNumbers, n \in {0, 65535}}

-----------------------------------------------------------------------------
(* Lexicons and neighborhoods.                                             *)

LexiconArtifact(atoms, renderer, validation, families) ==
  [atoms |-> atoms, renderer |-> renderer, profile |-> <<1>>, validation |-> validation,
   tokenizer_families |-> families, provenance |-> <<Record(<<1>>)>>]

Lexicons ==
  {LexiconArtifact(atoms, renderer, validation, families) :
     atoms \in {<<<<8>>, <<>>>>, <<<<1>>, <<2>>, <<1, 2>>>>, <<<<1>>>>, <<<<1>>, <<1>>>>},
     renderer \in {<<>>, <<1>>}, validation \in {<<>>, <<<<1>>>>, <<<<1>>, <<>>>>},
     families \in {<<>>, <<<<1>>, <<2>>>>, <<<<1>>, <<1>>>>}}

\* A neighborhood as its inserts leave it.
Neighborhood(scheme, rows) ==
  LET addresses == CanonicalAddresses(Streams(scheme, rows)) IN
  [scheme |-> scheme,
   rows |-> [i \in DOMAIN rows |-> [bytes |-> rows[i].bytes, identifier |-> rows[i].identifier,
                                    atoms |-> addresses[i]]]]

Member(bytes, identifier) == [bytes |-> bytes, identifier |-> identifier]

RowLists ==
  {<<>>, <<Member(<<>>, None)>>, <<Member(<<1>>, <<1>>), Member(<<1, 2>>, None)>>,
   <<Member(<<>>, <<>>), Member(<<0>>, None), Member(<<0, 9>>, <<0>>)>>}

Neighborhoods ==
  {Neighborhood(s, rows) :
     s \in {SchemeOf(4, "BinaryMsb0", <<>>, DirectRadixV1),
            SchemeOf(5, "CtmB9", OneNode, DirectRadixV1),
            SchemeOf(5, "BinaryMsb0", <<>>, Static("BinaryMsb0", <<5, 1>>, <<1, 2, 3, 4>>))},
     rows \in RowLists}

AllValues == [scheme |-> SchemeArtifacts, prior |-> Priors, lexicon |-> Lexicons,
              neighborhood |-> Neighborhoods]
=============================================================================
