--------------------------- MODULE MCAddressStream ---------------------------
(***************************************************************************)
(* Instances of AddressStream for TLC.                                     *)
(***************************************************************************)
EXTENDS AddressStream, StaticCook, StandardFF

\* The smallest fields, as the code builds them.
StandardFields ==
  [d \in {e \in (2..31) \X (1..5) : IsValid(e) /\ Order(e) <= 32} |-> StandardField(d)]

Scheme(capacity, codec, nodes, descriptor) ==
  [capacity |-> capacity, codec |-> codec, nodes |-> nodes, fallback |-> descriptor,
   root |-> IF nodes = <<>> THEN None ELSE 0]

-----------------------------------------------------------------------------
(* Decision graphs before DirectRadixV1.                                   *)

\* The empty content, a zero byte, a full block, and two contents of a block and a
\* byte that differ in their last byte only.
ShortContents == {<<>>, <<0>>, <<0, 255>>, <<7, 0, 0>>, <<7, 0, 1>>}

Bundles == {<<Probe(<<2, 1>>, 0, 0)>>, <<Probe(<<2, 2>>, 2, 0)>>,
            <<Probe(<<2, 1>>, 1, 0), Probe(<<2, 1>>, 0, 1)>>, <<Probe(<<7, 1>>, 1, 0)>>}

\* Branches on one or two atoms, in and out of order, and defaults, to any node and
\* to one that is not there.
Nodes(n) ==
  {Node(a, b, d) :
     a \in Bundles,
     b \in {<<>>} \cup {<<<<1, j>>>> : j \in 0..n} \cup {<<<<1, j>>, <<0, n - 1>>>> : j \in 1..n}
             \cup {<<<<0, j>>, <<1, n - 1>>>> : j \in 1..n},
     d \in {None, n - 1}}

Graphs == {<<>>} \cup {<<v>> : v \in Nodes(1)} \cup {<<v, w>> : v, w \in Nodes(2)}

RadixSchemes ==
  {Scheme(4, "BinaryMsb0", g, DirectRadixV1) : g \in Graphs} \cup
  {Scheme(n, codec, g, DirectRadixV1) :
     n \in {1, 2, 3, 300, 5000}, codec \in Codecs,
     g \in {<<>>, <<Node(<<Probe(<<2, 1>>, 0, 0)>>, <<>>, None)>>}} \cup
  {Scheme(300, codec, <<Node(<<Probe(<<3, 2>>, 4, 1), Probe(<<5, 2>>, 6, 0)>>, <<>>, None)>>,
          DirectRadixV1) : codec \in Codecs}

-----------------------------------------------------------------------------
(* Static continuations.                                                   *)

Static(capacity, codec, field, points) ==
  Scheme(capacity, codec, <<>>, StaticPolynomialV2(codec, field, points))

\* What cook_static makes of small capacities, and optimized points in ascending
\* order, over prime fields and towers; and descriptors that do not validate: fewer
\* points than four, a point twice, the point 0, a field larger than the capacity, no
\* field.
StaticSchemes ==
  {CookStatic(n, "BinaryMsb0") : n \in 2..8} \cup {CookStatic(14, "CtmB9")} \cup
  {Static(11, "CtmB9", <<11, 1>>, <<2, 3, 7, 10>>),
   Static(12, "BinaryMsb0", <<7, 1>>, <<1, 2, 4, 5>>),
   Static(9, "BinaryMsb0", <<3, 2>>, <<1, 3, 4, 8>>),
   Static(12, "BinaryMsb0", <<2, 3>>, <<2, 4, 6, 7>>),
   Static(11, "BinaryMsb0", <<11, 1>>, <<1, 1, 2, 3>>),
   Static(11, "BinaryMsb0", <<11, 1>>, <<0, 1, 2, 3>>),
   Static(10, "BinaryMsb0", <<11, 1>>, <<1, 2, 3, 4>>),
   Static(8, "BinaryMsb0", <<3, 2>>, <<1, 2, 3, 4>>),
   Static(9, "BinaryMsb0", <<9, 1>>, <<1, 2, 3, 4>>)}

AllSchemes == RadixSchemes \cup StaticSchemes

StaticContents == {<<>>, <<0>>, <<1>>, <<255>>}

\* The field of the canonical lexicon, and its points: in no order, as in the code.
TinyCanonicalPoints == <<7, 3, 6, 2>>
CanonicalSchemes == {CookStatic(CanonicalField, "CtmB9")}

\* CTM-B9 over the smallest field that has four points to optimize and more.
SmallFieldSchemes == {CookStatic(7, "CtmB9")}

AliasedContents == {<<1>>, <<215>>}
=============================================================================
