---------------------------- MODULE ArtifactWriter ----------------------------
(***************************************************************************)
(* The encode_ functions of artifact.rs: what is written of a value, token *)
(* by token, once it is found valid.                                       *)
(***************************************************************************)
EXTENDS ArtifactValues

\* The magics of scheme, prior, lexicon and neighborhood files, and of CTM tables.
Magic(kind) ==
  CASE kind = "scheme"       -> <<1, 1>>
    [] kind = "prior"        -> <<2, 2>>
    [] kind = "lexicon"      -> <<3, 3>>
    [] kind = "neighborhood" -> <<4, 4>>
    [] kind = "ctm"          -> <<5, 5>>

PutStrings(strings) == PutRows([i \in DOMAIN strings |-> PutBytes(strings[i])])

PutSymbols(symbols) == PutRows([i \in DOMAIN symbols |-> PutU32(symbols[i])])

PutWeight(weight) == PutTag(0) \o PutBytes(weight.units) \o PutU32(weight.fractional_bits)

PutProvenance(records) ==
  PutRows([i \in DOMAIN records |-> PutBytes(records[i].name) \o PutBytes(records[i].source)
                                      \o PutBytes(records[i].license)])

-----------------------------------------------------------------------------
(* Schemes.                                                                *)

PutCodec(codec) == PutTag(IF codec = "BinaryMsb0" THEN 0 ELSE 1)

PutField(field) == PutU32(field[1]) \o PutU32(field[2])

PutFallback(d) ==
  IF d.kind = "DirectRadixV1" THEN PutTag(1)
  ELSE PutTag(2) \o PutCodec(d.codec) \o PutField(d.field)
         \o FlattenSeq([i \in 1..4 |-> PutU32(d.optimized_points[i])])

PutOptionalU32(n) == IF n = None THEN PutNone ELSE PutOptional(PutU32(n))

PutProbe(probe) ==
  PutTag(0) \o PutField(probe.field) \o PutU128(probe.point_rank) \o PutU32(probe.hasse_order)

PutBranch(branch) == PutU32(branch[1]) \o PutU32(branch[2])

\* Mutant: a node's default child is forgotten.
PutNodeNoDefault(node) ==
  PutRows([i \in DOMAIN node.action |-> PutProbe(node.action[i])])
    \o PutRows([i \in DOMAIN node.branches |-> PutBranch(node.branches[i])])
    \o PutNone

PutNode(node) ==
  PutRows([i \in DOMAIN node.action |-> PutProbe(node.action[i])])
    \o PutRows([i \in DOMAIN node.branches |-> PutBranch(node.branches[i])])
    \o PutOptionalU32(node.default_child)

PutScheme(s) ==
  PutU32(s.capacity) \o PutCodec(s.codec) \o PutFallback(s.fallback) \o PutOptionalU32(s.root)
    \o PutRows([i \in DOMAIN s.nodes |-> PutNode(s.nodes[i])])

\* encode_scheme.
EncodedScheme(a) ==
  PutTag(a.objective) \o PutTag(IF a.is_exact THEN 0 ELSE 1)
    \o PutBytes(a.spec_revision) \o PutBytes(a.cooker_revision)
    \o PutWeight(a.certificate.total_weight)
    \o PutWeight(a.certificate.objective_cost)
    \o PutWeight(a.certificate.root_lower_bound)
    \o PutU64(a.certificate.explored_states) \o PutU64(a.certificate.memoized_states)
    \o PutScheme(a.scheme)

-----------------------------------------------------------------------------
(* Priors.                                                                 *)

PutScenario(s) == PutSymbols(s.left) \o PutSymbols(s.right) \o PutWeight(s.weight)

PutTransformation(t) == PutTag(t.tag) \o (IF t.tag = 2 THEN PutBytes(t.name) ELSE <<>>)

\* CanonicalCtmB9D12 has the tag 0, ExternalFinite the tag 2.
PutMetadata(m) ==
  PutTag(m.tag)
    \o (IF m.tag = 0 THEN PutBytes(m.provenance)
        ELSE PutBytes(m.model_identity) \o PutBytes(m.builder_identity)
               \o (IF m.budget = None THEN PutNone ELSE PutOptional(PutBytes(m.budget)))
               \o PutBytes(m.uncertainty_note))

\* encode_prior.  (It sorts the scenarios, which are in order already.)
EncodedPrior(prior) ==
  LET scenarios == SortSeq(prior.scenarios, PairLess) IN
  PutU32(prior.cardinality) \o PutBytes(prior.name)
    \o PutRows([i \in DOMAIN scenarios |-> PutScenario(scenarios[i])])
    \o PutRows([i \in DOMAIN prior.transformations |->
                  PutTransformation(prior.transformations[i])])
    \o PutMetadata(prior.metadata) \o PutProvenance(prior.provenance)

-----------------------------------------------------------------------------
(* Lexicons and neighborhoods.                                             *)

\* encode_lexicon.
EncodedLexicon(a) ==
  PutStrings(a.atoms) \o PutBytes(a.renderer) \o PutBytes(a.profile)
    \o PutStrings(a.validation) \o PutStrings(a.tokenizer_families) \o PutProvenance(a.provenance)

PutRow(row) ==
  PutBytes(row.bytes)
    \o (IF row.identifier = None THEN PutNone ELSE PutOptional(PutBytes(row.identifier)))
    \o PutSymbols(row.atoms)

\* encode_neighborhood.
EncodedNeighborhood(nb) ==
  PutScheme(nb.scheme) \o PutRows([i \in DOMAIN nb.rows |-> PutRow(nb.rows[i])])

-----------------------------------------------------------------------------
IsWritable(kind, value) ==
  CASE kind = "scheme"       -> IsValidSchemeArtifact(value)
    [] kind = "prior"        -> IsValidPrior(value)
    [] kind = "lexicon"      -> IsLexicon(value.atoms) /\ IsValidLexicon(value)
    [] kind = "neighborhood" -> IsValidNeighborhood(value)

Encoded(kind, value) ==
  Magic(kind) \o (CASE kind = "scheme"       -> EncodedScheme(value)
                    [] kind = "prior"        -> EncodedPrior(value)
                    [] kind = "lexicon"      -> EncodedLexicon(value)
                    [] kind = "neighborhood" -> EncodedNeighborhood(value))
=============================================================================
