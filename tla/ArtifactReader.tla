---------------------------- MODULE ArtifactReader ----------------------------
(***************************************************************************)
(* The decode_ functions of artifact.rs and load_canonical_b9, which read  *)
(* a file from left to right and stop at the first thing that is wrong.    *)
(* What each reads is written as a grammar: a token, or rows, fields and   *)
(* alternatives of smaller grammars, with the checks made on the way.      *)
(* (A check on each row of a table is made once the table is read.)        *)
(***************************************************************************)
EXTENDS ArtifactWriter

CONSTANT CtmAuditBytes    \* 72: between the count of a CTM table and its rows

-----------------------------------------------------------------------------
(* Grammars.                                                               *)

Integer(width) == [form |-> "integer", width |-> width]
Nothing(value) == [form |-> "nothing", value |-> value]
Rows(g) == [form |-> "rows", count |-> U32Bytes, gap |-> 0, of |-> g]
CtmRows(g) == [form |-> "rows", count |-> U64Bytes, gap |-> CtmAuditBytes, of |-> g]
Tuple(parts) == [form |-> "tuple", parts |-> parts]
Fields(names, parts) == [form |-> "fields", names |-> names, parts |-> parts]
Tagged(choices) == [form |-> "tagged", choices |-> choices]    \* by tag
Checked(g, check) == [form |-> "checked", of |-> g, check |-> check]

U32 == Integer(U32Bytes)
U64 == Integer(U64Bytes)
U128 == Integer(U128Bytes)

Bytes == [form |-> "bytes"]
Text == Checked(Bytes, "utf8")
BigInteger == [form |-> "biguint"]

Optional(g) == Tagged(0 :> Nothing(None) @@ 1 :> g)

Weight == Tagged(0 :> Fields(<<"units", "fractional_bits">>, <<BigInteger, U32>>))

Provenance == Rows(Fields(<<"name", "source", "license">>, <<Text, Text, Text>>))

-----------------------------------------------------------------------------
(* Schemes.                                                                *)

CodecTag == Tagged(0 :> Nothing("BinaryMsb0") @@ 1 :> Nothing("CtmB9"))

\* StandardFieldDescriptor::new.
Field == Checked(Tuple(<<U32, U32>>), "field")

FallbackTag ==
  Tagged(1 :> Nothing(DirectRadixV1) @@
         2 :> Fields(<<"kind", "codec", "field", "optimized_points">>,
                     <<Nothing("StaticPolynomialV2"), CodecTag, Field,
                       Tuple(<<U32, U32, U32, U32>>)>>))

ProbeRow ==
  Fields(<<"field", "point_rank", "hasse_order">>, <<Tagged(0 :> Field), U128, U32>>)

\* ProbeBundle::new refuses an empty bundle.
NodeRow ==
  Fields(<<"action", "branches", "default_child">>,
         <<Checked(Rows(ProbeRow), "bundle"), Rows(Tuple(<<U32, U32>>)), Optional(U32)>>)

SchemePayload ==
  Checked(Fields(<<"capacity", "codec", "fallback", "root", "nodes">>,
                 <<U32, CodecTag, FallbackTag, Optional(U32), Rows(NodeRow)>>), "scheme")

SchemeFile ==
  Fields(<<"objective", "is_exact", "spec_revision", "cooker_revision",
           "certificate", "scheme">>,
         <<Tagged(0 :> Nothing(0)), Tagged(0 :> Nothing(TRUE) @@ 1 :> Nothing(FALSE)), Text, Text,
           Checked(Fields(<<"total_weight", "objective_cost", "root_lower_bound",
                            "explored_states", "memoized_states">>,
                          <<Weight, Weight, Weight, U64, U64>>), "certificate"),
           SchemePayload>>)

-----------------------------------------------------------------------------
(* Priors.                                                                 *)

ScenarioRow == Fields(<<"left", "right", "weight">>, <<Rows(U32), Rows(U32), Weight>>)

\* No name goes with the tags 0 and 1.
TransformationRow ==
  Tagged(0 :> Nothing(IsCanonical) @@ 1 :> Nothing(IsAggregated) @@
         2 :> Fields(<<"tag", "name">>, <<Nothing(2), Text>>))

Metadata ==
  Tagged(0 :> Fields(<<"tag", "provenance">>, <<Nothing(0), Text>>) @@
         2 :> Fields(<<"tag", "model_identity", "builder_identity", "budget",
                       "uncertainty_note">>,
                     <<Nothing(2), Text, Text, Optional(Text), Text>>))

PriorFile ==
  Fields(<<"cardinality", "name", "scenarios", "transformations", "metadata", "provenance">>,
         <<U32, Text, Checked(Rows(ScenarioRow), "pair order"), Rows(TransformationRow),
           Metadata, Provenance>>)

CtmRow == Fields(<<"left", "right", "units">>, <<U32, U32, U128>>)

\* A table of pairs: version, scale, base and width, two numbers that are not used, and
\* the rows, of fixed width.
CtmFile ==
  Fields(<<"header", "source_rows", "nonidentical_rows", "rows">>,
         <<Checked(Tuple(<<U32, U32, U32, U32>>), "ctm header"), U64, U64, CtmRows(CtmRow)>>)

-----------------------------------------------------------------------------
(* Lexicons and neighborhoods.                                             *)

LexiconFile ==
  Fields(<<"atoms", "renderer", "profile", "validation", "tokenizer_families", "provenance">>,
         <<Checked(Rows(Bytes), "lexicon"), Text, Text, Rows(Text), Rows(Text), Provenance>>)

NeighborhoodRow ==
  Fields(<<"bytes", "identifier", "atoms">>, <<Bytes, Optional(Bytes), Rows(U32)>>)

NeighborhoodFile ==
  Checked(Fields(<<"scheme", "rows">>, <<SchemePayload, Rows(NeighborhoodRow)>>), "rows")

Grammar(kind) ==
  CASE kind = "scheme"       -> SchemeFile
    [] kind = "prior"        -> PriorFile
    [] kind = "lexicon"      -> LexiconFile
    [] kind = "neighborhood" -> NeighborhoodFile
    [] kind = "ctm"          -> CtmFile

-----------------------------------------------------------------------------
(* Checks.                                                                 *)

\* String::from_utf8, with characters of one or two bytes: the halves and quarters of a
\* byte's range mean what they mean in UTF-8.
IsUtf8(bytes) ==
  LET IsSingle(b) == 2 * b < ByteBase
      IsLead(b) == 4 * b >= 3 * ByteBase
      IsNext(b) == ~IsSingle(b) /\ ~IsLead(b)
  IN \A i \in DOMAIN bytes :
       /\ IsLead(bytes[i]) => i < Len(bytes) /\ IsNext(bytes[i + 1])
       /\ IsNext(bytes[i]) => i > 1 /\ IsLead(bytes[i - 1])

Holds(check, value) ==
  CASE check = "utf8"        -> IsUtf8(value)
    [] check = "field"       -> IsValid(value)
    [] check = "bundle"      -> value # <<>>
    [] check = "scheme"      -> IsValidScheme(value)
    [] check = "certificate" -> IsValidCertificate(value)
    [] check = "pair order"  -> \A i \in 1..(Len(value) - 1) : PairLess(value[i], value[i + 1])
    [] check = "lexicon"     -> IsLexicon(value)
    [] check = "rows"        -> AreRows(value.scheme, value.rows)
    [] check = "ctm header"  -> value = <<1, 96, 9, CtmWidth>>

\* What is checked once the file has been read to its end.
HoldsAtEnd(kind, value) ==
  CASE kind \in {"scheme", "ctm"} -> TRUE
    [] kind = "prior"             -> IsValidPrior(value)
    [] kind = "lexicon"           -> IsValidLexicon(value)
    [] kind = "neighborhood"      -> IsReconstructed(value.scheme, value.rows)

-----------------------------------------------------------------------------
(* Reading.                                                                *)

Good(value, pos) == [error |-> "none", value |-> value, pos |-> pos]
Bad(error) == [error |-> error, value |-> None, pos |-> 0]

\* Reader::take, as digits of a number or as bytes.
Take(file, width, pos) ==
  IF pos + width > Len(file) THEN Bad("Truncated")
  ELSE Good(SubSeq(file, pos + 1, pos + width), pos + width)

Integral(r) == IF r.error = "none" THEN Good(Number(r.value), r.pos) ELSE r

RECURSIVE Parse(_, _, _), ParseAll(_, _, _)

\* The grammars one after another.
ParseAll(file, gs, pos) ==
  IF gs = <<>> THEN Good(<<>>, pos)
  ELSE LET first == Parse(file, Head(gs), pos) IN
       IF first.error # "none" THEN first
       ELSE LET rest == ParseAll(file, Tail(gs), first.pos) IN
            IF rest.error # "none" THEN rest
            ELSE Good(<<first.value>> \o rest.value, rest.pos)

ParseRows(file, g, count) ==
  IF count.error # "none" THEN count
  ELSE LET gap == Take(file, g.gap, count.pos) IN
       IF gap.error # "none" THEN gap
       ELSE ParseAll(file, [i \in 1..count.value |-> g.of], gap.pos)

ParseBytes(file, count) ==
  IF count.error # "none" THEN count ELSE Take(file, count.value, count.pos)

\* Mutant: leading zeros are skipped.
ParseBigUintPadded(r) == IF r.error # "none" THEN r ELSE Good(Stripped(r.value), r.pos)

\* Reader::biguint refuses leading zeros.
ParseBigUint(r) ==
  IF r.error # "none" THEN r
  ELSE IF r.value # <<>> /\ r.value[1] = 0 THEN Bad("Invalid")
  ELSE Good(Stripped(r.value), r.pos)

ParseFields(names, r) ==
  IF r.error # "none" THEN r
  ELSE Good([name \in Range(names) |->
               r.value[CHOOSE i \in DOMAIN names : names[i] = name]], r.pos)

ParseTagged(file, choices, tag) ==
  IF tag.error # "none" THEN tag
  ELSE IF tag.value \in DOMAIN choices THEN Parse(file, choices[tag.value], tag.pos)
  ELSE Bad("Invalid")

ParseChecked(check, r) ==
  IF r.error = "none" /\ ~Holds(check, r.value) THEN Bad("Invalid") ELSE r

Parse(file, g, pos) ==
  CASE g.form = "nothing" -> Good(g.value, pos)
    [] g.form = "integer" -> Integral(Take(file, g.width, pos))
    [] g.form = "bytes"   -> ParseBytes(file, Integral(Take(file, U32Bytes, pos)))
    [] g.form = "biguint" -> ParseBigUint(Parse(file, Bytes, pos))
    [] g.form = "rows"    -> ParseRows(file, g, Integral(Take(file, g.count, pos)))
    [] g.form = "tuple"   -> ParseAll(file, g.parts, pos)
    [] g.form = "fields"  -> ParseFields(g.names, ParseAll(file, g.parts, pos))
    [] g.form = "tagged"  -> ParseTagged(file, g.choices, Integral(Take(file, 1, pos)))
    [] g.form = "checked" -> ParseChecked(g.check, Parse(file, g.of, pos))

\* Mutant: a file may go on after its last field.
AtEndOrBefore(file, pos) == pos <= Len(file)

\* Reader::finish.
AtEnd(file, pos) == pos = Len(file)

\* The end of a decode_ function.
Finished(kind, file, r) ==
  IF r.error # "none" THEN r
  ELSE IF ~AtEnd(file, r.pos) THEN Bad("TrailingBytes")
  ELSE IF ~HoldsAtEnd(kind, r.value) THEN Bad("Invalid")
  ELSE r

\* A table of pairs with another magic is one with a bad header.
WrongMagic(kind) == IF kind = "ctm" THEN "Invalid" ELSE "BadMagic"

Decoded(kind, file) ==
  IF Len(file) < Len(Magic(kind)) THEN Bad("Truncated")
  ELSE IF ~IsPrefix(Magic(kind), file) THEN Bad(WrongMagic(kind))
  ELSE Finished(kind, file, Parse(file, Grammar(kind), Len(Magic(kind))))
=============================================================================
