-------------------------------- MODULE Probes --------------------------------
(***************************************************************************)
(* How bytes become atoms: the content codecs (codec.rs), Hasse            *)
(* derivatives (field/hasse.rs, field/polynomial.rs), probes (probe.rs)    *)
(* and probe bundles (bundle.rs), over given fields.                       *)
(***************************************************************************)
EXTENDS Fields

CONSTANT FieldOf    \* FieldOf[d]: what StandardFieldDescriptor::instantiate makes of d

ASSUME FieldOfAssumption ==
  \A d \in DOMAIN FieldOf : /\ IsValid(d)
                            /\ FieldOf[d].p = d[1]
                            /\ FieldOf[d].degree = d[2]
                            /\ FieldOf[d].cardinality = Order(d)
                            /\ FieldOf[d].cardinality \in Nat

Codecs == {"BinaryMsb0", "CtmB9"}

Byte == 0..255

-----------------------------------------------------------------------------
(* Codecs.                                                                 *)

\* The three base-9 digits of a byte's image under the affine map of CTM-B9.
CtmDigits(byte) ==
  LET v == (17 * byte + 17) % 729 IN <<v \div 81, (v \div 9) % 9, v % 9>>

\* The bits of a byte, most significant first.
Bits(byte) == [i \in 1..8 |-> (byte \div 2^(8 - i)) % 2]

Symbols(codec, bytes) ==
  FlattenSeq([i \in DOMAIN bytes |-> IF codec = "CtmB9" THEN CtmDigits(bytes[i])
                                     ELSE Bits(bytes[i])])

SymbolCardinality(codec) == IF codec = "CtmB9" THEN 9 ELSE 2

\* The least number of base-p digits that tell the symbols apart.
DigitsNeeded(cardinality, p) ==
  CHOOSE w \in 1..cardinality : p^w >= cardinality /\ (w > 1 => p^(w - 1) < cardinality)

\* Low degree first: each symbol as digits in base p, then the monic coefficient.
MonicSymbolCoefficients(symbols, cardinality, p) ==
  LET width == DigitsNeeded(cardinality, p)
      Digits(s) == [i \in 1..width |-> (s \div p^(width - i)) % p]
  IN FlattenSeq([i \in DOMAIN symbols |-> Digits(symbols[i])]) \o <<1>>

\* Mutant: no coefficient ends the digits.
PrimeCoefficientsUnended(codec, bytes, p) ==
  IF codec = "CtmB9"
  THEN [i \in DOMAIN Symbols(codec, bytes) |-> Symbols(codec, bytes)[i] + 1]
  ELSE Symbols(codec, bytes)

\* The coefficients of the fallback: CTM-B9 has digits 1 to 9 and ends in 10.
MonicPrimeCoefficients(codec, bytes, p) ==
  IF codec = "CtmB9"
  THEN [i \in DOMAIN Symbols(codec, bytes) |-> Symbols(codec, bytes)[i] + 1] \o <<10>>
  ELSE MonicSymbolCoefficients(Symbols(codec, bytes), SymbolCardinality(codec), p)

-----------------------------------------------------------------------------
(* Hasse derivatives.                                                      *)

\* mod_pow to p - 2, the inverse by the theorem of Fermat.
InverseMod(x, p) ==
  LET power[k \in 0..(p - 2)] == IF k = 0 THEN 1 ELSE (x * power[k - 1]) % p IN power[p - 2]

\* n choose k modulo p, for n < p: the product of the j greatest factors, times the
\* inverse of j!.
SmallBinomial(n, k, p) ==
  LET j == Min({k, n - k})
      numerator[i \in 0..j] == IF i = 0 THEN 1 ELSE (numerator[i - 1] * (n - i + 1)) % p
      denominator[i \in 0..j] == IF i = 0 THEN 1 ELSE (denominator[i - 1] * i) % p
  IN (numerator[j] * InverseMod(denominator[j], p)) % p

\* n choose k modulo p by the theorem of Lucas, digit by digit in base p.
Binomial(n, k, p) ==
  LET lucas[m \in 0..n, j \in 0..k] ==
        IF m = 0 /\ j = 0 THEN 1
        ELSE IF j % p > m % p THEN 0
        ELSE (lucas[m \div p, j \div p] * SmallBinomial(m % p, j % p, p)) % p
  IN IF k > n THEN 0 ELSE lucas[n, k]

\* The Hasse derivative of the given order at a point of the field, of a polynomial over
\* the prime field; beyond the degree it is 0.
EvaluateHasse(f, coefficients, order, point) ==
  LET sum[i \in Nat, power \in Seq(Nat)] ==    \* of the terms from the i-th on
        IF i >= Len(coefficients) THEN Zero(f)
        ELSE LET scalar == FromPrime(f, coefficients[i + 1] * Binomial(i, order, f.p))
             IN Add(f, Mul(f, scalar, power), sum[i + 1, Mul(f, power, point)])
  IN sum[order, One(f)]

-----------------------------------------------------------------------------
(* Probes and bundles.                                                     *)

Probe(field, point_rank, hasse_order) ==
  [field |-> field, point_rank |-> point_rank, hasse_order |-> hasse_order]

\* ScalarProbe::validate.
IsValidProbe(probe) == IsValid(probe.field) /\ probe.point_rank < Order(probe.field)

\* The rank of the probe's value in its field f.
RankAt(f, probe, coefficients) ==
  Rank(f, EvaluateHasse(f, coefficients, probe.hasse_order, FromRank(f, probe.point_rank)))

EvaluateAt(probe, coefficients) == RankAt(FieldOf[probe.field], probe, coefficients)

\* ScalarProbe::evaluate, the probe of the fallback.
Evaluate(probe, codec, bytes) ==
  EvaluateAt(probe, MonicPrimeCoefficients(codec, bytes, probe.field[1]))

\* ScalarProbe::evaluate_symbols, the probe of a decision node.
EvaluateSymbols(probe, symbols, cardinality) ==
  EvaluateAt(probe, MonicSymbolCoefficients(symbols, cardinality, probe.field[1]))

\* The number of outcomes of a bundle, the capacity its mixed radix needs.
Outcomes(bundle) == FoldLeft(LAMBDA n, probe : Saturated[n * Order(probe.field)], 1, bundle)

\* ProbeBundle::validate.
IsValidBundle(bundle, capacity) ==
  /\ bundle # <<>>
  /\ \A i \in DOMAIN bundle : IsValidProbe(bundle[i])
  /\ Outcomes(bundle) <= capacity

\* ProbeBundle::evaluate: the values of the probes as digits of a mixed radix.
EvaluateBundle(bundle, codec, bytes) ==
  FoldLeft(LAMBDA rank, probe :
             rank * Order(probe.field)
               + EvaluateSymbols(probe, Symbols(codec, bytes), SymbolCardinality(codec)),
           0, bundle)
=============================================================================
