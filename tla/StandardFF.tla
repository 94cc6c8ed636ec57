------------------------------ MODULE StandardFF ------------------------------
(***************************************************************************)
(* The standard finite fields of Luebeck (field/standardff.rs): which      *)
(* polynomials define the steps of the towers, and where the monomials of  *)
(* one field lie in a larger one.                                          *)
(***************************************************************************)
EXTENDS Fields

-----------------------------------------------------------------------------
(* Polynomials over a field, lowest coefficient first.                     *)

IsZero(x) == \A i \in DOMAIN x : x[i] = 0

\* poly_trim: no zeros at the end.
Trim(a) ==
  LET degrees == {i \in DOMAIN a : ~IsZero(a[i])}
  IN IF degrees = {} THEN <<>> ELSE SubSeq(a, 1, Max(degrees))

Coefficient(f, a, i) == IF i \in DOMAIN a THEN a[i] ELSE Zero(f)

PolySub(f, a, b) ==
  Trim([i \in 1..Max({Len(a), Len(b)}) |-> Sub(f, Coefficient(f, a, i), Coefficient(f, b, i))])

PolyMul(f, a, b) ==
  IF a = <<>> \/ b = <<>> THEN <<>>
  ELSE Trim(Convolution(f.p, a, b, Zero(f), [u, v \in Seq(Nat) |-> Mul(f, u, v)]))

RECURSIVE Remainder(_, _, _, _), PolyGcd(_, _, _), Powers(_, _, _, _, _)

\* The polynomial a without its leading term: less factor times X^shift m.
Reduce(f, a, m, factor, shift) ==
  Trim([i \in DOMAIN a |-> IF i <= shift THEN a[i] ELSE Sub(f, a[i], Mul(f, factor, m[i - shift]))])

\* What poly_mod leaves of a dividend; neither has zeros at the end.
Remainder(f, a, m, lead_inv) ==
  IF Len(a) < Len(m) THEN a
  ELSE Remainder(f, Reduce(f, a, m, Mul(f, a[Len(a)], lead_inv), Len(a) - Len(m)), m, lead_inv)

PolyMod(f, a, m) == Remainder(f, Trim(a), m, Inv(f, m[Len(m)]))

\* poly_gcd, but for the scaling to a monic polynomial, on which its degree does not
\* depend.
PolyGcd(f, a, b) == IF b = <<>> THEN a ELSE PolyGcd(f, b, PolyMod(f, a, b))

PolyMulMod(f, a, b, m) == PolyMod(f, PolyMul(f, a, b), m)

\* The loop of poly_pow_mod.
Powers(f, out, cur, exponent, m) ==
  IF exponent = 0 THEN out
  ELSE Powers(f, IF exponent % 2 = 1 THEN PolyMulMod(f, out, cur, m) ELSE out,
              PolyMulMod(f, cur, cur, m), exponent \div 2, m)

PolyPowMod(f, base, exponent, m) == Powers(f, <<One(f)>>, PolyMod(f, base, m), exponent, m)

X(f) == <<Zero(f), One(f)>>

\* No root: the polynomial is coprime to X^q - X.  (As a mutant of the test below, it stops
\* there.)
HasNoRoot(f, polynomial) ==
  Len(PolyGcd(f, polynomial, PolySub(f, PolyPowMod(f, X(f), f.cardinality, polynomial), X(f)))) = 1

\* is_irreducible_prime_degree.
IsIrreduciblePrimeDegree(f, polynomial) ==
  /\ HasNoRoot(f, polynomial)
  /\ PolyPowMod(f, X(f), Power(f.cardinality, Len(polynomial) - 1), polynomial) = X(f)

-----------------------------------------------------------------------------
(* The standard polynomials.                                               *)

Gcd(a, b) ==
  LET gcd[x \in Nat, y \in Nat] == IF y = 0 THEN x ELSE gcd[y, x % y] IN gcd[a, b]

\* standard_affine_shift: a permutation of 0..(q - 1).
AffineShift(q, i) ==
  IF q <= 1 THEN 0
  ELSE LET multiplier == Max({m \in 1..((4 * q) \div 5) : Gcd(m, q) = 1})
       IN (multiplier * (i % q) + (2 * q) \div 3) % q

QadicDigits(value, base, width) ==
  LET digits[i \in Nat] ==    \* the first i digits, and what is left of value
        IF i = 0 THEN <<<<>>, value>>
        ELSE LET last == digits[i - 1]
             IN <<Append(last[1], last[2] % base), last[2] \div base>>
  IN digits[width][1]

\* The first of the shifts of 1, 2, ... that is wanted.
FirstShift(q, wanted) ==
  AffineShift(q, CHOOSE i \in 1..q : /\ AffineShift(q, i) \in wanted
                                     /\ \A j \in 1..(i - 1) : AffineShift(q, j) \notin wanted)

\* The ranks of the elements whose power is not 1.
NonResidues(f, exponent) ==
  {x \in 1..(f.cardinality - 1) : PowerOf(f, FromRank(f, x), exponent) # One(f)}

\* How far the search moves on: the least exponent that gives enough polynomials.
SearchStep(q, degree) ==
  CHOOSE n \in 1..(2 * degree) : /\ Power(q, n) >= 2 * degree
                                 /\ \A m \in 1..(n - 1) : Power(q, m) < 2 * degree

\* The degree below which the coefficients of a trial vary; it grows every degree trials.
SearchDegree(q, degree, count, d) ==
  IF count % degree = 0 /\ d < degree - 1 THEN Min({d + SearchStep(q, degree), degree - 1}) ELSE d

\* The ranks of the coefficients of X to X^(d - 1) in a trial.
TrialDigits(q, count, d) == QadicDigits(AffineShift(Power(q, d - 1), count), q, d - 1)

\* a with these coefficients.
Trial(f, a, digits) ==
  [i \in DOMAIN a |-> IF i - 1 \in DOMAIN digits THEN FromRank(f, digits[i - 1]) ELSE a[i]]

RECURSIVE Search(_, _, _, _, _)

\* The search for an irreducible polynomial, from the trial a.
Search(f, degree, count, d, a) ==
  IF IsIrreduciblePrimeDegree(f, a) THEN a
  ELSE LET e == SearchDegree(f.cardinality, degree, count, d)
       IN Search(f, degree, count + 1, e, Trial(f, a, TrialDigits(f.cardinality, count, e)))

Ranks(f, a) == [i \in DOMAIN a |-> Rank(f, a[i])]

\* standard_irreducible_coefficients: X^degree + X + constant, and while that is not
\* irreducible, with other coefficients; the highest one is left out.
IrreducibleCoefficients(f, degree, constant) ==
  Ranks(f, SubSeq(Search(f, degree, 0, 0,
                         [i \in 1..(degree + 1) |->
                            IF i = 1 THEN constant
                            ELSE IF i \in {2, degree + 1} THEN One(f) ELSE Zero(f)]),
                  1, degree))

\* The constant term where the modulus is X^r - x for the last generator x, or X^r + 1.
MinusGenerator(p, r, k, base) ==
  Rank(base, Neg(base, IF k = 1 THEN One(base) ELSE FromRank(base, Power(p, Power(r, k - 2)))))

\* X^r + rank, and X^r - x for the first x of the shifts that is no residue.
Constant(r, rank) == [i \in 1..r |-> IF i = 1 THEN rank ELSE 0]
NonResidue(f, r, exponent) ==
  Constant(r, Rank(f, Neg(f, FromRank(f, FirstShift(f.cardinality, NonResidues(f, exponent))))))

\* standard_prime_degree_coefficients, as ranks in base, the field of degree r^(k-1);
\* quadratic is the field of degree 2.
PrimeDegreeCoefficients(p, r, k, base, quadratic) ==
  IF p = r THEN [Constant(r, (p - 1) * (base.cardinality \div p)) EXCEPT ![2] = p - 1]
  ELSE IF r = 2 /\ p % 4 = 3 /\ k = 1 THEN Constant(r, 1)
  ELSE IF IsSecondQuadratic(p, r, k) THEN NonResidue(quadratic, r, (p * p - 1) \div 2)
  ELSE IF (p - 1) % r = 0 /\ k = 1 THEN NonResidue(PrimeField(p), r, (p - 1) \div r)
  ELSE IF (p - 1) % r = 0 THEN Constant(r, MinusGenerator(p, r, k, base))
  ELSE IrreducibleCoefficients(base, r, FromRank(base, MinusGenerator(p, r, k, base)))

-----------------------------------------------------------------------------
(* Embeddings.                                                             *)

Lcm(a, b) == (a \div Gcd(a, b)) * b

\* The degrees of the monomials of a base, and of their products with the powers of the
\* generator, which has degree k.
Lift(below, n, k) ==
  [i \in 1..n |-> IF i <= Len(below) THEN below[i] ELSE Lcm(below[1 + ((i - 1) % Len(below))], k)]

RECURSIVE MonDegrees(_)

\* std_mon_degrees: the degrees over F_p of the monomials of the tower basis.
MonDegrees(n) ==
  IF n = 1 THEN <<1>>
  ELSE Lift(MonDegrees(n \div LastPrime(n)), n, Power(LastPrime(n), LastExponent(n)))

\* Mutant: the monomials keep their places.
EmbedInPlace(p, n, m, rank) == rank

\* The number with these digits at these places.
ValueAt(p, digits, places) ==
  MapThenFoldSet(LAMBDA u, v : u + v, 0, LAMBDA i : digits[i] * Power(p, places[i] - 1),
                 LAMBDA S : CHOOSE i \in S : TRUE, DOMAIN digits)

\* The places of the monomials that lie in the field of degree n.
Places(n, degrees) == SelectSeq([i \in DOMAIN degrees |-> i], LAMBDA i : Divides(degrees[i], n))

\* embed_steinitz: the digits of a rank in the field of degree n go to the places of
\* the monomials of that field among those of the field of degree m.
EmbedSteinitz(p, n, m, rank) == ValueAt(p, QadicDigits(rank, p, n), Places(n, MonDegrees(m)))

-----------------------------------------------------------------------------
(* Fields.                                                                 *)

\* The tower over base by the polynomial with these ranks in the field of degree n1.
Extension(p, r, n1, base, ranks) ==
  Tower(base, r,
        [i \in 1..r |-> FromRank(base, EmbedSteinitz(p, n1, base.degree, ranks[i]))])

\* What standard_field builds from the smaller fields it asked for, of which the first two
\* are for the polynomial and the last is the base of the tower.
Construct(p, n, parts) ==
  IF n = 1 THEN PrimeField(p)
  ELSE LET r == LastPrime(n)
           k == LastExponent(n)
       IN Extension(p, r, Power(r, k - 1), parts[Len(parts)],
                    PrimeDegreeCoefficients(p, r, k, parts[1], parts[2]))

RECURSIVE StandardField(_)

\* The field of a descriptor: standard_field without the cache.
StandardField(d) ==
  LET wanted == Subdegrees(d[1], d[2])
  IN Construct(d[1], d[2], [i \in DOMAIN wanted |-> StandardField(<<d[1], wanted[i]>>)])
=============================================================================
