-------------------------------- MODULE Fields --------------------------------
(***************************************************************************)
(* Finite fields (field/element.rs): a prime field, or a tower of          *)
(* extensions over one.  A step of a tower adjoins a root of               *)
(* X^r + sum modulus[i] X^i over the field below it.  An element is the    *)
(* sequence of its coefficients over F_p, in blocks that are elements of   *)
(* the field below; its rank has them as digits, lowest first.             *)
(***************************************************************************)
EXTENDS FieldDescriptors, SequencesExt

\* ExplicitField::prime and ::tower; modulus has one coefficient per power of X.
PrimeField(p) == [p |-> p, degree |-> 1, cardinality |-> p, steps |-> <<>>]

Tower(base, relative_degree, modulus) ==
  [p |-> base.p, degree |-> base.degree * relative_degree,
   cardinality |-> Power(base.cardinality, relative_degree),
   steps |-> Append(base.steps, [r |-> relative_degree, modulus |-> modulus])]

FromPrime(f, value) == [i \in 1..f.degree |-> IF i = 1 THEN value % f.p ELSE 0]
Zero(f) == FromPrime(f, 0)
One(f) == FromPrime(f, 1)

FromRank(f, rank) ==
  LET digits[i \in Nat] ==    \* the first i digits, and what is left of the rank
        IF i = 0 THEN <<<<>>, rank>>
        ELSE LET last == digits[i - 1]
             IN <<Append(last[1], last[2] % f.p), last[2] \div f.p>>
  IN digits[f.degree][1]

Rank(f, x) ==
  LET rank[i \in Nat] == IF i > f.degree THEN 0 ELSE rank[i + 1] * f.p + x[i] IN rank[1]

-----------------------------------------------------------------------------
(* Arithmetic.                                                             *)

Plus(p, x, y) == [i \in DOMAIN x |-> (x[i] + y[i]) % p]
Minus(p, x, y) == [i \in DOMAIN x |-> (x[i] + p - y[i]) % p]

Add(f, x, y) == Plus(f.p, x, y)
Sub(f, x, y) == Minus(f.p, x, y)
Neg(f, x) == Minus(f.p, Zero(f), x)

\* An element as its r coefficients over the field below.
Split(x, r) ==
  LET block == Len(x) \div r
  IN [i \in 1..r |-> SubSeq(x, (i - 1) * block + 1, i * block)]

\* The product of two polynomials over the field below, given as their sequences of
\* coefficients; times is the product of that field.
Convolution(p, xs, ys, zero, times) ==
  [k \in 1..(Len(xs) + Len(ys) - 1) |->
     MapThenFoldSet(LAMBDA u, v : Plus(p, u, v), zero, LAMBDA i : times[xs[i], ys[k + 1 - i]],
                    LAMBDA S : CHOOSE i \in S : TRUE,
                    {i \in DOMAIN xs : k + 1 - i \in DOMAIN ys})]

\* The coefficients of a product, highest power first rid of the powers X^power that
\* the modulus of a step replaces by lower ones.
Reduced(p, step, product, times) ==
  SubSeq(FoldLeft(LAMBDA c, power :
                    [i \in DOMAIN c |->
                       IF i - 1 \in (power - step.r)..(power - 1)
                       THEN Minus(p, c[i], times[c[power + 1], step.modulus[i - (power - step.r)]])
                       ELSE c[i]],
                  product, [j \in 1..(step.r - 1) |-> 2 * step.r - 1 - j]),
         1, step.r)

\* mul_tower at one step of a tower.
MulStep(p, step, x, y, times) ==
  FlattenSeq(Reduced(p, step,
                     Convolution(p, Split(x, step.r), Split(y, step.r),
                                 [i \in 1..(Len(x) \div step.r) |-> 0], times),
                     times))

\* ExplicitField::mul, down the tower to the products modulo p of the prime field.
Mul(f, a, b) ==
  LET mul[h \in Nat, x \in Seq(Nat), y \in Seq(Nat)] ==
        IF h = 0 THEN <<(x[1] * y[1]) % f.p>>
        ELSE MulStep(f.p, f.steps[h], x, y, [u, v \in Seq(Nat) |-> mul[h - 1, u, v]])
  IN mul[Len(f.steps), a, b]

\* ExplicitField::pow, by squaring.
PowerOf(f, x, n) ==
  LET power[out \in Seq(Nat), cur \in Seq(Nat), k \in Nat] ==
        IF k = 0 THEN out
        ELSE power[IF k % 2 = 1 THEN Mul(f, out, cur) ELSE out, Mul(f, cur, cur), k \div 2]
  IN power[One(f), x, n]

\* ExplicitField::inverse.
Inv(f, x) == PowerOf(f, x, f.cardinality - 2)
=============================================================================
