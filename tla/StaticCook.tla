------------------------------ MODULE StaticCook ------------------------------
(***************************************************************************)
(* cook_static (cook/build.rs): the scheme without decision nodes whose    *)
(* continuation is StaticPolynomialV2 over the largest prime field that    *)
(* fits the capacity.  The prior has no part in it.                        *)
(***************************************************************************)
EXTENDS Schemes

CONSTANTS
  CanonicalField,    \* the field of the canonical lexicon: 12 347 in the code
  CanonicalPoints    \* the points optimized for it: 6743, 2728, 6148, 1809

LargestPrimeAtMost(n) == Max({p \in 2..n : IsPrime(p)})

OptimizedPoints(q) ==
  IF q = CanonicalField THEN CanonicalPoints
  ELSE [i \in 1..4 |-> Min({i, q - 1})]

\* The scheme that cook_static hands to Scheme::validate.
CookStatic(capacity, codec) ==
  LET q == LargestPrimeAtMost(capacity) IN
  [capacity |-> capacity, codec |-> codec, nodes |-> <<>>, root |-> None,
   fallback |-> StaticPolynomialV2(codec, <<q, 1>>, OptimizedPoints(q))]
=============================================================================
