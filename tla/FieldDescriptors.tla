--------------------------- MODULE FieldDescriptors ---------------------------
(***************************************************************************)
(* Descriptors of finite fields, and the numbers that name the steps of    *)
(* their towers (field/standardff.rs).                                     *)
(***************************************************************************)
EXTENDS Naturals, Sequences

CONSTANT OrderLimit    \* 2^128: orders must be less

Descriptor == Nat \X Nat    \* characteristic and degree

ASSUME OrderAssumption == OrderLimit \in Nat

Divides(d, n) == n % d = 0

IsPrime(n) == n >= 2 /\ \A d \in 2..(n - 1) : ~Divides(d, n)

\* Where arithmetic on orders overflows, OrderLimit.
Saturated[n \in Nat] == IF n < OrderLimit THEN n ELSE OrderLimit

\* checked_pow: b^n.
Power(b, n) ==
  LET power[k \in 0..n] == IF k = 0 THEN 1 ELSE Saturated[power[k - 1] * b] IN power[n]

\* The number of elements.
Order(d) == Power(d[1], d[2])

\* StandardFieldDescriptor::validate.
IsValid(d) == d[2] # 0 /\ IsPrime(d[1]) /\ Order(d) < OrderLimit

\* The last entry of factorization(n): the greatest prime of n, and its exponent.
LastPrime(n) ==
  CHOOSE r \in 2..n : /\ Divides(r, n) /\ IsPrime(r)
                      /\ \A q \in (r + 1)..n : ~(Divides(q, n) /\ IsPrime(q))

LastExponent(n) ==
  LET r == LastPrime(n)
  IN CHOOSE k \in 1..n : Divides(Power(r, k), n) /\ ~Divides(Power(r, k + 1), n)

\* The second quadratic extension where p = 3 mod 4: its modulus is found in the
\* field of p^2 elements, which it asks for once more.
IsSecondQuadratic(p, r, k) == r # p /\ r = 2 /\ p % 4 = 3 /\ k = 2

\* The degrees that building the field of degree n over F_p asks for, in order: the
\* coefficients of the modulus, then the base of the tower.
Subdegrees(p, n) ==
  IF n = 1 THEN <<>>
  ELSE LET r == LastPrime(n)
           k == LastExponent(n)
       IN <<Power(r, k - 1)>>
            \o (IF IsSecondQuadratic(p, r, k) THEN <<2>> ELSE <<>>)
            \o <<n \div r>>
=============================================================================
