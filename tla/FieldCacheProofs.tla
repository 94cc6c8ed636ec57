--------------------------- MODULE FieldCacheProofs ---------------------------
(***************************************************************************)
(* What module FieldCache keeps true for all threads and requests.         *)
(***************************************************************************)
EXTENDS FieldCache, PathLemmas

(***************************************************************************)
(* Powers that stop at OrderLimit (checked_pow).                           *)
(***************************************************************************)

\* The table of powers that Power looks up.
IsTable(table, b, n) ==
  table = [k \in 0..n |-> IF k = 0 THEN 1 ELSE Saturated[table[k - 1] * b]]

\* The stop keeps numbers numbers, and positive ones positive if the limit is.
LEMMA SaturatedType ==
  \A n \in Nat : /\ Saturated[n] \in Nat
                 /\ Saturated[n] <= n
                 /\ n < OrderLimit => Saturated[n] = n
                 /\ ~(n < OrderLimit) => Saturated[n] = OrderLimit
BY OrderAssumption DEF Saturated

\* Two tables have the same numbers.
LEMMA TablesAgree ==
  ASSUME NEW b \in Nat, NEW m \in Nat, NEW n \in Nat, NEW t, NEW u,
         IsTable(t, b, m), IsTable(u, b, n), m <= n
  PROVE  \A k \in 0..m : t[k] \in Nat /\ t[k] = u[k]
<1> DEFINE S == {k \in Nat : k <= m => t[k] \in Nat /\ t[k] = u[k]}
<1>1. 0 \in S
  BY DEF IsTable
<1>2. ASSUME NEW k \in Nat, k \in S
      PROVE  k + 1 \in S
  <2> SUFFICES ASSUME k + 1 <= m
               PROVE  t[k + 1] \in Nat /\ t[k + 1] = u[k + 1]
    OBVIOUS
  <2>1. t[k] \in Nat /\ t[k] = u[k]
    BY <1>2
  <2>2. k + 1 \in 0..m /\ k + 1 \in 0..n /\ k + 1 # 0 /\ (k + 1) - 1 = k
    OBVIOUS
  <2>3. t[k + 1] = Saturated[t[k] * b] /\ u[k + 1] = Saturated[u[k] * b]
    BY <2>2 DEF IsTable
  <2>4. t[k] * b \in Nat
    BY <2>1
  <2> QED BY <2>1, <2>3, <2>4, SaturatedType
<1>3. \A k \in Nat : k \in S
  BY <1>1, <1>2, Induction
<1> QED BY <1>3

\* There is a table of each length.
LEMMA TableExists ==
  ASSUME NEW b \in Nat
  PROVE  \A n \in Nat : \E t : IsTable(t, b, n)
<1> DEFINE S == {n \in Nat : \E t : IsTable(t, b, n)}
<1>1. 0 \in S
  <2>1. IsTable([k \in 0..0 |-> 1], b, 0)
    BY DEF IsTable
  <2> QED BY <2>1
<1>2. ASSUME NEW n \in Nat, n \in S
      PROVE  n + 1 \in S
  <2>1. PICK t : IsTable(t, b, n)
    BY <1>2
  <2> DEFINE u == [k \in 0..(n + 1) |-> IF k <= n THEN t[k] ELSE Saturated[t[n] * b]]
  <2>2. ASSUME NEW k \in 0..(n + 1)
        PROVE  u[k] = IF k = 0 THEN 1 ELSE Saturated[u[k - 1] * b]
    <3>1. CASE k = 0
      BY <2>1, <3>1 DEF IsTable
    <3>2. CASE k # 0 /\ k <= n
      <4>1. k - 1 \in 0..(n + 1) /\ k - 1 <= n /\ k \in 0..n
        BY <3>2
      <4> QED BY <2>1, <3>2, <4>1 DEF IsTable
    <3>3. CASE k = n + 1
      BY <3>3
    <3> QED BY <3>1, <3>2, <3>3
  <2>3. IsTable(u, b, n + 1)
    BY <2>2 DEF IsTable
  <2> QED BY <2>3
<1>3. \A n \in Nat : n \in S
  BY <1>1, <1>2, Induction
<1> QED BY <1>3

\* Power is what its recursion says.
LEMMA PowerEquation ==
  ASSUME NEW b \in Nat, NEW n \in Nat
  PROVE  /\ Power(b, 0) = 1
         /\ Power(b, n) \in Nat
         /\ Power(b, n + 1) = Saturated[Power(b, n) * b]
<1> DEFINE T(m) == CHOOSE t : IsTable(t, b, m)
<1>1. \A m \in Nat : IsTable(T(m), b, m)
  BY TableExists
<1>2. \A m \in Nat : Power(b, m) = T(m)[m]
  BY DEF Power, IsTable
<1> HIDE DEF T
<1>3. Power(b, 0) = 1
  BY <1>1, <1>2 DEF IsTable
<1>4. T(n)[n] \in Nat /\ T(n)[n] = T(n + 1)[n]
  BY <1>1, TablesAgree
<1>5. T(n + 1)[n + 1] = Saturated[T(n + 1)[n] * b]
  BY <1>1 DEF IsTable
<1> QED BY <1>2, <1>3, <1>4, <1>5

\* Positive while the stop is positive.
LEMMA PowerGrows ==
  ASSUME NEW b \in Nat, b >= 2, OrderLimit > 0
  PROVE  \A n \in Nat : /\ Power(b, n) >= 1
                        /\ Power(b, n) = OrderLimit \/ Power(b, n) > n
<1> DEFINE S == {n \in Nat : Power(b, n) >= 1 /\ (Power(b, n) = OrderLimit \/ Power(b, n) > n)}
<1>1. 0 \in S
  <2>1. Power(b, 0) = 1
    BY PowerEquation, 0 \in Nat
  <2> QED BY <2>1
<1>2. ASSUME NEW n \in Nat, n \in S
      PROVE  n + 1 \in S
  <2> DEFINE m == Power(b, n)
  <2>1. m \in Nat /\ Power(b, n + 1) = Saturated[m * b] /\ m >= 1 /\ (m = OrderLimit \/ m > n)
    BY <1>2, PowerEquation
  <2> HIDE DEF m
  <2>2. m * b \in Nat /\ m * b >= m + m
    <3>1. \E c \in Nat : b = c + 2
      <4>1. b - 2 \in Nat /\ b = (b - 2) + 2
        OBVIOUS
      <4> QED BY <4>1
    <3>2. PICK c \in Nat : b = c + 2
      BY <3>1
    <3>3. m * b = m * c + m + m /\ m * c \in Nat
      BY <2>1, <3>2
    <3> QED BY <2>1, <3>3
  <2>3. \/ m * b < OrderLimit /\ Power(b, n + 1) = m * b
        \/ ~(m * b < OrderLimit) /\ Power(b, n + 1) = OrderLimit
    BY <2>1, <2>2, SaturatedType
  <2>4. CASE m * b < OrderLimit /\ Power(b, n + 1) = m * b
    <3>1. m # OrderLimit
      BY <2>1, <2>2, <2>4, OrderAssumption
    <3> QED BY <2>1, <2>2, <2>4, <3>1, OrderAssumption
  <2>5. CASE ~(m * b < OrderLimit) /\ Power(b, n + 1) = OrderLimit
    BY <2>1, <2>5, OrderAssumption
  <2> QED BY <2>3, <2>4, <2>5
<1>3. \A n \in Nat : n \in S
  BY <1>1, <1>2, Induction
<1> QED BY <1>3

\* A power below the stop is the exact one, and those before it are smaller.
LEMMA PowerBelow ==
  ASSUME NEW b \in Nat, b >= 2, NEW n \in Nat, Power(b, n + 1) < OrderLimit
  PROVE  /\ Power(b, n + 1) = Power(b, n) * b
         /\ 1 <= Power(b, n) /\ Power(b, n) < Power(b, n + 1)
         /\ Power(b, n) < OrderLimit
<1>1. OrderLimit > 0
  BY PowerEquation, OrderAssumption
<1> DEFINE m == Power(b, n)
<1>2. m \in Nat /\ m >= 1 /\ Power(b, n + 1) = Saturated[m * b]
  BY <1>1, PowerEquation, PowerGrows
<1> HIDE DEF m
<1>3. m * b \in Nat /\ m * b > m
  <2>1. \E c \in Nat : b = c + 2
    <3>1. b - 2 \in Nat /\ b = (b - 2) + 2
      OBVIOUS
    <3> QED BY <3>1
  <2>2. PICK c \in Nat : b = c + 2
    BY <2>1
  <2>3. m * b = m * c + m + m /\ m * c \in Nat
    BY <1>2, <2>2
  <2> QED BY <1>2, <2>3
<1>4. m * b < OrderLimit /\ Power(b, n + 1) = m * b
  BY <1>2, <1>3, SaturatedType
<1> QED BY <1>2, <1>3, <1>4, OrderAssumption DEF m

\* Whatever comes after a power that is not below the stop is not below it either.
LEMMA PowerPrefix ==
  ASSUME NEW b \in Nat, b >= 2, NEW m \in Nat, Power(b, m) < OrderLimit
  PROVE  \A n \in 0..m : Power(b, n) < OrderLimit
<1> DEFINE S == {k \in Nat : k <= m => Power(b, m - k) < OrderLimit}
<1>1. 0 \in S
  OBVIOUS
<1>2. ASSUME NEW k \in Nat, k \in S
      PROVE  k + 1 \in S
  <2> SUFFICES ASSUME k + 1 <= m
               PROVE  Power(b, m - (k + 1)) < OrderLimit
    OBVIOUS
  <2>1. m - (k + 1) \in Nat /\ (m - (k + 1)) + 1 = m - k
    OBVIOUS
  <2>2. Power(b, (m - (k + 1)) + 1) < OrderLimit
    BY <1>2, <2>1
  <2> QED BY <2>1, <2>2, PowerBelow
<1>3. \A k \in Nat : k \in S
  BY <1>1, <1>2, Induction
<1>4. ASSUME NEW n \in 0..m
      PROVE  Power(b, n) < OrderLimit
  <2>1. m - n \in Nat /\ m - n <= m /\ m - (m - n) = n
    OBVIOUS
  <2> QED BY <1>3, <2>1
<1> QED BY <1>4

(***************************************************************************)
(* Divisors (factorization).                                               *)
(***************************************************************************)

\* Division has no remainder exactly for multiples.
LEMMA DividesIff ==
  ASSUME NEW d \in Nat, d > 0, NEW n \in Nat
  PROVE  Divides(d, n) <=> \E q \in Nat : n = d * q
<1> DEFINE e == n \div d
           r == n % d
<1>1. n = d * e + r /\ e \in Nat /\ r \in 0..(d - 1)
  OBVIOUS
<1> HIDE DEF e, r
<1>2. ASSUME NEW q \in Nat, n = d * q
      PROVE  r = 0
  <2>1. CASE q = e
    BY <1>1, <1>2, <2>1
  <2>2. CASE q < e
    <3>1. PICK c \in Nat : e = q + c + 1
      <4>1. e - (q + 1) \in Nat /\ e = q + (e - (q + 1)) + 1
        BY <1>1, <2>2
      <4> QED BY <4>1
    <3>2. d * e = d * q + d * c + d /\ d * c \in Nat /\ d * q \in Nat
      BY <3>1
    <3> QED BY <1>1, <1>2, <3>2
  <2>3. CASE q > e
    <3>1. PICK c \in Nat : q = e + c + 1
      <4>1. q - (e + 1) \in Nat /\ q = e + (q - (e + 1)) + 1
        BY <1>1, <2>3
      <4> QED BY <4>1
    <3>2. d * q = d * e + d * c + d /\ d * c \in Nat /\ d * e \in Nat
      BY <1>1, <3>1
    <3> QED BY <1>1, <1>2, <3>2
  <2> QED BY <1>1, <2>1, <2>2, <2>3
<1>3. Divides(d, n) <=> r = 0
  BY DEF Divides, r
<1> QED BY <1>1, <1>2, <1>3

\* A divisor of a positive number is at most that number, and what divides it divides
\* the number too.
LEMMA DividesOrder ==
  ASSUME NEW d \in Nat, d > 0, NEW n \in Nat, n > 0, Divides(d, n)
  PROVE  /\ d <= n
         /\ \A c \in Nat : c > 0 /\ Divides(c, d) => Divides(c, n)
<1>1. PICK q \in Nat : n = d * q
  BY DividesIff
<1>2. d <= n
  <2>1. PICK p \in Nat : q = p + 1
    <3>1. q # 0
      BY <1>1
    <3> QED BY <3>1, q - 1 \in Nat
  <2>2. n = d * p + d /\ d * p \in Nat
    BY <1>1, <2>1
  <2> QED BY <2>2
<1>3. ASSUME NEW c \in Nat, c > 0, Divides(c, d)
      PROVE  Divides(c, n)
  <2>1. PICK e \in Nat : d = c * e
    BY <1>3, DividesIff
  <2>2. n = c * (e * q) /\ e * q \in Nat
    BY <1>1, <2>1
  <2> QED BY <1>3, <2>2, DividesIff
<1> QED BY <1>2, <1>3

\* A number from 2 on has a greatest prime divisor, the one that LastPrime chooses.
LEMMA LastPrimeIs ==
  ASSUME NEW n \in Nat, n >= 2
  PROVE  LastPrime(n) \in 2..n /\ Divides(LastPrime(n), n) /\ IsPrime(LastPrime(n))
<1> DEFINE D == {d \in 2..n : Divides(d, n)}
           P == {d \in 2..n : Divides(d, n) /\ IsPrime(d)}
<1>1. PICK d \in D : \A e \in D : d <= e
  <2>1. n = n * 1
    OBVIOUS
  <2>2. n \in D
    BY <2>1, DividesIff
  <2>3. D \in SUBSET Nat /\ D # {}
    BY <2>2
  <2> QED BY <2>3, LeastNatural
<1>2. IsPrime(d)
  <2>1. SUFFICES ASSUME NEW e \in 2..(d - 1), Divides(e, d)
                 PROVE  FALSE
    BY <1>1 DEF IsPrime
  <2>2. Divides(e, n)
    BY <1>1, <2>1, DividesOrder
  <2> QED BY <1>1, <2>1, <2>2
<1>3. P \in SUBSET (1..n) /\ P # {}
  BY <1>1, <1>2
<1>4. Max(P) \in P /\ \A q \in P : q <= Max(P)
  BY <1>3, MaxOfPositions
<1>5. \E r \in 2..n : /\ Divides(r, n) /\ IsPrime(r)
                      /\ \A q \in (r + 1)..n : ~(Divides(q, n) /\ IsPrime(q))
  <2>1. \A q \in (Max(P) + 1)..n : ~(Divides(q, n) /\ IsPrime(q))
    BY <1>4
  <2> QED BY <1>4, <2>1
<1> QED BY <1>5 DEF LastPrime

\* The exponent of the greatest prime: that power of it divides the number, the next
\* does not.
LEMMA LastExponentIs ==
  ASSUME NEW n \in Nat, n >= 2, n < OrderLimit
  PROVE  LET r == LastPrime(n)
             k == LastExponent(n)
         IN k \in 1..n /\ Divides(Power(r, k), n) /\ ~Divides(Power(r, k + 1), n)
<1> DEFINE r == LastPrime(n)
           K == {k \in 1..n : Divides(Power(r, k), n)}
<1>1. r \in 2..n /\ r \in Nat /\ r >= 2 /\ Divides(r, n)
  BY LastPrimeIs
<1> HIDE DEF r
<1>2. OrderLimit > 0
  BY OrderAssumption
<1>3. 1 \in K
  <2>1. Power(r, 0) = 1 /\ Power(r, 0 + 1) = Saturated[Power(r, 0) * r]
    BY <1>1, PowerEquation, 0 \in Nat
  <2>2. Power(r, 1) = Saturated[r]
    BY <1>1, <2>1
  <2>3. Saturated[r] = r
    BY <1>1, SaturatedType, OrderAssumption
  <2> QED BY <1>1, <2>2, <2>3
<1>4. K \in SUBSET (1..n) /\ K # {}
  BY <1>3
<1>5. Max(K) \in K /\ \A k \in K : k <= Max(K)
  BY <1>4, MaxOfPositions
<1>6. ~Divides(Power(r, Max(K) + 1), n)
  <2>1. CASE Max(K) < n
    BY <1>5, <2>1
  <2>2. CASE Max(K) = n
    <3>1. Power(r, n + 1) \in Nat /\ (Power(r, n + 1) = OrderLimit \/ Power(r, n + 1) > n + 1)
      <4>1. n + 1 \in Nat
        OBVIOUS
      <4> QED BY <1>1, <1>2, <4>1, PowerGrows, PowerEquation
    <3>2. Power(r, n + 1) > n
      BY <3>1, OrderAssumption
    <3> QED BY <2>2, <3>1, <3>2, DividesOrder
  <2> QED BY <1>5, <2>1, <2>2
<1>7. \E k \in 1..n : Divides(Power(r, k), n) /\ ~Divides(Power(r, k + 1), n)
  BY <1>5, <1>6
<1> QED BY <1>7 DEF LastExponent, r

\* The degrees that a field's construction asks for.
Smaller(n) == {m \in Nat : m >= 1 /\ m < n /\ Divides(m, n)}

\* What the construction of the field of degree n asks for: degrees of proper
\* subfields.
LEMMA SubdegreesSmaller ==
  ASSUME NEW p, NEW n \in Nat, n >= 1, n < OrderLimit
  PROVE  Subdegrees(p, n) \in Seq(Smaller(n))
<1>1. CASE n = 1
  BY <1>1 DEF Subdegrees
<1>2. CASE n >= 2
  <2> DEFINE r == LastPrime(n)
             k == LastExponent(n)
  <2>1. r \in 2..n /\ r \in Nat /\ r >= 2 /\ Divides(r, n)
    BY <1>2, LastPrimeIs
  <2>2. k \in 1..n /\ Divides(Power(r, k), n)
    BY <1>2, LastExponentIs
  <2>3. Subdegrees(p, n) = <<Power(r, k - 1)>>
                             \o (IF IsSecondQuadratic(p, r, k) THEN <<2>> ELSE <<>>)
                             \o <<n \div r>>
    BY <1>2 DEF Subdegrees
  <2> HIDE DEF r, k
  <2>4. k - 1 \in Nat /\ (k - 1) + 1 = k
    BY <2>2
  <2>5. Power(r, k) \in Nat /\ Power(r, k) <= n /\ Power(r, k) > 0
    <3>1. OrderLimit > 0
      BY OrderAssumption
    <3>2. k \in Nat
      BY <2>2
    <3>3. Power(r, k) \in Nat /\ Power(r, k) >= 1
      BY <2>1, <3>1, <3>2, PowerGrows, PowerEquation
    <3> QED BY <1>2, <2>2, <3>3, DividesOrder
  <2>6. Power(r, k) < OrderLimit
    BY <2>5, OrderAssumption
  <2>7. /\ Power(r, k) = Power(r, k - 1) * r
        /\ 1 <= Power(r, k - 1) /\ Power(r, k - 1) < Power(r, k)
    BY <2>1, <2>4, <2>6, PowerBelow
  <2>8. Power(r, k - 1) \in Smaller(n)
    <3>1. Power(r, k - 1) \in Nat
      BY <2>1, <2>4, PowerEquation
    <3>2. Divides(Power(r, k - 1), Power(r, k))
      BY <2>1, <2>5, <2>7, <3>1, DividesIff
    <3>3. Divides(Power(r, k - 1), n)
      BY <1>2, <2>2, <2>5, <2>7, <3>1, <3>2, DividesOrder
    <3> QED BY <2>5, <2>7, <3>1, <3>3 DEF Smaller
  <2>9. n \div r \in Smaller(n)
    <3>1. PICK q \in Nat : n = r * q
      <4>1. r > 0
        BY <2>1
      <4> QED BY <2>1, <4>1, DividesIff
    <3>2. n \div r = q
      <4> DEFINE e == n \div r
      <4>1. n = (r * e) + (n % r) /\ e \in Nat
        BY <2>1
      <4>2. n % r = 0
        BY <2>1 DEF Divides
      <4> HIDE DEF e
      <4>3. r * e = r * q
        <5>1. r * e \in Nat
          BY <2>1, <4>1
        <5> QED BY <3>1, <4>1, <4>2, <5>1
      <4>4. e = q
        BY <2>1, <3>1, <4>1, <4>3
      <4> QED BY <4>4 DEF e
    <3>3. q >= 1 /\ q < n
      <4>1. q >= 1
        BY <1>2, <2>1, <3>1
      <4>2. PICK c \in Nat : r = c + 2
        BY <2>1, r - 2 \in Nat
      <4>3. n = c * q + q + q /\ c * q \in Nat
        BY <3>1, <4>2
      <4> QED BY <4>1, <4>3
    <3>4. Divides(q, n)
      <4>1. n = q * r
        BY <2>1, <3>1
      <4> QED BY <2>1, <3>3, <4>1, DividesIff
    <3> QED BY <3>2, <3>3, <3>4 DEF Smaller
  <2>10. IsSecondQuadratic(p, r, k) => 2 \in Smaller(n)
    <3>1. SUFFICES ASSUME r = 2, k = 2
                   PROVE  2 < n
      BY <2>1 DEF IsSecondQuadratic, Smaller
    <3>2. Power(r, 0) = 1 /\ Power(r, 1) \in Nat
      BY <2>1, PowerEquation, 0 \in Nat, 1 \in Nat
    <3>3. Power(r, 1) = Power(r, 0) * r
      <4>1. Power(r, 0 + 1) < OrderLimit
        BY <2>1, <2>6, <2>7, <3>1, <3>2, OrderAssumption
      <4>2. Power(r, 0 + 1) = Power(r, 0) * r
        BY <2>1, <4>1, PowerBelow, 0 \in Nat
      <4> QED BY <4>2
    <3> QED BY <2>5, <2>7, <3>1, <3>2, <3>3
  <2> DEFINE more == IF IsSecondQuadratic(p, r, k) THEN <<2>> ELSE <<>>
  <2>11. more \in Seq(Smaller(n))
    BY <2>10
  <2> HIDE DEF more
  <2>12. <<Power(r, k - 1)>> \in Seq(Smaller(n)) /\ <<n \div r>> \in Seq(Smaller(n))
    BY <2>8, <2>9
  <2>13. <<Power(r, k - 1)>> \o more \in Seq(Smaller(n))
    BY <2>11, <2>12, ConcatElements
  <2>14. <<Power(r, k - 1)>> \o more \o <<n \div r>> \in Seq(Smaller(n))
    BY <2>12, <2>13, ConcatElements
  <2> QED BY <2>3, <2>14 DEF more
<1> QED BY <1>1, <1>2

\* A field of a valid descriptor is built from fields of valid descriptors, which are
\* smaller: so standard_field's recursion ends, with no error on the way.
THEOREM DescriptorsShrink ==
  ASSUME NEW d \in Descriptor, IsValid(d)
  PROVE  /\ d[2] >= 1
         /\ Subdegrees(d[1], d[2]) \in Seq(Smaller(d[2]))
         /\ \A m \in Smaller(d[2]) : <<d[1], m>> \in Descriptor /\ IsValid(<<d[1], m>>)
<1>1. /\ d[1] \in Nat /\ d[2] \in Nat /\ d[2] >= 1
      /\ d[1] >= 2 /\ IsPrime(d[1]) /\ Power(d[1], d[2]) < OrderLimit
  BY DEF Descriptor, IsValid, IsPrime, Order
<1>2. d[2] < OrderLimit
  <2> DEFINE m == Power(d[1], d[2])
  <2>1. m \in Nat
    BY <1>1, PowerEquation
  <2>2. m < OrderLimit
    BY <1>1
  <2>3. OrderLimit > 0
    BY <2>1, <2>2, OrderAssumption
  <2>4. m = OrderLimit \/ m > d[2]
    BY <1>1, <2>3, PowerGrows
  <2> HIDE DEF m
  <2> QED BY <1>1, <2>1, <2>2, <2>4, OrderAssumption
<1>3. ASSUME NEW m \in Smaller(d[2])
      PROVE  <<d[1], m>> \in Descriptor /\ IsValid(<<d[1], m>>)
  <2>1. m \in Nat /\ m >= 1 /\ m \in 0..d[2]
    BY <1>1 DEF Smaller
  <2>2. Power(d[1], m) < OrderLimit
    BY <1>1, <2>1, PowerPrefix
  <2> QED BY <1>1, <2>1, <2>2 DEF Descriptor, IsValid, Order
<1> QED BY <1>1, <1>2, <1>3, SubdegreesSmaller

(***************************************************************************)
(* Lists: the stack of the calls, and the parts of one.                    *)
(***************************************************************************)

\* The empty list, and the list of one.
LEMMA ListShort ==
  /\ IsList(<<>>) /\ Len(<<>>) = 0
  /\ \A x : IsList(<<x>>) /\ Len(<<x>>) = 1 /\ <<x>>[1] = x
<1>1. \A x : <<>> \in Seq({x}) /\ <<x>> \in Seq({x})
  OBVIOUS
<1> QED BY <1>1, ListDef

\* A list without its last element.
LEMMA ListFront ==
  ASSUME NEW s, IsList(s), s # <<>>
  PROVE  LET r == SubSeq(s, 1, Len(s) - 1)
         IN /\ IsList(r) /\ Len(r) = Len(s) - 1 /\ Len(s) >= 1
            /\ \A i \in 1..(Len(s) - 1) : r[i] = s[i]
<1> DEFINE S == {s[i] : i \in DOMAIN s}
<1>1. s \in Seq(S)
  BY ListDef
<1> HIDE DEF S
<1>2. Len(s) \in Nat /\ Len(s) # 0
  BY <1>1
<1>3. SubSeq(s, 1, Len(s) - 1) \in Seq(S)
  BY <1>1, <1>2
<1>4. IsList(SubSeq(s, 1, Len(s) - 1))
  BY <1>3, ListDef
<1>5. /\ Len(SubSeq(s, 1, Len(s) - 1)) = Len(s) - 1
      /\ \A i \in 1..(Len(s) - 1) : SubSeq(s, 1, Len(s) - 1)[i] = s[i]
  BY <1>1, <1>2
<1> QED BY <1>2, <1>4, <1>5

\* A list with an element replaced.
LEMMA ListUpdate ==
  ASSUME NEW s, IsList(s), NEW k \in 1..Len(s), NEW x
  PROVE  LET r == [s EXCEPT ![k] = x]
         IN /\ IsList(r) /\ Len(r) = Len(s)
            /\ \A i \in 1..Len(s) : r[i] = IF i = k THEN x ELSE s[i]
<1> DEFINE S == {s[i] : i \in DOMAIN s} \cup {x}
<1>1. s \in Seq(S)
  BY ListDef
<1>2. x \in S
  OBVIOUS
<1> HIDE DEF S
<1>3. [s EXCEPT ![k] = x] \in Seq(S)
  BY <1>1, <1>2
<1>4. IsList([s EXCEPT ![k] = x])
  BY <1>3, ListDef
<1> QED BY <1>1, <1>2, <1>4

\* Lists with the same elements in the same places.
LEMMA ListsEqual ==
  ASSUME NEW s, NEW r, IsList(s), IsList(r), Len(s) = Len(r),
         \A i \in 1..Len(s) : s[i] = r[i]
  PROVE  s = r
<1> DEFINE S == {s[i] : i \in DOMAIN s} \cup {r[i] : i \in DOMAIN r}
<1>1. s \in Seq(S) /\ r \in Seq(S)
  BY ListDef
<1> HIDE DEF S
<1>2. s = [i \in 1..Len(s) |-> s[i]] /\ r = [i \in 1..Len(s) |-> r[i]]
  BY <1>1
<1> QED BY <1>2

(***************************************************************************)
(* The inductive invariant.                                                *)
(***************************************************************************)

WantedBy(f) == Subdegrees(f.descriptor[1], f.descriptor[2])

\* AreParts for a given cache.
PartsIn(c, d, parts) ==
  LET wanted == Subdegrees(d[1], d[2]) IN
  \A i \in DOMAIN parts :
    /\ i \in DOMAIN wanted
    /\ <<d[1], wanted[i]>> \in DOMAIN c
    /\ parts[i] = c[<<d[1], wanted[i]>>]

\* A call in progress while the cache is c: the parts it has so far are the first ones
\* it wants, and it goes on to the insertion with all of them.
CallOK(c, f) ==
  /\ IsFrame(f)
  /\ IsValid(f.descriptor)
  /\ IsList(f.parts)
  /\ Len(f.parts) <= Len(WantedBy(f))
  /\ PartsIn(c, f.descriptor, f.parts)
  /\ f.pc \in {"insert", "put"} => Len(f.parts) = Len(WantedBy(f))

\* f waits for its call g, that brings the next part it wants.
Calls(f, g) ==
  /\ f.pc = "build"
  /\ Len(f.parts) < Len(WantedBy(f))
  /\ g.descriptor = <<f.descriptor[1], WantedBy(f)[Len(f.parts) + 1]>>

StackOK(t) ==
  /\ IsList(stack[t])
  /\ \A i \in 1..Len(stack[t]) : CallOK(cache, stack[t][i])
  /\ \A i \in 1..(Len(stack[t]) - 1) : Calls(stack[t][i], stack[t][i + 1])

\* The requests of t are those answered, the one in progress, and those it has not
\* made yet, in this order.
Begun(t) == Len(answers[t]) + (IF stack[t] = <<>> THEN 0 ELSE 1)

RequestsOK(t) ==
  /\ IsList(answers[t])
  /\ Begun(t) + Len(todo[t]) = Len(Requests[t])
  /\ \A j \in 1..Len(todo[t]) : todo[t][j] = Requests[t][Begun(t) + j]
  /\ stack[t] # <<>> => stack[t][1].descriptor = Requests[t][Begun(t)]

AnswersOK(t) ==
  \A i \in 1..Len(answers[t]) :
    LET d == Requests[t][i] IN
    IF IsValid(d) THEN d \in DOMAIN cache /\ answers[t][i] = Ok(cache[d])
    ELSE answers[t][i] = Err

ThreadOK(t) == StackOK(t) /\ RequestsOK(t) /\ AnswersOK(t)

LockOK ==
  /\ lock \in Threads \cup {Free}
  /\ \A t \in Threads : lock = t <=> At(t, "get") \/ At(t, "put")

CacheOK ==
  \A d \in DOMAIN cache :
    /\ d \in Descriptor /\ IsValid(d)
    /\ cache[d] = Field(d, cache[d].parts)
    /\ IsList(cache[d].parts)
    /\ Len(cache[d].parts) = Len(Subdegrees(d[1], d[2]))
    /\ PartsIn(cache, d, cache[d].parts)

IInv ==
  /\ DOMAIN stack = Threads /\ DOMAIN answers = Threads
  /\ todo \in [Threads -> Seq(Descriptor)]
  /\ LockOK
  /\ CacheOK
  /\ \A t \in Threads : ThreadOK(t)

\* The invariant says what the properties say.
LEMMA IInvImplies == IInv => TypeOK /\ CacheConsistent /\ AnswersRight
<1> SUFFICES ASSUME IInv
             PROVE  TypeOK /\ CacheConsistent /\ AnswersRight
  OBVIOUS
<1>1. ASSUME NEW t \in Threads
      PROVE  /\ DOMAIN stack[t] = 1..Len(stack[t])
             /\ DOMAIN answers[t] = 1..Len(answers[t])
             /\ Len(stack[t]) \in Nat
  BY ListDef DEF IInv, ThreadOK, StackOK, RequestsOK
<1>2. ASSUME NEW t \in Threads, NEW i \in DOMAIN stack[t]
      PROVE  /\ IsFrame(stack[t][i])
             /\ i < Len(stack[t]) => stack[t][i].pc = "build"
  <2>1. i \in 1..Len(stack[t]) /\ (i < Len(stack[t]) => i \in 1..(Len(stack[t]) - 1))
    BY <1>1
  <2>2. CallOK(cache, stack[t][i])
    BY <2>1 DEF IInv, ThreadOK, StackOK
  <2>3. i < Len(stack[t]) => Calls(stack[t][i], stack[t][i + 1])
    BY <2>1 DEF IInv, ThreadOK, StackOK
  <2> QED BY <2>2, <2>3 DEF CallOK, Calls
<1>3. TypeOK
  BY <1>1, <1>2 DEF IInv, TypeOK, LockOK, CacheOK
<1>4. CacheConsistent
  BY DEF IInv, CacheOK, CacheConsistent, Field, AreParts, PartsIn
<1>5. AnswersRight
  BY <1>1 DEF IInv, ThreadOK, AnswersOK, AnswersRight
<1> QED BY <1>3, <1>4, <1>5

(***************************************************************************)
(* Steps.                                                                  *)
(***************************************************************************)

\* What the cache has it keeps.
CacheKept == \A d \in DOMAIN cache : d \in DOMAIN cache' /\ cache'[d] = cache[d]

\* Calls stay right while the cache keeps what it has.
LEMMA CallsStay ==
  ASSUME CacheKept
  PROVE  /\ \A d, parts : PartsIn(cache, d, parts) => PartsIn(cache', d, parts)
         /\ \A f : CallOK(cache, f) => CallOK(cache', f)
<1>1. ASSUME NEW d, NEW parts, PartsIn(cache, d, parts)
      PROVE  PartsIn(cache', d, parts)
  BY <1>1 DEF CacheKept, PartsIn
<1> QED BY <1>1 DEF CallOK

\* A thread is not disturbed by others.
LEMMA OthersStay ==
  ASSUME CacheKept, NEW t, ThreadOK(t),
         stack'[t] = stack[t], answers'[t] = answers[t], todo'[t] = todo[t]
  PROVE  ThreadOK(t)'
<1>1. StackOK(t)'
  BY CallsStay DEF ThreadOK, StackOK
<1>2. RequestsOK(t)'
  BY DEF ThreadOK, RequestsOK, Begun
<1>3. AnswersOK(t)'
  BY DEF ThreadOK, AnswersOK, CacheKept
<1> QED BY <1>1, <1>2, <1>3 DEF ThreadOK

\* A thread whose innermost call goes on within itself.
LEMMA InnermostStays ==
  ASSUME CacheKept, IInv, NEW t \in Threads, stack[t] # <<>>,
         NEW pc \in {"lookup", "get", "build", "insert", "put"},
         pc \in {"insert", "put"} => Len(Innermost(t).parts) = Len(Wanted(t)),
         Goto(t, pc), answers'[t] = answers[t], todo'[t] = todo[t]
  PROVE  ThreadOK(t)' /\ stack'[t] # <<>> /\ Innermost(t)'.pc = pc
<1> DEFINE s == stack[t]
           n == Len(s)
           g == [s[n] EXCEPT !.pc = pc]
<1>1. ThreadOK(t) /\ IsList(s) /\ n \in 1..n /\ n \in Nat
  <2>1. ThreadOK(t) /\ IsList(s)
    BY DEF IInv, ThreadOK, StackOK
  <2> QED BY <2>1, ListFront, ListDef
<1>2. stack'[t] = [s EXCEPT ![n] = g]
  BY DEF IInv, Goto
<1>3. CallOK(cache, s[n])
  BY <1>1 DEF ThreadOK, StackOK
<1>4. g = [descriptor |-> s[n].descriptor, pc |-> pc, parts |-> s[n].parts]
  BY <1>3 DEF CallOK, IsFrame
<1> HIDE DEF g
<1>5. CallOK(cache', g)
  <2>1. CallOK(cache', s[n])
    BY <1>3, CallsStay
  <2> QED BY <2>1, <1>4 DEF CallOK, IsFrame, WantedBy, Wanted, Innermost
<1> DEFINE r == stack'[t]
<1> HIDE DEF s, n
<1>6. /\ IsList(r) /\ Len(r) = n
      /\ \A i \in 1..n : r[i] = IF i = n THEN g ELSE s[i]
  BY <1>1, <1>2, ListUpdate DEF n
<1> HIDE DEF r
<1>7. r # <<>> /\ r[Len(r)].pc = pc
  BY <1>1, <1>4, <1>6, ListShort
<1>8. StackOK(t)'
  <2>1. ASSUME NEW i \in 1..n
        PROVE  CallOK(cache', r[i])
    BY <1>1, <1>5, <1>6, CallsStay DEF ThreadOK, StackOK, s, n
  <2>2. ASSUME NEW i \in 1..(n - 1)
        PROVE  Calls(r[i], r[i + 1])
    <3>1. i \in 1..n /\ i + 1 \in 1..n /\ i # n /\ r[i] = s[i] /\ Calls(s[i], s[i + 1])
      BY <1>1, <1>6 DEF ThreadOK, StackOK, s, n
    <3>2. r[i + 1].descriptor = s[i + 1].descriptor
      BY <1>4, <1>6, <3>1
    <3> QED BY <3>1, <3>2 DEF Calls
  <2> QED BY <1>6, <2>1, <2>2 DEF StackOK, r
<1>9. RequestsOK(t)'
  <2>1. r[1].descriptor = s[1].descriptor
    BY <1>1, <1>4, <1>6
  <2> QED BY <1>1, <1>7, <2>1 DEF ThreadOK, RequestsOK, Begun, r, s
<1>10. AnswersOK(t)'
  BY <1>1 DEF ThreadOK, AnswersOK, CacheKept
<1> QED BY <1>7, <1>8, <1>9, <1>10 DEF ThreadOK, Innermost, r

\* A thread whose innermost call returns the field that the cache has for it.
LEMMA ReturnStays ==
  ASSUME CacheKept, IInv, NEW t \in Threads, stack[t] # <<>>, NEW field,
         Innermost(t).descriptor \in DOMAIN cache',
         field = cache'[Innermost(t).descriptor],
         Return(t, field), todo'[t] = todo[t]
  PROVE  ThreadOK(t)' /\ ~At(t, "get")' /\ ~At(t, "put")'
<1> DEFINE s == stack[t]
           n == Len(s)
<1>1. /\ StackOK(t) /\ RequestsOK(t) /\ AnswersOK(t)
      /\ IsList(s) /\ n \in Nat /\ n >= 1 /\ IsList(answers[t])
      /\ IsValid(s[n].descriptor)
  <2>1. StackOK(t) /\ RequestsOK(t) /\ AnswersOK(t)
    BY DEF IInv, ThreadOK
  <2>2. IsList(s) /\ n \in Nat /\ n >= 1
    BY <2>1, ListFront, ListDef DEF StackOK
  <2>3. CallOK(cache, s[n])
    BY <2>1, <2>2 DEF StackOK
  <2> QED BY <2>1, <2>2, <2>3 DEF CallOK, RequestsOK
<1>2. CASE n = 1
  <2>1. stack'[t] = <<>> /\ answers'[t] = Append(answers[t], Ok(field))
    BY <1>2 DEF Return, IInv
  <2> DEFINE a == answers[t]
             b == answers'[t]
  <2>2. /\ IsList(b) /\ Len(b) = Len(a) + 1 /\ Len(a) \in Nat
        /\ \A i \in 1..Len(a) : b[i] = a[i]
        /\ b[Len(a) + 1] = Ok(field)
    BY <1>1, <2>1, ListAppend, ListDef
  <2> HIDE DEF a, b
  <2>3. s # <<>> /\ Begun(t) = Len(a) + 1 /\ Begun(t)' = Len(b)
    BY <1>1, <2>1, <2>2 DEF Begun, a, b
  <2>4. s[1].descriptor = Requests[t][Len(a) + 1]
    BY <1>1, <2>3 DEF RequestsOK
  <2>5. StackOK(t)'
    <3>1. IsList(stack'[t]) /\ Len(stack'[t]) = 0
      BY <2>1, ListShort
    <3> QED BY <3>1 DEF StackOK
  <2>6. RequestsOK(t)'
    <3>1. Begun(t)' = Begun(t) /\ IsList(answers'[t]) /\ stack'[t] = <<>>
      BY <2>1, <2>2, <2>3 DEF b
    <3> QED BY <1>1, <3>1 DEF RequestsOK
  <2>7. AnswersOK(t)'
    <3>1. ASSUME NEW i \in 1..Len(b), i # Len(a) + 1
          PROVE  LET d == Requests[t][i] IN
                 IF IsValid(d) THEN d \in DOMAIN cache' /\ b[i] = Ok(cache'[d])
                 ELSE b[i] = Err
      <4>1. i \in 1..Len(a) /\ b[i] = a[i]
        BY <2>2, <3>1
      <4> QED BY <1>1, <4>1 DEF AnswersOK, CacheKept, a
    <3>2. LET d == Requests[t][Len(a) + 1]
          IN IsValid(d) /\ d \in DOMAIN cache' /\ b[Len(a) + 1] = Ok(cache'[d])
      BY <1>1, <1>2, <2>2, <2>4 DEF Innermost
    <3> QED BY <3>1, <3>2 DEF AnswersOK, b
  <2> QED BY <2>1, <2>5, <2>6, <2>7 DEF ThreadOK, At
<1>3. CASE n # 1
  <2> DEFINE c == Callers(t)
             m == n - 1
             f == s[m]
             g == [f EXCEPT !.parts = Append(@, field)]
             r == stack'[t]
  <2>1. /\ m \in Nat /\ m >= 1 /\ n = m + 1
        /\ IsList(c) /\ Len(c) = m /\ \A i \in 1..m : c[i] = s[i]
    <3>1. n \in Nat /\ n >= 1
      BY <1>1
    <3>2. m \in Nat /\ m >= 1 /\ n = m + 1
      <4> HIDE DEF n
      <4> QED BY <1>3, <3>1
    <3> QED BY <1>1, <3>2, ListFront DEF Callers
  <2>2. r = [c EXCEPT ![m] = g] /\ answers'[t] = answers[t]
    <3>1. /\ stack' = [stack EXCEPT ![t] =
                         [Callers(t) EXCEPT ![Len(Callers(t))].parts = Append(@, field)]]
          /\ answers' = answers
      BY <1>3 DEF Return
    <3>2. r = [c EXCEPT ![m].parts = Append(@, field)]
      BY <2>1, <3>1 DEF IInv
    <3>3. c[m] = f /\ m \in DOMAIN c
      BY <2>1, ListDef
    <3> QED BY <3>1, <3>2, <3>3
  <2>3. CallOK(cache, f) /\ Calls(f, s[n]) /\ IsList(f.parts) /\ Len(f.parts) \in Nat
    <3>1. CallOK(cache, f) /\ Calls(f, s[n])
      BY <1>1, <2>1 DEF StackOK
    <3> QED BY <3>1, ListDef DEF CallOK
  <2> DEFINE p == Append(f.parts, field)
  <2>4. g = [descriptor |-> f.descriptor, pc |-> "build", parts |-> p]
    <3>1. f = [descriptor |-> f.descriptor, pc |-> "build", parts |-> f.parts]
      BY <2>3 DEF CallOK, IsFrame, Calls
    <3> HIDE DEF f
    <3> QED BY <3>1
  <2>5. /\ IsList(p) /\ Len(p) = Len(f.parts) + 1
        /\ \A i \in 1..Len(f.parts) : p[i] = f.parts[i]
        /\ p[Len(f.parts) + 1] = field
    BY <2>3, ListAppend
  <2>6. /\ IsList(r) /\ Len(r) = m
        /\ \A i \in 1..m : r[i] = IF i = m THEN g ELSE s[i]
    <3>1. m \in 1..Len(c)
      BY <2>1
    <3>2. LET q == [c EXCEPT ![m] = g]
          IN /\ IsList(q) /\ Len(q) = Len(c)
             /\ \A i \in 1..Len(c) : q[i] = IF i = m THEN g ELSE c[i]
      <4>1. IsList(c)
        BY <2>1
      <4> HIDE DEF c, g, m
      <4> QED BY <3>1, <4>1, ListUpdate
    <3> HIDE DEF c, g, r, s, m
    <3> QED BY <2>1, <2>2, <3>2
  <2> HIDE DEF c, g, r, p
  <2>7. DOMAIN p = 1..Len(p) /\ DOMAIN f.parts = 1..Len(f.parts)
        /\ DOMAIN WantedBy(f) = 1..Len(WantedBy(f)) /\ Len(WantedBy(f)) \in Nat
    <3>1. f.descriptor \in Descriptor /\ IsValid(f.descriptor)
      BY <2>3 DEF CallOK, IsFrame
    <3>2. WantedBy(f) \in Seq(Smaller(f.descriptor[2]))
      BY <3>1, DescriptorsShrink DEF WantedBy
    <3> QED BY <2>3, <2>5, <3>2, ListDef
  <2>8. PartsIn(cache', f.descriptor, p)
    <3> SUFFICES ASSUME NEW i \in DOMAIN p
                 PROVE  /\ i \in DOMAIN WantedBy(f)
                        /\ <<f.descriptor[1], WantedBy(f)[i]>> \in DOMAIN cache'
                        /\ p[i] = cache'[<<f.descriptor[1], WantedBy(f)[i]>>]
      BY DEF PartsIn, WantedBy
    <3>1. CASE i = Len(f.parts) + 1
      <4>1. i \in DOMAIN WantedBy(f)
        BY <2>3, <2>7, <3>1 DEF Calls
      <4>2. <<f.descriptor[1], WantedBy(f)[i]>> = s[n].descriptor
        BY <2>3, <3>1 DEF Calls
      <4> QED BY <2>5, <3>1, <4>1, <4>2 DEF Innermost
    <3>2. CASE i # Len(f.parts) + 1
      <4>1. i \in DOMAIN f.parts /\ p[i] = f.parts[i]
        BY <2>3, <2>5, <2>7, <3>2
      <4>2. PartsIn(cache', f.descriptor, f.parts)
        BY <2>3, CallsStay DEF CallOK
      <4> QED BY <4>1, <4>2 DEF PartsIn, WantedBy
    <3> QED BY <3>1, <3>2
  <2>9. CallOK(cache', g)
    <3>1. Len(p) <= Len(WantedBy(f))
      BY <2>3, <2>5, <2>7 DEF Calls
    <3>2. WantedBy(g) = WantedBy(f)
      BY <2>4 DEF WantedBy
    <3>3. IsFrame(g)
      BY <2>3, <2>4, <2>7 DEF CallOK, IsFrame
    <3> QED BY <2>3, <2>4, <2>5, <2>8, <3>1, <3>2, <3>3 DEF CallOK
  <2>10. StackOK(t)'
    <3>1. ASSUME NEW i \in 1..m
          PROVE  CallOK(cache', r[i])
      <4>1. CASE i = m
        BY <2>6, <2>9, <4>1
      <4>2. CASE i # m
        <5>1. r[i] = s[i] /\ i \in 1..n
          BY <2>1, <2>6, <4>2
        <5>2. CallOK(cache, s[i])
          BY <1>1, <5>1 DEF StackOK
        <5> QED BY <5>1, <5>2, CallsStay
      <4> QED BY <4>1, <4>2
    <3>2. ASSUME NEW i \in 1..(m - 1)
          PROVE  Calls(r[i], r[i + 1])
      <4>1. /\ i \in 1..m /\ i + 1 \in 1..m /\ i # m /\ i \in 1..(n - 1)
            /\ r[i] = s[i] /\ Calls(s[i], s[i + 1])
        BY <1>1, <2>1, <2>6 DEF StackOK
      <4>2. r[i + 1].descriptor = s[i + 1].descriptor
        BY <2>4, <2>6, <4>1, SMTT(30)
      <4> QED BY <4>1, <4>2 DEF Calls
    <3> QED BY <2>6, <3>1, <3>2 DEF StackOK, r
  <2>11. r # <<>> /\ r[Len(r)].pc = "build"
    BY <2>1, <2>4, <2>6, ListShort, SMTT(30)
  <2>12. RequestsOK(t)'
    <3>1. r[1].descriptor = s[1].descriptor
      BY <2>1, <2>4, <2>6
    <3> QED BY <1>1, <2>2, <2>11, <3>1 DEF RequestsOK, Begun, r
  <2>13. AnswersOK(t)'
    BY <1>1, <2>2 DEF AnswersOK, CacheKept
  <2> QED BY <2>10, <2>11, <2>12, <2>13 DEF ThreadOK, At, Innermost, r
<1> QED BY <1>2, <1>3

\* The invariant holds at the start.
LEMMA InitInvariant == Init => IInv
<1> SUFFICES ASSUME Init
             PROVE  IInv
  OBVIOUS
<1>1. todo \in [Threads -> Seq(Descriptor)]
  BY RequestsAssumption DEF Init
<1>2. LockOK
  BY RequestsAssumption DEF Init, LockOK, At
<1>3. ASSUME NEW t \in Threads
      PROVE  ThreadOK(t)
  <2>1. stack[t] = <<>> /\ answers[t] = <<>> /\ todo[t] = Requests[t]
    BY <1>3 DEF Init
  <2>2. StackOK(t)
    BY <2>1, ListShort DEF StackOK
  <2>3. RequestsOK(t)
    <3>1. Requests[t] \in Seq(Descriptor)
      BY RequestsAssumption
    <3>2. Begun(t) = 0 /\ Len(todo[t]) \in Nat
      BY <2>1, <3>1, ListShort DEF Begun
    <3> QED BY <2>1, <3>1, <3>2, ListShort DEF RequestsOK
  <2>4. AnswersOK(t)
    BY <2>1, ListShort DEF AnswersOK
  <2> QED BY <2>2, <2>3, <2>4 DEF ThreadOK
<1> QED BY <1>1, <1>2, <1>3 DEF Init, IInv, CacheOK

\* What a step of t leaves alone.
LEMMA RestStays ==
  ASSUME IInv, CacheKept, NEW t \in Threads, ThreadOK(t)',
         DOMAIN stack' = Threads, DOMAIN answers' = Threads,
         todo' \in [Threads -> Seq(Descriptor)],
         LockOK', CacheOK',
         \A u \in Threads \ {t} : /\ stack'[u] = stack[u]
                                  /\ answers'[u] = answers[u]
                                  /\ todo'[u] = todo[u]
  PROVE  IInv'
<1>1. ASSUME NEW u \in Threads
      PROVE  ThreadOK(u)'
  <2>1. CASE u = t
    BY <2>1
  <2>2. CASE u # t
    BY <2>2, OthersStay DEF IInv
  <2> QED BY <2>1, <2>2
<1> QED BY <1>1 DEF IInv

\* Every step keeps the invariant, and what the cache has.
LEMMA StepInvariant ==
  ASSUME IInv, NEW t \in Threads, Step(t)
  PROVE  IInv' /\ CacheKept
<1> USE DEF IInv
<1>1. ThreadOK(t) /\ StackOK(t) /\ RequestsOK(t) /\ AnswersOK(t) /\ IsList(stack[t])
  BY DEF ThreadOK, StackOK
<1>2. CASE Instantiate(t)
  <2>1. CacheKept /\ CacheOK' /\ lock' = lock
    BY <1>2 DEF Instantiate, CacheKept, CacheOK
  <2> DEFINE d == Head(todo[t])
  <2>2. /\ d \in Descriptor /\ Len(todo[t]) >= 1 /\ todo'[t] = Tail(todo[t])
        /\ todo' \in [Threads -> Seq(Descriptor)]
        /\ Len(todo'[t]) = Len(todo[t]) - 1
        /\ \A j \in 1..Len(todo'[t]) : todo'[t][j] = todo[t][j + 1]
        /\ d = todo[t][1]
    BY <1>2 DEF Instantiate
  <2>3. Begun(t) = Len(answers[t]) /\ Len(answers[t]) \in Nat /\ stack[t] = <<>>
    BY <1>1, <1>2, ListDef DEF Begun, Instantiate, RequestsOK
  <2>4. d = Requests[t][Len(answers[t]) + 1]
    BY <1>1, <2>2, <2>3 DEF RequestsOK
  <2> HIDE DEF d
  <2>41. /\ (Begun(t) + 1) + Len(todo'[t]) = Len(Requests[t])
        /\ \A j \in 1..Len(todo'[t]) : todo'[t][j] = Requests[t][(Begun(t) + 1) + j]
    <3>1. todo[t] \in Seq(Descriptor) /\ Len(todo[t]) \in Nat /\ Begun(t) \in Nat
      BY <2>3
    <3>2. ASSUME NEW j \in 1..Len(todo'[t])
          PROVE  todo'[t][j] = Requests[t][(Begun(t) + 1) + j]
      <4>1. j + 1 \in 1..Len(todo[t]) /\ Begun(t) + (j + 1) = (Begun(t) + 1) + j
        BY <2>2, <3>1, <3>2
      <4>2. todo[t][j + 1] = Requests[t][Begun(t) + (j + 1)]
        BY <1>1, <4>1 DEF RequestsOK
      <4> QED BY <2>2, <4>1, <4>2
    <3>3. Begun(t) + Len(todo[t]) = Len(Requests[t])
      BY <1>1 DEF RequestsOK
    <3>4. (Begun(t) + 1) + Len(todo'[t]) = Len(Requests[t])
      BY <2>2, <3>1, <3>3
    <3> QED BY <3>2, <3>4
  <2>5. CASE IsValid(d)
    <3>1. /\ stack' = [stack EXCEPT ![t] = <<Frame(d)>>]
          /\ answers' = answers
      BY <1>2, <2>5 DEF Instantiate, d
    <3>2. /\ stack'[t] = <<Frame(d)>> /\ stack'[t][1] = Frame(d)
          /\ Len(stack'[t]) = 1 /\ IsList(stack'[t]) /\ stack'[t] # <<>>
      BY <3>1, ListShort
    <3>3. CallOK(cache', Frame(d))
      <4>1. WantedBy(Frame(d)) \in Seq(Smaller(d[2]))
        BY <2>2, <2>5, DescriptorsShrink DEF WantedBy, Frame
      <4>2. 0 <= Len(WantedBy(Frame(d)))
        BY <4>1
      <4>3. IsFrame(Frame(d))
        BY <2>2, ListShort, ListDef DEF IsFrame, Frame
      <4>4. PartsIn(cache', d, <<>>)
        BY ListShort, ListDef DEF PartsIn
      <4> QED BY <2>5, <4>2, <4>3, <4>4, ListShort DEF CallOK, Frame
    <3>4. StackOK(t)'
      BY <3>2, <3>3 DEF StackOK
    <3>5. Begun(t)' = Begun(t) + 1
      BY <2>3, <3>1, <3>2 DEF Begun
    <3>6. RequestsOK(t)'
      <4>1. stack'[t][1].descriptor = Requests[t][Begun(t)']
        BY <2>3, <2>4, <3>2, <3>5 DEF Frame
      <4>2. IsList(answers'[t])
        BY <1>1, <3>1 DEF RequestsOK
      <4> QED BY <2>41, <3>5, <4>1, <4>2 DEF RequestsOK
    <3>7. AnswersOK(t)'
      BY <1>1, <1>2, <3>1 DEF AnswersOK, Instantiate
    <3>8. LockOK'
      <4>1. ~At(t, "get")' /\ ~At(t, "put")'
        BY <3>2 DEF At, Innermost, Frame
      <4>2. ~At(t, "get") /\ ~At(t, "put")
        BY <2>3 DEF At
      <4>3. \A u \in Threads \ {t} : stack'[u] = stack[u]
        BY <3>1
      <4> QED BY <2>1, <4>1, <4>2, <4>3 DEF LockOK, At, Innermost
    <3> QED BY <1>2, <2>1, <2>2, <3>1, <3>4, <3>6, <3>7, <3>8, RestStays
              DEF ThreadOK, Instantiate
  <2>6. CASE ~IsValid(d)
    <3>1. /\ answers' = [answers EXCEPT ![t] = Append(@, Err)]
          /\ stack' = stack
      BY <1>2, <2>6 DEF Instantiate, d
    <3> DEFINE a == answers[t]
               b == answers'[t]
    <3>2. /\ IsList(b) /\ Len(b) = Len(a) + 1
          /\ \A i \in 1..Len(a) : b[i] = a[i]
          /\ b[Len(a) + 1] = Err
      BY <1>1, <3>1, ListAppend DEF RequestsOK
    <3> HIDE DEF a, b
    <3>3. StackOK(t)'
      BY <1>1, <1>2, <3>1 DEF StackOK, Instantiate
    <3>4. Begun(t)' = Begun(t) + 1
      BY <2>3, <3>1, <3>2 DEF Begun, a, b
    <3>5. RequestsOK(t)'
      <4>1. stack'[t] = <<>> /\ IsList(answers'[t])
        BY <2>3, <3>1, <3>2 DEF b
      <4> QED BY <2>41, <3>4, <4>1 DEF RequestsOK
    <3>6. AnswersOK(t)'
      <4>1. ASSUME NEW i \in 1..Len(b), i # Len(a) + 1
            PROVE  i \in 1..Len(a) /\ b[i] = a[i]
        BY <2>3, <3>2, <4>1 DEF a
      <4> QED BY <1>1, <1>2, <2>4, <2>6, <3>2, <4>1 DEF AnswersOK, Instantiate, a, b
    <3>7. LockOK'
      BY <2>1, <3>1 DEF LockOK, At, Innermost
    <3> QED BY <1>2, <2>1, <2>2, <3>1, <3>3, <3>5, <3>6, <3>7, RestStays
              DEF ThreadOK, Instantiate
  <2> QED BY <2>5, <2>6
<1>3. CASE Lock(t)
  <2>1. CacheKept /\ CacheOK' /\ answers' = answers /\ todo' = todo /\ lock = Free /\ lock' = t
    BY <1>3 DEF Lock, CacheKept, CacheOK
  <2>2. PICK pc \in {"get", "put"} : /\ Goto(t, pc) /\ stack[t] # <<>>
                                     /\ pc = "put" => Innermost(t).pc = "insert"
    BY <1>3 DEF Lock, At
  <2>3. pc = "put" => Len(Innermost(t).parts) = Len(Wanted(t))
    <3>1. CallOK(cache, Innermost(t))
      BY <1>1, <2>2, ListFront DEF StackOK, Innermost
    <3> QED BY <2>2, <3>1 DEF CallOK, WantedBy, Wanted
  <2>4. ThreadOK(t)' /\ stack'[t] # <<>> /\ Innermost(t)'.pc = pc
    BY <2>1, <2>2, <2>3, InnermostStays
  <2>5. DOMAIN stack' = Threads /\ \A u \in Threads \ {t} : stack'[u] = stack[u]
    BY <2>2 DEF Goto
  <2>6. LockOK'
    <3>1. At(t, "get")' \/ At(t, "put")'
      BY <2>2, <2>4 DEF At
    <3>2. ASSUME NEW u \in Threads \ {t}
          PROVE  ~At(u, "get")' /\ ~At(u, "put")'
      <4>1. ~At(u, "get") /\ ~At(u, "put")
        BY <2>1, RequestsAssumption DEF LockOK
      <4> QED BY <2>5, <4>1 DEF At, Innermost
    <3> QED BY <2>1, <3>1, <3>2 DEF LockOK
  <2> QED BY <2>1, <2>4, <2>5, <2>6, RestStays
<1>4. CASE Lookup(t)
  <2>1. CacheKept /\ CacheOK' /\ todo' = todo /\ lock' = Free /\ lock = t /\ stack[t] # <<>>
    BY <1>4 DEF Lookup, CacheKept, CacheOK, LockOK, At
  <2> DEFINE d == Innermost(t).descriptor
  <2>2. ThreadOK(t)' /\ ~At(t, "get")' /\ ~At(t, "put")'
    <3>1. CASE d \in DOMAIN cache
      <4>1. Return(t, cache'[d])
        BY <1>4, <3>1 DEF Lookup, Key
      <4> QED BY <1>4, <2>1, <3>1, <4>1, ReturnStays DEF Lookup
    <3>2. CASE d \notin DOMAIN cache
      <4>1. Goto(t, "build") /\ answers' = answers
        BY <1>4, <3>2 DEF Lookup, Key
      <4>2. ThreadOK(t)' /\ Innermost(t)'.pc = "build"
        BY <2>1, <4>1, InnermostStays
      <4> QED BY <4>2 DEF At
    <3> QED BY <3>1, <3>2
  <2>3. /\ DOMAIN stack' = Threads /\ DOMAIN answers' = Threads
        /\ \A u \in Threads \ {t} : stack'[u] = stack[u] /\ answers'[u] = answers[u]
    BY <1>4 DEF Lookup, Return, Goto
  <2>4. LockOK'
    <3>1. ASSUME NEW u \in Threads \ {t}
          PROVE  ~At(u, "get")' /\ ~At(u, "put")'
      <4>1. ~At(u, "get") /\ ~At(u, "put")
        BY <2>1 DEF LockOK
      <4> QED BY <2>3, <4>1 DEF At, Innermost
    <3> QED BY <2>1, <2>2, <3>1, RequestsAssumption DEF LockOK
  <2> QED BY <2>1, <2>2, <2>3, <2>4, RestStays
<1>5. CASE Recurse(t)
  <2> DEFINE s == stack[t]
             n == Len(s)
             f == s[n]
             d == <<f.descriptor[1], WantedBy(f)[Len(f.parts) + 1]>>
             r == stack'[t]
  <2>1. /\ CacheKept /\ CacheOK' /\ answers' = answers /\ todo' = todo /\ lock' = lock
        /\ s # <<>> /\ f.pc = "build" /\ Len(f.parts) < Len(WantedBy(f))
        /\ stack' = [stack EXCEPT ![t] = Append(s, Frame(d))]
    BY <1>5 DEF Recurse, CacheKept, CacheOK, At, Innermost, Wanted, WantedBy
  <2>2. n \in Nat /\ n >= 1 /\ n \in 1..n
    BY <1>1, <2>1, ListFront, ListDef
  <2>3. CallOK(cache, f)
    BY <1>1, <2>2 DEF StackOK
  <2>4. d \in Descriptor /\ IsValid(d)
    <3>1. f.descriptor \in Descriptor /\ IsValid(f.descriptor) /\ Len(f.parts) \in Nat
      BY <2>3, ListDef DEF CallOK, IsFrame
    <3>2. WantedBy(f) \in Seq(Smaller(f.descriptor[2]))
      BY <3>1, DescriptorsShrink DEF WantedBy
    <3>3. WantedBy(f)[Len(f.parts) + 1] \in Smaller(f.descriptor[2])
      <4>1. Len(f.parts) + 1 \in 1..Len(WantedBy(f))
        BY <2>1, <3>1, <3>2
      <4> QED BY <3>2, <4>1
    <3> QED BY <3>1, <3>3, DescriptorsShrink
  <2>5. CallOK(cache', Frame(d))
    <3>1. WantedBy(Frame(d)) \in Seq(Smaller(d[2]))
      BY <2>4, DescriptorsShrink DEF WantedBy, Frame
    <3> HIDE DEF d
    <3>2. 0 <= Len(WantedBy(Frame(d)))
      BY <3>1
    <3>3. IsFrame(Frame(d))
      BY <2>4, ListShort, ListDef DEF IsFrame, Frame
    <3>4. PartsIn(cache', d, <<>>)
      BY ListShort, ListDef DEF PartsIn
    <3> QED BY <2>4, <3>2, <3>3, <3>4, ListShort DEF CallOK, Frame
  <2>6. Calls(f, Frame(d))
    BY <2>1 DEF Calls, Frame
  <2>7. /\ IsList(r) /\ Len(r) = n + 1
        /\ \A i \in 1..n : r[i] = s[i]
        /\ r[n + 1] = Frame(d)
    <3> HIDE DEF d
    <3>1. r = Append(s, Frame(d))
      BY <2>1
    <3> HIDE DEF s, r
    <3> QED BY <1>1, <3>1, ListAppend DEF s
  <2>8. r # <<>> /\ r[Len(r)].pc = "lookup"
    <3> HIDE DEF d, r, n
    <3> QED BY <2>2, <2>7, ListShort DEF Frame
  <2> HIDE DEF d, r, s, n, f
  <2>9. StackOK(t)'
    <3>1. ASSUME NEW i \in 1..(n + 1)
          PROVE  CallOK(cache', r[i])
      <4>1. CASE i = n + 1
        BY <2>5, <2>7, <4>1
      <4>2. CASE i # n + 1
        <5>1. i \in 1..n /\ r[i] = s[i]
          BY <2>2, <2>7, <4>2
        <5>2. CallOK(cache, s[i])
          BY <1>1, <5>1 DEF StackOK, s, n
        <5> QED BY <2>1, <5>1, <5>2, CallsStay
      <4> QED BY <4>1, <4>2
    <3>2. ASSUME NEW i \in 1..n
          PROVE  Calls(r[i], r[i + 1])
      <4>1. CASE i = n
        BY <2>2, <2>6, <2>7, <4>1 DEF f
      <4>2. CASE i # n
        <5>1. i \in 1..n /\ i + 1 \in 1..n /\ i \in 1..(n - 1)
          BY <2>2, <4>2
        <5>2. Calls(s[i], s[i + 1])
          BY <1>1, <5>1 DEF StackOK, s, n
        <5> QED BY <2>7, <5>1, <5>2
      <4> QED BY <4>1, <4>2
    <3>3. (n + 1) - 1 = n
      BY <2>2
    <3> QED BY <2>7, <3>1, <3>2, <3>3 DEF StackOK, r
  <2>10. RequestsOK(t)'
    <3>1. r[1] = s[1]
      BY <2>2, <2>7
    <3> QED BY <1>1, <2>1, <2>8, <3>1 DEF RequestsOK, Begun, r, s
  <2>11. AnswersOK(t)'
    BY <1>1, <2>1 DEF AnswersOK, CacheKept
  <2>12. DOMAIN stack' = Threads /\ \A u \in Threads \ {t} : stack'[u] = stack[u]
    BY <2>1
  <2>13. LockOK'
    <3>1. ~At(t, "get")' /\ ~At(t, "put")'
      BY <2>8 DEF At, Innermost, r
    <3>2. ~At(t, "get") /\ ~At(t, "put")
      BY <2>1 DEF At, Innermost, f, s, n
    <3> QED BY <2>1, <2>12, <3>1, <3>2 DEF LockOK, At, Innermost
  <2> QED BY <2>1, <2>9, <2>10, <2>11, <2>12, <2>13, RestStays DEF ThreadOK
<1>6. CASE Build(t)
  <2>1. /\ CacheKept /\ CacheOK' /\ answers' = answers /\ todo' = todo /\ lock' = lock
        /\ stack[t] # <<>> /\ Innermost(t).pc = "build" /\ Goto(t, "insert")
        /\ Len(Innermost(t).parts) = Len(Wanted(t))
    BY <1>6 DEF Build, CacheKept, CacheOK, At
  <2>2. ThreadOK(t)' /\ Innermost(t)'.pc = "insert"
    BY <2>1, InnermostStays
  <2>3. DOMAIN stack' = Threads /\ \A u \in Threads \ {t} : stack'[u] = stack[u]
    BY <2>1 DEF Goto
  <2>4. LockOK'
    <3>1. ~At(t, "get")' /\ ~At(t, "put")' /\ ~At(t, "get") /\ ~At(t, "put")
      BY <2>1, <2>2 DEF At
    <3> QED BY <2>1, <2>3, <3>1 DEF LockOK, At, Innermost
  <2> QED BY <2>1, <2>2, <2>3, <2>4, RestStays
<1>7. CASE Insert(t)
  <2> DEFINE f == Innermost(t)
             d == f.descriptor
             field == Field(d, f.parts)
  <2>1. /\ stack[t] # <<>> /\ f.pc = "put" /\ lock = t /\ lock' = Free /\ todo' = todo
        /\ cache' = [k \in DOMAIN cache \cup {d} |-> IF k = d THEN field ELSE cache[k]]
        /\ Return(t, field)
    BY <1>7 DEF Insert, Key, LockOK, At
  <2>2. CallOK(cache, f)
    BY <1>1, <2>1, ListFront DEF StackOK, Innermost
  <2>3. /\ d \in Descriptor /\ IsValid(d) /\ IsList(f.parts)
        /\ Len(f.parts) = Len(Subdegrees(d[1], d[2])) /\ PartsIn(cache, d, f.parts)
    BY <2>1, <2>2 DEF CallOK, IsFrame, WantedBy
  <2> HIDE DEF f
  <2>4. CacheKept
    <3> SUFFICES ASSUME d \in DOMAIN cache
                 PROVE  cache[d] = field
      BY <2>1 DEF CacheKept
    <3>1. /\ cache[d] = Field(d, cache[d].parts) /\ IsList(cache[d].parts)
          /\ Len(cache[d].parts) = Len(f.parts) /\ PartsIn(cache, d, cache[d].parts)
      BY <2>3 DEF CacheOK
    <3> DEFINE p == cache[d].parts
    <3>2. DOMAIN p = 1..Len(f.parts) /\ DOMAIN f.parts = 1..Len(f.parts)
      BY <2>3, <3>1, ListDef
    <3>3. \A i \in 1..Len(f.parts) : p[i] = f.parts[i]
      BY <2>3, <3>1, <3>2 DEF PartsIn
    <3>4. p = f.parts
      <4> HIDE DEF p
      <4> QED BY <2>3, <3>1, <3>3, ListsEqual DEF p
    <3> QED BY <3>1, <3>4
  <2>5. CacheOK'
    <3>1. ASSUME NEW k \in DOMAIN cache', k # d
          PROVE  k \in DOMAIN cache /\ cache'[k] = cache[k]
      BY <2>1, <3>1
    <3>2. d \in DOMAIN cache' /\ cache'[d] = field
      BY <2>1
    <3>3. PartsIn(cache', d, f.parts)
      BY <2>3, <2>4, CallsStay
    <3>4. \A k \in DOMAIN cache : PartsIn(cache', k, cache[k].parts)
      BY <2>4, CallsStay DEF CacheOK
    <3> HIDE DEF d
    <3> QED BY <2>3, <3>1, <3>2, <3>3, <3>4 DEF CacheOK, Field
  <2>6. ThreadOK(t)' /\ ~At(t, "get")' /\ ~At(t, "put")'
    <3>1. d \in DOMAIN cache' /\ field = cache'[d]
      BY <2>1
    <3> QED BY <2>1, <2>4, <3>1, ReturnStays DEF f
  <2>7. /\ DOMAIN stack' = Threads /\ DOMAIN answers' = Threads
        /\ \A u \in Threads \ {t} : stack'[u] = stack[u] /\ answers'[u] = answers[u]
    BY <2>1 DEF Return
  <2>8. LockOK'
    <3>1. ASSUME NEW u \in Threads \ {t}
          PROVE  ~At(u, "get")' /\ ~At(u, "put")'
      <4>1. ~At(u, "get") /\ ~At(u, "put")
        BY <2>1 DEF LockOK
      <4> QED BY <2>7, <4>1 DEF At, Innermost
    <3> QED BY <2>1, <2>6, <3>1, RequestsAssumption DEF LockOK
  <2> QED BY <2>1, <2>4, <2>5, <2>6, <2>7, <2>8, RestStays
<1> QED BY <1>2, <1>3, <1>4, <1>5, <1>6, <1>7 DEF Step

(***************************************************************************)
(* Theorems.                                                               *)
(***************************************************************************)

\* The inductive invariant holds in every reachable state.
THEOREM CacheInvariant == Spec => []IInv
<1>1. Init => IInv
  BY InitInvariant
<1>2. IInv /\ [Next]_vars => IInv'
  <2> SUFFICES ASSUME IInv, [Next]_vars
               PROVE  IInv'
    OBVIOUS
  <2>1. CASE Next
    BY <2>1, StepInvariant DEF Next
  <2>2. CASE UNCHANGED vars
    <3> USE <2>2 DEF vars
    <3>1. CacheKept /\ CacheOK'
      BY DEF IInv, CacheKept, CacheOK
    <3>2. LockOK'
      BY DEF IInv, LockOK, At, Innermost
    <3>3. \A t \in Threads : ThreadOK(t)'
      BY <3>1, OthersStay DEF IInv
    <3> QED BY <3>1, <3>2, <3>3 DEF IInv
  <2> QED BY <2>1, <2>2
<1> QED BY <1>1, <1>2, PTL DEF Spec

\* The variables have their types, a thread owns the mutex exactly when one of its
\* calls is between locking and unlocking, and all calls but the innermost are building.
THEOREM TypesHold == Spec => []TypeOK
BY CacheInvariant, IInvImplies, PTL

\* Every cached field is complete, and its parts are the cached fields of its tower:
\* standard_field inserts a field only after all the smaller ones.
THEOREM CacheStaysConsistent == Spec => []CacheConsistent
BY CacheInvariant, IInvImplies, PTL

\* instantiate answers a valid descriptor with the one field the cache has for it, an
\* invalid one with an error, whichever threads race.
THEOREM AnswersStayRight == Spec => []AnswersRight
BY CacheInvariant, IInvImplies, PTL

\* An insertion that replaces an entry replaces it by an equal one, and nothing leaves
\* the cache.
THEOREM CacheGrows == Spec => CacheOnlyGrows
<1>1. IInv /\ [Next]_vars => [CacheKept]_vars
  BY StepInvariant DEF Next
<1>2. [CacheKept]_vars <=> [\A d \in DOMAIN cache : d \in DOMAIN cache' /\ cache'[d] = cache[d]]_vars
  BY DEF CacheKept
<1> QED BY CacheInvariant, <1>1, <1>2, PTL DEF Spec, CacheOnlyGrows

\* Calls in progress ask for ever smaller subfields, of the same characteristic.
RecursionShrinks ==
  \A t \in Threads : \A i \in 1..(Len(stack[t]) - 1) :
    /\ stack[t][i + 1].descriptor[1] = stack[t][i].descriptor[1]
    /\ stack[t][i + 1].descriptor[2] \in Smaller(stack[t][i].descriptor[2])

\* standard_field never recurses deeper than the degree of the request, whichever
\* calls the cache answers: the safety half of Terminates.
THEOREM RecursionBounded == Spec => []RecursionShrinks
<1>1. IInv => RecursionShrinks
  <2> SUFFICES ASSUME IInv, NEW t \in Threads, NEW i \in 1..(Len(stack[t]) - 1)
               PROVE  /\ stack[t][i + 1].descriptor[1] = stack[t][i].descriptor[1]
                      /\ stack[t][i + 1].descriptor[2] \in Smaller(stack[t][i].descriptor[2])
    BY DEF RecursionShrinks
  <2> DEFINE f == stack[t][i]
             g == stack[t][i + 1]
  <2>1. CallOK(cache, f) /\ Calls(f, g)
    <3>1. IsList(stack[t])
      BY DEF IInv, ThreadOK, StackOK
    <3>2. i \in 1..Len(stack[t])
      BY <3>1, ListDef
    <3> QED BY <3>2 DEF IInv, ThreadOK, StackOK
  <2> HIDE DEF f, g
  <2>2. f.descriptor \in Descriptor /\ IsValid(f.descriptor) /\ Len(f.parts) \in Nat
    BY <2>1, ListDef DEF CallOK, IsFrame
  <2>3. WantedBy(f) \in Seq(Smaller(f.descriptor[2]))
    BY <2>2, DescriptorsShrink DEF WantedBy
  <2>4. WantedBy(f)[Len(f.parts) + 1] \in Smaller(f.descriptor[2])
    <3>1. Len(f.parts) + 1 \in 1..Len(WantedBy(f))
      BY <2>1, <2>2, <2>3 DEF Calls
    <3> QED BY <2>3, <3>1
  <2> QED BY <2>1, <2>4 DEF Calls, f, g
<1> QED BY <1>1, CacheInvariant, PTL
=============================================================================
