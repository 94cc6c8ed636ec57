----------------------------- MODULE CookerProofs -----------------------------
(***************************************************************************)
(* Proofs about the cooker, for every prior, all probes and every table:   *)
(* first the search, whose tables are the hypothesis of its theorems; then *)
(* the generation of actions, which gives it such tables; then the trees,  *)
(* the nodes that are written down and what they cost.                     *)
(***************************************************************************)
EXTENDS CookerProperties, PathLemmas

-----------------------------------------------------------------------------
(* Sums over finite sets.  The fold of the community modules takes one     *)
(* element after the other, in an order of its own; the sum is the same    *)
(* whichever element is taken first.                                       *)

\* The element that the fold takes first.
Picked(S) == CHOOSE x \in S : TRUE

\* g adds up f over each subset of S.
AddsUp(g, f, S) ==
  g = [s \in SUBSET S |-> IF s = {} THEN 0 ELSE f[Picked(s)] + g[s \ {Picked(s)}]]

\* The sum of f over a set.
Total(f, S) == (CHOOSE g : AddsUp(g, f, S))[S]

\* Where there is such a function, it is what CHOOSE takes.
LEMMA TotalAddsUp ==
  ASSUME NEW f, NEW S, NEW g, AddsUp(g, f, S)
  PROVE  \E h : AddsUp(h, f, S) /\ Total(f, S) = h[S]
<1>1. AddsUp(CHOOSE h : AddsUp(h, f, S), f, S)
  OBVIOUS
<1> QED BY <1>1 DEF Total

\* One step of it.
LEMMA AddsUpStep ==
  ASSUME NEW f, NEW S, NEW g, AddsUp(g, f, S), NEW s \in SUBSET S
  PROVE  /\ s = {} => g[s] = 0
         /\ s # {} => g[s] = f[Picked(s)] + g[s \ {Picked(s)}]
BY DEF AddsUp

\* A set is not empty exactly if something can be picked from it, which leaves less.
LEMMA PickedIsIn ==
  ASSUME NEW S, S # {}
  PROVE  Picked(S) \in S
BY DEF Picked

\* What two of them give for one set is the same, for sets of n elements.
AgreeOn(f, n) ==
  \A S, T, g, h, s :
    AddsUp(g, f, S) /\ AddsUp(h, f, T) /\ s \in SUBSET S /\ s \in SUBSET T
      /\ IsFiniteSet(s) /\ Cardinality(s) = n
    => g[s] = h[s]

\* ... and so for all finite sets.
LEMMA AddsUpOnce ==
  ASSUME NEW f
  PROVE  \A n \in Nat : AgreeOn(f, n)
<1> DEFINE W == {n \in Nat : AgreeOn(f, n)}
<1>1. 0 \in W
  <2>1. ASSUME NEW S, NEW T, NEW g, NEW h, NEW s,
               AddsUp(g, f, S), AddsUp(h, f, T), s \in SUBSET S, s \in SUBSET T,
               IsFiniteSet(s), Cardinality(s) = 0
        PROVE  g[s] = h[s]
    <3>1. s = {}
      BY <2>1, FS_EmptySet
    <3> QED BY <2>1, <3>1, AddsUpStep
  <2>2. AgreeOn(f, 0)
    BY <2>1 DEF AgreeOn
  <2> QED BY <2>2
<1>2. ASSUME NEW n \in Nat, AgreeOn(f, n)
      PROVE  AgreeOn(f, n + 1)
  <2>1. ASSUME NEW S, NEW T, NEW g, NEW h, NEW s,
               AddsUp(g, f, S), AddsUp(h, f, T), s \in SUBSET S, s \in SUBSET T,
               IsFiniteSet(s), Cardinality(s) = n + 1
        PROVE  g[s] = h[s]
    <3> DEFINE r == s \ {Picked(s)}
    <3>1. s # {}
      BY <2>1, FS_EmptySet
    <3>2. IsFiniteSet(r) /\ Cardinality(r) = n
      BY <2>1, <3>1, PickedIsIn, FS_RemoveElement
    <3>3. r \in SUBSET S /\ r \in SUBSET T
      BY <2>1
    <3>4. /\ s = {} => g[s] = 0
          /\ s # {} => g[s] = f[Picked(s)] + g[r]
      BY <2>1, AddsUpStep
    <3>5. /\ s = {} => h[s] = 0
          /\ s # {} => h[s] = f[Picked(s)] + h[r]
      BY <2>1, AddsUpStep
    <3> HIDE DEF r
    <3>6. g[r] = h[r]
      BY <1>2, <2>1, <3>2, <3>3 DEF AgreeOn
    <3> QED BY <3>1, <3>4, <3>5, <3>6
  <2> QED BY <2>1 DEF AgreeOn
<1>3. \A n \in Nat : n \in W => n + 1 \in W
  BY <1>2
<1> HIDE DEF W
<1>4. \A n \in Nat : n \in W
  BY <1>1, <1>3, Induction
<1> QED BY <1>4 DEF W

\* There is such a function for every finite set.
LEMMA AddsUpExists ==
  ASSUME NEW f
  PROVE  \A n \in Nat : \A S : IsFiniteSet(S) /\ Cardinality(S) = n => \E g : AddsUp(g, f, S)
<1> DEFINE Has(S) == \E g : AddsUp(g, f, S)
           W == {n \in Nat : \A m \in 0..n : \A S : IsFiniteSet(S) /\ Cardinality(S) = m => Has(S)}
<1>1. 0 \in W
  <2> SUFFICES ASSUME NEW S, IsFiniteSet(S), Cardinality(S) = 0
               PROVE  Has(S)
    OBVIOUS
  <2>1. S = {}
    BY FS_EmptySet
  <2>2. AddsUp([s \in SUBSET S |-> 0], f, S)
    BY <2>1 DEF AddsUp
  <2> QED BY <2>2
<1>2. \A n \in Nat : n \in W => n + 1 \in W
  <2> SUFFICES ASSUME NEW n \in Nat, n \in W,
                      NEW S, IsFiniteSet(S), Cardinality(S) = n + 1
               PROVE  Has(S)
    <3>1. \A n \in Nat : \A m \in 0..(n + 1) : m \in 0..n \/ m = n + 1
      OBVIOUS
    <3> QED BY <3>1
  <2> DEFINE r(s) == s \ {Picked(s)}
             h == [s \in SUBSET S |-> IF s = {} THEN 0 ELSE f[Picked(s)] + Total(f, r(s))]
  <2>1. ASSUME NEW s \in SUBSET S, s # {}
        PROVE  /\ r(s) \in SUBSET S /\ IsFiniteSet(r(s))
               /\ Cardinality(r(s)) \in 0..n
    <3>1. IsFiniteSet(s) /\ Cardinality(s) <= n + 1
      BY FS_Subset
    <3>2. IsFiniteSet(r(s)) /\ Cardinality(r(s)) = Cardinality(s) - 1
      BY <2>1, <3>1, PickedIsIn, FS_RemoveElement
    <3>3. Cardinality(r(s)) \in Nat /\ Cardinality(s) \in Nat
      BY <3>1, <3>2, FS_CardinalityType
    <3> QED BY <3>1, <3>2, <3>3
  <2>2. ASSUME NEW s \in SUBSET S, s # {}
        PROVE  Total(f, r(s)) = h[r(s)]
    <3> DEFINE t == r(s)
    <3>1. t \in SUBSET S /\ IsFiniteSet(t) /\ Cardinality(t) \in 0..n
      BY <2>1, <2>2
    <3>2. PICK g : AddsUp(g, f, t) /\ Total(f, t) = g[t]
      <4>1. Has(t)
        BY <3>1
      <4> QED BY <4>1, TotalAddsUp
    <3>3. CASE t = {}
      BY <3>1, <3>2, <3>3, AddsUpStep
    <3>4. CASE t # {}
      <4>1. r(t) \in SUBSET S /\ IsFiniteSet(r(t)) /\ Cardinality(r(t)) \in 0..n
        BY <2>1, <3>1, <3>4
      <4>2. PICK k : AddsUp(k, f, r(t)) /\ Total(f, r(t)) = k[r(t)]
        <5>1. Has(r(t))
          BY <4>1
        <5> QED BY <5>1, TotalAddsUp
      <4>3. g[t] = f[Picked(t)] + g[r(t)]
        <5> HIDE DEF t
        <5>1. t \in SUBSET t
          OBVIOUS
        <5>2. /\ t = {} => g[t] = 0
              /\ t # {} => g[t] = f[Picked(t)] + g[t \ {Picked(t)}]
          BY <3>2, <5>1, AddsUpStep
        <5> QED BY <3>4, <5>2
      <4>4. g[r(t)] = k[r(t)]
        <5>1. r(t) \in SUBSET t /\ r(t) \in SUBSET r(t) /\ Cardinality(r(t)) \in Nat
          BY <4>1
        <5> HIDE DEF r, t
        <5> QED BY <3>2, <4>1, <4>2, <5>1, AddsUpOnce DEF AgreeOn
      <4>5. h[t] = f[Picked(t)] + Total(f, r(t))
        BY <3>1, <3>4
      <4> QED BY <3>2, <4>2, <4>3, <4>4, <4>5
    <3> QED BY <3>3, <3>4
  <2>3. h = [s \in SUBSET S |-> IF s = {} THEN 0 ELSE f[Picked(s)] + h[r(s)]]
    <3> HIDE DEF r
    <3>1. \A s \in SUBSET S : s # {} => Total(f, r(s)) = h[r(s)]
      BY <2>2
    <3> DEFINE hh == h
    <3>2. hh = [s \in SUBSET S |-> IF s = {} THEN 0 ELSE f[Picked(s)] + Total(f, r(s))]
      OBVIOUS
    <3>3. \A s \in SUBSET S : s # {} => Total(f, r(s)) = hh[r(s)]
      BY <3>1
    <3> HIDE DEF h, hh
    <3>4. hh = [s \in SUBSET S |-> IF s = {} THEN 0 ELSE f[Picked(s)] + hh[r(s)]]
      BY <3>2, <3>3
    <3> QED BY <3>4 DEF hh
  <2> HIDE DEF h
  <2>4. AddsUp(h, f, S)
    BY <2>3 DEF AddsUp
  <2> QED BY <2>4
<1> HIDE DEF W
<1>3. \A n \in Nat : n \in W
  BY <1>1, <1>2, Induction
<1> QED BY <1>3 DEF W

\* The sum over no element, and one step of a sum.
LEMMA TotalStep ==
  ASSUME NEW f, NEW S, IsFiniteSet(S)
  PROVE  /\ S = {} => Total(f, S) = 0
         /\ S # {} => Total(f, S) = f[Picked(S)] + Total(f, S \ {Picked(S)})
<1> DEFINE r == S \ {Picked(S)}
<1>1. \E g : AddsUp(g, f, S)
  <2>1. Cardinality(S) \in Nat
    BY FS_CardinalityType
  <2> QED BY <2>1, AddsUpExists
<1>2. PICK g : AddsUp(g, f, S) /\ Total(f, S) = g[S]
  BY <1>1, TotalAddsUp
<1>3. S \in SUBSET S
  OBVIOUS
<1>4. /\ S = {} => g[S] = 0
      /\ S # {} => g[S] = f[Picked(S)] + g[r]
  BY <1>2, <1>3, AddsUpStep
<1>5. r \in SUBSET S /\ IsFiniteSet(r) /\ Cardinality(r) \in Nat
  BY FS_Subset, FS_CardinalityType
<1> HIDE DEF r
<1>6. \E h : AddsUp(h, f, r)
  BY <1>5, AddsUpExists
<1>7. PICK h : AddsUp(h, f, r) /\ Total(f, r) = h[r]
  BY <1>6, TotalAddsUp
<1>8. g[r] = h[r]
  <2>1. r \in SUBSET r
    OBVIOUS
  <2>2. AgreeOn(f, Cardinality(r))
    BY <1>5, AddsUpOnce
  <2> QED BY <1>2, <1>5, <1>7, <2>1, <2>2 DEF AgreeOn
<1> QED BY <1>2, <1>4, <1>7, <1>8 DEF r

\* A sum of naturals is a natural.
LEMMA TotalIsNatural ==
  ASSUME NEW D, NEW f \in [D -> Nat], NEW S \in SUBSET D, IsFiniteSet(S)
  PROVE  Total(f, S) \in Nat
<1> DEFINE W == {n \in Nat : \A T \in SUBSET D :
                   IsFiniteSet(T) /\ Cardinality(T) = n => Total(f, T) \in Nat}
<1>1. 0 \in W
  <2>1. ASSUME NEW T \in SUBSET D, IsFiniteSet(T), Cardinality(T) = 0
        PROVE  Total(f, T) \in Nat
    <3>1. T = {}
      BY <2>1, FS_EmptySet
    <3>2. Total(f, T) = 0
      BY <2>1, <3>1, TotalStep
    <3> QED BY <3>2
  <2> QED BY <2>1
<1>2. ASSUME NEW n \in Nat, n \in W, NEW T \in SUBSET D, IsFiniteSet(T), Cardinality(T) = n + 1
      PROVE  Total(f, T) \in Nat
  <2> DEFINE r == T \ {Picked(T)}
  <2>1. T # {}
    BY <1>2, FS_EmptySet
  <2>2. Picked(T) \in T
    BY <2>1, PickedIsIn
  <2>3. IsFiniteSet(r) /\ Cardinality(r) = n
    <3>1. IsFiniteSet(T) /\ Cardinality(T) = n + 1
      BY <1>2
    <3>2. /\ IsFiniteSet(r)
          /\ Cardinality(r) = IF Picked(T) \in T THEN Cardinality(T) - 1 ELSE Cardinality(T)
      BY <3>1, FS_RemoveElement
    <3> QED BY <2>2, <3>1, <3>2
  <2>4. Total(f, T) = f[Picked(T)] + Total(f, r)
    BY <1>2, <2>1, TotalStep
  <2>5. Total(f, r) \in Nat
    <3>1. r \in SUBSET D
      OBVIOUS
    <3> HIDE DEF r
    <3> QED BY <1>2, <2>3, <3>1
  <2> QED BY <2>2, <2>4, <2>5
<1>3. \A n \in Nat : n \in W => n + 1 \in W
  BY <1>2
<1> HIDE DEF W
<1>4. \A n \in Nat : n \in W
  BY <1>1, <1>3, Induction
<1>5. Cardinality(S) \in Nat
  BY FS_CardinalityType
<1> QED BY <1>4, <1>5 DEF W

\* Whichever element is taken first, for subsets of D of n elements.
TakesAny(f, D, n) ==
  \A S \in SUBSET D :
    IsFiniteSet(S) /\ Cardinality(S) = n =>
      \A x \in S : Total(f, S) = f[x] + Total(f, S \ {x})

\* ... so for one element more.
LEMMA TakeAnyStep ==
  ASSUME NEW D, NEW f \in [D -> Nat], NEW n \in Nat, TakesAny(f, D, n)
  PROVE  TakesAny(f, D, n + 1)
<1>1. ASSUME NEW S \in SUBSET D, IsFiniteSet(S), Cardinality(S) = n + 1, NEW x \in S
      PROVE  Total(f, S) = f[x] + Total(f, S \ {x})
  <2> DEFINE p == Picked(S)
             r == S \ {p}
             q == S \ {x}
             b == r \ {x}
  <2>1. S # {} /\ p \in S
    BY <1>1, FS_EmptySet, PickedIsIn
  <2>2. IsFiniteSet(r) /\ Cardinality(r) = n
    BY <1>1, <2>1, FS_RemoveElement
  <2>3. IsFiniteSet(q) /\ Cardinality(q) = n
    BY <1>1, FS_RemoveElement
  <2>4. Total(f, S) = f[p] + Total(f, r)
    BY <1>1, <2>1, TotalStep
  <2>5. CASE x = p
    BY <2>4, <2>5
  <2>6. CASE x # p
    <3>1. x \in r /\ p \in q /\ b = q \ {p} /\ b \in SUBSET D
      BY <2>1, <2>6
    <3>2. r \in SUBSET D /\ q \in SUBSET D /\ x \in D /\ p \in D
      BY <2>1
    <3>3. IsFiniteSet(b)
      BY <2>2, FS_Subset
    <3> HIDE DEF p, r, q, b
    <3>4. Total(f, q) = f[p] + Total(f, b)
      BY <2>3, <3>1, <3>2 DEF TakesAny
    <3>5. Total(f, r) = f[x] + Total(f, b)
      BY <2>2, <3>1, <3>2 DEF TakesAny, b
    <3>6. Total(f, b) \in Nat /\ f[x] \in Nat /\ f[p] \in Nat
      BY <3>1, <3>2, <3>3, TotalIsNatural
    <3> QED BY <2>4, <3>4, <3>5, <3>6 DEF q
  <2> QED BY <2>5, <2>6
<1> QED BY <1>1 DEF TakesAny

\* A sum is that of any element and that of the others.
LEMMA TotalTake ==
  ASSUME NEW D, NEW f \in [D -> Nat], NEW S \in SUBSET D, IsFiniteSet(S), NEW x \in S
  PROVE  Total(f, S) = f[x] + Total(f, S \ {x})
<1> DEFINE W == {n \in Nat : TakesAny(f, D, n)}
<1>1. 0 \in W
  BY FS_EmptySet DEF TakesAny
<1>2. \A n \in Nat : n \in W => n + 1 \in W
  BY TakeAnyStep
<1> HIDE DEF W
<1>3. \A n \in Nat : n \in W
  BY <1>1, <1>2, Induction
<1>4. Cardinality(S) \in Nat
  BY FS_CardinalityType
<1>5. TakesAny(f, D, Cardinality(S))
  BY <1>3, <1>4 DEF W
<1> QED BY <1>5 DEF TakesAny

\* The sum over two sets that have nothing in common.
LEMMA TotalOfTwo ==
  ASSUME NEW D, NEW f \in [D -> Nat], NEW S \in SUBSET D, NEW T \in SUBSET D,
         IsFiniteSet(S), IsFiniteSet(T), S \cap T = {}
  PROVE  Total(f, S \cup T) = Total(f, S) + Total(f, T)
<1> DEFINE Adds(U) == Total(f, S \cup U) = Total(f, S) + Total(f, U)
           W == {n \in Nat : \A U \in SUBSET T : Cardinality(U) = n => Adds(U)}
<1>1. 0 \in W
  <2>1. ASSUME NEW U \in SUBSET T, Cardinality(U) = 0
        PROVE  Adds(U)
    <3>1. U = {}
      BY <2>1, FS_Subset, FS_EmptySet
    <3>2. S \cup U = S
      BY <3>1
    <3>3. Total(f, U) = 0
      BY <3>1, FS_EmptySet, TotalStep
    <3>4. Total(f, S) \in Nat
      BY TotalIsNatural
    <3> QED BY <3>2, <3>3, <3>4
  <2> QED BY <2>1
<1>2. ASSUME NEW n \in Nat, n \in W, NEW U \in SUBSET T, Cardinality(U) = n + 1
      PROVE  Adds(U)
  <2>1. IsFiniteSet(U)
    BY FS_Subset
  <2>2. U # {}
    BY <1>2, <2>1, FS_EmptySet
  <2>3. PICK x \in U : TRUE
    BY <2>2
  <2> DEFINE V == U \ {x}
  <2>4. Cardinality(V) = n /\ V \in SUBSET T /\ IsFiniteSet(V)
    <3>1. IsFiniteSet(U) /\ Cardinality(U) = n + 1
      BY <1>2, <2>1
    <3>2. IsFiniteSet(V) /\ Cardinality(V) = IF x \in U THEN Cardinality(U) - 1 ELSE Cardinality(U)
      BY <3>1, FS_RemoveElement
    <3> QED BY <3>1, <3>2
  <2>5. Adds(V)
    <3> HIDE DEF V
    <3> QED BY <1>2, <2>4
  <2>6. Total(f, U) = f[x] + Total(f, V)
    BY <2>1, TotalTake
  <2>7. Total(f, S \cup U) = f[x] + Total(f, S \cup V)
    <3>1. S \cup U \in SUBSET D /\ x \in S \cup U /\ (S \cup U) \ {x} = S \cup V
      OBVIOUS
    <3>2. IsFiniteSet(S \cup U)
      BY <2>1, FS_Union
    <3> DEFINE A == S \cup U
    <3>3. A \in SUBSET D /\ IsFiniteSet(A) /\ x \in A /\ A \ {x} = S \cup V
      BY <3>1, <3>2
    <3> HIDE DEF A
    <3>4. Total(f, A) = f[x] + Total(f, A \ {x})
      BY <3>3, TotalTake
    <3> QED BY <3>3, <3>4 DEF A
  <2>8. Total(f, S) \in Nat /\ Total(f, V) \in Nat /\ f[x] \in Nat
    <3>1. V \in SUBSET D /\ x \in D
      OBVIOUS
    <3> HIDE DEF V
    <3> QED BY <2>4, <3>1, TotalIsNatural
  <2> HIDE DEF V
  <2> QED BY <2>5, <2>6, <2>7, <2>8
<1>3. \A n \in Nat : n \in W => n + 1 \in W
  BY <1>2
<1> HIDE DEF W
<1>4. \A n \in Nat : n \in W
  BY <1>1, <1>3, Induction
<1>5. Cardinality(T) \in Nat
  BY FS_CardinalityType
<1> QED BY <1>4, <1>5 DEF W

\* A sum depends on what is added up alone.
LEMMA TotalAgree ==
  ASSUME NEW f, NEW g, NEW S, IsFiniteSet(S), \A x \in S : f[x] = g[x]
  PROVE  Total(f, S) = Total(g, S)
<1> DEFINE W == {n \in Nat : \A T \in SUBSET S : Cardinality(T) = n => Total(f, T) = Total(g, T)}
<1>1. 0 \in W
  <2>1. ASSUME NEW T \in SUBSET S, Cardinality(T) = 0
        PROVE  Total(f, T) = Total(g, T)
    <3>1. T = {} /\ IsFiniteSet(T)
      BY <2>1, FS_Subset, FS_EmptySet
    <3>2. Total(f, T) = 0
      BY <3>1, TotalStep
    <3>3. Total(g, T) = 0
      BY <3>1, TotalStep
    <3> QED BY <3>2, <3>3
  <2> QED BY <2>1
<1>2. ASSUME NEW n \in Nat, n \in W, NEW T \in SUBSET S, Cardinality(T) = n + 1
      PROVE  Total(f, T) = Total(g, T)
  <2> DEFINE r == T \ {Picked(T)}
  <2>1. IsFiniteSet(T) /\ Cardinality(T) = n + 1
    BY <1>2, FS_Subset
  <2>2. T # {}
    BY <2>1, FS_EmptySet
  <2>3. Picked(T) \in T
    BY <2>2, PickedIsIn
  <2>4. /\ IsFiniteSet(r)
        /\ Cardinality(r) = IF Picked(T) \in T THEN Cardinality(T) - 1 ELSE Cardinality(T)
    BY <2>1, FS_RemoveElement
  <2>5. Cardinality(r) = n /\ r \in SUBSET S
    BY <2>1, <2>3, <2>4
  <2>6. Total(f, T) = f[Picked(T)] + Total(f, r)
    BY <2>1, <2>2, TotalStep
  <2>7. Total(g, T) = g[Picked(T)] + Total(g, r)
    BY <2>1, <2>2, TotalStep
  <2> HIDE DEF r
  <2>8. Total(f, r) = Total(g, r)
    BY <1>2, <2>5
  <2> QED BY <2>3, <2>6, <2>7, <2>8
<1>3. \A n \in Nat : n \in W => n + 1 \in W
  BY <1>2
<1> HIDE DEF W
<1>4. \A n \in Nat : n \in W
  BY <1>1, <1>3, Induction
<1>5. Cardinality(S) \in Nat /\ S \in SUBSET S
  BY FS_CardinalityType
<1> QED BY <1>4, <1>5 DEF W

\* The sum over one more element.
LEMMA TotalAdd ==
  ASSUME NEW D, NEW f \in [D -> Nat], NEW S \in SUBSET D, IsFiniteSet(S), NEW x \in D, x \notin S
  PROVE  Total(f, S \cup {x}) = Total(f, S) + f[x]
<1> DEFINE U == S \cup {x}
<1>1. U \in SUBSET D /\ x \in U /\ U \ {x} = S
  OBVIOUS
<1>2. IsFiniteSet(U)
  BY FS_AddElement
<1> HIDE DEF U
<1> DEFINE R == U \ {x}
<1>3. Total(f, U) = f[x] + Total(f, R)
  BY <1>1, <1>2, TotalTake
<1>4. R = S
  BY <1>1
<1> HIDE DEF R
<1>5. Total(f, S) \in Nat /\ f[x] \in Nat
  BY TotalIsNatural
<1>6. Total(f, U) = Total(f, S) + f[x]
  BY <1>3, <1>4, <1>5
<1> QED BY <1>6 DEF U

-----------------------------------------------------------------------------
(* What a test does to a state, for a table ts of outcomes.                *)

\* The scenarios left, those left with one value, and the values.
Left(ts, t, S) == {s \in S : ts[t][s].left = ts[t][s].right}
Part(ts, t, S, v) == {s \in Left(ts, t, S) : ts[t][s].left = v}
Values(ts, t, S) == {ts[t][s].left : s \in Left(ts, t, S)}

\* A test that leaves the whole state in one branch.
Useless(ts, t, S) == Left(ts, t, S) = S /\ Cardinality(Values(ts, t, S)) = 1

\* What the model calls these.
LEMMA ModelWords ==
  ASSUME NEW t, NEW S
  PROVE  /\ Collided(t, S) = Left(tests, t, S)
         /\ DOMAIN Branches(t, S) = Values(tests, t, S)
         /\ \A v \in Values(tests, t, S) : Branches(t, S)[v] = Part(tests, t, S, v)
         /\ IsUseless(t, S) <=> Useless(tests, t, S)
<1>1. Collided(t, S) = Left(tests, t, S)
  BY DEF Collided, Left
<1>2. DOMAIN Branches(t, S) = Values(tests, t, S)
  BY <1>1 DEF Branches, Values
<1>3. \A v \in Values(tests, t, S) : Branches(t, S)[v] = Part(tests, t, S, v)
  BY <1>1 DEF Branches, Values, Part
<1>4. IsUseless(t, S) <=> Useless(tests, t, S)
  BY <1>1, <1>2 DEF IsUseless, Useless
<1> QED BY <1>1, <1>2, <1>3, <1>4

\* The weight of a state.
LEMMA WeightIsTotal ==
  ASSUME NEW S
  PROVE  Weight(S) = Total(weights, S)
BY DEF Weight, MapThenSumSet, MapThenFoldSet, Total, AddsUp, Picked

\* A table of outcomes, and the scenarios that weigh something.
Table(ws, ts) == ws \in Seq(Nat) /\ ts \in Seq([DOMAIN ws -> [left : Nat, right : Nat]])
Whole(ws) == {s \in DOMAIN ws : ws[s] # 0}

\* States are finite, and so are the values of tests on them.
LEMMA StatesAreFinite ==
  ASSUME NEW ws, NEW ts, Table(ws, ts), NEW S \in SUBSET Whole(ws), NEW t \in DOMAIN ts
  PROVE  /\ IsFiniteSet(S)
         /\ S \in SUBSET DOMAIN ws
         /\ ws \in [DOMAIN ws -> Nat]
         /\ Values(ts, t, S) \in SUBSET Nat
         /\ IsFiniteSet(Values(ts, t, S))
         /\ \A v \in Values(ts, t, S) : Part(ts, t, S, v) \in (SUBSET S) \ {{}}
<1>1. ws \in [DOMAIN ws -> Nat] /\ DOMAIN ws = 1..Len(ws) /\ Len(ws) \in Nat
  BY DEF Table
<1>2. S \in SUBSET DOMAIN ws
  BY DEF Whole
<1>3. IsFiniteSet(S)
  <2>1. IsFiniteSet(1..Len(ws))
    BY <1>1, FS_Interval
  <2> QED BY <1>1, <1>2, <2>1, FS_Subset
<1>4. ts[t] \in [DOMAIN ws -> [left : Nat, right : Nat]]
  BY DEF Table
<1>5. Values(ts, t, S) \in SUBSET Nat
  BY <1>2, <1>4 DEF Values, Left
<1>6. IsFiniteSet(Values(ts, t, S))
  <2> DEFINE L == Left(ts, t, S)
             g == [s \in L |-> ts[t][s].left]
  <2>1. IsFiniteSet(L)
    BY <1>3, FS_Subset DEF Left
  <2>2. g \in Surjection(L, Values(ts, t, S))
    BY DEF Surjection, Values
  <2> QED BY <2>1, <2>2, FS_Surjection
<1>7. \A v \in Values(ts, t, S) : Part(ts, t, S, v) \in (SUBSET S) \ {{}}
  BY DEF Values, Part, Left
<1> QED BY <1>1, <1>2, <1>3, <1>5, <1>6, <1>7

\* A branch of a test that is not passed over is smaller than the state.
LEMMA PartIsSmaller ==
  ASSUME NEW ts, NEW t, NEW S, ~Useless(ts, t, S), NEW v \in Values(ts, t, S)
  PROVE  Part(ts, t, S, v) # S
<1> SUFFICES ASSUME Part(ts, t, S, v) = S
             PROVE  FALSE
  OBVIOUS
<1>1. Left(ts, t, S) = S
  BY DEF Part, Left
<1>2. \A s \in Left(ts, t, S) : ts[t][s].left = v
  BY <1>1 DEF Part
<1>3. Values(ts, t, S) = {v}
  BY <1>2 DEF Values
<1>4. Cardinality(Values(ts, t, S)) = 1
  BY <1>3, FS_Singleton
<1> QED BY <1>1, <1>4 DEF Useless

\* The least of some naturals is one of them.
LEMMA LeastIsIn ==
  ASSUME NEW V \in SUBSET Nat, V # {}
  PROVE  Min(V) \in V /\ \A v \in V : Min(V) <= v
<1>1. \E x \in V : \A y \in V : x <= y
  BY LeastNatural
<1> QED BY <1>1 DEF Min

-----------------------------------------------------------------------------
(* What is known of a call of solve_state, and of the memo m.              *)

\* What a test comes to once the branches of the values V are answered, and in all.
ChildCosts(ts, m, t, S, V) == [v \in V |-> m[Part(ts, t, S, v)].cost]
Spent(ws, ts, m, t, S, V) == Total(ws, S) + Total(ChildCosts(ts, m, t, S, V), V)
CostOf(ws, ts, m, t, S) == Spent(ws, ts, m, t, S, Values(ts, t, S))

\* The branches of these values are in the memo.
Solved(ts, m, t, S, V) == \A v \in V : Part(ts, t, S, v) \in DOMAIN m

\* The least cost of the first n tests.
IsLeast(ws, ts, m, n, S, cost) ==
  /\ \A t \in 1..n : ~Useless(ts, t, S) => /\ Solved(ts, m, t, S, Values(ts, t, S))
                                           /\ cost <= CostOf(ws, ts, m, t, S)
  /\ \E t \in 1..n : ~Useless(ts, t, S) /\ cost = CostOf(ws, ts, m, t, S)

\* The best of the first n tests.
BestSound(ws, ts, m, n, S, best) ==
  /\ best = <<>> => \A t \in 1..n : Useless(ts, t, S)
  /\ best # <<>> => best.cost \in Nat /\ IsLeast(ws, ts, m, n, S, best.cost)

\* The memo has least costs.
MemoSound(ws, ts, m) ==
  /\ IsFiniteSet(DOMAIN m)
  /\ \A S \in DOMAIN m : /\ S \in (SUBSET Whole(ws)) \ {{}}
                         /\ m[S].cost \in Nat
                         /\ IsLeast(ws, ts, m, Len(ts), S, m[S].cost)

\* A call has the fields of a call.
IsRecord(c) == DOMAIN c = {"state", "test", "trying", "todo", "total", "children", "best"}

\* While a test is tried: what has been spent is the cost of the branches answered.
TryingSound(ws, ts, m, c) ==
  LET V == Values(ts, c.test, c.state) IN
  /\ c.test # 0
  /\ ~Useless(ts, c.test, c.state)
  /\ c.todo \in SUBSET V
  /\ Solved(ts, m, c.test, c.state, V \ c.todo)
  /\ c.total = Spent(ws, ts, m, c.test, c.state, V \ c.todo)
  /\ BestSound(ws, ts, m, c.test - 1, c.state, c.best)

\* A call of solve_state: its best is that of the tests looked at.
CallSound(ws, ts, m, c) ==
  /\ IsRecord(c)
  /\ c.state \in (SUBSET Whole(ws)) \ {{}}
  /\ c.test \in 0..Len(ts)
  /\ c.trying \in BOOLEAN
  /\ c.trying => TryingSound(ws, ts, m, c)
  /\ ~c.trying => BestSound(ws, ts, m, c.test, c.state, c.best)

\* What is spent is a natural, and one more branch adds its cost.
LEMMA SpentIsNatural ==
  ASSUME NEW ws, NEW ts, NEW m, Table(ws, ts), MemoSound(ws, ts, m),
         NEW S \in SUBSET Whole(ws), NEW t \in DOMAIN ts,
         NEW V \in SUBSET Values(ts, t, S), Solved(ts, m, t, S, V)
  PROVE  /\ ChildCosts(ts, m, t, S, V) \in [V -> Nat]
         /\ Total(ws, S) \in Nat
         /\ Total(ChildCosts(ts, m, t, S, V), V) \in Nat
         /\ Spent(ws, ts, m, t, S, V) \in Nat
<1>1. ChildCosts(ts, m, t, S, V) \in [V -> Nat]
  BY DEF ChildCosts, Solved, MemoSound
<1>2. IsFiniteSet(S) /\ S \in SUBSET DOMAIN ws /\ ws \in [DOMAIN ws -> Nat]
  BY StatesAreFinite
<1>3. Total(ws, S) \in Nat
  BY <1>2, TotalIsNatural
<1>4. IsFiniteSet(V)
  <2>1. IsFiniteSet(Values(ts, t, S))
    BY StatesAreFinite
  <2> QED BY <2>1, FS_Subset
<1>5. Total(ChildCosts(ts, m, t, S, V), V) \in Nat
  <2> DEFINE f == ChildCosts(ts, m, t, S, V)
  <2>1. f \in [V -> Nat] /\ V \in SUBSET V
    BY <1>1
  <2> HIDE DEF f
  <2>2. Total(f, V) \in Nat
    BY <1>4, <2>1, TotalIsNatural
  <2> QED BY <2>2 DEF f
<1> QED BY <1>1, <1>3, <1>5 DEF Spent

\* One more branch adds its cost to what is spent.
LEMMA SpentMore ==
  ASSUME NEW ws, NEW ts, NEW m, Table(ws, ts), MemoSound(ws, ts, m),
         NEW S \in SUBSET Whole(ws), NEW t \in DOMAIN ts,
         NEW V \in SUBSET Values(ts, t, S), Solved(ts, m, t, S, V),
         NEW v \in Values(ts, t, S) \ V, Part(ts, t, S, v) \in DOMAIN m
  PROVE  /\ Solved(ts, m, t, S, V \cup {v})
         /\ Spent(ws, ts, m, t, S, V \cup {v})
              = Spent(ws, ts, m, t, S, V) + m[Part(ts, t, S, v)].cost
<1> DEFINE U == V \cup {v}
           f == ChildCosts(ts, m, t, S, U)
           g == ChildCosts(ts, m, t, S, V)
<1>1. Solved(ts, m, t, S, U)
  BY DEF Solved
<1>2. U \in SUBSET Values(ts, t, S) /\ V \in SUBSET U /\ v \in U /\ v \notin V
  OBVIOUS
<1>3. f[v] = m[Part(ts, t, S, v)].cost /\ \A x \in V : f[x] = g[x]
  BY DEF ChildCosts
<1>4. IsFiniteSet(V)
  <2> HIDE DEF U, f, g
  <2>1. IsFiniteSet(Values(ts, t, S))
    BY StatesAreFinite
  <2>2. V \in SUBSET Values(ts, t, S)
    OBVIOUS
  <2> QED BY <2>1, <2>2, FS_Subset
<1>5. Total(ws, S) \in Nat /\ Total(g, V) \in Nat
  BY SpentIsNatural
<1>6. f \in [U -> Nat]
  <2> HIDE DEF U
  <2> QED BY <1>1, <1>2, SpentIsNatural
<1> HIDE DEF f, g
<1>7. Total(f, V) = Total(g, V)
  BY <1>3, <1>4, TotalAgree
<1>8. Total(f, V \cup {v}) = Total(f, V) + f[v]
  BY <1>2, <1>4, <1>6, TotalAdd
<1>9. Spent(ws, ts, m, t, S, U) = Total(ws, S) + Total(f, U)
  BY DEF Spent, f
<1>10. Spent(ws, ts, m, t, S, V) = Total(ws, S) + Total(g, V)
  BY DEF Spent, g
<1>11. f[v] \in Nat
  BY <1>2, <1>6
<1> QED BY <1>1, <1>3, <1>5, <1>7, <1>8, <1>9, <1>10, <1>11

-----------------------------------------------------------------------------
(* The memo grows.                                                         *)

\* The memo m with one more state.
Extended(m, R, answer) == [S \in DOMAIN m \cup {R} |-> IF S = R THEN answer ELSE m[S]]

\* What is known stays true when the memo learns of another state.
LEMMA SpentStays ==
  ASSUME NEW ws, NEW ts, NEW m, NEW R, R \notin DOMAIN m, NEW a,
         NEW t, NEW S, NEW V, Solved(ts, m, t, S, V)
  PROVE  /\ Solved(ts, Extended(m, R, a), t, S, V)
         /\ Spent(ws, ts, Extended(m, R, a), t, S, V) = Spent(ws, ts, m, t, S, V)
<1>1. Solved(ts, Extended(m, R, a), t, S, V)
  BY DEF Solved, Extended
<1>2. \A v \in V : Extended(m, R, a)[Part(ts, t, S, v)] = m[Part(ts, t, S, v)]
  BY DEF Solved, Extended
<1>3. ChildCosts(ts, Extended(m, R, a), t, S, V) = ChildCosts(ts, m, t, S, V)
  BY <1>2 DEF ChildCosts
<1> QED BY <1>1, <1>3 DEF Spent

\* The least cost of some tests stays when the memo learns of another state.
LEMMA LeastStays ==
  ASSUME NEW ws, NEW ts, NEW m, NEW R, R \notin DOMAIN m, NEW a,
         NEW n, NEW S, NEW cost, IsLeast(ws, ts, m, n, S, cost)
  PROVE  IsLeast(ws, ts, Extended(m, R, a), n, S, cost)
<1> DEFINE e == Extended(m, R, a)
<1>1. ASSUME NEW t \in 1..n, ~Useless(ts, t, S)
      PROVE  /\ Solved(ts, e, t, S, Values(ts, t, S))
             /\ CostOf(ws, ts, e, t, S) = CostOf(ws, ts, m, t, S)
  <2>1. Solved(ts, m, t, S, Values(ts, t, S))
    BY <1>1 DEF IsLeast
  <2> QED BY <2>1, SpentStays DEF CostOf
<1> HIDE DEF e
<1>2. \A t \in 1..n : ~Useless(ts, t, S) => /\ Solved(ts, e, t, S, Values(ts, t, S))
                                            /\ cost <= CostOf(ws, ts, e, t, S)
  BY <1>1 DEF IsLeast
<1>3. \E t \in 1..n : ~Useless(ts, t, S) /\ cost = CostOf(ws, ts, e, t, S)
  BY <1>1 DEF IsLeast
<1> QED BY <1>2, <1>3 DEF IsLeast, e

\* So does what is known of a call.
LEMMA CallStays ==
  ASSUME NEW ws, NEW ts, NEW m, NEW R, R \notin DOMAIN m, NEW a,
         NEW c, CallSound(ws, ts, m, c)
  PROVE  CallSound(ws, ts, Extended(m, R, a), c)
<1> DEFINE e == Extended(m, R, a)
<1>1. ASSUME NEW n, NEW S, NEW best, BestSound(ws, ts, m, n, S, best)
      PROVE  BestSound(ws, ts, e, n, S, best)
  BY <1>1, LeastStays DEF BestSound
<1>2. ASSUME c.trying
      PROVE  TryingSound(ws, ts, e, c)
  <2> DEFINE V == Values(ts, c.test, c.state) \ c.todo
  <2>1. TryingSound(ws, ts, m, c)
    BY <1>2 DEF CallSound
  <2>2. Solved(ts, m, c.test, c.state, V)
    BY <2>1 DEF TryingSound
  <2>3. /\ Solved(ts, e, c.test, c.state, V)
        /\ Spent(ws, ts, e, c.test, c.state, V) = Spent(ws, ts, m, c.test, c.state, V)
    BY <2>2, SpentStays
  <2> HIDE DEF e
  <2>4. BestSound(ws, ts, e, c.test - 1, c.state, c.best)
    BY <1>1, <2>1 DEF TryingSound
  <2> QED BY <2>1, <2>3, <2>4 DEF TryingSound
<1>3. ~c.trying => BestSound(ws, ts, e, c.test, c.state, c.best)
  BY <1>1 DEF CallSound
<1> HIDE DEF e
<1> QED BY <1>2, <1>3 DEF CallSound, e

\* A call whose tests have all been looked at has the least cost of its state, which the
\* memo then takes.
LEMMA MemoLearns ==
  ASSUME NEW ws, NEW ts, Table(ws, ts), NEW m, MemoSound(ws, ts, m),
         NEW c, CallSound(ws, ts, m, c), ~c.trying, c.test = Len(ts), c.best # <<>>,
         c.state \notin DOMAIN m
  PROVE  /\ MemoSound(ws, ts, Extended(m, c.state, c.best))
         /\ Cardinality(DOMAIN Extended(m, c.state, c.best)) = Cardinality(DOMAIN m) + 1
<1> DEFINE R == c.state
           e == Extended(m, R, c.best)
<1>1. DOMAIN e = DOMAIN m \cup {R} /\ e[R] = c.best /\ \A S \in DOMAIN m : e[S] = m[S]
  BY DEF Extended
<1>2. /\ IsFiniteSet(DOMAIN m \cup {R})
      /\ Cardinality(DOMAIN m \cup {R}) =
           IF R \in DOMAIN m THEN Cardinality(DOMAIN m) ELSE Cardinality(DOMAIN m) + 1
  BY FS_AddElement DEF MemoSound
<1>3. /\ R \in (SUBSET Whole(ws)) \ {{}}
      /\ c.best.cost \in Nat
      /\ IsLeast(ws, ts, m, Len(ts), R, c.best.cost)
  BY DEF CallSound, BestSound
<1>4. ASSUME NEW S \in DOMAIN e
      PROVE  /\ S \in (SUBSET Whole(ws)) \ {{}}
             /\ e[S].cost \in Nat
             /\ IsLeast(ws, ts, m, Len(ts), S, e[S].cost)
  <2> HIDE DEF e, R
  <2>1. CASE S = R
    BY <1>1, <1>3, <2>1
  <2>2. CASE S \in DOMAIN m
    BY <1>1, <2>2 DEF MemoSound
  <2> QED BY <1>1, <2>1, <2>2
<1>5. ASSUME NEW S \in DOMAIN e
      PROVE  IsLeast(ws, ts, e, Len(ts), S, e[S].cost)
  <2>1. IsLeast(ws, ts, m, Len(ts), S, e[S].cost)
    BY <1>4
  <2> QED BY <2>1, LeastStays
<1> HIDE DEF e, R
<1>6. MemoSound(ws, ts, e)
  BY <1>1, <1>2, <1>4, <1>5 DEF MemoSound
<1> QED BY <1>1, <1>2, <1>6 DEF e, R

-----------------------------------------------------------------------------
(* Steps of one call.                                                      *)

\* A call that has just been made.
LEMMA CallBegins ==
  ASSUME NEW ws, NEW ts, Table(ws, ts), NEW m, NEW S \in (SUBSET Whole(ws)) \ {{}}
  PROVE  CallSound(ws, ts, m, Call(S)) /\ Call(S).state = S
<1> DEFINE c == Call(S)
<1>1. /\ IsRecord(c) /\ c.state = S /\ c.test = 0 /\ c.trying = FALSE /\ c.best = <<>>
  BY DEF Call, IsRecord
<1>2. Len(ts) \in Nat
  BY DEF Table
<1> HIDE DEF c
<1>3. BestSound(ws, ts, m, 0, S, <<>>)
  BY DEF BestSound
<1>4. ~c.trying /\ c.trying \in BOOLEAN /\ c.test \in 0..Len(ts)
  <2>1. c.trying = FALSE
    BY <1>1
  <2>2. c.test \in 0..Len(ts)
    BY <1>1, <1>2
  <2> QED BY <2>1, <2>2, Zenon
<1>5. BestSound(ws, ts, m, c.test, c.state, c.best)
  BY <1>1, <1>3
<1>6. CallSound(ws, ts, m, c)
  BY <1>1, <1>4, <1>5 DEF CallSound
<1> QED BY <1>1, <1>6 DEF c

\* The best of some tests is that of one more which is passed over.
LEMMA BestSkips ==
  ASSUME NEW ws, NEW ts, NEW m, NEW n \in Nat, NEW S, NEW best,
         BestSound(ws, ts, m, n, S, best), Useless(ts, n + 1, S)
  PROVE  BestSound(ws, ts, m, n + 1, S, best)
<1>1. \A t \in 1..(n + 1) : t \in 1..n \/ t = n + 1
  OBVIOUS
<1>2. \A t \in 1..n : t \in 1..(n + 1)
  OBVIOUS
<1> QED BY <1>1, <1>2 DEF BestSound, IsLeast

\* A call that passes over a test.
LEMMA CallSkips ==
  ASSUME NEW ws, NEW ts, Table(ws, ts), NEW m, NEW c, CallSound(ws, ts, m, c), ~c.trying,
         c.test < Len(ts), Useless(ts, c.test + 1, c.state)
  PROVE  /\ CallSound(ws, ts, m, [c EXCEPT !.test = @ + 1])
         /\ [c EXCEPT !.test = @ + 1].state = c.state
<1> DEFINE d == [c EXCEPT !.test = @ + 1]
<1>1. IsRecord(c) /\ c.test \in 0..Len(ts) /\ Len(ts) \in Nat
  BY DEF CallSound, Table
<1>2. /\ IsRecord(d) /\ d.state = c.state /\ d.test = c.test + 1 /\ d.trying = c.trying
      /\ d.best = c.best
  BY <1>1 DEF IsRecord
<1> HIDE DEF d
<1>3. BestSound(ws, ts, m, c.test + 1, c.state, c.best)
  BY <1>1, BestSkips DEF CallSound
<1>4. CallSound(ws, ts, m, d)
  BY <1>1, <1>2, <1>3 DEF CallSound
<1> QED BY <1>2, <1>4 DEF d

\* A call that begins to try a test: no branch is answered yet.
LEMMA CallTries ==
  ASSUME Table(weights, tests), NEW m, MemoSound(weights, tests, m),
         NEW c, CallSound(weights, tests, m, c), ~c.trying,
         c.test < Len(tests), ~Useless(tests, c.test + 1, c.state)
  PROVE  /\ CallSound(weights, tests, m, Trying(c))
         /\ Trying(c).state = c.state
<1> DEFINE d == Trying(c)
           S == c.state
           n == c.test
           V == Values(tests, n + 1, S)
<1>1. IsRecord(c) /\ n \in 0..Len(tests) /\ Len(tests) \in Nat /\ S \in (SUBSET Whole(weights)) \ {{}}
  BY DEF CallSound, Table
<1>2. /\ IsRecord(d) /\ d.state = S /\ d.test = n + 1 /\ d.trying = TRUE
      /\ d.todo = DOMAIN Branches(n + 1, S) /\ d.total = Weight(S) /\ d.best = c.best
  <2> DEFINE todo == DOMAIN Branches(n + 1, S)
             total == Weight(S)
             children == <<>>
  <2>1. d = [c EXCEPT !.test = @ + 1, !.trying = TRUE, !.todo = todo, !.total = total,
                      !.children = children]
    BY DEF Trying
  <2> HIDE DEF d, todo, total, children
  <2>2. /\ IsRecord(d) /\ d.state = c.state /\ d.test = c.test + 1 /\ d.trying = TRUE
        /\ d.todo = todo /\ d.total = total /\ d.best = c.best
    BY <1>1, <2>1 DEF IsRecord
  <2> QED BY <2>2 DEF todo, total
<1>3. d.todo = V /\ d.total = Total(weights, S)
  BY <1>2, ModelWords, WeightIsTotal
<1>4. BestSound(weights, tests, m, n, S, c.best)
  BY DEF CallSound
<1>5. n + 1 \in DOMAIN tests
  BY <1>1 DEF Table
<1> HIDE DEF d, V
<1>6. Solved(tests, m, n + 1, S, {})
  BY DEF Solved
<1>7. Spent(weights, tests, m, n + 1, S, {}) = Total(weights, S)
  <2> DEFINE f == ChildCosts(tests, m, n + 1, S, {})
  <2>1. Total(f, {}) = 0
    <3> HIDE DEF f
    <3> QED BY FS_EmptySet, TotalStep
  <2>2. Total(weights, S) \in Nat
    <3> DEFINE t == n + 1
    <3>1. S \in SUBSET Whole(weights) /\ t \in DOMAIN tests
      BY <1>1, <1>5
    <3> HIDE DEF t, S
    <3>2. /\ IsFiniteSet(S) /\ S \in SUBSET DOMAIN weights
          /\ weights \in [DOMAIN weights -> Nat]
      BY <3>1, StatesAreFinite
    <3> QED BY <3>2, TotalIsNatural
  <2>3. Spent(weights, tests, m, n + 1, S, {}) = Total(weights, S) + Total(f, {})
    BY DEF Spent
  <2> QED BY <2>1, <2>2, <2>3
<1>8. V \ d.todo = {}
  BY <1>3
<1>9. TryingSound(weights, tests, m, d)
  <2>1. d.test # 0 /\ ~Useless(tests, d.test, d.state)
    BY <1>1, <1>2
  <2>2. Values(tests, d.test, d.state) = V
    BY <1>2 DEF V
  <2>3. BestSound(weights, tests, m, d.test - 1, d.state, d.best)
    <3>1. d.test - 1 = n
      BY <1>1, <1>2
    <3> QED BY <1>2, <1>4, <3>1
  <2>4. Solved(tests, m, d.test, d.state, V \ d.todo)
    BY <1>2, <1>6, <1>8
  <2>5. d.total = Spent(weights, tests, m, d.test, d.state, V \ d.todo)
    BY <1>2, <1>3, <1>7, <1>8
  <2> QED BY <1>3, <2>1, <2>2, <2>3, <2>4, <2>5 DEF TryingSound
<1>10. d.trying /\ d.trying \in BOOLEAN /\ d.test \in 0..Len(tests)
  <2>1. d.trying = TRUE
    BY <1>2
  <2>2. d.test \in 0..Len(tests)
    BY <1>1, <1>2
  <2> QED BY <2>1, <2>2, Zenon
<1>11. CallSound(weights, tests, m, d)
  <2>1. d.state \in (SUBSET Whole(weights)) \ {{}}
    BY <1>1, <1>2
  <2> QED BY <1>2, <1>9, <1>10, <2>1 DEF CallSound
<1> QED BY <1>2, <1>11 DEF d

\* The state of the branch whose turn it is.
NextPart(ts, c) == Part(ts, c.test, c.state, Min(c.todo))

\* The branch whose turn it is has a state smaller than the call's.
LEMMA BranchIsNext ==
  ASSUME Table(weights, tests), NEW m, NEW c, CallSound(weights, tests, m, c),
         c.trying, c.todo # {}
  PROVE  /\ Value(c) = Min(c.todo) /\ Value(c) \in c.todo
         /\ Value(c) \in Values(tests, c.test, c.state)
         /\ c.test \in DOMAIN tests /\ c.state \in SUBSET Whole(weights)
         /\ ChildState(c) = NextPart(tests, c)
         /\ NextPart(tests, c) \in (SUBSET c.state) \ {{}}
         /\ NextPart(tests, c) # c.state
<1> DEFINE v == Value(c)
           V == Values(tests, c.test, c.state)
<1>1. c.test \in DOMAIN tests /\ c.state \in SUBSET Whole(weights)
  BY DEF CallSound, TryingSound, Table
<1>2. c.todo \in SUBSET V /\ ~Useless(tests, c.test, c.state)
  BY DEF CallSound, TryingSound
<1>3. V \in SUBSET Nat
  <2> DEFINE t == c.test
             S == c.state
  <2>1. t \in DOMAIN tests /\ S \in SUBSET Whole(weights)
    BY <1>1
  <2> HIDE DEF t, S
  <2>2. Values(tests, t, S) \in SUBSET Nat
    BY <2>1, StatesAreFinite
  <2> QED BY <2>2 DEF t, S
<1>4. v = Min(c.todo)
  BY DEF Value
<1>5. v \in c.todo /\ v \in V
  <2> HIDE DEF V
  <2>1. c.todo \in SUBSET Nat
    BY <1>2, <1>3
  <2>2. Min(c.todo) \in c.todo
    BY <2>1, LeastIsIn
  <2> QED BY <1>2, <1>4, <2>2
<1>6. ChildState(c) = Part(tests, c.test, c.state, v)
  BY <1>5, ModelWords DEF ChildState
<1>7. Part(tests, c.test, c.state, v) \in (SUBSET c.state) \ {{}}
  BY <1>1, <1>5, StatesAreFinite
<1>8. Part(tests, c.test, c.state, v) # c.state
  BY <1>2, <1>5, PartIsSmaller
<1> QED BY <1>1, <1>4, <1>5, <1>6, <1>7, <1>8 DEF NextPart

\* The memo has the answer for the branch.
LEMMA CallIsAnswered ==
  ASSUME Table(weights, tests), NEW m, MemoSound(weights, tests, m),
         NEW c, CallSound(weights, tests, m, c), c.trying, c.todo # {},
         NextPart(tests, c) \in DOMAIN m
  PROVE  /\ CallSound(weights, tests, m, Answered(c, m[NextPart(tests, c)]))
         /\ Answered(c, m[NextPart(tests, c)]).state = c.state
<1> DEFINE S == c.state
           t == c.test
           v == Value(c)
           V == Values(tests, t, S)
           U == V \ c.todo
           a == m[NextPart(tests, c)]
           d == Answered(c, a)
<1>1. /\ v = Min(c.todo) /\ v \in c.todo /\ v \in V
      /\ t \in DOMAIN tests /\ S \in SUBSET Whole(weights)
  BY BranchIsNext
<1>2. NextPart(tests, c) = Part(tests, t, S, v)
  BY <1>1 DEF NextPart
<1>3. IsRecord(c) /\ TryingSound(weights, tests, m, c)
  BY DEF CallSound
<1>4. /\ IsRecord(d) /\ d.state = S /\ d.test = t /\ d.trying = c.trying
      /\ d.todo = c.todo \ {v} /\ d.total = c.total + a.cost /\ d.best = c.best
  <2> DEFINE todo == c.todo \ {v}
             total == c.total + a.cost
             children == [x \in DOMAIN c.children \cup {v} |->
                            IF x = v THEN a.node ELSE c.children[x]]
  <2>1. d = [c EXCEPT !.todo = todo, !.total = total, !.children = children]
    BY <1>3 DEF Answered, IsRecord
  <2> HIDE DEF d, todo, total, children, S, t
  <2>2. /\ IsRecord(d) /\ d.state = c.state /\ d.test = c.test /\ d.trying = c.trying
        /\ d.todo = todo /\ d.total = total /\ d.best = c.best
    BY <1>3, <2>1 DEF IsRecord
  <2> QED BY <2>2 DEF todo, total, S, t
<1>5. /\ Solved(tests, m, t, S, U) /\ c.total = Spent(weights, tests, m, t, S, U)
      /\ c.todo \in SUBSET V
  BY <1>3 DEF TryingSound
<1>6. U \in SUBSET V /\ v \in V \ U /\ V \ d.todo = U \cup {v}
  BY <1>1, <1>4, <1>5
<1> HIDE DEF d, V, U, v
<1>7. /\ Solved(tests, m, t, S, U \cup {v})
      /\ Spent(weights, tests, m, t, S, U \cup {v})
           = Spent(weights, tests, m, t, S, U) + m[Part(tests, t, S, v)].cost
  <2>1. Part(tests, t, S, v) \in DOMAIN m
    BY <1>2
  <2>2. U \in SUBSET Values(tests, t, S) /\ v \in Values(tests, t, S) \ U
    BY <1>6 DEF V
  <2>3. t \in DOMAIN tests /\ S \in SUBSET Whole(weights) /\ Solved(tests, m, t, S, U)
    BY <1>1, <1>5
  <2> HIDE DEF t, S
  <2> QED BY <2>1, <2>2, <2>3, SpentMore
<1>8. TryingSound(weights, tests, m, d)
  <2>1. d.test # 0 /\ ~Useless(tests, d.test, d.state)
    BY <1>3, <1>4 DEF TryingSound
  <2>2. d.todo \in SUBSET V /\ Values(tests, d.test, d.state) = V
    BY <1>4, <1>5 DEF V
  <2>3. Solved(tests, m, d.test, d.state, V \ d.todo)
    BY <1>4, <1>6, <1>7
  <2>4. d.total = Spent(weights, tests, m, d.test, d.state, V \ d.todo)
    BY <1>2, <1>4, <1>5, <1>6, <1>7
  <2>5. BestSound(weights, tests, m, d.test - 1, d.state, d.best)
    BY <1>3, <1>4 DEF TryingSound
  <2> QED BY <2>1, <2>2, <2>3, <2>4, <2>5 DEF TryingSound
<1>9. CallSound(weights, tests, m, d)
  <2>1. /\ d.state \in (SUBSET Whole(weights)) \ {{}} /\ d.test \in 0..Len(tests)
        /\ d.trying \in BOOLEAN /\ d.trying
    BY <1>4 DEF CallSound
  <2> QED BY <1>4, <1>8, <2>1 DEF CallSound
<1> QED BY <1>4, <1>9 DEF d

\* The best of some tests and one more that has been tried.
LEMMA BestJudged ==
  ASSUME Table(weights, tests), NEW m, MemoSound(weights, tests, m),
         NEW n \in Nat, n + 1 \in DOMAIN tests, NEW S \in SUBSET Whole(weights), NEW best, NEW new,
         BestSound(weights, tests, m, n, S, best),
         ~Useless(tests, n + 1, S), Solved(tests, m, n + 1, S, Values(tests, n + 1, S)),
         new.cost = CostOf(weights, tests, m, n + 1, S), new # <<>>
  PROVE  BestSound(weights, tests, m, n + 1, S,
                   IF best = <<>> THEN new ELSE IF new.cost < best.cost THEN new ELSE best)
<1> DEFINE cost(t) == CostOf(weights, tests, m, t, S)
           tried(t) == Solved(tests, m, t, S, Values(tests, t, S))
           passed(t) == Useless(tests, t, S)
<1>1. \A t \in 1..(n + 1) : t \in 1..n \/ t = n + 1
  OBVIOUS
<1>2. \A t \in 1..n : t \in 1..(n + 1) /\ t \in DOMAIN tests
  BY DEF Table
<1>3. ASSUME NEW t \in DOMAIN tests, tried(t)
      PROVE  cost(t) \in Nat
  <2> DEFINE V == Values(tests, t, S)
  <2>1. V \in SUBSET Values(tests, t, S) /\ Solved(tests, m, t, S, V)
    BY <1>3
  <2> HIDE DEF V
  <2>2. Spent(weights, tests, m, t, S, V) \in Nat
    BY <2>1, SpentIsNatural
  <2> QED BY <2>2 DEF CostOf, V
<1>4. new.cost \in Nat /\ \A t \in 1..n : tried(t) => cost(t) \in Nat
  <2> HIDE DEF tried
  <2>1. new.cost = cost(n + 1) /\ tried(n + 1)
    BY DEF tried
  <2> HIDE DEF cost
  <2> QED BY <1>2, <1>3, <2>1
<1>5. \A x : IsLeast(weights, tests, m, n + 1, S, x) <=>
               /\ \A t \in 1..(n + 1) : ~passed(t) => tried(t) /\ x <= cost(t)
               /\ \E t \in 1..(n + 1) : ~passed(t) /\ x = cost(t)
  BY DEF IsLeast
<1>6. \A x : IsLeast(weights, tests, m, n, S, x) <=>
               /\ \A t \in 1..n : ~passed(t) => tried(t) /\ x <= cost(t)
               /\ \E t \in 1..n : ~passed(t) /\ x = cost(t)
  BY DEF IsLeast
<1>7. new.cost = cost(n + 1) /\ tried(n + 1) /\ ~passed(n + 1)
  OBVIOUS
<1> HIDE DEF cost, tried, passed
<1>8. CASE best = <<>>
  <2>1. \A t \in 1..n : passed(t)
    BY <1>8 DEF BestSound, passed
  <2>2. IsLeast(weights, tests, m, n + 1, S, new.cost)
    BY <1>1, <1>4, <1>5, <1>7, <2>1
  <2> QED BY <1>4, <1>8, <2>2 DEF BestSound
<1>9. CASE best # <<>>
  <2>1. best.cost \in Nat /\ IsLeast(weights, tests, m, n, S, best.cost)
    BY <1>9 DEF BestSound
  <2>2. CASE new.cost < best.cost
    <3>1. \A t \in 1..n : ~passed(t) => tried(t) /\ new.cost <= cost(t)
      BY <1>4, <1>6, <2>1, <2>2
    <3>2. IsLeast(weights, tests, m, n + 1, S, new.cost)
      BY <1>1, <1>4, <1>5, <1>7, <3>1
    <3> QED BY <1>4, <1>9, <2>2, <3>2 DEF BestSound
  <2>3. CASE ~(new.cost < best.cost)
    <3>1. best.cost <= cost(n + 1)
      BY <1>4, <1>7, <2>1, <2>3
    <3>2. IsLeast(weights, tests, m, n + 1, S, best.cost)
      BY <1>1, <1>2, <1>5, <1>6, <1>7, <2>1, <3>1
    <3> QED BY <1>9, <2>1, <2>3, <3>2 DEF BestSound
  <2> QED BY <2>2, <2>3
<1> QED BY <1>8, <1>9

\* A call whose test has been tried keeps the better tree.
LEMMA CallIsJudged ==
  ASSUME Table(weights, tests), NEW m, MemoSound(weights, tests, m),
         NEW c, CallSound(weights, tests, m, c), c.trying, c.todo = {}
  PROVE  /\ CallSound(weights, tests, m, Judged(c))
         /\ Judged(c).state = c.state
<1> DEFINE S == c.state
           n == c.test - 1
           new == Candidate(c)
           best == IF c.best = <<>> THEN new ELSE IF new.cost < c.best.cost THEN new ELSE c.best
           d == Judged(c)
           V == Values(tests, c.test, S)
<1>1. IsRecord(c) /\ TryingSound(weights, tests, m, c) /\ c.test \in 0..Len(tests)
  BY DEF CallSound
<1>2. Len(tests) \in Nat /\ DOMAIN tests = 1..Len(tests)
  BY DEF Table
<1>3. n \in Nat /\ n + 1 = c.test /\ c.test \in DOMAIN tests
  BY <1>1, <1>2 DEF TryingSound
<1>4. new.cost = c.total /\ new # <<>>
  <2>1. DOMAIN new = {"cost", "node"} /\ DOMAIN <<>> = {}
    BY DEF Candidate
  <2>2. new # <<>>
    BY <2>1
  <2>3. new.cost = c.total
    BY DEF Candidate
  <2> QED BY <2>2, <2>3
<1>5. IsRecord(d) /\ d.state = S /\ d.test = c.test /\ d.trying = FALSE /\ d.best = best
  <2>1. d = [c EXCEPT !.trying = FALSE, !.best = best]
    <3> HIDE DEF new
    <3> QED BY <1>1, <1>4 DEF IsRecord, Judged, new
  <2> HIDE DEF d, best
  <2> QED BY <1>1, <2>1 DEF IsRecord
<1>6. V \ c.todo = V
  OBVIOUS
<1>7. /\ Solved(tests, m, c.test, S, V) /\ c.total = CostOf(weights, tests, m, c.test, S)
      /\ ~Useless(tests, c.test, S) /\ BestSound(weights, tests, m, n, S, c.best)
  BY <1>1, <1>6 DEF TryingSound, CostOf
<1>8. S \in SUBSET Whole(weights)
  BY DEF CallSound
<1> HIDE DEF n, new, d
<1>9. BestSound(weights, tests, m, n + 1, S, best)
  BY <1>3, <1>4, <1>7, <1>8, BestJudged
<1>10. BestSound(weights, tests, m, d.test, d.state, d.best)
  BY <1>3, <1>5, <1>9
<1>11. ~d.trying /\ d.trying \in BOOLEAN
  <2>1. d.trying = FALSE
    BY <1>5
  <2> QED BY <2>1, Zenon
<1>12. d.state \in (SUBSET Whole(weights)) \ {{}} /\ d.test \in 0..Len(tests)
  BY <1>5 DEF CallSound
<1>13. CallSound(weights, tests, m, d)
  BY <1>5, <1>10, <1>11, <1>12 DEF CallSound
<1> QED BY <1>5, <1>13 DEF d

-----------------------------------------------------------------------------
(* The stack of calls.                                                     *)

\* A sequence, of whatever it holds.
IsStack(st) == st \in Seq({st[k] : k \in DOMAIN st})

\* The outermost call is for the whole problem.  Calls get smaller from caller to callee,
\* which works on the branch its caller waits for.
StackSound(ws, ts, m, st) ==
  /\ IsStack(st)
  /\ \A k \in 1..Len(st) : CallSound(ws, ts, m, st[k]) /\ st[k].state \notin DOMAIN m
  /\ \A k \in 1..Len(st) : k = 1 => st[k].state = Whole(ws)
  /\ \A k \in 1..(Len(st) - 1) : /\ st[k].trying /\ st[k].todo # {}
                                 /\ st[k + 1].state = NextPart(ts, st[k])
  /\ \A i, j \in 1..Len(st) : i < j => /\ st[j].state \subseteq st[i].state
                                       /\ st[j].state # st[i].state

\* The last call of a stack.
LEMMA StackTop ==
  ASSUME NEW st, IsStack(st)
  PROVE  /\ Len(st) \in Nat /\ DOMAIN st = 1..Len(st)
         /\ st = <<>> <=> Len(st) = 0
         /\ st # <<>> => Len(st) \in 1..Len(st) /\ Last(st) = st[Len(st)]
BY DEF IsStack, Last

\* The last call changes.
LEMMA StackReplaced ==
  ASSUME NEW st, IsStack(st), st # <<>>, NEW c
  PROVE  /\ IsStack(Replaced(st, c))
         /\ Len(Replaced(st, c)) = Len(st)
         /\ Replaced(st, c)[Len(st)] = c
         /\ \A k \in 1..(Len(st) - 1) : Replaced(st, c)[k] = st[k]
<1> DEFINE n == Len(st)
           r == Replaced(st, c)
<1>1. n \in Nat \ {0} /\ DOMAIN st = 1..n
  BY StackTop
<1>2. st = [k \in 1..n |-> st[k]]
  BY <1>1 DEF IsStack
<1>3. r = [k \in 1..n |-> IF k = n THEN c ELSE st[k]]
  BY <1>1, <1>2 DEF Replaced
<1> HIDE DEF r, n
<1>4. DOMAIN r = 1..n /\ r[n] = c /\ \A k \in 1..(n - 1) : r[k] = st[k]
  BY <1>1, <1>3
<1>5. r \in [1..n -> {r[k] : k \in 1..n}]
  BY <1>3
<1>6. r \in Seq({r[k] : k \in 1..n}) /\ Len(r) = n
  BY <1>1, <1>5
<1> QED BY <1>4, <1>6 DEF IsStack, r, n

\* One more call.
LEMMA StackPushed ==
  ASSUME NEW st, IsStack(st), NEW c
  PROVE  /\ IsStack(Append(st, c))
         /\ Len(Append(st, c)) = Len(st) + 1
         /\ Append(st, c)[Len(st) + 1] = c
         /\ \A k \in 1..Len(st) : Append(st, c)[k] = st[k]
<1> DEFINE n == Len(st)
           T == {st[k] : k \in DOMAIN st} \cup {c}
           r == Append(st, c)
<1>1. n \in Nat /\ DOMAIN st = 1..n
  BY StackTop
<1>2. st \in Seq(T)
  BY <1>1 DEF IsStack
<1>3. c \in T
  OBVIOUS
<1> HIDE DEF T
<1>4. /\ r \in Seq(T) /\ Len(r) = n + 1 /\ r[n + 1] = c
      /\ \A k \in 1..n : r[k] = st[k]
  BY <1>2, <1>3
<1> HIDE DEF r, n
<1>5. DOMAIN r = 1..(n + 1) /\ r \in [1..(n + 1) -> {r[k] : k \in 1..(n + 1)}]
  BY <1>1, <1>4
<1>6. r \in Seq({r[k] : k \in 1..(n + 1)})
  BY <1>1, <1>5
<1> QED BY <1>4, <1>5, <1>6 DEF IsStack, r, n

\* The last call leaves.
LEMMA StackPopped ==
  ASSUME NEW st, IsStack(st), st # <<>>
  PROVE  /\ IsStack(Front(st))
         /\ Len(Front(st)) = Len(st) - 1
         /\ \A k \in 1..(Len(st) - 1) : Front(st)[k] = st[k]
<1> DEFINE n == Len(st)
           T == {st[k] : k \in DOMAIN st}
           r == Front(st)
<1>1. n \in Nat \ {0} /\ DOMAIN st = 1..n
  BY StackTop
<1>2. st \in Seq(T)
  BY DEF IsStack
<1> HIDE DEF T
<1>3. /\ r \in Seq(T) /\ Len(r) = n - 1
      /\ \A k \in 1..(n - 1) : r[k] = st[k]
  BY <1>1, <1>2 DEF Front
<1> HIDE DEF r, n
<1>4. DOMAIN r = 1..(n - 1) /\ r \in [1..(n - 1) -> {r[k] : k \in 1..(n - 1)}]
  BY <1>1, <1>3
<1>5. r \in Seq({r[k] : k \in 1..(n - 1)})
  BY <1>1, <1>4
<1> QED BY <1>3, <1>4, <1>5 DEF IsStack, r, n

\* A step of the last call.
LEMMA TopChanges ==
  ASSUME NEW ws, NEW ts, NEW m, NEW st, StackSound(ws, ts, m, st), st # <<>>,
         NEW c, CallSound(ws, ts, m, c), c.state = Last(st).state
  PROVE  /\ StackSound(ws, ts, m, Replaced(st, c))
         /\ Len(Replaced(st, c)) = Len(st)
<1> DEFINE n == Len(st)
           r == Replaced(st, c)
<1>1. IsStack(st) /\ n \in Nat \ {0} /\ Last(st) = st[n]
  BY StackTop DEF StackSound
<1>2. IsStack(r) /\ Len(r) = n /\ r[n] = c /\ \A k \in 1..(n - 1) : r[k] = st[k]
  BY <1>1, StackReplaced
<1> HIDE DEF r
<1>3. \A k \in 1..n : r[k].state = st[k].state
  BY <1>1, <1>2
<1>4. \A k \in 1..n : CallSound(ws, ts, m, r[k])
  BY <1>1, <1>2 DEF StackSound
<1>5. \A k \in 1..n : r[k].state \notin DOMAIN m
  BY <1>3 DEF StackSound
<1>6. ASSUME NEW k \in 1..(n - 1)
      PROVE  r[k].trying /\ r[k].todo # {} /\ r[k + 1].state = NextPart(ts, r[k])
  <2>1. r[k] = st[k] /\ k + 1 \in 1..n
    BY <1>1, <1>2
  <2>2. st[k].trying /\ st[k].todo # {} /\ st[k + 1].state = NextPart(ts, st[k])
    BY DEF StackSound
  <2> QED BY <1>3, <2>1, <2>2
<1>7. \A i, j \in 1..n : i < j => r[j].state \subseteq r[i].state /\ r[j].state # r[i].state
  BY <1>3 DEF StackSound
<1>8. \A k \in 1..n : k = 1 => r[k].state = Whole(ws)
  BY <1>3 DEF StackSound
<1> QED BY <1>2, <1>4, <1>5, <1>6, <1>7, <1>8 DEF StackSound, r

\* A call for the branch that the last call waits for.
LEMMA CallIsPushed ==
  ASSUME Table(weights, tests), NEW m, NEW st, StackSound(weights, tests, m, st), st # <<>>,
         Last(st).trying, Last(st).todo # {}, NextPart(tests, Last(st)) \notin DOMAIN m
  PROVE  /\ StackSound(weights, tests, m, Append(st, Call(NextPart(tests, Last(st)))))
         /\ Len(Append(st, Call(NextPart(tests, Last(st))))) = Len(st) + 1
<1> DEFINE n == Len(st)
           top == Last(st)
           R == NextPart(tests, top)
           c == Call(R)
           r == Append(st, c)
<1>1. IsStack(st) /\ n \in Nat \ {0} /\ n \in 1..n /\ top = st[n]
  BY StackTop DEF StackSound
<1>2. CallSound(weights, tests, m, top)
  BY <1>1 DEF StackSound
<1>3. /\ R \in (SUBSET top.state) \ {{}} /\ R # top.state
      /\ top.state \in SUBSET Whole(weights)
  BY <1>2, BranchIsNext
<1>4. CallSound(weights, tests, m, c) /\ c.state = R
  <2>1. R \in (SUBSET Whole(weights)) \ {{}}
    BY <1>3
  <2> HIDE DEF R
  <2> QED BY <2>1, CallBegins
<1> HIDE DEF c
<1>5. IsStack(r) /\ Len(r) = n + 1 /\ r[n + 1] = c /\ \A k \in 1..n : r[k] = st[k]
  BY <1>1, StackPushed
<1> HIDE DEF r, R
<1>6. \A k \in 1..(n + 1) : k \in 1..n \/ k = n + 1
  BY <1>1
<1>7. \A k \in 1..(n + 1) : CallSound(weights, tests, m, r[k]) /\ r[k].state \notin DOMAIN m
  <2>1. R \notin DOMAIN m
    BY DEF R
  <2> QED BY <1>4, <1>5, <1>6, <2>1 DEF StackSound
<1>8. ASSUME NEW k \in 1..n
      PROVE  r[k].trying /\ r[k].todo # {} /\ r[k + 1].state = NextPart(tests, r[k])
  <2>1. CASE k = n
    BY <1>1, <1>4, <1>5, <2>1 DEF R
  <2>2. CASE k # n
    <3>1. k \in 1..(n - 1) /\ k + 1 \in 1..n
      BY <1>1, <2>2
    <3> QED BY <1>5, <3>1 DEF StackSound
  <2> QED BY <2>1, <2>2
<1>9. ASSUME NEW i \in 1..(n + 1), NEW j \in 1..(n + 1), i < j
      PROVE  r[j].state \subseteq r[i].state /\ r[j].state # r[i].state
  <2>1. i \in 1..n /\ r[i] = st[i]
    BY <1>1, <1>5, <1>9
  <2>2. CASE j \in 1..n
    BY <1>5, <1>9, <2>1, <2>2 DEF StackSound
  <2>3. CASE j = n + 1
    <3>1. r[j].state = R
      BY <1>4, <1>5, <2>3
    <3>2. top.state \subseteq st[i].state
      <4>1. CASE i = n
        BY <1>1, <4>1
      <4>2. CASE i # n
        <5>1. i < n
          BY <1>1, <2>1, <4>2
        <5> QED BY <1>1, <2>1, <5>1 DEF StackSound
      <4> QED BY <4>1, <4>2
    <3> QED BY <1>3, <2>1, <3>1, <3>2
  <2> QED BY <1>6, <2>2, <2>3
<1>10. \A k \in 1..(n + 1) : k = 1 => r[k].state = Whole(weights)
  <2>1. 1 \in 1..n
    BY <1>1
  <2> QED BY <1>5, <2>1 DEF StackSound
<1>11. (n + 1) - 1 = n
  BY <1>1
<1> QED BY <1>5, <1>7, <1>8, <1>9, <1>10, <1>11 DEF StackSound, r, c, R

\* The last call returns, and the memo has its answer.
LEMMA CallIsPopped ==
  ASSUME NEW ws, NEW ts, NEW m, NEW st, StackSound(ws, ts, m, st), st # <<>>, NEW a
  PROVE  /\ StackSound(ws, ts, Extended(m, Last(st).state, a), Front(st))
         /\ Len(Front(st)) = Len(st) - 1
         /\ Last(st).state \notin DOMAIN m
         /\ Front(st) # <<>> =>
              /\ CallSound(ws, ts, Extended(m, Last(st).state, a), Last(Front(st)))
              /\ Last(Front(st)).trying /\ Last(Front(st)).todo # {}
              /\ NextPart(ts, Last(Front(st))) = Last(st).state
<1> DEFINE n == Len(st)
           R == Last(st).state
           e == Extended(m, R, a)
           r == Front(st)
<1>1. IsStack(st) /\ n \in Nat \ {0} /\ n \in 1..n /\ Last(st) = st[n]
  BY StackTop DEF StackSound
<1>2. IsStack(r) /\ Len(r) = n - 1 /\ \A k \in 1..(n - 1) : r[k] = st[k]
  BY <1>1, StackPopped
<1>3. R \notin DOMAIN m
  BY <1>1 DEF StackSound
<1>4. DOMAIN e = DOMAIN m \cup {R}
  BY DEF Extended
<1> HIDE DEF r, R, e
<1>5. ASSUME NEW k \in 1..(n - 1)
      PROVE  /\ CallSound(ws, ts, e, r[k]) /\ r[k].state \notin DOMAIN e
             /\ r[k].trying /\ r[k].todo # {} /\ st[k + 1].state = NextPart(ts, r[k])
  <2>1. k \in 1..n /\ k < n /\ r[k] = st[k]
    BY <1>1, <1>2
  <2>2. /\ CallSound(ws, ts, m, st[k]) /\ st[k].state \notin DOMAIN m
        /\ st[n].state # st[k].state
    BY <1>1, <2>1 DEF StackSound
  <2>3. CallSound(ws, ts, e, st[k])
    BY <1>3, <2>2, CallStays DEF e
  <2>4. st[k].trying /\ st[k].todo # {} /\ st[k + 1].state = NextPart(ts, st[k])
    BY DEF StackSound
  <2>5. R = st[n].state
    BY <1>1 DEF R
  <2> QED BY <1>4, <2>1, <2>2, <2>3, <2>4, <2>5
<1>6. \A k \in 1..((n - 1) - 1) : k \in 1..(n - 1) /\ k + 1 \in 1..(n - 1)
  BY <1>1
<1>7. \A k \in 1..((n - 1) - 1) : /\ r[k].trying /\ r[k].todo # {}
                                  /\ r[k + 1].state = NextPart(ts, r[k])
  BY <1>2, <1>5, <1>6
<1>8. \A i, j \in 1..(n - 1) : i < j => r[j].state \subseteq r[i].state /\ r[j].state # r[i].state
  <2>1. \A i \in 1..(n - 1) : i \in 1..n
    BY <1>1
  <2> QED BY <1>2, <2>1 DEF StackSound
<1>9. StackSound(ws, ts, e, r)
  <2>1. \A k \in 1..(n - 1) : k = 1 => r[k].state = Whole(ws)
    <3>1. \A k \in 1..(n - 1) : k \in 1..n
      BY <1>1
    <3> QED BY <1>2, <3>1 DEF StackSound
  <2> QED BY <1>2, <1>5, <1>7, <1>8, <2>1 DEF StackSound
<1>10. ASSUME r # <<>>
       PROVE  /\ CallSound(ws, ts, e, Last(r))
              /\ Last(r).trying /\ Last(r).todo # {}
              /\ NextPart(ts, Last(r)) = R
  <2>1. Len(r) \in 1..Len(r) /\ Last(r) = r[Len(r)]
    BY <1>2, <1>10, StackTop
  <2>2. Len(r) \in 1..(n - 1) /\ Len(r) + 1 = n
    BY <1>1, <1>2, <2>1
  <2>3. R = st[Len(r) + 1].state
    BY <1>1, <2>2 DEF R
  <2> QED BY <1>5, <2>1, <2>2, <2>3
<1> QED BY <1>2, <1>3, <1>9, <1>10 DEF r, R, e

-----------------------------------------------------------------------------
(* The inductive invariant.                                                *)

\* What solve returns: the cost that the memo has for the whole problem, and the bounds.
SolutionSound(ws, ts, m, sol) ==
  /\ sol.explored_states = sol.memoized_states
  /\ sol.total_weight = Total(ws, Whole(ws))
  /\ Whole(ws) = {} => sol.cost = 0 /\ sol.root_lower_bound = 0
  /\ Whole(ws) # {} =>
       /\ Whole(ws) \in DOMAIN m
       /\ sol.cost = m[Whole(ws)].cost
       /\ sol.root_lower_bound =
            Total(ws, Whole(ws)) + Min({Total(ws, Left(ts, t, Whole(ws))) : t \in DOMAIN ts})

\* Every test passes over some state.
IsInseparable(ts, R) == \A t \in DOMAIN ts : Useless(ts, t, R)

\* The invariant: each state of the memo has its least cost, each call on the stack is
\* sound, and the phases tell what has been begun and what has come out.
SearchInv(ws, ts, m, st, ex, sol, ph) ==
  /\ ph \in {"cook", "actions", "matrix"} =>
       ts = <<>> /\ DOMAIN m = {} /\ st = <<>> /\ ex = 0 /\ sol = <<>>
  /\ ph = "solve" => sol = <<>> /\ (st = <<>> => DOMAIN m = {} /\ ex = 0)
  /\ ph = "solved" => ts # <<>> /\ st = <<>> /\ SolutionSound(ws, ts, m, sol)
  /\ ph = "unseparable" /\ ts # <<>> => \E R \in (SUBSET Whole(ws)) \ {{}} : IsInseparable(ts, R)
  /\ MemoSound(ws, ts, m)
  /\ StackSound(ws, ts, m, st)
  /\ ex = Cardinality(DOMAIN m) + Len(st)

\* The invariant of the state.
SInv == SearchInv(weights, tests, memo, stack, explored, solution, phase)

\* Nothing in the memo and on the stack.
LEMMA EmptyIsSound ==
  ASSUME NEW ws, NEW ts, NEW m, DOMAIN m = {}
  PROVE  /\ MemoSound(ws, ts, m)
         /\ StackSound(ws, ts, m, <<>>)
         /\ Cardinality(DOMAIN m) = 0
         /\ Len(<<>>) = 0
<1>1. IsFiniteSet({}) /\ Cardinality({}) = 0
  BY FS_EmptySet
<1>2. MemoSound(ws, ts, m)
  BY <1>1 DEF MemoSound
<1>3. Len(<<>>) = 0 /\ IsStack(<<>>)
  BY DEF IsStack
<1>4. \A k : k \notin 1..0 /\ k \notin 1..(0 - 1)
  OBVIOUS
<1>5. StackSound(ws, ts, m, <<>>)
  BY <1>3, <1>4 DEF StackSound
<1> QED BY <1>1, <1>2, <1>3, <1>5

\* The outermost call.
LEMMA FirstCallIsSound ==
  ASSUME NEW ws, NEW ts, Table(ws, ts), NEW m, DOMAIN m = {}, Whole(ws) # {}
  PROVE  /\ StackSound(ws, ts, m, <<Call(Whole(ws))>>)
         /\ Len(<<Call(Whole(ws))>>) = 1
<1> DEFINE c == Call(Whole(ws))
           st == <<c>>
<1>1. CallSound(ws, ts, m, c) /\ c.state = Whole(ws)
  <2> DEFINE S == Whole(ws)
  <2>1. S \in (SUBSET Whole(ws)) \ {{}}
    OBVIOUS
  <2> HIDE DEF S
  <2>2. CallSound(ws, ts, m, Call(S)) /\ Call(S).state = S
    BY <2>1, CallBegins
  <2> QED BY <2>2 DEF S
<1> HIDE DEF c
<1>2. Len(st) = 1 /\ st[1] = c /\ IsStack(st)
  BY DEF IsStack
<1> HIDE DEF st
<1>3. \A k \in 1..1 : k = 1
  OBVIOUS
<1>4. \A k : k \notin 1..(1 - 1)
  OBVIOUS
<1>5. StackSound(ws, ts, m, st)
  BY <1>1, <1>2, <1>3, <1>4 DEF StackSound
<1> QED BY <1>2, <1>5 DEF st, c

\* A solution is not the empty one.
LEMMA SolutionIsSome ==
  ASSUME NEW cost, NEW root, NEW total, NEW bound, NEW states
  PROVE  /\ Solution(cost, root, total, bound, states) # <<>>
         /\ Solution(cost, root, total, bound, states).cost = cost
         /\ Solution(cost, root, total, bound, states).total_weight = total
         /\ Solution(cost, root, total, bound, states).root_lower_bound = bound
         /\ Solution(cost, root, total, bound, states).explored_states = explored
         /\ Solution(cost, root, total, bound, states).memoized_states = states
<1>1. "cost" \in DOMAIN Solution(cost, root, total, bound, states) /\ "cost" \notin DOMAIN <<>>
  BY DEF Solution
<1>2. Solution(cost, root, total, bound, states) # <<>>
  BY <1>1
<1> QED BY <1>2 DEF Solution

\* The scenarios of the problem.
LEMMA InitialIsWhole == Initial = Whole(weights)
BY DEF Initial, Whole

-----------------------------------------------------------------------------
(* Steps.                                                                  *)

\* The outermost call is made, or there is nothing to solve.
LEMMA StartKeeps ==
  ASSUME Table(weights, tests), SInv, StartSolve
  PROVE  SInv'
<1>1. /\ phase = "solve" /\ tests # <<>> /\ stack = <<>>
      /\ DOMAIN memo = {} /\ explored = 0 /\ solution = <<>>
  BY DEF SInv, SearchInv, StartSolve
<1>2. CASE StartSearch
  <2>1. /\ Whole(weights) # {} /\ stack' = <<Call(Whole(weights))>> /\ explored' = 1
        /\ weights' = weights /\ tests' = tests /\ memo' = memo /\ solution' = <<>>
    BY <1>1, <1>2, InitialIsWhole DEF StartSearch
  <2>2. phase' = "solve"
    BY <2>1 DEF StartSolve, Become
  <2> DEFINE st == <<Call(Whole(weights))>>
  <2>3. StackSound(weights, tests, memo, st) /\ Len(st) = 1
    BY <1>1, <2>1, FirstCallIsSound
  <2>4. st # <<>>
    OBVIOUS
  <2>5. MemoSound(weights, tests, memo) /\ Cardinality(DOMAIN memo) = 0
    BY <1>1, EmptyIsSound
  <2> HIDE DEF st
  <2>6. SearchInv(weights, tests, memo, st, 1, <<>>, "solve")
    BY <2>3, <2>4, <2>5 DEF SearchInv
  <2> QED BY <2>1, <2>2, <2>6 DEF SInv, st
<1>3. CASE SolveNothing
  <2>1. /\ Whole(weights) = {} /\ solution' = Solution(0, <<>>, 0, 0, 0)
        /\ weights' = weights /\ tests' = tests /\ memo' = memo /\ stack' = stack
        /\ explored' = explored
    BY <1>3, InitialIsWhole DEF SolveNothing
  <2> DEFINE root == <<>>
             sol == Solution(0, root, 0, 0, 0)
  <2>2. /\ sol # <<>> /\ sol.cost = 0 /\ sol.total_weight = 0 /\ sol.root_lower_bound = 0
        /\ sol.explored_states = 0 /\ sol.memoized_states = 0
    <3> HIDE DEF root
    <3> QED BY <1>1, SolutionIsSome
  <2>3. solution' = sol
    BY <2>1
  <2> HIDE DEF sol
  <2>4. phase' = "solved"
    BY <2>2, <2>3 DEF StartSolve, Become
  <2>5. Total(weights, Whole(weights)) = 0
    <3> DEFINE S == Whole(weights)
    <3>1. IsFiniteSet(S) /\ S = {}
      BY <2>1, FS_EmptySet
    <3> HIDE DEF S
    <3>2. Total(weights, S) = 0
      BY <3>1, TotalStep
    <3> QED BY <3>2 DEF S
  <2>6. SolutionSound(weights, tests, memo, sol)
    BY <2>1, <2>2, <2>5 DEF SolutionSound
  <2>7. SearchInv(weights, tests, memo, stack, explored, sol, "solved")
    BY <1>1, <2>6 DEF SInv, SearchInv
  <2> QED BY <2>1, <2>3, <2>4, <2>7 DEF SInv
<1> QED BY <1>2, <1>3 DEF StartSolve

\* A step of the last call that leaves its state, the memo and the rest.
LEMMA TopStepKeeps ==
  ASSUME SInv, phase = "solve", stack # <<>>,
         NEW c, CallSound(weights, tests, memo, c), c.state = Last(stack).state,
         stack' = Replaced(stack, c), Become(IF solution' = <<>> THEN "solve" ELSE "solved"),
         UNCHANGED <<weights, tests, memo, explored, solution>>
  PROVE  SInv'
<1>1. solution = <<>> /\ StackSound(weights, tests, memo, stack)
  BY DEF SInv, SearchInv
<1>2. phase' = "solve"
  BY <1>1 DEF Become
<1> DEFINE r == Replaced(stack, c)
<1>3. StackSound(weights, tests, memo, r) /\ Len(r) = Len(stack)
  BY <1>1, TopChanges
<1> HIDE DEF r
<1>4. r # <<>>
  <2>1. IsStack(stack) /\ IsStack(r)
    BY <1>1, <1>3 DEF StackSound
  <2> QED BY <1>3, <2>1, StackTop
<1>5. SearchInv(weights, tests, memo, r, explored, solution, "solve")
  BY <1>1, <1>3, <1>4 DEF SInv, SearchInv
<1> QED BY <1>2, <1>5 DEF SInv, r

\* The last call of the stack.
LEMMA TopIsSound ==
  ASSUME SInv, stack # <<>>
  PROVE  CallSound(weights, tests, memo, Last(stack))
<1>1. StackSound(weights, tests, memo, stack)
  BY DEF SInv, SearchInv
<1>2. Len(stack) \in 1..Len(stack) /\ Last(stack) = stack[Len(stack)]
  BY <1>1, StackTop DEF StackSound
<1> QED BY <1>1, <1>2 DEF StackSound

\* The next test is passed over.
LEMMA SkipKeeps ==
  ASSUME Table(weights, tests), SInv, phase = "solve", SkipTest,
         Become(IF solution' = <<>> THEN "solve" ELSE "solved")
  PROVE  SInv'
<1> DEFINE call == Last(stack)
           d == [call EXCEPT !.test = @ + 1]
<1>1. /\ stack # <<>> /\ ~call.trying /\ call.test < Len(tests)
      /\ IsUseless(call.test + 1, call.state) /\ stack' = Replaced(stack, d)
      /\ UNCHANGED <<weights, tests, memo, explored, solution>>
  BY DEF SkipTest, IsBetweenTests
<1>2. CallSound(weights, tests, memo, call)
  BY <1>1, TopIsSound
<1>3. Useless(tests, call.test + 1, call.state)
  BY <1>1, ModelWords
<1>4. CallSound(weights, tests, memo, d) /\ d.state = call.state
  <2> HIDE DEF call
  <2> QED BY <1>1, <1>2, <1>3, CallSkips
<1> HIDE DEF d
<1> QED BY <1>1, <1>4, TopStepKeeps

\* The next test is tried.
LEMMA TryKeeps ==
  ASSUME Table(weights, tests), SInv, phase = "solve", TryTest,
         Become(IF solution' = <<>> THEN "solve" ELSE "solved")
  PROVE  SInv'
<1> DEFINE call == Last(stack)
           d == Trying(call)
<1>1. /\ stack # <<>> /\ ~call.trying /\ call.test < Len(tests)
      /\ ~IsUseless(call.test + 1, call.state) /\ stack' = Replaced(stack, d)
      /\ UNCHANGED <<weights, tests, memo, explored, solution>>
  BY DEF TryTest, IsBetweenTests
<1>2. CallSound(weights, tests, memo, call) /\ MemoSound(weights, tests, memo)
  BY <1>1, TopIsSound DEF SInv, SearchInv
<1>3. ~Useless(tests, call.test + 1, call.state)
  BY <1>1, ModelWords
<1>4. CallSound(weights, tests, memo, d) /\ d.state = call.state
  <2> HIDE DEF call
  <2> QED BY <1>1, <1>2, <1>3, CallTries
<1> HIDE DEF d
<1> QED BY <1>1, <1>4, TopStepKeeps

\* The memo has the state of the branch.
LEMMA HitKeeps ==
  ASSUME Table(weights, tests), SInv, phase = "solve", HitMemo,
         Become(IF solution' = <<>> THEN "solve" ELSE "solved")
  PROVE  SInv'
<1> DEFINE call == Last(stack)
           R == NextPart(tests, call)
           d == Answered(call, memo[R])
<1>1. /\ stack # <<>> /\ call.trying /\ call.todo # {}
      /\ ChildState(call) \in DOMAIN memo
      /\ stack' = Replaced(stack, Answered(call, memo[ChildState(call)]))
      /\ UNCHANGED <<weights, tests, memo, explored, solution>>
  BY DEF HitMemo, IsAtBranch
<1>2. CallSound(weights, tests, memo, call) /\ MemoSound(weights, tests, memo)
  BY <1>1, TopIsSound DEF SInv, SearchInv
<1>3. ChildState(call) = R
  <2> HIDE DEF call
  <2> QED BY <1>1, <1>2, BranchIsNext
<1>4. CallSound(weights, tests, memo, d) /\ d.state = call.state
  <2> HIDE DEF call
  <2> QED BY <1>1, <1>2, <1>3, CallIsAnswered
<1>5. stack' = Replaced(stack, d)
  BY <1>1, <1>3
<1> HIDE DEF d
<1> QED BY <1>1, <1>4, <1>5, TopStepKeeps

\* A test has been tried.
LEMMA JudgeKeeps ==
  ASSUME Table(weights, tests), SInv, phase = "solve", JudgeTest,
         Become(IF solution' = <<>> THEN "solve" ELSE "solved")
  PROVE  SInv'
<1> DEFINE call == Last(stack)
           d == Judged(call)
<1>1. /\ stack # <<>> /\ call.trying /\ call.todo = {} /\ stack' = Replaced(stack, d)
      /\ UNCHANGED <<weights, tests, memo, explored, solution>>
  BY DEF JudgeTest
<1>2. CallSound(weights, tests, memo, call) /\ MemoSound(weights, tests, memo)
  BY <1>1, TopIsSound DEF SInv, SearchInv
<1>3. CallSound(weights, tests, memo, d) /\ d.state = call.state
  <2> HIDE DEF call
  <2> QED BY <1>1, <1>2, CallIsJudged
<1> HIDE DEF d
<1> QED BY <1>1, <1>3, TopStepKeeps

\* solve_state calls itself.
LEMMA ExploreKeeps ==
  ASSUME Table(weights, tests), SInv, phase = "solve", Explore,
         Become(IF solution' = <<>> THEN "solve" ELSE "solved")
  PROVE  SInv'
<1> DEFINE call == Last(stack)
           r == Append(stack, Call(NextPart(tests, call)))
<1>1. /\ stack # <<>> /\ call.trying /\ call.todo # {} /\ ChildState(call) \notin DOMAIN memo
      /\ stack' = Append(stack, Call(ChildState(call))) /\ explored' = explored + 1
      /\ UNCHANGED <<weights, tests, memo, solution>>
  BY DEF Explore, IsAtBranch
<1>2. /\ solution = <<>> /\ StackSound(weights, tests, memo, stack)
      /\ CallSound(weights, tests, memo, call)
      /\ MemoSound(weights, tests, memo) /\ explored = Cardinality(DOMAIN memo) + Len(stack)
  BY <1>1, TopIsSound DEF SInv, SearchInv
<1>3. ChildState(call) = NextPart(tests, call)
  <2> HIDE DEF call
  <2> QED BY <1>1, <1>2, BranchIsNext
<1>4. StackSound(weights, tests, memo, r) /\ Len(r) = Len(stack) + 1
  <2> NextPart(tests, call) \notin DOMAIN memo
    BY <1>1, <1>3
  <2> QED BY <1>1, <1>2, CallIsPushed
<1>5. stack' = r
  BY <1>1, <1>3
<1> HIDE DEF r
<1>6. r # <<>>
  <2>1. IsStack(stack) /\ IsStack(r)
    BY <1>2, <1>4 DEF StackSound
  <2> QED BY <1>4, <2>1, StackTop
<1>7. explored' = Cardinality(DOMAIN memo) + Len(r)
  <2>1. Len(stack) \in Nat /\ Cardinality(DOMAIN memo) \in Nat
    BY <1>2, StackTop, FS_CardinalityType DEF StackSound, MemoSound
  <2> QED BY <1>1, <1>2, <1>4, <2>1
<1>8. phase' = "solve"
  BY <1>1, <1>2 DEF Become
<1>9. SearchInv(weights, tests, memo, r, explored', solution, "solve")
  BY <1>2, <1>4, <1>6, <1>7 DEF SearchInv
<1> QED BY <1>1, <1>5, <1>8, <1>9 DEF SInv

\* What solve returns once the outermost call has.
LEMMA BoundIsTotal ==
  MinResidualWeight(Initial)
    = Min({Total(weights, Left(tests, t, Whole(weights))) : t \in DOMAIN tests})
<1>1. \A t \in DOMAIN tests :
        ResidualWeight(t, Initial) = Total(weights, Left(tests, t, Whole(weights)))
  BY InitialIsWhole, ModelWords, WeightIsTotal DEF ResidualWeight
<1> QED BY <1>1 DEF MinResidualWeight

\* A call returns the best tree of its state, to solve or to its caller.
LEMMA ReturnKeeps ==
  ASSUME Table(weights, tests), tests # <<>>, SInv, phase = "solve", ReturnBest,
         Become(IF solution' = <<>> THEN "solve" ELSE "solved")
  PROVE  SInv'
<1> DEFINE call == Last(stack)
           R == call.state
           e == Extended(memo, R, call.best)
           callers == Front(stack)
<1>1. /\ stack # <<>> /\ ~call.trying /\ call.test = Len(tests) /\ call.best # <<>>
      /\ memo' = e
      /\ UNCHANGED <<weights, tests, explored>>
  BY DEF ReturnBest, IsExhausted, IsBetweenTests, Extended
<1>2. /\ solution = <<>> /\ StackSound(weights, tests, memo, stack)
      /\ CallSound(weights, tests, memo, call)
      /\ MemoSound(weights, tests, memo) /\ explored = Cardinality(DOMAIN memo) + Len(stack)
  BY <1>1, TopIsSound DEF SInv, SearchInv
<1>3. /\ StackSound(weights, tests, e, callers)
      /\ Len(callers) = Len(stack) - 1
      /\ R \notin DOMAIN memo
      /\ callers # <<>> =>
           /\ CallSound(weights, tests, e, Last(callers))
           /\ Last(callers).trying /\ Last(callers).todo # {}
           /\ NextPart(tests, Last(callers)) = R
  <2> DEFINE b == call.best
  <2> HIDE DEF b
  <2>1. /\ StackSound(weights, tests, Extended(memo, Last(stack).state, b), Front(stack))
        /\ Len(Front(stack)) = Len(stack) - 1
        /\ Last(stack).state \notin DOMAIN memo
        /\ Front(stack) # <<>> =>
             /\ CallSound(weights, tests, Extended(memo, Last(stack).state, b), Last(Front(stack)))
             /\ Last(Front(stack)).trying /\ Last(Front(stack)).todo # {}
             /\ NextPart(tests, Last(Front(stack))) = Last(stack).state
    <3>1. StackSound(weights, tests, memo, stack) /\ stack # <<>>
      BY <1>1, <1>2
    <3> HIDE DEF call, callers, R, e
    <3> QED BY <3>1, CallIsPopped
  <2> QED BY <2>1 DEF b
<1>4. /\ MemoSound(weights, tests, e)
      /\ Cardinality(DOMAIN e) = Cardinality(DOMAIN memo) + 1
  <2> HIDE DEF call
  <2> QED BY <1>1, <1>2, <1>3, MemoLearns
<1>5. R \in DOMAIN e /\ e[R] = call.best
  BY DEF Extended
<1>6. Len(stack) \in Nat \ {0} /\ Cardinality(DOMAIN memo) \in Nat
  BY <1>1, <1>2, StackTop, FS_CardinalityType DEF StackSound, MemoSound
<1>7. explored = Cardinality(DOMAIN e) + Len(callers)
  BY <1>2, <1>3, <1>4, <1>6
<1>8. CASE callers = <<>>
  <2> DEFINE sol == Solution(call.best.cost, call.best.node, Weight(Initial),
                             Weight(Initial) + MinResidualWeight(Initial),
                             Cardinality(DOMAIN e))
  <2>1. stack' = <<>> /\ solution' = sol
    BY <1>1, <1>8 DEF ReturnBest
  <2>2. /\ sol # <<>> /\ sol.cost = call.best.cost /\ sol.total_weight = Weight(Initial)
        /\ sol.root_lower_bound = Weight(Initial) + MinResidualWeight(Initial)
        /\ sol.explored_states = explored /\ sol.memoized_states = Cardinality(DOMAIN e)
    <3> HIDE DEF call, e
    <3> QED BY SolutionIsSome
  <2> HIDE DEF sol
  <2>3. phase' = "solved"
    BY <2>1, <2>2 DEF Become
  <2>4. IsStack(callers) /\ Len(callers) = 0
    BY <1>3, <1>8, StackTop DEF StackSound
  <2>5. explored = Cardinality(DOMAIN e)
    BY <1>4, <1>6, <1>7, <2>4
  <2>6. R = Whole(weights)
    <3>1. IsStack(stack) /\ Len(stack) = 1 /\ call = stack[1]
      BY <1>1, <1>2, <1>3, <1>6, <2>4, StackTop DEF StackSound
    <3> QED BY <1>2, <3>1 DEF StackSound
  <2>7. Weight(Initial) = Total(weights, Whole(weights))
    BY InitialIsWhole, WeightIsTotal
  <2>8. R # {}
    BY <1>2 DEF CallSound
  <2>9. SolutionSound(weights, tests, e, sol)
    <3> HIDE DEF call, e
    <3>1. sol.root_lower_bound = Total(weights, Whole(weights))
            + Min({Total(weights, Left(tests, t, Whole(weights))) : t \in DOMAIN tests})
      BY <2>2, <2>7, BoundIsTotal
    <3>2. Whole(weights) \in DOMAIN e /\ sol.cost = e[Whole(weights)].cost
      BY <1>5, <2>2, <2>6
    <3> QED BY <2>2, <2>5, <2>6, <2>7, <2>8, <3>1, <3>2 DEF SolutionSound
  <2>10. StackSound(weights, tests, e, <<>>)
    BY <1>3, <1>8
  <2>11. SearchInv(weights, tests, e, <<>>, explored, sol, "solved")
    <3>1. explored = Cardinality(DOMAIN e) + Len(<<>>)
      BY <1>7, <1>8
    <3> HIDE DEF e
    <3> QED BY <1>4, <2>9, <2>10, <3>1 DEF SearchInv
  <2> HIDE DEF e
  <2> QED BY <1>1, <2>1, <2>3, <2>11 DEF SInv
<1>9. CASE callers # <<>>
  <2> DEFINE top == Last(callers)
             d == Answered(top, e[R])
             r == Replaced(callers, d)
  <2>1. stack' = r /\ solution' = <<>>
    BY <1>1, <1>2, <1>5, <1>9 DEF ReturnBest
  <2>2. phase' = "solve"
    BY <2>1 DEF Become
  <2>3. CallSound(weights, tests, e, d) /\ d.state = top.state
    <3>1. /\ CallSound(weights, tests, e, top) /\ top.trying /\ top.todo # {}
          /\ NextPart(tests, top) = R
      BY <1>3, <1>9
    <3> HIDE DEF top, e, R
    <3>2. /\ CallSound(weights, tests, e, Answered(top, e[NextPart(tests, top)]))
          /\ Answered(top, e[NextPart(tests, top)]).state = top.state
      BY <1>4, <1>5, <3>1, CallIsAnswered DEF R
    <3> QED BY <3>1, <3>2
  <2> HIDE DEF d, e
  <2>4. StackSound(weights, tests, e, r) /\ Len(r) = Len(callers)
    <3> HIDE DEF callers
    <3> QED BY <1>3, <1>9, <2>3, TopChanges
  <2> HIDE DEF r
  <2>5. r # <<>>
    <3>1. IsStack(callers) /\ IsStack(r)
      BY <1>3, <2>4 DEF StackSound
    <3> QED BY <1>9, <2>4, <3>1, StackTop
  <2>6. SearchInv(weights, tests, e, r, explored, <<>>, "solve")
    BY <1>4, <1>7, <2>4, <2>5 DEF SearchInv
  <2> QED BY <1>1, <2>1, <2>2, <2>6 DEF SInv
<1> QED BY <1>8, <1>9

\* The search gives up: no test divides the state of the last call.
LEMMA GiveUpKeeps ==
  ASSUME Table(weights, tests), SInv, phase = "solve", IsUnseparable, Become("unseparable"),
         UNCHANGED searchVars
  PROVE  SInv'
<1> DEFINE call == Last(stack)
<1>1. stack # <<>> /\ ~call.trying /\ call.test = Len(tests) /\ call.best = <<>>
  BY DEF IsUnseparable, IsExhausted, IsBetweenTests
<1>2. CallSound(weights, tests, memo, call)
  BY <1>1, TopIsSound
<1>3. call.state \in (SUBSET Whole(weights)) \ {{}} /\ IsInseparable(tests, call.state)
  <2>1. DOMAIN tests = 1..Len(tests)
    BY DEF Table
  <2> HIDE DEF call
  <2> QED BY <1>1, <1>2, <2>1 DEF CallSound, BestSound, IsInseparable
<1>4. SearchInv(weights, tests, memo, stack, explored, solution, "unseparable")
  BY <1>3 DEF SInv, SearchInv
<1>5. phase' = "unseparable" /\ UNCHANGED <<weights, tests, memo, stack, explored, solution>>
  BY DEF Become, searchVars
<1> QED BY <1>4, <1>5 DEF SInv

\* The initial states.
LEMMA SearchInit ==
  ASSUME Init
  PROVE  SInv
<1>1. memo = <<>> /\ stack = <<>> /\ explored = 0 /\ solution = <<>>
  BY DEF Init
<1>2. phase = "solve" \/ (phase = "cook" /\ tests = <<>>)
  BY DEF Init, InitCook, InitSolve
<1>3. DOMAIN memo = {}
  BY <1>1
<1>4. /\ MemoSound(weights, tests, memo) /\ StackSound(weights, tests, memo, <<>>)
      /\ Cardinality(DOMAIN memo) = 0 /\ Len(<<>>) = 0
  BY <1>3, EmptyIsSound
<1> QED BY <1>1, <1>2, <1>3, <1>4 DEF SInv, SearchInv

\* Every step.
LEMMA SearchStep ==
  ASSUME Table(weights, tests), SInv, [Next]_vars
  PROVE  SInv'
<1>1. CASE CookNothing
  <2>1. phase = "cook" /\ phase' = "cooked" /\ UNCHANGED <<weights, tests, memo, stack, explored>>
    BY <1>1 DEF CookNothing, Become
  <2>2. SearchInv(weights, tests, memo, stack, explored, solution', "cooked")
    BY <2>1 DEF SInv, SearchInv
  <2> QED BY <2>1, <2>2 DEF SInv
<1>2. CASE BeginActions
  <2>1. phase = "cook" /\ phase' = "actions" /\ UNCHANGED searchVars
    BY <1>2 DEF BeginActions, Become
  <2> QED BY <2>1 DEF SInv, SearchInv, searchVars
<1>3. CASE Generate
  <2>1. phase = "actions" /\ phase' \in {"actions", "matrix"} /\ UNCHANGED searchVars
    BY <1>3 DEF Generate, Become
  <2> QED BY <2>1 DEF SInv, SearchInv, searchVars
<1>4. CASE NoActions
  <2>1. phase = "matrix" /\ phase' = "unseparable" /\ UNCHANGED searchVars
    BY <1>4 DEF NoActions, Become
  <2> QED BY <2>1 DEF SInv, SearchInv, searchVars
<1>5. CASE MixedScales
  <2>1. phase = "matrix" /\ phase' = "mixed_scales" /\ UNCHANGED searchVars
    BY <1>5 DEF MixedScales, Become
  <2> QED BY <2>1 DEF SInv, SearchInv, searchVars
<1>6. CASE Tabulate
  <2>1. phase = "matrix" /\ phase' = "solve" /\ UNCHANGED <<memo, stack, explored, solution>>
    BY <1>6 DEF Tabulate, Become
  <2>2. DOMAIN memo = {} /\ stack = <<>> /\ explored = 0 /\ solution = <<>>
    BY <2>1 DEF SInv, SearchInv
  <2>3. /\ MemoSound(weights', tests', memo) /\ StackSound(weights', tests', memo, <<>>)
        /\ Cardinality(DOMAIN memo) = 0 /\ Len(<<>>) = 0
    BY <2>2, EmptyIsSound
  <2>4. SearchInv(weights', tests', memo, stack, explored, solution, "solve")
    BY <2>2, <2>3 DEF SearchInv
  <2> QED BY <2>1, <2>4 DEF SInv
<1>7. CASE EmptyTests
  <2>1. phase = "solve" /\ phase' = "empty_tests" /\ UNCHANGED searchVars
    BY <1>7 DEF EmptyTests, Become
  <2> QED BY <2>1 DEF SInv, SearchInv, searchVars
<1>8. CASE StartSolve
  BY <1>8, StartKeeps
<1>9. CASE Solve
  <2>1. phase = "solve" /\ Become(IF solution' = <<>> THEN "solve" ELSE "solved")
    BY <1>9 DEF Solve
  <2>2. tests # <<>> \/ tests = <<>>
    OBVIOUS
  <2>3. CASE SkipTest
    BY <2>1, <2>3, SkipKeeps
  <2>4. CASE TryTest
    BY <2>1, <2>4, TryKeeps
  <2>5. CASE HitMemo
    BY <2>1, <2>5, HitKeeps
  <2>6. CASE Explore
    BY <2>1, <2>6, ExploreKeeps
  <2>7. CASE JudgeTest
    BY <2>1, <2>7, JudgeKeeps
  <2>8. CASE ReturnBest
    <3>1. tests # <<>>
      <4> SUFFICES ASSUME tests = <<>>
                   PROVE  FALSE
        OBVIOUS
      <4>1. stack # <<>> /\ Last(stack).best # <<>> /\ ~Last(stack).trying
            /\ Last(stack).test = Len(tests)
        BY <2>8 DEF ReturnBest, IsExhausted, IsBetweenTests
      <4>2. CallSound(weights, tests, memo, Last(stack))
        BY <4>1, TopIsSound
      <4>3. \E t \in 1..Last(stack).test : TRUE
        BY <4>1, <4>2 DEF CallSound, BestSound, IsLeast
      <4>4. Len(tests) = 0
        OBVIOUS
      <4> QED BY <4>1, <4>3, <4>4
    <3> QED BY <2>1, <2>8, <3>1, ReturnKeeps
  <2> QED BY <1>9, <2>3, <2>4, <2>5, <2>6, <2>7, <2>8 DEF Solve
<1>10. CASE Unseparable
  BY <1>10, GiveUpKeeps DEF Unseparable
<1>11. CASE BeginMaterialize
  <2>1. phase' = "materialize" /\ UNCHANGED searchVars
    BY <1>11 DEF BeginMaterialize
  <2> QED BY <2>1 DEF SInv, SearchInv, searchVars
<1>12. CASE MaterializeNode
  <2>1. phase = "materialize" /\ UNCHANGED phase /\ UNCHANGED searchVars
    BY <1>12 DEF MaterializeNode
  <2> QED BY <2>1 DEF SInv, SearchInv, searchVars
<1>13. CASE ValidateScheme
  <2>1. phase' \in {"cooked", "invalid"} /\ UNCHANGED searchVars
    BY <1>13 DEF ValidateScheme, Become
  <2> QED BY <2>1 DEF SInv, SearchInv, searchVars
<1>14. CASE UNCHANGED vars
  <2>1. UNCHANGED phase /\ UNCHANGED searchVars
    BY <1>14 DEF vars, buildVars
  <2> QED BY <2>1 DEF SInv, searchVars
<1> QED BY <1>1, <1>2, <1>3, <1>4, <1>5, <1>6, <1>7, <1>8, <1>9, <1>10, <1>11, <1>12, <1>13, <1>14
        DEF Next

\* Whatever the table of outcomes: the memo has the least costs, calls are for smaller
\* and smaller branches, and the solution is what the memo has (solve_state).
THEOREM SearchInvariant == Spec /\ []TestsTyped => []SInv
<1>1. TestsTyped => Table(weights, tests)
  BY DEF TestsTyped, Table
<1>2. TestsTyped /\ SInv /\ [Next]_vars => SInv'
  BY <1>1, SearchStep
<1> QED BY <1>2, SearchInit, PTL DEF Spec

\* A call works on fewer scenarios than its caller and on no solved state.
THEOREM StatesAlwaysShrink == Spec /\ []TestsTyped => []StatesShrink
<1>1. SInv => StatesShrink
  <2> SUFFICES ASSUME SInv
               PROVE  StatesShrink
    OBVIOUS
  <2>1. StackSound(weights, tests, memo, stack) /\ explored = Cardinality(DOMAIN memo) + Len(stack)
    BY DEF SInv, SearchInv
  <2>2. DOMAIN stack = 1..Len(stack)
    BY <2>1, StackTop DEF StackSound
  <2> QED BY <2>1, <2>2 DEF StackSound, StatesShrink
<1> QED BY <1>1, SearchInvariant, PTL

-----------------------------------------------------------------------------
(* The certificate.                                                        *)

\* What a test leaves with one of the values V.
Among(ts, t, S, V) == {s \in Left(ts, t, S) : ts[t][s].left \in V}

\* Each state that the memo has costs its weight at least: every scenario pays once.
LEMMA CostsItsWeight ==
  ASSUME NEW ws, NEW ts, Table(ws, ts), NEW m, MemoSound(ws, ts, m), NEW S \in DOMAIN m
  PROVE  m[S].cost \in Nat /\ Total(ws, S) \in Nat /\ Total(ws, S) <= m[S].cost
<1>1. S \in SUBSET Whole(ws) /\ m[S].cost \in Nat /\ IsLeast(ws, ts, m, Len(ts), S, m[S].cost)
  BY DEF MemoSound
<1>2. PICK t \in 1..Len(ts) : ~Useless(ts, t, S) /\ m[S].cost = CostOf(ws, ts, m, t, S)
  BY <1>1 DEF IsLeast
<1> DEFINE V == Values(ts, t, S)
<1>3. t \in DOMAIN ts /\ Solved(ts, m, t, S, V)
  BY <1>1, <1>2 DEF IsLeast, Table
<1>4. m[S].cost = Spent(ws, ts, m, t, S, V)
  BY <1>2 DEF CostOf
<1>5. V \in SUBSET Values(ts, t, S)
  OBVIOUS
<1> HIDE DEF V
<1>6. /\ Total(ws, S) \in Nat
      /\ Total(ChildCosts(ts, m, t, S, V), V) \in Nat
  BY <1>1, <1>3, <1>5, SpentIsNatural
<1> QED BY <1>1, <1>4, <1>6 DEF Spent

\* ... and with them the branches of a test cost the weight of what they share out.
LEMMA BranchesCostTheirWeight ==
  ASSUME NEW ws, NEW ts, Table(ws, ts), NEW m, MemoSound(ws, ts, m),
         NEW S \in SUBSET Whole(ws), NEW t \in DOMAIN ts, Solved(ts, m, t, S, Values(ts, t, S))
  PROVE  Total(ws, S) + Total(ws, Left(ts, t, S)) <= CostOf(ws, ts, m, t, S)
<1> DEFINE VV == Values(ts, t, S)
           Covers(V) == Total(ws, S) + Total(ws, Among(ts, t, S, V)) <= Spent(ws, ts, m, t, S, V)
           W == {n \in Nat : \A V \in SUBSET VV : Cardinality(V) = n => Covers(V)}
<1>1. /\ IsFiniteSet(S) /\ S \in SUBSET DOMAIN ws /\ ws \in [DOMAIN ws -> Nat]
      /\ VV \in SUBSET Nat /\ IsFiniteSet(VV)
      /\ \A v \in VV : Part(ts, t, S, v) \in (SUBSET S) \ {{}}
  BY StatesAreFinite
<1>2. \A V \in SUBSET VV : Solved(ts, m, t, S, V)
  BY DEF Solved
<1>3. Total(ws, S) \in Nat
  BY <1>1, TotalIsNatural
<1>4. \A T \in SUBSET S : T \in SUBSET DOMAIN ws /\ IsFiniteSet(T) /\ Total(ws, T) \in Nat
  <2> SUFFICES ASSUME NEW T \in SUBSET S
               PROVE  T \in SUBSET DOMAIN ws /\ IsFiniteSet(T) /\ Total(ws, T) \in Nat
    OBVIOUS
  <2>1. T \in SUBSET DOMAIN ws /\ IsFiniteSet(T)
    BY <1>1, FS_Subset
  <2> QED BY <1>1, <2>1, TotalIsNatural
<1>5. \A V : Among(ts, t, S, V) \in SUBSET S
  BY DEF Among, Left
<1> HIDE DEF VV
<1>6. \A V \in SUBSET VV : Spent(ws, ts, m, t, S, V) \in Nat
  BY <1>2, SpentIsNatural DEF VV
<1>7. 0 \in W
  <2>1. ASSUME NEW V \in SUBSET VV, Cardinality(V) = 0
        PROVE  Covers(V)
    <3>1. V = {}
      BY <1>1, <2>1, FS_Subset, FS_EmptySet
    <3>2. Among(ts, t, S, V) = {}
      BY <3>1 DEF Among
    <3> DEFINE T == Among(ts, t, S, V)
               f == ChildCosts(ts, m, t, S, V)
    <3>3. Total(ws, T) = 0 /\ Total(f, V) = 0
      <4>1. IsFiniteSet(V) /\ IsFiniteSet(T) /\ T = {}
        BY <3>1, <3>2, FS_EmptySet
      <4> HIDE DEF T, f
      <4> QED BY <3>1, <4>1, TotalStep
    <3> QED BY <1>3, <3>3 DEF Spent
  <2> QED BY <2>1
<1>8. ASSUME NEW n \in Nat, n \in W, NEW V \in SUBSET VV, Cardinality(V) = n + 1
      PROVE  Covers(V)
  <2>1. IsFiniteSet(V) /\ Cardinality(V) = n + 1
    BY <1>1, <1>8, FS_Subset
  <2>2. PICK v \in V : TRUE
    BY <2>1, FS_EmptySet
  <2> DEFINE U == V \ {v}
  <2>3. IsFiniteSet(U) /\ Cardinality(U) = IF v \in V THEN Cardinality(V) - 1 ELSE Cardinality(V)
    BY <2>1, FS_RemoveElement
  <2>4. U \in SUBSET VV /\ Cardinality(U) = n /\ V = U \cup {v} /\ v \in VV \ U
    BY <2>1, <2>2, <2>3
  <2> HIDE DEF U
  <2>5. Covers(U)
    BY <1>8, <2>4
  <2>6. Part(ts, t, S, v) \in DOMAIN m
    <3> Solved(ts, m, t, S, VV)
      BY <1>2
    <3> QED BY <2>4 DEF Solved
  <2>7. Spent(ws, ts, m, t, S, U \cup {v})
          = Spent(ws, ts, m, t, S, U) + m[Part(ts, t, S, v)].cost
    <3>1. /\ U \in SUBSET Values(ts, t, S) /\ Solved(ts, m, t, S, U)
          /\ v \in Values(ts, t, S) \ U
      BY <1>2, <2>4 DEF VV
    <3>2. /\ Solved(ts, m, t, S, U \cup {v})
          /\ Spent(ws, ts, m, t, S, U \cup {v})
               = Spent(ws, ts, m, t, S, U) + m[Part(ts, t, S, v)].cost
      BY <2>6, <3>1, SpentMore
    <3> QED BY <3>2
  <2> DEFINE A == Among(ts, t, S, U)
             B == Part(ts, t, S, v)
  <2>8. Among(ts, t, S, V) = A \cup B /\ A \cap B = {}
    BY <2>4 DEF Among, Part
  <2>9. A \in SUBSET S /\ B \in SUBSET S
    BY <1>5 DEF Part, Left
  <2>10. m[B].cost \in Nat /\ Total(ws, B) \in Nat /\ Total(ws, B) <= m[B].cost
    BY <2>6, CostsItsWeight
  <2> HIDE DEF A, B
  <2>11. Total(ws, A \cup B) = Total(ws, A) + Total(ws, B)
    BY <1>1, <1>4, <2>8, <2>9, TotalOfTwo, SMTT(30)
  <2>12. Total(ws, A) \in Nat /\ Spent(ws, ts, m, t, S, U) \in Nat
    BY <1>4, <1>6, <2>4, <2>9
  <2>13. Total(ws, Among(ts, t, S, V)) = Total(ws, A) + Total(ws, B)
    BY <2>8, <2>11
  <2>14. Spent(ws, ts, m, t, S, V) = Spent(ws, ts, m, t, S, U) + m[B].cost
    BY <2>4, <2>7 DEF B
  <2>15. Total(ws, S) + Total(ws, A) <= Spent(ws, ts, m, t, S, U)
    BY <2>5 DEF A
  <2> QED BY <1>3, <2>10, <2>12, <2>13, <2>14, <2>15
<1>9. \A n \in Nat : n \in W => n + 1 \in W
  BY <1>8
<1> HIDE DEF W
<1>10. \A n \in Nat : n \in W
  BY <1>7, <1>9, Induction
<1>11. Cardinality(VV) \in Nat
  BY <1>1, FS_CardinalityType
<1>12. Covers(VV)
  BY <1>10, <1>11 DEF W
<1>13. Among(ts, t, S, VV) = Left(ts, t, S)
  BY DEF Among, VV, Values
<1> QED BY <1>12, <1>13 DEF CostOf, VV

\* The bounds that solve states are sound.
LEMMA BoundsAreSound ==
  ASSUME NEW ws, NEW ts, Table(ws, ts), ts # <<>>, NEW m, MemoSound(ws, ts, m),
         NEW sol, SolutionSound(ws, ts, m, sol)
  PROVE  /\ sol.total_weight = Total(ws, Whole(ws))
         /\ sol.total_weight <= sol.root_lower_bound
         /\ sol.root_lower_bound <= sol.cost
         /\ sol.explored_states = sol.memoized_states
<1> DEFINE S == Whole(ws)
           B == {Total(ws, Left(ts, t, S)) : t \in DOMAIN ts}
<1>1. DOMAIN ts = 1..Len(ts) /\ Len(ts) \in Nat \ {0}
  BY DEF Table
<1>2. IsFiniteSet(S) /\ S \in SUBSET DOMAIN ws /\ ws \in [DOMAIN ws -> Nat] /\ S \in SUBSET Whole(ws)
  <2>1. S \in SUBSET Whole(ws) /\ 1 \in DOMAIN ts
    BY <1>1
  <2> HIDE DEF S
  <2> QED BY <2>1, StatesAreFinite
<1>3. Total(ws, S) \in Nat
  <2> HIDE DEF S
  <2> QED BY <1>2, TotalIsNatural
<1>4. \A t \in DOMAIN ts : Total(ws, Left(ts, t, S)) \in Nat
  <2> SUFFICES ASSUME NEW t \in DOMAIN ts
               PROVE  Total(ws, Left(ts, t, S)) \in Nat
    OBVIOUS
  <2> DEFINE L == Left(ts, t, S)
  <2>1. L \in SUBSET S
    BY DEF Left
  <2> HIDE DEF L, S
  <2>2. L \in SUBSET DOMAIN ws /\ IsFiniteSet(L)
    BY <1>2, <2>1, FS_Subset
  <2>3. Total(ws, L) \in Nat
    BY <1>2, <2>2, TotalIsNatural
  <2> QED BY <2>3 DEF L
<1>5. Min(B) \in B /\ (\A x \in B : Min(B) <= x) /\ B \in SUBSET Nat
  <2>1. B \in SUBSET Nat /\ B # {}
    BY <1>1, <1>4
  <2> HIDE DEF B
  <2> QED BY <2>1, LeastIsIn
<1>6. CASE S = {}
  <2>1. Total(ws, S) = 0
    <3> HIDE DEF S
    <3> QED BY <1>2, <1>6, TotalStep
  <2> QED BY <1>6, <2>1 DEF SolutionSound
<1>7. CASE S # {}
  <2>1. /\ S \in DOMAIN m /\ sol.cost = m[S].cost
        /\ sol.root_lower_bound = Total(ws, S) + Min(B)
    BY <1>7 DEF SolutionSound
  <2>2. m[S].cost \in Nat /\ IsLeast(ws, ts, m, Len(ts), S, m[S].cost)
    BY <2>1 DEF MemoSound
  <2> HIDE DEF S
  <2>3. PICK t \in DOMAIN ts : /\ Solved(ts, m, t, S, Values(ts, t, S))
                               /\ sol.cost = CostOf(ws, ts, m, t, S)
    BY <1>1, <2>1, <2>2 DEF IsLeast
  <2>4. Total(ws, S) + Total(ws, Left(ts, t, S)) <= CostOf(ws, ts, m, t, S)
    BY <1>2, <2>3, BranchesCostTheirWeight
  <2>5. Min(B) <= Total(ws, Left(ts, t, S)) /\ Min(B) \in Nat
    BY <1>5
  <2>6. Total(ws, Left(ts, t, S)) \in Nat
    BY <1>4
  <2>7. sol.total_weight = Total(ws, S) /\ sol.explored_states = sol.memoized_states
    BY DEF SolutionSound, S
  <2>8. sol.cost \in Nat
    BY <2>1, <2>2
  <2> HIDE DEF B
  <2>9. Total(ws, S) + Min(B) <= sol.cost
    BY <1>3, <2>3, <2>4, <2>5, <2>6, <2>8
  <2>10. Total(ws, S) <= Total(ws, S) + Min(B)
    BY <1>3, <2>5
  <2> QED BY <2>1, <2>7, <2>9, <2>10 DEF S
<1> QED BY <1>6, <1>7

\* The certificate that solve returns: total weight, lower bound and cost in this order,
\* and as many states explored as remembered, whatever the table of outcomes.
THEOREM CertificateIsSound == Spec /\ []TestsTyped => []CertificateSound
<1>1. SInv /\ TestsTyped => CertificateSound
  <2> SUFFICES ASSUME SInv, TestsTyped, phase = "solved"
               PROVE  /\ solution.total_weight = Weight(Initial)
                      /\ solution.total_weight <= solution.root_lower_bound
                      /\ solution.root_lower_bound <= solution.cost
                      /\ solution.explored_states = solution.memoized_states
    BY DEF CertificateSound
  <2>1. /\ Table(weights, tests) /\ tests # <<>> /\ MemoSound(weights, tests, memo)
        /\ SolutionSound(weights, tests, memo, solution)
    BY DEF SInv, SearchInv, TestsTyped, Table
  <2>2. Weight(Initial) = Total(weights, Whole(weights))
    BY InitialIsWhole, WeightIsTotal
  <2> QED BY <2>1, <2>2, BoundsAreSound
<1> QED BY <1>1, SearchInvariant, PTL

-----------------------------------------------------------------------------
(* The optimum.  It is defined by recursion over smaller states; the       *)
(* function that the definition chooses exists, and any other agrees.      *)

\* The branches of a test that divides a state are smaller than it.
Divides(ts, t, S) == \A v \in Values(ts, t, S) : Part(ts, t, S, v) # S

\* What the trees of the branches cost, by a function g from states to costs.
Answers(ts, g, t, S) == [v \in Values(ts, t, S) |-> g[Part(ts, t, S, v)]]

\* What the property calls these.
LEMMA OpeningsAre ==
  ASSUME NEW g, NEW S
  PROVE  Openings(g, S) =
           {t \in DOMAIN tests :
              /\ Divides(tests, t, S)
              /\ \A v \in Values(tests, t, S) : g[Part(tests, t, S, v)] # NoTree}
BY ModelWords DEF Openings, Divides

\* The cost of a tree is a sum.
LEMMA CostFromIs ==
  ASSUME NEW g, NEW t, NEW S
  PROVE  CostFrom(g, t, S) = Total(weights, S) + Total(Answers(tests, g, t, S), Values(tests, t, S))
<1> DEFINE costs == [v \in DOMAIN Branches(t, S) |-> g[Branches(t, S)[v]]]
<1>1. CostFrom(g, t, S) = Weight(S) + Total(costs, DOMAIN costs)
  BY DEF CostFrom, MapThenSumSet, MapThenFoldSet, Total, AddsUp, Picked
<1>2. costs = Answers(tests, g, t, S) /\ DOMAIN costs = Values(tests, t, S)
  BY ModelWords DEF Answers
<1> HIDE DEF costs
<1> QED BY <1>1, <1>2, WeightIsTotal

\* A test divides a state exactly if it is not passed over.
LEMMA DividesIs ==
  ASSUME NEW ts, NEW t, NEW S, IsFiniteSet(Values(ts, t, S))
  PROVE  Divides(ts, t, S) <=> ~Useless(ts, t, S)
<1>1. ASSUME Useless(ts, t, S), Divides(ts, t, S)
      PROVE  FALSE
  <2>1. Left(ts, t, S) = S /\ Cardinality(Values(ts, t, S)) = 1
    BY <1>1 DEF Useless
  <2>2. PICK v : Values(ts, t, S) = {v}
    BY <2>1, FS_Singleton
  <2>3. v \in Values(ts, t, S) /\ Part(ts, t, S, v) = S
    BY <2>1, <2>2 DEF Values, Part
  <2> QED BY <1>1, <2>3 DEF Divides
<1>2. ASSUME ~Useless(ts, t, S)
      PROVE  Divides(ts, t, S)
  BY <1>2, PartIsSmaller DEF Divides
<1> QED BY <1>1, <1>2

\* g and h know the same costs of the states that are smaller than S.
SameBelow(g, h, S) == \A C \in (SUBSET S) \ {{}} : C # S => g[C] = h[C]

\* The least cost of a state depends on those of smaller states alone.
LEMMA LeastCostAgrees ==
  ASSUME Table(weights, tests), NEW S \in SUBSET Whole(weights), NEW g, NEW h, SameBelow(g, h, S)
  PROVE  LeastCost(g, S) = LeastCost(h, S)
<1>1. ASSUME NEW t \in DOMAIN tests, Divides(tests, t, S)
      PROVE  \A v \in Values(tests, t, S) : g[Part(tests, t, S, v)] = h[Part(tests, t, S, v)]
  BY <1>1, StatesAreFinite DEF Divides, SameBelow
<1>2. Openings(g, S) = Openings(h, S)
  <2>1. \A t : t \in Openings(g, S) <=> t \in Openings(h, S)
    BY <1>1, OpeningsAre
  <2> QED BY <2>1
<1>3. ASSUME NEW t \in Openings(h, S)
      PROVE  CostFrom(g, t, S) = CostFrom(h, t, S)
  <2>1. t \in DOMAIN tests /\ Divides(tests, t, S)
    BY OpeningsAre
  <2>2. Answers(tests, g, t, S) = Answers(tests, h, t, S)
    BY <1>1, <2>1 DEF Answers
  <2> QED BY <2>2, CostFromIs
<1>4. {CostFrom(g, t, S) : t \in Openings(g, S)} = {CostFrom(h, t, S) : t \in Openings(h, S)}
  BY <1>2, <1>3
<1> QED BY <1>2, <1>4 DEF LeastCost

\* g gives each subset of W its least cost.
IsOptimum(g, W) == g = [S \in SUBSET W |-> LeastCost(g, S)]

\* One step of it.
LEMMA OptimumStep ==
  ASSUME NEW g, NEW W, IsOptimum(g, W), NEW S \in SUBSET W
  PROVE  g[S] = LeastCost(g, S)
BY DEF IsOptimum

\* Where there is such a function, Optimum is one's value.
LEMMA OptimumIsOne ==
  ASSUME NEW W, NEW g, IsOptimum(g, W)
  PROVE  \E h : IsOptimum(h, W) /\ Optimum(W) = h[W]
<1>1. IsOptimum(CHOOSE h : IsOptimum(h, W), W)
  OBVIOUS
<1>2. Optimum(W) = (CHOOSE h : IsOptimum(h, W))[W]
  BY DEF Optimum, IsOptimum
<1> QED BY <1>1, <1>2

\* What two of them give for one state of n scenarios is the same.
SameOptimum(n) ==
  \A V, W \in SUBSET Whole(weights) : \A g, h, S :
    IsOptimum(g, V) /\ IsOptimum(h, W) /\ S \in SUBSET V /\ S \in SUBSET W /\ Cardinality(S) < n
    => g[S] = h[S]

\* A state is finite, and a smaller one has fewer scenarios.
LEMMA SmallerState ==
  ASSUME Table(weights, tests), NEW S \in SUBSET Whole(weights)
  PROVE  /\ IsFiniteSet(S) /\ Cardinality(S) \in Nat
         /\ \A C \in SUBSET S : C # S => Cardinality(C) \in Nat /\ Cardinality(C) < Cardinality(S)
<1>1. IsFiniteSet(S)
  <2>1. weights \in [DOMAIN weights -> Nat] /\ DOMAIN weights = 1..Len(weights) /\ Len(weights) \in Nat
    BY DEF Table
  <2>2. IsFiniteSet(1..Len(weights))
    <3> DEFINE n == Len(weights)
    <3>1. n \in Int /\ 1 \in Int
      BY <2>1
    <3> HIDE DEF n
    <3>2. IsFiniteSet(1..n)
      BY <3>1, FS_Interval
    <3> QED BY <3>2 DEF n
  <2>3. S \in SUBSET (1..Len(weights))
    BY <2>1 DEF Whole
  <2> QED BY <2>2, <2>3, FS_Subset
<1>2. ASSUME NEW C \in SUBSET S, C # S
      PROVE  Cardinality(C) \in Nat /\ Cardinality(C) < Cardinality(S)
  BY <1>1, <1>2, FS_Subset, FS_CardinalityType
<1> QED BY <1>1, <1>2, FS_CardinalityType

\* ... for all of them.
LEMMA OptimaAreSame ==
  ASSUME Table(weights, tests)
  PROVE  \A n \in Nat : SameOptimum(n)
<1> DEFINE N == {n \in Nat : SameOptimum(n)}
<1>1. 0 \in N
  <2>1. ASSUME NEW V \in SUBSET Whole(weights), NEW S \in SUBSET V
        PROVE  ~(Cardinality(S) < 0)
    BY SmallerState
  <2> QED BY <2>1 DEF SameOptimum
<1>2. ASSUME NEW n \in Nat, SameOptimum(n)
      PROVE  SameOptimum(n + 1)
  <2>1. ASSUME NEW V \in SUBSET Whole(weights), NEW W \in SUBSET Whole(weights), NEW g, NEW h,
               NEW S, IsOptimum(g, V), IsOptimum(h, W), S \in SUBSET V, S \in SUBSET W,
               Cardinality(S) < n + 1
        PROVE  g[S] = h[S]
    <3>1. S \in SUBSET Whole(weights)
      BY <2>1
    <3>2. ASSUME NEW C \in (SUBSET S) \ {{}}, C # S
          PROVE  g[C] = h[C]
      <4>1. Cardinality(C) < n /\ C \in SUBSET V /\ C \in SUBSET W
        BY <2>1, <3>1, <3>2, SmallerState
      <4> QED BY <1>2, <2>1, <4>1 DEF SameOptimum
    <3>3. LeastCost(g, S) = LeastCost(h, S)
      BY <3>1, <3>2, LeastCostAgrees DEF SameBelow
    <3> QED BY <2>1, <3>3, OptimumStep
  <2> QED BY <2>1 DEF SameOptimum
<1>3. \A n \in Nat : n \in N => n + 1 \in N
  BY <1>2
<1> HIDE DEF N
<1>4. \A n \in Nat : n \in N
  BY <1>1, <1>3, Induction
<1> QED BY <1>4 DEF N

\* There is one for every state.
LEMMA OptimumExists ==
  ASSUME Table(weights, tests)
  PROVE  \A W \in SUBSET Whole(weights) : \E g : IsOptimum(g, W)
<1> DEFINE Has(n) == \A W \in SUBSET Whole(weights) : Cardinality(W) < n => \E g : IsOptimum(g, W)
           N == {n \in Nat : Has(n)}
<1>1. 0 \in N
  <2>1. \A W \in SUBSET Whole(weights) : ~(Cardinality(W) < 0)
    BY SmallerState
  <2> QED BY <2>1
<1>2. ASSUME NEW n \in Nat, Has(n)
      PROVE  Has(n + 1)
  <2>1. ASSUME NEW W \in SUBSET Whole(weights), Cardinality(W) < n + 1
        PROVE  \E g : IsOptimum(g, W)
    <3> DEFINE opt == [S \in SUBSET W |-> Optimum(S)]
               h == [S \in SUBSET W |-> LeastCost(opt, S)]
    <3>1. ASSUME NEW S \in SUBSET W, NEW C \in SUBSET S, C # S
          PROVE  C \in SUBSET W /\ Cardinality(C) < n
      <4> HIDE DEF opt, h
      <4>1. S \in SUBSET Whole(weights) /\ Cardinality(W) \in Nat /\ Cardinality(W) < n + 1
        BY <2>1, SmallerState
      <4>2. Cardinality(C) \in Nat /\ Cardinality(S) \in Nat /\ Cardinality(C) < Cardinality(S)
        BY <3>1, <4>1, SmallerState
      <4>3. S = W \/ Cardinality(S) < Cardinality(W)
        BY <2>1, SmallerState
      <4> QED BY <4>1, <4>2, <4>3
    <3>2. ASSUME NEW C \in SUBSET W, Cardinality(C) < n
          PROVE  h[C] = opt[C]
      <4>1. PICK k : IsOptimum(k, C)
        BY <1>2, <3>2
      <4>2. PICK g : IsOptimum(g, C) /\ Optimum(C) = g[C]
        BY <4>1, OptimumIsOne
      <4>3. ASSUME NEW D \in (SUBSET C) \ {{}}, D # C
            PROVE  g[D] = opt[D]
        <5>1. D \in SUBSET W /\ Cardinality(D) < n
          BY <3>1, <4>3
        <5>2. PICK l : IsOptimum(l, D)
          BY <1>2, <5>1
        <5>3. PICK d : IsOptimum(d, D) /\ Optimum(D) = d[D]
          BY <5>2, OptimumIsOne
        <5>4. g[D] = d[D]
          <6>1. SameOptimum(n)
            BY OptimaAreSame
          <6>2. C \in SUBSET Whole(weights) /\ D \in SUBSET Whole(weights) /\ D \in SUBSET D
                /\ D \in SUBSET C
            OBVIOUS
          <6> QED BY <4>2, <5>1, <5>3, <6>1, <6>2, SMTT(30) DEF SameOptimum
        <5> QED BY <5>1, <5>3, <5>4
      <4>4. C \in SUBSET Whole(weights) /\ C \in SUBSET C
        OBVIOUS
      <4> HIDE DEF opt
      <4>5. LeastCost(g, C) = LeastCost(opt, C)
        BY <4>3, <4>4, LeastCostAgrees DEF SameBelow
      <4>6. g[C] = LeastCost(g, C)
        BY <4>2, <4>4, OptimumStep
      <4>7. h[C] = LeastCost(opt, C)
        OBVIOUS
      <4>8. opt[C] = Optimum(C)
        BY DEF opt
      <4> QED BY <4>2, <4>5, <4>6, <4>7, <4>8
    <3>3. ASSUME NEW S \in SUBSET W
          PROVE  LeastCost(opt, S) = LeastCost(h, S)
      <4>1. S \in SUBSET Whole(weights)
        OBVIOUS
      <4>2. \A C \in (SUBSET S) \ {{}} : C # S => opt[C] = h[C]
        BY <3>1, <3>2
      <4> HIDE DEF opt, h
      <4> QED BY <4>1, <4>2, LeastCostAgrees DEF SameBelow
    <3>4. h = [S \in SUBSET W |-> LeastCost(h, S)]
      <4> DEFINE k == h
      <4>1. k = [S \in SUBSET W |-> LeastCost(opt, S)]
        OBVIOUS
      <4>2. \A S \in SUBSET W : LeastCost(opt, S) = LeastCost(k, S)
        BY <3>3
      <4> HIDE DEF h, opt, k
      <4>3. k = [S \in SUBSET W |-> LeastCost(k, S)]
        BY <4>1, <4>2
      <4> QED BY <4>3 DEF k
    <3> HIDE DEF h
    <3> QED BY <3>4 DEF IsOptimum
  <2> QED BY <2>1
<1>3. \A n \in Nat : n \in N => n + 1 \in N
  BY <1>2
<1> HIDE DEF N
<1>4. \A n \in Nat : n \in N
  BY <1>1, <1>3, Induction
<1> QED
  <2> SUFFICES ASSUME NEW W \in SUBSET Whole(weights)
               PROVE  \E g : IsOptimum(g, W)
    OBVIOUS
  <2>1. Cardinality(W) + 1 \in Nat /\ Cardinality(W) < Cardinality(W) + 1
    BY SmallerState
  <2>2. Has(Cardinality(W) + 1)
    BY <1>4, <2>1 DEF N
  <2> QED BY <2>1, <2>2

-----------------------------------------------------------------------------
(* The search is exact.                                                    *)

\* Costs of the memo are those of the optimum, for states of fewer than n scenarios.
IsExact(m, g, W, n) ==
  \A S \in DOMAIN m : S \in SUBSET W /\ Cardinality(S) < n => g[S] = m[S].cost

\* A state of the memo whose branches have exact costs has one itself.
LEMMA StateIsExact ==
  ASSUME Table(weights, tests), NEW m, MemoSound(weights, tests, m),
         NEW S \in DOMAIN m, NEW g,
         \A C \in DOMAIN m : C \in SUBSET S /\ C # S => g[C] = m[C].cost
  PROVE  LeastCost(g, S) = m[S].cost
<1> DEFINE used == {t \in DOMAIN tests : ~Useless(tests, t, S)}
           cost(t) == CostOf(weights, tests, m, t, S)
<1>1. /\ S \in SUBSET Whole(weights) /\ S # {} /\ m[S].cost \in Nat
      /\ IsLeast(weights, tests, m, Len(tests), S, m[S].cost)
  BY DEF MemoSound
<1>2. DOMAIN tests = 1..Len(tests)
  BY DEF Table
<1>3. \A t \in used : Solved(tests, m, t, S, Values(tests, t, S)) /\ m[S].cost <= cost(t)
  BY <1>1, <1>2 DEF IsLeast
<1>4. \E t \in used : m[S].cost = cost(t)
  BY <1>1, <1>2 DEF IsLeast
<1>5. \A t \in DOMAIN tests : Divides(tests, t, S) <=> t \in used
  <2> SUFFICES ASSUME NEW t \in DOMAIN tests
               PROVE  Divides(tests, t, S) <=> ~Useless(tests, t, S)
    OBVIOUS
  <2>1. IsFiniteSet(Values(tests, t, S))
    BY <1>1, StatesAreFinite
  <2> QED BY <2>1, DividesIs
<1> HIDE DEF used, cost
<1>6. ASSUME NEW t \in used, NEW v \in Values(tests, t, S)
      PROVE  /\ Part(tests, t, S, v) \in DOMAIN m
             /\ g[Part(tests, t, S, v)] = m[Part(tests, t, S, v)].cost
             /\ m[Part(tests, t, S, v)].cost \in Nat
  <2>1. t \in DOMAIN tests /\ Divides(tests, t, S)
    BY <1>5 DEF used
  <2>2. Part(tests, t, S, v) \in SUBSET S /\ Part(tests, t, S, v) # S
    BY <1>1, <2>1, StatesAreFinite DEF Divides
  <2>3. Part(tests, t, S, v) \in DOMAIN m
    BY <1>3 DEF Solved
  <2> QED BY <2>2, <2>3 DEF MemoSound
<1>7. Openings(g, S) = used
  <2>1. \A x \in Nat : x # NoTree
    BY DEF NoTree
  <2>2. \A t : t \in Openings(g, S) <=> t \in used
    BY <1>5, <1>6, <2>1, OpeningsAre DEF used
  <2> QED BY <2>2
<1>8. ASSUME NEW t \in used
      PROVE  CostFrom(g, t, S) = cost(t)
  <2>1. Answers(tests, g, t, S) = ChildCosts(tests, m, t, S, Values(tests, t, S))
    BY <1>6 DEF Answers, ChildCosts
  <2> QED BY <2>1, CostFromIs DEF cost, CostOf, Spent
<1>9. ASSUME NEW t \in used
      PROVE  cost(t) \in Nat
  <2> DEFINE V == Values(tests, t, S)
  <2>1. t \in DOMAIN tests /\ V \in SUBSET Values(tests, t, S) /\ Solved(tests, m, t, S, V)
    BY <1>3 DEF used
  <2> HIDE DEF V
  <2>2. Spent(weights, tests, m, t, S, V) \in Nat
    BY <1>1, <2>1, SpentIsNatural
  <2> QED BY <2>2 DEF cost, CostOf, V
<1> DEFINE C == {CostFrom(g, t, S) : t \in Openings(g, S)}
<1>10. C \in SUBSET Nat /\ m[S].cost \in C /\ \A x \in C : m[S].cost <= x
  BY <1>3, <1>4, <1>7, <1>8, <1>9
<1>11. Openings(g, S) # {}
  BY <1>4, <1>7
<1> HIDE DEF C
<1>12. Min(C) \in C /\ \A x \in C : Min(C) <= x
  <2>1. C # {}
    BY <1>10
  <2> QED BY <1>10, <2>1, LeastIsIn
<1>13. Min(C) = m[S].cost
  <2> DEFINE x == Min(C)
             y == m[S].cost
  <2>1. x \in C /\ y \in C /\ C \in SUBSET Nat
    BY <1>10, <1>12
  <2>2. x <= y /\ y <= x
    BY <1>10, <1>12, <2>1
  <2> HIDE DEF x, y
  <2>3. x = y
    BY <2>1, <2>2
  <2> QED BY <2>3 DEF x, y
<1> QED BY <1>1, <1>11, <1>13 DEF LeastCost, C

\* ... and so all have.
LEMMA MemoIsExact ==
  ASSUME Table(weights, tests), NEW m, MemoSound(weights, tests, m),
         NEW W \in SUBSET Whole(weights), NEW g, IsOptimum(g, W)
  PROVE  \A S \in DOMAIN m : S \in SUBSET W => g[S] = m[S].cost
<1> DEFINE N == {n \in Nat : IsExact(m, g, W, n)}
<1>1. 0 \in N
  <2>1. \A S \in SUBSET W : ~(Cardinality(S) < 0)
    BY SmallerState
  <2> QED BY <2>1 DEF IsExact
<1>2. ASSUME NEW n \in Nat, IsExact(m, g, W, n)
      PROVE  IsExact(m, g, W, n + 1)
  <2>1. ASSUME NEW S \in DOMAIN m, S \in SUBSET W, Cardinality(S) < n + 1
        PROVE  g[S] = m[S].cost
    <3>1. S \in SUBSET Whole(weights)
      BY <2>1
    <3>2. ASSUME NEW C \in DOMAIN m, C \in SUBSET S, C # S
          PROVE  g[C] = m[C].cost
      <4>1. /\ Cardinality(C) \in Nat /\ Cardinality(S) \in Nat
            /\ Cardinality(C) < Cardinality(S)
        BY <3>1, <3>2, SmallerState
      <4>2. Cardinality(C) < n /\ C \in SUBSET W
        BY <2>1, <3>2, <4>1
      <4> QED BY <1>2, <4>2 DEF IsExact
    <3>3. LeastCost(g, S) = m[S].cost
      BY <3>2, StateIsExact
    <3> QED BY <2>1, <3>3, OptimumStep
  <2> QED BY <2>1 DEF IsExact
<1>3. \A n \in Nat : n \in N => n + 1 \in N
  BY <1>2
<1> HIDE DEF N
<1>4. \A n \in Nat : n \in N
  BY <1>1, <1>3, Induction
<1> QED
  <2> SUFFICES ASSUME NEW S \in DOMAIN m, S \in SUBSET W
               PROVE  g[S] = m[S].cost
    OBVIOUS
  <2>1. Cardinality(S) + 1 \in Nat /\ Cardinality(S) < Cardinality(S) + 1
    <3>1. S \in SUBSET Whole(weights)
      OBVIOUS
    <3>2. Cardinality(S) \in Nat
      BY <3>1, SmallerState
    <3> QED BY <3>2
  <2>2. IsExact(m, g, W, Cardinality(S) + 1)
    BY <1>4, <2>1 DEF N
  <2> QED BY <2>1, <2>2 DEF IsExact

\* States of fewer than n scenarios that contain R have no tree.
HasNone(g, W, R, n) == \A S \in SUBSET W : R \subseteq S /\ Cardinality(S) < n => g[S] = NoTree

\* A state that no test divides has no tree, nor has one that contains it: every test
\* leaves it together in one branch.
LEMMA NoneSeparates ==
  ASSUME Table(weights, tests), NEW W \in SUBSET Whole(weights), NEW g, IsOptimum(g, W),
         NEW R \in (SUBSET W) \ {{}}, IsInseparable(tests, R)
  PROVE  g[W] = NoTree
<1> DEFINE N == {n \in Nat : HasNone(g, W, R, n)}
<1>1. 0 \in N
  <2>1. \A S \in SUBSET W : ~(Cardinality(S) < 0)
    BY SmallerState
  <2> QED BY <2>1 DEF HasNone
<1>2. ASSUME NEW n \in Nat, HasNone(g, W, R, n)
      PROVE  HasNone(g, W, R, n + 1)
  <2>1. ASSUME NEW S \in SUBSET W, R \subseteq S, Cardinality(S) < n + 1
        PROVE  g[S] = NoTree
    <3>1. S \in SUBSET Whole(weights) /\ S # {}
      BY <2>1
    <3>2. ASSUME NEW t \in Openings(g, S)
          PROVE  FALSE
      <4>1. /\ t \in DOMAIN tests /\ Divides(tests, t, S)
            /\ \A v \in Values(tests, t, S) : g[Part(tests, t, S, v)] # NoTree
        BY <3>2, OpeningsAre
      <4>2. Useless(tests, t, R) /\ R \in SUBSET Whole(weights)
        BY <4>1 DEF IsInseparable
      <4>3. Left(tests, t, R) = R /\ IsFiniteSet(Values(tests, t, R))
              /\ Cardinality(Values(tests, t, R)) = 1
        BY <4>1, <4>2, StatesAreFinite DEF Useless
      <4>4. PICK v : Values(tests, t, R) = {v}
        BY <4>3, FS_Singleton
      <4>5. v \in Values(tests, t, S) /\ R \subseteq Part(tests, t, S, v)
        BY <2>1, <4>3, <4>4 DEF Values, Left, Part
      <4>6. Part(tests, t, S, v) \in SUBSET S /\ Part(tests, t, S, v) # S
        BY <3>1, <4>1, <4>5, StatesAreFinite DEF Divides
      <4> DEFINE C == Part(tests, t, S, v)
      <4>7. C \in SUBSET S /\ C # S /\ R \subseteq C /\ g[C] # NoTree
        BY <4>1, <4>5, <4>6
      <4> HIDE DEF C
      <4>8. /\ Cardinality(C) \in Nat /\ Cardinality(S) \in Nat
            /\ Cardinality(C) < Cardinality(S)
        BY <3>1, <4>7, SmallerState
      <4>9. Cardinality(C) < n /\ C \in SUBSET W
        BY <2>1, <4>7, <4>8
      <4> QED BY <1>2, <4>7, <4>9 DEF HasNone
    <3>3. Openings(g, S) = {}
      BY <3>2
    <3>4. LeastCost(g, S) = NoTree
      BY <3>1, <3>3 DEF LeastCost
    <3> QED BY <3>4, OptimumStep
  <2> QED BY <2>1 DEF HasNone
<1>3. \A n \in Nat : n \in N => n + 1 \in N
  BY <1>2
<1> HIDE DEF N
<1>4. \A n \in Nat : n \in N
  BY <1>1, <1>3, Induction
<1>5. Cardinality(W) + 1 \in Nat /\ Cardinality(W) < Cardinality(W) + 1
  <2>1. Cardinality(W) \in Nat
    BY SmallerState
  <2> QED BY <2>1
<1>6. HasNone(g, W, R, Cardinality(W) + 1)
  BY <1>4, <1>5 DEF N
<1>7. W \in SUBSET W /\ R \subseteq W
  OBVIOUS
<1> QED BY <1>5, <1>6, <1>7 DEF HasNone

\* Whatever the weights and the outcomes of the tests: each cost that the search
\* remembers is that of the best of all trees, and where it gives up there is no tree
\* (solve_state, with its memo and its early return).
THEOREM SearchIsExact == Spec /\ []TestsTyped => []SearchExact
<1>1. SInv /\ TestsTyped => SearchExact
  <2> SUFFICES ASSUME SInv, TestsTyped
               PROVE  SearchExact
    OBVIOUS
  <2>1. Table(weights, tests) /\ MemoSound(weights, tests, memo)
    BY DEF SInv, SearchInv, TestsTyped, Table
  <2>2. ASSUME NEW S \in DOMAIN memo
        PROVE  memo[S].cost = Optimum(S)
    <3>1. S \in SUBSET Whole(weights) /\ S \in SUBSET S
      BY <2>1 DEF MemoSound
    <3>2. PICK k : IsOptimum(k, S)
      BY <2>1, <3>1, OptimumExists
    <3>3. PICK g : IsOptimum(g, S) /\ Optimum(S) = g[S]
      BY <3>2, OptimumIsOne
    <3>4. g[S] = memo[S].cost
      BY <2>1, <3>1, <3>3, MemoIsExact
    <3> QED BY <3>3, <3>4
  <2>3. ASSUME phase = "unseparable", tests # <<>>
        PROVE  Optimum(Initial) = NoTree
    <3> DEFINE W == Whole(weights)
    <3>1. PICK R \in (SUBSET W) \ {{}} : IsInseparable(tests, R)
      BY <2>3 DEF SInv, SearchInv
    <3>2. W \in SUBSET Whole(weights) /\ Initial = W
      BY InitialIsWhole
    <3> HIDE DEF W
    <3>3. PICK k : IsOptimum(k, W)
      BY <2>1, <3>2, OptimumExists
    <3>4. PICK g : IsOptimum(g, W) /\ Optimum(W) = g[W]
      BY <3>3, OptimumIsOne
    <3>5. g[W] = NoTree
      BY <2>1, <3>1, <3>2, <3>4, NoneSeparates
    <3> QED BY <3>2, <3>4, <3>5
  <2> QED BY <2>2, <2>3 DEF SearchExact
<1> QED BY <1>1, SearchInvariant, PTL

-----------------------------------------------------------------------------
(* Ordered: the elements of a finite set in a strict order R, a set of     *)
(* pairs here.                                                             *)

IsStrictOrder(S, R) ==
  /\ \A x \in S : <<x, x>> \notin R
  /\ \A x, y, z \in S : <<x, y>> \in R /\ <<y, z>> \in R => <<x, z>> \in R
  /\ \A x, y \in S : x # y => <<x, y>> \in R \/ <<y, x>> \in R

BeforeIn(S, R, x) == {y \in S : <<y, x>> \in R}

\* q has at its k-th place the element with k - 1 others before it.
IsRanked(q, S, R) ==
  /\ q = [k \in 1..Cardinality(S) |-> q[k]]
  /\ \A k \in 1..Cardinality(S) : q[k] \in S /\ Cardinality(BeforeIn(S, R, q[k])) = k - 1

\* A sorted list of a set: every element once, each before the greater ones.
IsSortedList(q, S, R) ==
  /\ q \in Seq(S) /\ Len(q) = Cardinality(S) /\ DOMAIN q = 1..Len(q)
  /\ Cardinality(S) \in Nat
  /\ \A i, j \in 1..Len(q) : i < j => <<q[i], q[j]>> \in R
  /\ \A x \in S : \E i \in 1..Len(q) : q[i] = x

\* What comes earlier has fewer elements before it, and none has all of them.
LEMMA RankGrows ==
  ASSUME NEW S, IsFiniteSet(S), NEW R, IsStrictOrder(S, R)
  PROVE  /\ \A x \in S : Cardinality(BeforeIn(S, R, x)) \in 0..(Cardinality(S) - 1)
         /\ \A x, y \in S : <<x, y>> \in R =>
              Cardinality(BeforeIn(S, R, x)) < Cardinality(BeforeIn(S, R, y))
<1>1. ASSUME NEW x \in S
      PROVE  Cardinality(BeforeIn(S, R, x)) \in 0..(Cardinality(S) - 1)
  <2> DEFINE B == BeforeIn(S, R, x)
  <2>1. B \in SUBSET S /\ B # S
    BY <1>1 DEF BeforeIn, IsStrictOrder
  <2> HIDE DEF B
  <2>2. IsFiniteSet(B) /\ Cardinality(B) <= Cardinality(S) /\ Cardinality(B) # Cardinality(S)
    BY <2>1, FS_Subset
  <2>3. Cardinality(B) \in Nat /\ Cardinality(S) \in Nat
    BY <2>2, FS_CardinalityType
  <2> QED BY <2>2, <2>3 DEF B
<1>2. ASSUME NEW x \in S, NEW y \in S, <<x, y>> \in R
      PROVE  Cardinality(BeforeIn(S, R, x)) < Cardinality(BeforeIn(S, R, y))
  <2> DEFINE B == BeforeIn(S, R, x)
             C == BeforeIn(S, R, y)
  <2>1. B \in SUBSET C /\ B # C /\ C \in SUBSET S
    BY <1>2 DEF BeforeIn, IsStrictOrder
  <2> HIDE DEF B, C
  <2>2. IsFiniteSet(C)
    BY <2>1, FS_Subset
  <2>3. IsFiniteSet(B) /\ Cardinality(B) <= Cardinality(C) /\ Cardinality(B) # Cardinality(C)
    BY <2>1, <2>2, FS_Subset
  <2>4. Cardinality(B) \in Nat /\ Cardinality(C) \in Nat
    BY <2>2, <2>3, FS_CardinalityType
  <2> QED BY <2>3, <2>4 DEF B, C
<1> QED BY <1>1, <1>2

\* So every place has its element.
LEMMA EachRankIsTaken ==
  ASSUME NEW S, IsFiniteSet(S), NEW R, IsStrictOrder(S, R), NEW k \in 1..Cardinality(S)
  PROVE  \E x \in S : Cardinality(BeforeIn(S, R, x)) = k - 1
<1> DEFINE n == Cardinality(S)
           T == 0..(n - 1)
           f == [x \in S |-> Cardinality(BeforeIn(S, R, x))]
<1>1. n \in Nat
  BY FS_CardinalityType
<1>2. IsFiniteSet(T) /\ Cardinality(T) = n
  <2> DEFINE a == 0
             b == n - 1
  <2>1. a \in Int /\ b \in Int
    BY <1>1
  <2> HIDE DEF a, b
  <2>2. IsFiniteSet(a..b) /\ Cardinality(a..b) = IF a > b THEN 0 ELSE b - a + 1
    BY <2>1, FS_Interval
  <2> QED BY <1>1, <2>2 DEF a, b
<1>3. f \in [S -> T]
  BY RankGrows
<1>4. \A x, y \in S : x # y => f[x] # f[y]
  <2> SUFFICES ASSUME NEW x \in S, NEW y \in S, x # y
               PROVE  Cardinality(BeforeIn(S, R, x)) # Cardinality(BeforeIn(S, R, y))
    OBVIOUS
  <2>1. <<x, y>> \in R \/ <<y, x>> \in R
    BY DEF IsStrictOrder
  <2>2. /\ Cardinality(BeforeIn(S, R, x)) \in 0..(Cardinality(S) - 1)
        /\ Cardinality(BeforeIn(S, R, y)) \in 0..(Cardinality(S) - 1)
    BY RankGrows
  <2>3. \/ Cardinality(BeforeIn(S, R, x)) < Cardinality(BeforeIn(S, R, y))
        \/ Cardinality(BeforeIn(S, R, y)) < Cardinality(BeforeIn(S, R, x))
    BY <2>1, RankGrows
  <2> QED BY <1>1, <2>2, <2>3
<1>5. \A x \in S : f[x] = Cardinality(BeforeIn(S, R, x))
  OBVIOUS
<1>6. k - 1 \in T
  BY <1>1
<1> HIDE DEF f, T
<1>7. f \in Injection(S, T)
  BY <1>3, <1>4 DEF Injection, IsInjective
<1>8. f \in Surjection(S, T)
  BY <1>2, <1>7, FS_Injection
<1>9. \E x \in S : f[x] = k - 1
  BY <1>6, <1>8 DEF Surjection
<1> QED BY <1>5, <1>9

\* The list has every element once, in order.
LEMMA RankedIsSorted ==
  ASSUME NEW S, IsFiniteSet(S), NEW R, IsStrictOrder(S, R), NEW q, IsRanked(q, S, R)
  PROVE  IsSortedList(q, S, R)
<1> DEFINE n == Cardinality(S)
           rank(x) == Cardinality(BeforeIn(S, R, x))
<1>1. n \in Nat
  BY FS_CardinalityType
<1>2. \A k \in 1..n : q[k] \in S /\ rank(q[k]) = k - 1
  BY DEF IsRanked
<1>3. q = [k \in 1..n |-> q[k]]
  BY DEF IsRanked
<1>4. q \in Seq(S) /\ Len(q) = n /\ DOMAIN q = 1..n
  BY <1>1, <1>2, <1>3
<1>5. ASSUME NEW x \in S, NEW y \in S, rank(x) < rank(y)
      PROVE  <<x, y>> \in R
  <2>1. rank(x) \in Nat /\ rank(y) \in Nat
    BY <1>1, RankGrows
  <2>2. x # y
    BY <1>5, <2>1
  <2>3. ~(<<y, x>> \in R)
    <3>1. <<y, x>> \in R => rank(y) < rank(x)
      BY RankGrows
    <3> QED BY <1>5, <2>1, <3>1
  <2> QED BY <2>2, <2>3 DEF IsStrictOrder
<1>6. ASSUME NEW i \in 1..n, NEW j \in 1..n, i < j
      PROVE  <<q[i], q[j]>> \in R
  <2> HIDE DEF rank
  <2>1. rank(q[i]) < rank(q[j])
    BY <1>1, <1>2, <1>6
  <2> QED BY <1>2, <1>5, <2>1
<1>7. ASSUME NEW x \in S
      PROVE  \E i \in 1..n : q[i] = x
  <2>1. rank(x) \in 0..(n - 1)
    BY RankGrows
  <2> HIDE DEF rank
  <2> DEFINE i == rank(x) + 1
  <2>2. i \in 1..n /\ rank(q[i]) = rank(x)
    BY <1>1, <1>2, <2>1
  <2> HIDE DEF i
  <2>3. q[i] # x => \/ rank(q[i]) < rank(x)
                    \/ rank(x) < rank(q[i])
    <3>1. q[i] \in S
      BY <1>2, <2>2
    <3>2. q[i] # x => <<q[i], x>> \in R \/ <<x, q[i]>> \in R
      BY <3>1 DEF IsStrictOrder
    <3> QED BY <3>1, <3>2, RankGrows DEF rank
  <2> QED BY <2>1, <2>2, <2>3
<1> QED BY <1>1, <1>4, <1>6, <1>7 DEF IsSortedList

\* Numbers in ascending order.
Smaller(S) == {p \in S \X S : p[1] < p[2]}

\* A set of numbers in ascending order.
LEMMA OrderedNumbers ==
  ASSUME NEW S \in SUBSET Int, IsFiniteSet(S)
  PROVE  IsSortedList(Ordered(S, <), S, Smaller(S))
<1> DEFINE R == Smaller(S)
<1>1. \A x, y \in S : <<x, y>> \in R <=> x < y
  BY DEF Smaller
<1>2. \A x \in S : BeforeIn(S, R, x) = {y \in S : y < x}
  BY <1>1 DEF BeforeIn
<1> HIDE DEF R
<1>4. IsStrictOrder(S, R)
  <2>1. /\ \A x \in S : ~(x < x)
        /\ \A x, y, z \in S : x < y /\ y < z => x < z
        /\ \A x, y \in S : x # y => x < y \/ y < x
    OBVIOUS
  <2> QED BY <1>1, <2>1 DEF IsStrictOrder
<1>5. ASSUME NEW k \in 1..Cardinality(S)
      PROVE  \E x \in S : Cardinality({y \in S : y < x}) = k - 1
  <2>1. PICK x \in S : Cardinality(BeforeIn(S, R, x)) = k - 1
    BY <1>4, EachRankIsTaken
  <2>2. BeforeIn(S, R, x) = {y \in S : y < x}
    BY <1>2
  <2>3. Cardinality({y \in S : y < x}) = k - 1
    BY <2>1, <2>2
  <2> QED BY <2>3
<1> DEFINE q == Ordered(S, <)
<1>6. q = [k \in 1..Cardinality(S) |-> CHOOSE x \in S : Cardinality({y \in S : y < x}) = k - 1]
  BY DEF Ordered
<1>7. ASSUME NEW k \in 1..Cardinality(S)
      PROVE  q[k] \in S /\ Cardinality({y \in S : y < q[k]}) = k - 1
  BY <1>5, <1>6
<1>8. q = [k \in 1..Cardinality(S) |-> q[k]]
  BY <1>6
<1> HIDE DEF q
<1>9. IsRanked(q, S, R)
  BY <1>2, <1>7, <1>8 DEF IsRanked
<1>10. IsSortedList(q, S, R)
  BY <1>4, <1>9, RankedIsSorted
<1> QED BY <1>10 DEF q, R

\* The order of Vec: at the first place where they are not the same, the smaller one ends or
\* has the smaller element.
LEMMA SeqLessAt ==
  ASSUME NEW a \in Seq(Int), NEW b \in Seq(Int)
  PROVE  SeqLess(a, b) <=>
           \E k \in 1..Len(b) : /\ k <= Len(a) + 1
                                /\ \A j \in 1..(k - 1) : a[j] = b[j]
                                /\ k = Len(a) + 1 \/ a[k] < b[k]
<1>1. IsStrictPrefix(a, b) <=> Len(a) < Len(b) /\ \A i \in 1..Len(a) : a[i] = b[i]
  <2>1. IsPrefix(a, b) <=> Len(a) <= Len(b) /\ \A i \in 1..Len(a) : a[i] = b[i]
    BY PrefixDef
  <2>2. Len(a) = Len(b) /\ (\A i \in 1..Len(a) : a[i] = b[i]) => a = b
    OBVIOUS
  <2> QED BY <2>1, <2>2 DEF IsStrictPrefix
<1>2. ASSUME SeqLess(a, b)
      PROVE  \E k \in 1..Len(b) : /\ k <= Len(a) + 1
                                  /\ \A j \in 1..(k - 1) : a[j] = b[j]
                                  /\ k = Len(a) + 1 \/ a[k] < b[k]
  <2>1. CASE IsStrictPrefix(a, b)
    <3> DEFINE k == Len(a) + 1
    <3>1. k \in 1..Len(b) /\ k <= Len(a) + 1 /\ k - 1 = Len(a)
      BY <1>1, <2>1
    <3>2. \A j \in 1..(k - 1) : a[j] = b[j]
      BY <1>1, <2>1, <3>1
    <3> QED BY <3>1, <3>2
  <2>2. CASE \E k \in DOMAIN a \cap DOMAIN b : a[k] < b[k] /\ \A j \in 1..(k - 1) : a[j] = b[j]
    <3>1. PICK k \in DOMAIN a \cap DOMAIN b : a[k] < b[k] /\ \A j \in 1..(k - 1) : a[j] = b[j]
      BY <2>2
    <3>2. k \in 1..Len(b) /\ k <= Len(a) + 1
      OBVIOUS
    <3> QED BY <3>1, <3>2
  <2> QED BY <1>2, <2>1, <2>2 DEF SeqLess
<1>3. ASSUME NEW k \in 1..Len(b), k <= Len(a) + 1, \A j \in 1..(k - 1) : a[j] = b[j],
             k = Len(a) + 1 \/ a[k] < b[k]
      PROVE  SeqLess(a, b)
  <2>1. CASE k = Len(a) + 1
    <3>1. Len(a) < Len(b) /\ k - 1 = Len(a)
      BY <2>1
    <3>2. IsStrictPrefix(a, b)
      BY <1>1, <1>3, <3>1
    <3> QED BY <3>2 DEF SeqLess
  <2>2. CASE k # Len(a) + 1
    <3>1. k \in DOMAIN a \cap DOMAIN b /\ a[k] < b[k]
      BY <1>3, <2>2
    <3> QED BY <1>3, <3>1 DEF SeqLess
  <2> QED BY <2>1, <2>2
<1> QED BY <1>2, <1>3

\* One list is before another if it is a prefix of it or smaller at the first place where
\* they differ.
LEMMA SeqLessBy ==
  ASSUME NEW a \in Seq(Int), NEW b \in Seq(Int), NEW k \in 1..Len(b), k <= Len(a) + 1,
         \A j \in 1..(k - 1) : a[j] = b[j], k = Len(a) + 1 \/ a[k] < b[k]
  PROVE  SeqLess(a, b)
BY SeqLessAt

\* The order of Vec is a strict order of lists of numbers.
LEMMA SeqLessIsOrder ==
  /\ \A a \in Seq(Int) : ~SeqLess(a, a)
  /\ \A a, b, c \in Seq(Int) : SeqLess(a, b) /\ SeqLess(b, c) => SeqLess(a, c)
  /\ \A a, b \in Seq(Int) : a # b => SeqLess(a, b) \/ SeqLess(b, a)
<1>1. ASSUME NEW a \in Seq(Int), SeqLess(a, a)
      PROVE  FALSE
  <2>1. \E k \in 1..Len(a) : k = Len(a) + 1 \/ a[k] < a[k]
    BY <1>1, SeqLessAt
  <2> QED BY <2>1
<1>2. ASSUME NEW a \in Seq(Int), NEW b \in Seq(Int), NEW c \in Seq(Int),
             SeqLess(a, b), SeqLess(b, c)
      PROVE  SeqLess(a, c)
  <2>1. PICK k \in 1..Len(b) : /\ k <= Len(a) + 1
                               /\ \A j \in 1..(k - 1) : a[j] = b[j]
                               /\ k = Len(a) + 1 \/ a[k] < b[k]
    BY <1>2, SeqLessAt
  <2>2. PICK l \in 1..Len(c) : /\ l <= Len(b) + 1
                               /\ \A j \in 1..(l - 1) : b[j] = c[j]
                               /\ l = Len(b) + 1 \/ b[l] < c[l]
    BY <1>2, SeqLessAt
  <2>3. ASSUME NEW m \in 1..Len(c), m <= Len(a) + 1, \A j \in 1..(m - 1) : a[j] = c[j],
               m = Len(a) + 1 \/ a[m] < c[m]
        PROVE  SeqLess(a, c)
    BY <2>3, SeqLessAt
  <2>4. CASE k < l
    <3>1. k \in 1..Len(c) /\ b[k] = c[k]
      BY <2>2, <2>4
    <3>2. \A j \in 1..(k - 1) : a[j] = c[j]
      BY <2>1, <2>2, <2>4
    <3> QED BY <2>1, <2>3, <3>1, <3>2
  <2>5. CASE l <= k
    <3>1. l <= Len(b) /\ b[l] < c[l]
      BY <2>2, <2>5
    <3>2. \A j \in 1..(l - 1) : a[j] = c[j]
      BY <2>1, <2>2, <2>5
    <3>3. l < k => a[l] = b[l] /\ l <= Len(a)
      BY <2>1
    <3>4. l = k /\ k # Len(a) + 1 => a[l] < c[l]
      <4> SUFFICES ASSUME l = k, k # Len(a) + 1
                   PROVE  a[l] < c[l]
        OBVIOUS
      <4>1. a[l] < b[l] /\ a[l] \in Int /\ b[l] \in Int /\ c[l] \in Int
        BY <2>1, <3>1
      <4> QED BY <3>1, <4>1
    <3>5. l <= Len(a) + 1 /\ (l = Len(a) + 1 \/ a[l] < c[l])
      BY <2>1, <2>5, <3>1, <3>3, <3>4
    <3> QED BY <2>2, <2>3, <3>2, <3>5
  <2> QED BY <2>4, <2>5
<1>3. ASSUME NEW a \in Seq(Int), NEW b \in Seq(Int), a # b
      PROVE  SeqLess(a, b) \/ SeqLess(b, a)
  <2> DEFINE D == {k \in Nat : k >= 1 /\ k <= Len(a) /\ k <= Len(b) /\ a[k] # b[k]}
  <2>1. CASE D = {}
    <3>1. ASSUME NEW k \in 1..Len(a), k <= Len(b)
          PROVE  a[k] = b[k]
      <4>1. k \notin D
        BY <2>1
      <4>2. k \in Nat /\ k >= 1 /\ k <= Len(a)
        OBVIOUS
      <4> QED BY <3>1, <4>1, <4>2
    <3>2. Len(a) # Len(b)
      BY <1>3, <3>1
    <3>3. CASE Len(a) < Len(b)
      <4> DEFINE k == Len(a) + 1
      <4>1. k \in 1..Len(b) /\ k - 1 = Len(a)
        BY <3>3
      <4>2. \A j \in 1..(k - 1) : a[j] = b[j]
        <5> SUFFICES ASSUME NEW j \in 1..(k - 1)
                     PROVE  a[j] = b[j]
          OBVIOUS
        <5>1. j \in 1..Len(a)
          BY <4>1
        <5>2. j <= Len(b)
          BY <3>3, <5>1
        <5> QED BY <3>1, <5>1, <5>2
      <4>3. k <= Len(a) + 1 /\ k <= Len(b) + 1
        BY <3>2, <4>1
      <4> QED BY <4>1, <4>2, <4>3, SeqLessBy
    <3>4. CASE Len(b) < Len(a)
      <4> DEFINE k == Len(b) + 1
      <4>1. k \in 1..Len(a) /\ k - 1 = Len(b)
        BY <3>4
      <4>2. \A j \in 1..(k - 1) : b[j] = a[j]
        <5> SUFFICES ASSUME NEW j \in 1..(k - 1)
                     PROVE  b[j] = a[j]
          OBVIOUS
        <5>1. j \in 1..Len(a) /\ j <= Len(b)
          BY <3>4, <4>1
        <5> QED BY <3>1, <5>1
      <4>3. k <= Len(a) + 1 /\ k <= Len(b) + 1
        BY <3>2, <4>1
      <4> QED BY <4>1, <4>2, <4>3, SeqLessBy
    <3> QED BY <3>2, <3>3, <3>4
  <2>2. CASE D # {}
    <3>1. PICK k \in D : \A j \in D : k <= j
      BY <2>2, LeastNatural
    <3>2. k \in 1..Len(a) /\ k \in 1..Len(b) /\ a[k] # b[k] /\ a[k] \in Int /\ b[k] \in Int
      OBVIOUS
    <3>3. \A j \in 1..(k - 1) : a[j] = b[j]
      BY <3>1, <3>2
    <3>4. a[k] < b[k] => SeqLess(a, b)
      <4>1. k <= Len(a) + 1 /\ k <= Len(b) + 1
        BY <3>2
      <4> HIDE DEF D
      <4> QED BY <3>2, <3>3, <4>1, SeqLessBy
    <3>5. b[k] < a[k] => SeqLess(b, a)
      <4>1. k <= Len(a) + 1 /\ k <= Len(b) + 1
        BY <3>2
      <4> HIDE DEF D
      <4> QED BY <3>2, <3>3, <4>1, SeqLessBy
    <3> QED BY <3>2, <3>4, <3>5
  <2> QED BY <2>1, <2>2
<1> QED BY <1>1, <1>2, <1>3

\* Sequences in the order of Vec.
SmallerSeq(S) == {p \in S \X S : SeqLess(p[1], p[2])}

\* A set of lists of numbers in the order of Vec.
LEMMA OrderedSequences ==
  ASSUME NEW S \in SUBSET Seq(Int), IsFiniteSet(S)
  PROVE  IsSortedList(Ordered(S, SeqLess), S, SmallerSeq(S))
<1> DEFINE R == SmallerSeq(S)
<1>1. \A x, y \in S : <<x, y>> \in R <=> SeqLess(x, y)
  BY DEF SmallerSeq
<1>2. \A x \in S : BeforeIn(S, R, x) = {y \in S : SeqLess(y, x)}
  BY <1>1 DEF BeforeIn
<1> HIDE DEF R
<1>4. IsStrictOrder(S, R)
  <2>1. /\ \A x \in S : ~SeqLess(x, x)
        /\ \A x, y, z \in S : SeqLess(x, y) /\ SeqLess(y, z) => SeqLess(x, z)
        /\ \A x, y \in S : x # y => SeqLess(x, y) \/ SeqLess(y, x)
    BY SeqLessIsOrder
  <2> QED BY <1>1, <2>1 DEF IsStrictOrder
<1>5. ASSUME NEW k \in 1..Cardinality(S)
      PROVE  \E x \in S : Cardinality({y \in S : SeqLess(y, x)}) = k - 1
  <2>1. PICK x \in S : Cardinality(BeforeIn(S, R, x)) = k - 1
    BY <1>4, EachRankIsTaken
  <2>2. BeforeIn(S, R, x) = {y \in S : SeqLess(y, x)}
    BY <1>2
  <2>3. Cardinality({y \in S : SeqLess(y, x)}) = k - 1
    BY <2>1, <2>2
  <2> QED BY <2>3
<1> DEFINE q == Ordered(S, SeqLess)
<1>6. q = [k \in 1..Cardinality(S) |-> CHOOSE x \in S : Cardinality({y \in S : SeqLess(y, x)}) = k - 1]
  BY DEF Ordered
<1>7. ASSUME NEW k \in 1..Cardinality(S)
      PROVE  q[k] \in S /\ Cardinality({y \in S : SeqLess(y, q[k])}) = k - 1
  BY <1>5, <1>6
<1>8. q = [k \in 1..Cardinality(S) |-> q[k]]
  BY <1>6
<1> HIDE DEF q
<1>9. IsRanked(q, S, R)
  BY <1>2, <1>7, <1>8 DEF IsRanked
<1>10. IsSortedList(q, S, R)
  BY <1>4, <1>9, RankedIsSorted
<1> QED BY <1>10 DEF q, R

\* Rows in the order of their bundles, where no two rows have the same bundle.
SmallerRow(S) == {p \in S \X S : SeqLess(p[1].selected, p[2].selected)}

\* Rows of different selections in the order of their selections.
LEMMA OrderedRows ==
  ASSUME NEW S, IsFiniteSet(S), \A x \in S : x.selected \in Seq(Int),
         \A x, y \in S : x.selected = y.selected => x = y
  PROVE  IsSortedList(Ordered(S, LAMBDA a, b : SeqLess(a.selected, b.selected)), S, SmallerRow(S))
<1> DEFINE R == SmallerRow(S)
<1>1. \A x, y \in S : <<x, y>> \in R <=> SeqLess(x.selected, y.selected)
  BY DEF SmallerRow
<1>2. \A x \in S : BeforeIn(S, R, x) = {y \in S : SeqLess(y.selected, x.selected)}
  BY <1>1 DEF BeforeIn
<1> HIDE DEF R
<1>4. IsStrictOrder(S, R)
  <2>1. \A x \in S : ~SeqLess(x.selected, x.selected)
    BY SeqLessIsOrder
  <2>2. \A x, y, z \in S : SeqLess(x.selected, y.selected) /\ SeqLess(y.selected, z.selected)
                             => SeqLess(x.selected, z.selected)
    BY SeqLessIsOrder
  <2>3. \A x, y \in S : x # y => SeqLess(x.selected, y.selected) \/ SeqLess(y.selected, x.selected)
    BY SeqLessIsOrder
  <2> QED BY <1>1, <2>1, <2>2, <2>3 DEF IsStrictOrder
<1>5. ASSUME NEW k \in 1..Cardinality(S)
      PROVE  \E x \in S : Cardinality({y \in S : SeqLess(y.selected, x.selected)}) = k - 1
  <2>1. PICK x \in S : Cardinality(BeforeIn(S, R, x)) = k - 1
    BY <1>4, EachRankIsTaken
  <2>2. BeforeIn(S, R, x) = {y \in S : SeqLess(y.selected, x.selected)}
    BY <1>2
  <2>3. Cardinality({y \in S : SeqLess(y.selected, x.selected)}) = k - 1
    BY <2>1, <2>2
  <2> QED BY <2>3
<1> DEFINE q == Ordered(S, LAMBDA a, b : SeqLess(a.selected, b.selected))
<1>6. q = [k \in 1..Cardinality(S) |-> CHOOSE x \in S : Cardinality({y \in S : SeqLess(y.selected, x.selected)}) = k - 1]
  BY DEF Ordered
<1>7. ASSUME NEW k \in 1..Cardinality(S)
      PROVE  q[k] \in S /\ Cardinality({y \in S : SeqLess(y.selected, q[k].selected)}) = k - 1
  BY <1>5, <1>6
<1>8. q = [k \in 1..Cardinality(S) |-> q[k]]
  BY <1>6
<1> HIDE DEF q
<1>9. IsRanked(q, S, R)
  BY <1>2, <1>7, <1>8 DEF IsRanked
<1>10. IsSortedList(q, S, R)
  BY <1>4, <1>9, RankedIsSorted
<1> QED BY <1>10 DEF q, R

-----------------------------------------------------------------------------
(* The folds over the probes of a bundle: the values of a string as digits *)
(* of a mixed radix (kind is "rank"), or the product of the cardinalities. *)

Step(kind, v, p, x) ==
  IF kind = "rank" THEN v * p.cardinality + p.values[x] ELSE v * p.cardinality

\* g folds ps over each set of the first n places, the last one last.
FoldsUp(g, kind, base, ps, x, n) ==
  g = [s \in SUBSET (1..n) |->
         IF s = {} THEN base ELSE Step(kind, g[s \ {Max(s)}], ps[Max(s)], x)]

\* There is such a function.
LEMMA FoldsUpExists ==
  ASSUME NEW kind, NEW base, NEW ps, NEW x
  PROVE  \A n \in Nat : \E g : FoldsUp(g, kind, base, ps, x, n)
<1> DEFINE W == {n \in Nat : \E g : FoldsUp(g, kind, base, ps, x, n)}
<1>1. 0 \in W
  <2>1. FoldsUp([s \in SUBSET (1..0) |-> base], kind, base, ps, x, 0)
    <3>1. \A s \in SUBSET (1..0) : s = {}
      OBVIOUS
    <3> QED BY <3>1 DEF FoldsUp
  <2> QED BY <2>1
<1>2. ASSUME NEW n \in Nat, NEW g, FoldsUp(g, kind, base, ps, x, n)
      PROVE  \E h : FoldsUp(h, kind, base, ps, x, n + 1)
  <2> DEFINE h == [s \in SUBSET (1..(n + 1)) |->
                     IF n + 1 \in s THEN Step(kind, g[s \ {n + 1}], ps[n + 1], x) ELSE g[s]]
             next(s) == IF s = {} THEN base ELSE Step(kind, h[s \ {Max(s)}], ps[Max(s)], x)
  <2>1. ASSUME NEW s \in SUBSET (1..(n + 1)), n + 1 \in s
        PROVE  h[s] = next(s)
    <3> DEFINE m == n + 1
    <3>1. m \in Nat /\ s \in SUBSET (1..m) /\ s # {} /\ m \in s
      BY <2>1
    <3> HIDE DEF m, W, h, next
    <3>a. Max(s) \in s /\ \A y \in s : y <= Max(s)
      BY <3>1, MaxOfPositions
    <3>b. m <= Max(s) /\ Max(s) \in 1..m
      BY <3>1, <3>a
    <3>c. Max(s) = m
      BY <3>b, <3>1
    <3> USE DEF m, h, next
    <3>2. s \ {n + 1} \in SUBSET (1..n) /\ s \ {n + 1} \in SUBSET (1..(n + 1)) /\ n + 1 \notin s \ {n + 1}
      OBVIOUS
    <3>3. h[s \ {n + 1}] = g[s \ {n + 1}]
      BY <3>2
    <3>4. h[s] = Step(kind, g[s \ {n + 1}], ps[n + 1], x)
      BY <2>1
    <3> HIDE DEF h
    <3> QED BY <3>1, <3>c, <3>3, <3>4
  <2>2. ASSUME NEW s \in SUBSET (1..(n + 1)), n + 1 \notin s
        PROVE  h[s] = next(s)
    <3>1. s \in SUBSET (1..n)
      BY <2>2
    <3>2. h[s] = g[s]
      BY <2>2
    <3>3. g[s] = IF s = {} THEN base ELSE Step(kind, g[s \ {Max(s)}], ps[Max(s)], x)
      BY <1>2, <3>1 DEF FoldsUp
    <3>4. s \ {Max(s)} \in SUBSET (1..(n + 1)) /\ n + 1 \notin s \ {Max(s)}
      BY <2>2
    <3>5. h[s \ {Max(s)}] = g[s \ {Max(s)}]
      BY <3>4
    <3> HIDE DEF h
    <3> QED BY <3>2, <3>3, <3>5
  <2>3. h = [s \in SUBSET (1..(n + 1)) |-> h[s]]
    OBVIOUS
  <2> HIDE DEF h
  <2>4. FoldsUp(h, kind, base, ps, x, n + 1)
    BY <2>1, <2>2, <2>3 DEF FoldsUp
  <2> QED BY <2>4
<1>3. \A n \in Nat : n \in W => n + 1 \in W
  BY <1>2
<1> HIDE DEF W
<1>4. \A n \in Nat : n \in W
  BY <1>1, <1>3, Induction
<1> QED BY <1>4 DEF W

\* What it starts with, and one step of it.
LEMMA FoldsUpStart ==
  ASSUME NEW kind, NEW base, NEW ps, NEW x, NEW n, NEW g, FoldsUp(g, kind, base, ps, x, n)
  PROVE  g[{}] = base
BY DEF FoldsUp

\* One place more.
LEMMA FoldsUpStep ==
  ASSUME NEW kind, NEW base, NEW ps, NEW x, NEW n \in Nat, NEW g,
         FoldsUp(g, kind, base, ps, x, n), NEW k \in 0..(n - 1)
  PROVE  g[1..(k + 1)] = Step(kind, g[1..k], ps[k + 1], x)
<1> DEFINE s == 1..(k + 1)
<1>1. s \in SUBSET (1..n) /\ s # {} /\ k + 1 \in s
  OBVIOUS
<1>2. Max(s) \in s /\ \A y \in s : y <= Max(s)
  BY <1>1, MaxOfPositions
<1>3. Max(s) = k + 1
  BY <1>1, <1>2
<1>4. s \ {k + 1} = 1..k
  OBVIOUS
<1>5. g[s] = IF s = {} THEN base ELSE Step(kind, g[s \ {Max(s)}], ps[Max(s)], x)
  BY <1>1 DEF FoldsUp
<1> HIDE DEF s
<1> QED BY <1>1, <1>3, <1>4, <1>5 DEF s

\* What two of them give for the first k places is the same if the probes there are.
LEMMA FoldsAgree ==
  ASSUME NEW kind, NEW base, NEW x, NEW ps, NEW qs, NEW n \in Nat, NEW m \in Nat, NEW g, NEW h,
         FoldsUp(g, kind, base, ps, x, n), FoldsUp(h, kind, base, qs, x, m),
         n <= m, \A i \in 1..n : ps[i] = qs[i]
  PROVE  g[1..n] = h[1..n]
<1> DEFINE W == {k \in Nat : k <= n => g[1..k] = h[1..k]}
<1>1. 0 \in W
  <2>1. g[{}] = base /\ h[{}] = base
    BY FoldsUpStart
  <2>2. 1..0 = {}
    OBVIOUS
  <2> QED BY <2>1, <2>2
<1>2. ASSUME NEW k \in Nat, k \in W
      PROVE  k + 1 \in W
  <2> SUFFICES ASSUME k + 1 <= n
               PROVE  g[1..(k + 1)] = h[1..(k + 1)]
    OBVIOUS
  <2>1. k \in 0..(n - 1) /\ k \in 0..(m - 1) /\ ps[k + 1] = qs[k + 1]
    OBVIOUS
  <2>2. g[1..(k + 1)] = Step(kind, g[1..k], ps[k + 1], x)
    <3>1. k \in 0..(n - 1)
      BY <2>1
    <3> QED BY <3>1, FoldsUpStep
  <2>3. h[1..(k + 1)] = Step(kind, h[1..k], qs[k + 1], x)
    <3>1. k \in 0..(m - 1)
      BY <2>1
    <3> QED BY <3>1, FoldsUpStep
  <2>4. g[1..k] = h[1..k]
    BY <1>2, <2>1
  <2> QED BY <2>1, <2>2, <2>3, <2>4
<1> HIDE DEF W
<1>3. \A k \in Nat : k \in W
  BY <1>1, <1>2, Induction
<1> QED BY <1>3 DEF W

\* The result for the first n places.
Folded(kind, base, ps, x, n) == (CHOOSE g : FoldsUp(g, kind, base, ps, x, n))[1..n]

\* The fold is what any such function gives.
LEMMA FoldedIs ==
  ASSUME NEW kind, NEW base, NEW x, NEW ps, NEW n \in Nat, NEW g,
         FoldsUp(g, kind, base, ps, x, n)
  PROVE  Folded(kind, base, ps, x, n) = g[1..n]
<1> DEFINE h == CHOOSE h : FoldsUp(h, kind, base, ps, x, n)
<1>1. FoldsUp(h, kind, base, ps, x, n)
  OBVIOUS
<1> HIDE DEF h
<1>2. n <= n /\ \A i \in 1..n : ps[i] = ps[i]
  OBVIOUS
<1>3. g[1..n] = h[1..n]
  BY <1>1, <1>2, FoldsAgree
<1> QED BY <1>3 DEF Folded, h

\* The same probes at the first n places.
Alike(ps, qs, n) == \A i \in 1..n : ps[i] = qs[i]

\* The fold over no place.
LEMMA FoldedStart ==
  ASSUME NEW kind, NEW base, NEW x, NEW ps
  PROVE  Folded(kind, base, ps, x, 0) = base
<1>1. PICK e : FoldsUp(e, kind, base, ps, x, 0)
  BY FoldsUpExists
<1>2. e[{}] = base
  BY <1>1, FoldsUpStart
<1>3. 1..0 = {}
  OBVIOUS
<1>4. Folded(kind, base, ps, x, 0) = e[1..0]
  BY <1>1, FoldedIs
<1> QED BY <1>2, <1>3, <1>4

\* The fold over one more place.
LEMMA FoldedStep ==
  ASSUME NEW kind, NEW base, NEW x, NEW ps, NEW qs, NEW n \in Nat, Alike(ps, qs, n),
         NEW m, m = n + 1
  PROVE  Folded(kind, base, qs, x, m) = Step(kind, Folded(kind, base, ps, x, n), qs[m], x)
<1>0. m \in Nat /\ n <= m /\ (\A i \in 1..n : ps[i] = qs[i]) /\ n \in 0..(m - 1)
  BY DEF Alike
<1>1. PICK g : FoldsUp(g, kind, base, ps, x, n)
  BY FoldsUpExists
<1>2. PICK h : FoldsUp(h, kind, base, qs, x, m)
  BY <1>0, FoldsUpExists
<1>3. Folded(kind, base, ps, x, n) = g[1..n]
  BY <1>1, FoldedIs
<1>4. Folded(kind, base, qs, x, m) = h[1..m]
  BY <1>0, <1>2, FoldedIs
<1>5. g[1..n] = h[1..n]
  BY <1>0, <1>1, <1>2, FoldsAgree
<1>6. h[1..(n + 1)] = Step(kind, h[1..n], qs[n + 1], x)
  BY <1>0, <1>2, FoldsUpStep
<1> QED BY <1>3, <1>4, <1>5, <1>6

\* The folds of the model, as FoldLeft makes them.
RankFold(g, ps, x) ==
  g = [s \in SUBSET DOMAIN ps |->
         IF s = {} THEN 0
         ELSE g[s \ {Max(s)}] * ps[Max(s)].cardinality + ps[Max(s)].values[x]]

CardinalityFold(g, ps) ==
  g = [s \in SUBSET DOMAIN ps |->
         IF s = {} THEN 1 ELSE g[s \ {Max(s)}] * ps[Max(s)].cardinality]

\* The folds of the model, with the operators of the community modules expanded.
LEMMA ModelFolds ==
  ASSUME NEW ps
  PROVE  /\ BundleValues(ps) =
              [x \in Strings |-> (CHOOSE g : RankFold(g, ps, x))[DOMAIN ps]]
         /\ BundleCardinality(ps) = (CHOOSE g : CardinalityFold(g, ps))[DOMAIN ps]
BY DEF BundleValues, BundleCardinality, FoldLeft, MapThenFoldSet, RankFold, CardinalityFold

\* The value of a string, and the number of outcomes.
LEMMA BundleFolds ==
  ASSUME NEW ps, IsList(ps)
  PROVE  /\ \A x \in Strings : BundleValues(ps)[x] = Folded("rank", 0, ps, x, Len(ps))
         /\ BundleCardinality(ps) = Folded("size", 1, ps, 0, Len(ps))
<1>1. Len(ps) \in Nat /\ DOMAIN ps = 1..Len(ps)
  BY ListDef
<1>2. ASSUME NEW x \in Strings
      PROVE  BundleValues(ps)[x] = Folded("rank", 0, ps, x, Len(ps))
  <2> DEFINE g == CHOOSE g : RankFold(g, ps, x)
  <2>1. BundleValues(ps)[x] = g[DOMAIN ps]
    BY ModelFolds
  <2>2. \A h : RankFold(h, ps, x) <=> FoldsUp(h, "rank", 0, ps, x, Len(ps))
    BY <1>1 DEF RankFold, FoldsUp, Step
  <2>3. PICK h : FoldsUp(h, "rank", 0, ps, x, Len(ps))
    BY <1>1, FoldsUpExists
  <2>4. RankFold(h, ps, x)
    BY <2>2, <2>3
  <2>5. RankFold(g, ps, x)
    BY <2>4
  <2> HIDE DEF g
  <2>6. FoldsUp(g, "rank", 0, ps, x, Len(ps))
    BY <2>2, <2>5
  <2>7. Folded("rank", 0, ps, x, Len(ps)) = g[1..Len(ps)]
    BY <1>1, <2>6, FoldedIs
  <2> QED BY <1>1, <2>1, <2>7
<1>3. BundleCardinality(ps) = Folded("size", 1, ps, 0, Len(ps))
  <2> DEFINE g == CHOOSE g : CardinalityFold(g, ps)
  <2>1. BundleCardinality(ps) = g[DOMAIN ps]
    BY ModelFolds
  <2>2. \A h : CardinalityFold(h, ps) <=> FoldsUp(h, "size", 1, ps, 0, Len(ps))
    BY <1>1 DEF CardinalityFold, FoldsUp, Step
  <2>3. PICK h : FoldsUp(h, "size", 1, ps, 0, Len(ps))
    BY <1>1, FoldsUpExists
  <2>4. CardinalityFold(h, ps)
    BY <2>2, <2>3
  <2>5. CardinalityFold(g, ps)
    BY <2>4
  <2> HIDE DEF g
  <2>6. FoldsUp(g, "size", 1, ps, 0, Len(ps))
    BY <2>2, <2>5
  <2>7. Folded("size", 1, ps, 0, Len(ps)) = g[1..Len(ps)]
    BY <1>1, <2>6, FoldedIs
  <2> QED BY <1>1, <2>1, <2>7
<1> QED BY <1>2, <1>3

-----------------------------------------------------------------------------
(* Values of bundles.                                                      *)

IsProbe(p) ==
  p.cardinality \in Nat \ {0, 1} /\ p.values \in [Strings -> 0..(p.cardinality - 1)]

IsBundle(ps) == IsList(ps) /\ \A i \in 1..Len(ps) : IsProbe(ps[i])

\* One more digit.
LEMMA DigitFits ==
  ASSUME NEW n \in Nat \ {0}, NEW c \in Nat \ {0, 1}, NEW v \in 0..(n - 1), NEW d \in 0..(c - 1)
  PROVE  n * c \in Nat \ {0} /\ v * c + d \in 0..(n * c - 1)
<1>1. v * c \in Nat /\ n * c \in Nat
  OBVIOUS
<1>2. (v + 1) * c <= n * c
  <2>1. v + 1 <= n
    OBVIOUS
  <2> QED BY <2>1
<1>3. (v + 1) * c = v * c + c
  OBVIOUS
<1> QED BY <1>1, <1>2, <1>3

\* The value of a string lies below the product of the cardinalities.
LEMMA FoldedFits ==
  ASSUME NEW ps, NEW n \in Nat, \A i \in 1..n : IsProbe(ps[i]), NEW x \in Strings
  PROVE  /\ Folded("size", 1, ps, 0, n) \in Nat \ {0}
         /\ Folded("rank", 0, ps, x, n) \in 0..(Folded("size", 1, ps, 0, n) - 1)
<1> DEFINE size(k) == Folded("size", 1, ps, 0, k)
           rank(k) == Folded("rank", 0, ps, x, k)
           W == {k \in Nat : k <= n => size(k) \in Nat \ {0} /\ rank(k) \in 0..(size(k) - 1)}
<1>0. \A k \in Nat : Alike(ps, ps, k)
  BY DEF Alike
<1>1. 0 \in W
  <2>1. size(0) = 1 /\ rank(0) = 0
    BY FoldedStart
  <2> QED BY <2>1
<1>2. ASSUME NEW k \in Nat, k \in W
      PROVE  k + 1 \in W
  <2> SUFFICES ASSUME k + 1 <= n
               PROVE  size(k + 1) \in Nat \ {0} /\ rank(k + 1) \in 0..(size(k + 1) - 1)
    OBVIOUS
  <2>1. size(k) \in Nat \ {0} /\ rank(k) \in 0..(size(k) - 1)
    BY <1>2
  <2>2. IsProbe(ps[k + 1])
    OBVIOUS
  <2>3. /\ size(k + 1) = Step("size", size(k), ps[k + 1], 0)
        /\ rank(k + 1) = Step("rank", rank(k), ps[k + 1], x)
    <3> DEFINE m == k + 1
    <3>1. m = k + 1 /\ Alike(ps, ps, k)
      BY <1>0
    <3> HIDE DEF m
    <3>2. /\ Folded("size", 1, ps, 0, m) = Step("size", size(k), ps[m], 0)
          /\ Folded("rank", 0, ps, x, m) = Step("rank", rank(k), ps[m], x)
      BY <3>1, FoldedStep
    <3> QED BY <3>2 DEF m
  <2>4. /\ size(k + 1) = size(k) * ps[k + 1].cardinality
        /\ rank(k + 1) = rank(k) * ps[k + 1].cardinality + ps[k + 1].values[x]
    BY <2>3 DEF Step
  <2> DEFINE c == ps[k + 1].cardinality
             d == ps[k + 1].values[x]
  <2>5. c \in Nat \ {0, 1} /\ d \in 0..(c - 1)
    BY <2>2 DEF IsProbe
  <2> HIDE DEF c, d, size, rank
  <2>6. size(k) * c \in Nat \ {0} /\ rank(k) * c + d \in 0..(size(k) * c - 1)
    BY <2>1, <2>5, DigitFits
  <2> QED BY <2>4, <2>6 DEF c, d
<1> HIDE DEF W
<1>3. \A k \in Nat : k \in W
  BY <1>1, <1>2, Induction
<1> QED BY <1>3 DEF W

\* A product of cardinalities is not zero.
LEMMA SizeFits ==
  ASSUME NEW ps, NEW n \in Nat, \A i \in 1..n : IsProbe(ps[i])
  PROVE  Folded("size", 1, ps, 0, n) \in Nat \ {0}
<1> DEFINE size(k) == Folded("size", 1, ps, 0, k)
           W == {k \in Nat : k <= n => size(k) \in Nat \ {0}}
<1>0. \A k \in Nat : Alike(ps, ps, k)
  BY DEF Alike
<1>1. 0 \in W
  <2>1. size(0) = 1
    BY FoldedStart
  <2> QED BY <2>1
<1>2. ASSUME NEW k \in Nat, k \in W
      PROVE  k + 1 \in W
  <2> SUFFICES ASSUME k + 1 <= n
               PROVE  size(k + 1) \in Nat \ {0}
    OBVIOUS
  <2>1. size(k) \in Nat \ {0}
    BY <1>2
  <2>2. IsProbe(ps[k + 1])
    OBVIOUS
  <2>3. size(k + 1) = Step("size", size(k), ps[k + 1], 0)
    <3> DEFINE m == k + 1
    <3>1. m = k + 1 /\ Alike(ps, ps, k)
      BY <1>0
    <3> HIDE DEF m
    <3>2. Folded("size", 1, ps, 0, m) = Step("size", size(k), ps[m], 0)
      BY <3>1, FoldedStep
    <3> QED BY <3>2 DEF m
  <2> QED BY <2>1, <2>2, <2>3 DEF Step, IsProbe
<1> HIDE DEF W
<1>3. \A k \in Nat : k \in W
  BY <1>1, <1>2, Induction
<1> QED BY <1>3 DEF W

\* The values of a bundle are below its cardinality.
LEMMA BundleFits ==
  ASSUME NEW ps, IsBundle(ps)
  PROVE  /\ BundleCardinality(ps) \in Nat \ {0}
         /\ BundleValues(ps) \in [Strings -> 0..(BundleCardinality(ps) - 1)]
<1>1. Len(ps) \in Nat /\ IsList(ps) /\ \A i \in 1..Len(ps) : IsProbe(ps[i])
  BY ListDef DEF IsBundle
<1>2. BundleCardinality(ps) = Folded("size", 1, ps, 0, Len(ps))
  BY <1>1, BundleFolds
<1>3. \A x \in Strings : BundleValues(ps)[x] = Folded("rank", 0, ps, x, Len(ps))
  BY <1>1, BundleFolds
<1>4. Folded("size", 1, ps, 0, Len(ps)) \in Nat \ {0}
  BY <1>1, SizeFits
<1>5. ASSUME NEW x \in Strings
      PROVE  BundleValues(ps)[x] \in 0..(BundleCardinality(ps) - 1)
  BY <1>1, <1>2, <1>3, FoldedFits
<1>6. BundleValues(ps) = [x \in Strings |-> BundleValues(ps)[x]]
  BY DEF BundleValues
<1> QED BY <1>2, <1>4, <1>5, <1>6

\* No probe, and one probe more.
LEMMA BundleOfNone ==
  /\ IsBundle(<<>>)
  /\ BundleCardinality(<<>>) = 1
  /\ \A x \in Strings : BundleValues(<<>>)[x] = 0
<1> DEFINE ps == <<>>
<1>1. IsList(ps) /\ Len(ps) = 0
  <2>1. ps \in Seq({1})
    OBVIOUS
  <2> QED BY <2>1, ListDef
<1>2. IsBundle(ps)
  BY <1>1 DEF IsBundle
<1> HIDE DEF ps
<1>3. /\ \A x \in Strings : BundleValues(ps)[x] = Folded("rank", 0, ps, x, 0)
      /\ BundleCardinality(ps) = Folded("size", 1, ps, 0, 0)
  BY <1>1, BundleFolds
<1>4. /\ \A x \in Strings : Folded("rank", 0, ps, x, 0) = 0
      /\ Folded("size", 1, ps, 0, 0) = 1
  BY FoldedStart
<1> QED BY <1>2, <1>3, <1>4 DEF ps

\* A bundle with one more probe.
LEMMA BundleOfMore ==
  ASSUME NEW ps, IsList(ps), NEW p
  PROVE  /\ BundleCardinality(Append(ps, p)) = BundleCardinality(ps) * p.cardinality
         /\ \A x \in Strings :
              BundleValues(Append(ps, p))[x] = BundleValues(ps)[x] * p.cardinality + p.values[x]
<1> DEFINE qs == Append(ps, p)
           n == Len(ps)
           m == n + 1
<1>1. /\ IsList(qs) /\ Len(qs) = m /\ n \in Nat /\ m = n + 1
      /\ Alike(ps, qs, n)
      /\ qs[m] = p
  BY ListAppend, ListDef DEF Alike
<1>2. n = Len(ps)
  OBVIOUS
<1> HIDE DEF qs, n, m
<1>3. BundleCardinality(qs) = Folded("size", 1, qs, 0, m)
  BY <1>1, BundleFolds
<1>4. BundleCardinality(ps) = Folded("size", 1, ps, 0, n)
  BY <1>2, BundleFolds
<1>5. Folded("size", 1, qs, 0, m) = Step("size", Folded("size", 1, ps, 0, n), p, 0)
  <2>1. Folded("size", 1, qs, 0, m) = Step("size", Folded("size", 1, ps, 0, n), qs[m], 0)
    BY <1>1, FoldedStep
  <2> QED BY <1>1, <2>1
<1>6. BundleCardinality(qs) = BundleCardinality(ps) * p.cardinality
  BY <1>3, <1>4, <1>5 DEF Step
<1>7. ASSUME NEW x \in Strings
      PROVE  BundleValues(qs)[x] = BundleValues(ps)[x] * p.cardinality + p.values[x]
  <2>1. BundleValues(qs)[x] = Folded("rank", 0, qs, x, m)
    BY <1>1, BundleFolds
  <2>2. BundleValues(ps)[x] = Folded("rank", 0, ps, x, n)
    BY <1>2, BundleFolds
  <2>3. Folded("rank", 0, qs, x, m) = Step("rank", Folded("rank", 0, ps, x, n), p, x)
    <3>1. Folded("rank", 0, qs, x, m) = Step("rank", Folded("rank", 0, ps, x, n), qs[m], x)
      BY <1>1, FoldedStep
    <3> QED BY <1>1, <3>1
  <2> QED BY <2>1, <2>2, <2>3 DEF Step
<1> QED BY <1>6, <1>7 DEF qs

-----------------------------------------------------------------------------
(* What the generation of actions works with.  The definitions of the      *)
(* model with the prior pr and the probes pb as parameters.                *)

Scenarios == [left : Strings, right : Strings, units : Nat, fractional_bits : Nat]

OutcomesOf(pr, values) ==
  [s \in DOMAIN pr |-> [left |-> values[pr[s].left], right |-> values[pr[s].right]]]

Chosen(pb, sel) == [k \in DOMAIN sel |-> pb[sel[k]]]

BundleOutcomes(pr, pb, sel) == OutcomesOf(pr, BundleValues(Chosen(pb, sel)))

Inputs(pr, pb, cap) == pr \in Seq(Scenarios) /\ IsBundle(pb) /\ cap \in Nat

\* A selection with its product, which fits the capacity.
SelectionFits(pb, cap, sel, product) ==
  /\ sel \in Seq(DOMAIN pb)
  /\ product = BundleCardinality(Chosen(pb, sel))
  /\ product \in 1..cap

FrameSound(pr, pb, cap, f) ==
  /\ f = Frame(f.start, f.product, f.selected, f.combined)
  /\ f.start \in Nat \ {0}
  /\ SelectionFits(pb, cap, f.selected, f.product)
  /\ f.selected = <<>> => f.combined = <<>>
  /\ f.selected # <<>> => f.combined = BundleOutcomes(pr, pb, f.selected)

FramesSound(pr, pb, cap, fs) ==
  IsStack(fs) /\ \A k \in 1..Len(fs) : FrameSound(pr, pb, cap, fs[k])

RowSound(pr, pb, cap, row) ==
  /\ SelectionFits(pb, cap, row.selected, row.product)
  /\ row.selected # <<>>
  /\ row.outcomes = BundleOutcomes(pr, pb, row.selected)

TableSound(pr, pb, cap, bb) ==
  /\ IsFiniteSet(DOMAIN bb)
  /\ \A b \in DOMAIN bb : RowSound(pr, pb, cap, bb[b]) /\ b = BehaviorKey(bb[b].outcomes)

BundlesSound(pr, pb, cap, bs) ==
  IsList(bs) /\ \A k \in 1..Len(bs) : RowSound(pr, pb, cap, bs[k])

\* The invariant of the generation.
GInv ==
  /\ Inputs(prior, probes, capacity)
  /\ phase = "cook" => /\ capacity \in Nat \ {0, 1}
                       /\ frames = <<>> /\ DOMAIN by_behavior = {} /\ bundles = <<>>
  /\ phase = "actions" => prior # <<>>
  /\ scalars \in Seq(DOMAIN probes)
  /\ FramesSound(prior, probes, capacity, frames)
  /\ TableSound(prior, probes, capacity, by_behavior)
  /\ BundlesSound(prior, probes, capacity, bundles)
  /\ TestsTyped

-----------------------------------------------------------------------------

\* The model's operators are those with the prior and the probes as parameters.
LEMMA ModelOutcomes ==
  ASSUME NEW values, NEW sel
  PROVE  PairOutcomes(values) = OutcomesOf(prior, values) /\ ProbesOf(sel) = Chosen(probes, sel)
BY DEF PairOutcomes, OutcomesOf, ProbesOf, Chosen

\* A list that is not empty has a first element.
LEMMA NotEmpty ==
  ASSUME NEW S, NEW q \in Seq(S), q # <<>>
  PROVE  1 \in DOMAIN q /\ Len(q) \in Nat \ {0}
OBVIOUS

\* The strings and the weight of a scenario of a prior.
LEMMA ScenarioTyped ==
  ASSUME NEW pr \in Seq(Scenarios), NEW s \in DOMAIN pr
  PROVE  pr[s].left \in Strings /\ pr[s].right \in Strings /\ pr[s].units \in Nat
<1>1. pr[s] \in Scenarios
  OBVIOUS
<1> QED BY <1>1 DEF Scenarios

\* The probes of a selection are a bundle.
LEMMA ChosenIsBundle ==
  ASSUME NEW pb, IsBundle(pb), NEW sel \in Seq(DOMAIN pb)
  PROVE  IsBundle(Chosen(pb, sel)) /\ Len(Chosen(pb, sel)) = Len(sel)
<1> DEFINE ps == Chosen(pb, sel)
           S == {pb[i] : i \in DOMAIN pb}
<1>1. DOMAIN pb = 1..Len(pb)
  BY ListDef DEF IsBundle
<1>2. DOMAIN sel = 1..Len(sel) /\ Len(sel) \in Nat /\ \A k \in 1..Len(sel) : sel[k] \in DOMAIN pb
  OBVIOUS
<1>3. ps = [k \in 1..Len(sel) |-> pb[sel[k]]]
  BY <1>2 DEF Chosen
<1>4. ps \in Seq(S) /\ Len(ps) = Len(sel)
  BY <1>2, <1>3
<1>5. \A k \in 1..Len(ps) : IsProbe(ps[k])
  BY <1>1, <1>2, <1>3, <1>4 DEF IsBundle
<1> HIDE DEF ps, S
<1>6. IsList(ps)
  BY <1>4, ListDef
<1> QED BY <1>4, <1>5, <1>6 DEF IsBundle, ps

\* One more probe is chosen.
LEMMA ChosenAppend ==
  ASSUME NEW pb, IsBundle(pb), NEW sel \in Seq(DOMAIN pb), NEW i \in DOMAIN pb
  PROVE  /\ Append(sel, i) \in Seq(DOMAIN pb)
         /\ Append(sel, i) # <<>>
         /\ Chosen(pb, Append(sel, i)) = Append(Chosen(pb, sel), pb[i])
<1> DEFINE s == Append(sel, i)
           ps == Chosen(pb, sel)
           S == {pb[j] : j \in DOMAIN pb}
           qs == Append(ps, pb[i])
           cs == Chosen(pb, s)
<1>1. /\ s \in Seq(DOMAIN pb) /\ s # <<>> /\ Len(s) = Len(sel) + 1 /\ Len(sel) \in Nat
      /\ DOMAIN s = 1..Len(s) /\ DOMAIN sel = 1..Len(sel)
      /\ s[Len(sel) + 1] = i /\ \A k \in 1..Len(sel) : s[k] = sel[k]
  OBVIOUS
<1>2. ps \in Seq(S) /\ Len(ps) = Len(sel) /\ \A k \in 1..Len(sel) : ps[k] = pb[sel[k]]
  <2>1. ps = [k \in 1..Len(sel) |-> pb[sel[k]]]
    BY <1>1 DEF Chosen
  <2> QED BY <1>1, <2>1
<1>3. cs = [k \in 1..(Len(sel) + 1) |-> pb[s[k]]]
  BY <1>1 DEF Chosen
<1>4. qs \in Seq(S) /\ Len(qs) = Len(sel) + 1 /\ qs[Len(sel) + 1] = pb[i]
      /\ \A k \in 1..Len(sel) : qs[k] = pb[sel[k]]
  <2> HIDE DEF ps
  <2> QED BY <1>2
<1>5. qs = [k \in 1..(Len(sel) + 1) |-> qs[k]]
  <2> HIDE DEF s, ps, qs, S, cs
  <2> QED BY <1>4
<1> HIDE DEF s, ps, S, qs
<1>6. \A k \in 1..(Len(sel) + 1) : qs[k] = pb[s[k]]
  BY <1>1, <1>4
<1>7. cs = qs
  BY <1>3, <1>5, <1>6
<1> QED BY <1>1, <1>7 DEF s, qs, ps

\* The product and the outcomes of a selection with one more probe.
LEMMA SelectionGrows ==
  ASSUME NEW pr, NEW pb, NEW cap, Inputs(pr, pb, cap), NEW sel \in Seq(DOMAIN pb),
         NEW i \in DOMAIN pb
  PROVE  /\ BundleCardinality(Chosen(pb, Append(sel, i))) =
              BundleCardinality(Chosen(pb, sel)) * pb[i].cardinality
         /\ \A s \in DOMAIN pr :
              /\ BundleOutcomes(pr, pb, Append(sel, i))[s].left =
                   BundleOutcomes(pr, pb, sel)[s].left * pb[i].cardinality
                     + OutcomesOf(pr, pb[i].values)[s].left
              /\ BundleOutcomes(pr, pb, Append(sel, i))[s].right =
                   BundleOutcomes(pr, pb, sel)[s].right * pb[i].cardinality
                     + OutcomesOf(pr, pb[i].values)[s].right
<1> DEFINE ps == Chosen(pb, sel)
           qs == Append(ps, pb[i])
<1>1. IsBundle(pb) /\ Chosen(pb, Append(sel, i)) = qs
  BY ChosenAppend DEF Inputs
<1>2. IsList(ps)
  BY <1>1, ChosenIsBundle DEF IsBundle
<1> HIDE DEF ps
<1>3. /\ BundleCardinality(qs) = BundleCardinality(ps) * pb[i].cardinality
      /\ \A x \in Strings : BundleValues(qs)[x] = BundleValues(ps)[x] * pb[i].cardinality + pb[i].values[x]
  BY <1>2, BundleOfMore
<1>4. \A s \in DOMAIN pr : pr[s].left \in Strings /\ pr[s].right \in Strings
  <2>1. pr \in Seq(Scenarios)
    BY DEF Inputs
  <2> QED BY <2>1, ScenarioTyped
<1> HIDE DEF qs
<1>5. ASSUME NEW s \in DOMAIN pr
      PROVE  /\ OutcomesOf(pr, BundleValues(qs))[s].left =
                   OutcomesOf(pr, BundleValues(ps))[s].left * pb[i].cardinality
                     + OutcomesOf(pr, pb[i].values)[s].left
             /\ OutcomesOf(pr, BundleValues(qs))[s].right =
                   OutcomesOf(pr, BundleValues(ps))[s].right * pb[i].cardinality
                     + OutcomesOf(pr, pb[i].values)[s].right
  BY <1>3, <1>4 DEF OutcomesOf
<1> QED BY <1>1, <1>3, <1>5 DEF BundleOutcomes, ps

\* Combine makes the outcomes of the longer selection.
LEMMA CombineIs ==
  ASSUME Inputs(prior, probes, capacity), prior # <<>>, NEW i \in DOMAIN probes,
         NEW f, FrameSound(prior, probes, capacity, f)
  PROVE  Combine(f.combined, i) = BundleOutcomes(prior, probes, Append(f.selected, i))
<1> DEFINE n == BundleOutcomes(prior, probes, Append(f.selected, i))
           o == BundleOutcomes(prior, probes, f.selected)
           p == OutcomesOf(prior, probes[i].values)
           c == probes[i].cardinality
<1>1. f.selected \in Seq(DOMAIN probes)
  BY DEF FrameSound, SelectionFits
<1>2. \A s \in DOMAIN prior : /\ n[s].left = o[s].left * c + p[s].left
                              /\ n[s].right = o[s].right * c + p[s].right
  BY <1>1, SelectionGrows
<1>3. n = [s \in DOMAIN prior |-> [left |-> n[s].left, right |-> n[s].right]]
  BY DEF BundleOutcomes, OutcomesOf
<1>4. p = [s \in DOMAIN prior |-> [left |-> p[s].left, right |-> p[s].right]]
  BY DEF OutcomesOf
<1>5. IsBundle(probes) /\ prior \in Seq(Scenarios) /\ IsProbe(probes[i])
  <2>1. DOMAIN probes = 1..Len(probes)
    BY ListDef DEF Inputs, IsBundle
  <2> QED BY <2>1 DEF Inputs, IsBundle
<1>6. PairOutcomes(probes[i].values) = p
  BY ModelOutcomes
<1>7. CASE f.selected = <<>>
  <2>1. f.combined = <<>>
    BY <1>7 DEF FrameSound
  <2>2. Combine(f.combined, i) = p
    BY <1>6, <2>1 DEF Combine
  <2>3. ASSUME NEW s \in DOMAIN prior
        PROVE  n[s].left = p[s].left /\ n[s].right = p[s].right
    <3>1. Chosen(probes, f.selected) = <<>>
      BY <1>7 DEF Chosen
    <3>2. prior[s].left \in Strings /\ prior[s].right \in Strings
      <4> HIDE DEF n, o, p, c
      <4> QED BY <1>5, ScenarioTyped
    <3>3. o[s].left = 0 /\ o[s].right = 0
      BY <3>1, <3>2, BundleOfNone DEF BundleOutcomes, OutcomesOf
    <3>4. c \in Nat /\ p[s].left \in Nat /\ p[s].right \in Nat
      BY <1>5, <3>2 DEF IsProbe, OutcomesOf
    <3> HIDE DEF n, o, p, c
    <3> QED BY <1>2, <3>3, <3>4
  <2> HIDE DEF n, o, p
  <2>4. n = p
    BY <1>3, <1>4, <2>3
  <2> QED BY <2>2, <2>4 DEF n
<1>8. CASE f.selected # <<>>
  <2>1. f.combined = o
    BY <1>8 DEF FrameSound
  <2>2. o # <<>>
    <3>1. DOMAIN o = DOMAIN prior
      BY DEF BundleOutcomes, OutcomesOf
    <3>2. DOMAIN prior # {}
      <4> HIDE DEF o, n, p, c
      <4> QED BY <1>5, NotEmpty
    <3> HIDE DEF o
    <3> QED BY <3>1, <3>2
  <2>3. Combine(f.combined, i) =
          [s \in DOMAIN prior |-> [left  |-> o[s].left * c + p[s].left,
                                   right |-> o[s].right * c + p[s].right]]
    <3> HIDE DEF o, p
    <3> QED BY <1>6, <2>1, <2>2 DEF Combine
  <2> HIDE DEF n, o, p, c
  <2>4. Combine(f.combined, i) = n
    BY <1>2, <1>3, <2>3
  <2> QED BY <2>4 DEF n
<1> QED BY <1>7, <1>8

-----------------------------------------------------------------------------
(* The calls of enumerate_bundles.                                         *)

\* The loop of the innermost call goes on.
LEMMA AdvancedIs ==
  ASSUME NEW pr, NEW pb, NEW cap, NEW fs, FramesSound(pr, pb, cap, fs), fs # <<>>
  PROVE  LET n == Len(fs) a == Advanced(fs) IN
         /\ IsStack(a) /\ Len(a) = n /\ n \in Nat \ {0} /\ Last(fs) = fs[n]
         /\ \A k \in 1..(n - 1) : a[k] = fs[k]
         /\ a[n] = Frame(fs[n].start + 1, fs[n].product, fs[n].selected, fs[n].combined)
<1> DEFINE n == Len(fs)
           a == Advanced(fs)
           f == fs[n]
           g == Frame(f.start + 1, f.product, f.selected, f.combined)
<1>1. IsStack(fs) /\ n \in Nat \ {0} /\ Last(fs) = fs[n] /\ DOMAIN fs = 1..n
  BY StackTop DEF FramesSound
<1>2. f = Frame(f.start, f.product, f.selected, f.combined)
  BY <1>1 DEF FramesSound, FrameSound
<1>3. [f EXCEPT !.start = f.start + 1] = g
  <2> HIDE DEF f
  <2> QED BY <1>2 DEF Frame
<1>4. a = [fs EXCEPT ![n] = [f EXCEPT !.start = f.start + 1]]
  BY <1>1 DEF Advanced
<1>5. a = Replaced(fs, g)
  BY <1>3, <1>4 DEF Replaced
<1> HIDE DEF g, f
<1>6. IsStack(Replaced(fs, g)) /\ Len(Replaced(fs, g)) = n /\ Replaced(fs, g)[n] = g
      /\ \A k \in 1..(n - 1) : Replaced(fs, g)[k] = fs[k]
  BY <1>1, StackReplaced
<1> HIDE DEF a
<1> QED BY <1>1, <1>5, <1>6 DEF a, g, f

\* The loop of the innermost call may go on.
LEMMA AdvancedSound ==
  ASSUME NEW pr, NEW pb, NEW cap, NEW fs, FramesSound(pr, pb, cap, fs), fs # <<>>
  PROVE  FramesSound(pr, pb, cap, Advanced(fs))
<1> DEFINE n == Len(fs)
           a == Advanced(fs)
           f == fs[n]
           g == Frame(f.start + 1, f.product, f.selected, f.combined)
<1>1. /\ IsStack(a) /\ Len(a) = n /\ n \in Nat \ {0}
      /\ \A k \in 1..(n - 1) : a[k] = fs[k]
      /\ a[n] = g
  BY AdvancedIs
<1>2. \A k \in 1..n : FrameSound(pr, pb, cap, fs[k])
  BY DEF FramesSound
<1>3. FrameSound(pr, pb, cap, g)
  <2>1. FrameSound(pr, pb, cap, f)
    BY <1>1, <1>2
  <2>2. /\ g.start = f.start + 1 /\ g.product = f.product /\ g.selected = f.selected
        /\ g.combined = f.combined
        /\ g = Frame(g.start, g.product, g.selected, g.combined)
    BY DEF Frame
  <2> HIDE DEF g, f
  <2> QED BY <2>1, <2>2 DEF FrameSound
<1> HIDE DEF g, a
<1>4. \A k \in 1..n : FrameSound(pr, pb, cap, a[k])
  BY <1>1, <1>2, <1>3
<1> QED BY <1>1, <1>4 DEF FramesSound, a

\* A call of a selection with one more scalar.
LEMMA FramePushed ==
  ASSUME NEW pr, NEW pb, NEW cap, NEW fs, FramesSound(pr, pb, cap, fs),
         NEW f, FrameSound(pr, pb, cap, f)
  PROVE  FramesSound(pr, pb, cap, Append(fs, f))
<1> DEFINE r == Append(fs, f)
           n == Len(fs)
<1>1. IsStack(fs) /\ n \in Nat
  BY StackTop DEF FramesSound
<1>2. IsStack(r) /\ Len(r) = n + 1 /\ r[n + 1] = f /\ \A k \in 1..n : r[k] = fs[k]
  BY <1>1, StackPushed
<1>3. \A k \in 1..n : FrameSound(pr, pb, cap, fs[k])
  BY DEF FramesSound
<1> HIDE DEF r
<1>4. \A k \in 1..(n + 1) : FrameSound(pr, pb, cap, r[k])
  BY <1>1, <1>2, <1>3
<1> QED BY <1>2, <1>4 DEF FramesSound, r

\* The innermost call may return.
LEMMA FramePopped ==
  ASSUME NEW pr, NEW pb, NEW cap, NEW fs, FramesSound(pr, pb, cap, fs), fs # <<>>
  PROVE  FramesSound(pr, pb, cap, Front(fs))
<1> DEFINE r == Front(fs)
           n == Len(fs)
<1>1. IsStack(fs) /\ n \in Nat \ {0}
  BY StackTop DEF FramesSound
<1>2. IsStack(r) /\ Len(r) = n - 1 /\ \A k \in 1..(n - 1) : r[k] = fs[k]
  BY <1>1, StackPopped
<1>3. \A k \in 1..n : FrameSound(pr, pb, cap, fs[k])
  BY DEF FramesSound
<1> HIDE DEF r
<1>4. \A k \in 1..(n - 1) : FrameSound(pr, pb, cap, r[k])
  BY <1>1, <1>2, <1>3
<1> QED BY <1>2, <1>4 DEF FramesSound, r

\* What Select adds: a row of the innermost call with its next scalar, and a call for it.
LEMMA SelectedIsSound ==
  ASSUME Inputs(prior, probes, capacity), prior # <<>>,
         NEW f, FrameSound(prior, probes, capacity, f), NEW i \in DOMAIN probes,
         f.product * probes[i].cardinality <= capacity
  PROVE  LET product == f.product * probes[i].cardinality
             outcomes == Combine(f.combined, i)
             row == [selected |-> Append(f.selected, i), product |-> product,
                     outcomes |-> outcomes]
         IN /\ RowSound(prior, probes, capacity, row)
            /\ FrameSound(prior, probes, capacity, Frame(f.start + 1, product, row.selected, outcomes))
<1> DEFINE c == probes[i].cardinality
           product == f.product * c
           sel == Append(f.selected, i)
           outcomes == Combine(f.combined, i)
           row == [selected |-> sel, product |-> product, outcomes |-> outcomes]
           g == Frame(f.start + 1, product, sel, outcomes)
<1>1. SelectionFits(probes, capacity, f.selected, f.product)
  BY DEF FrameSound
<1>2. IsBundle(probes) /\ capacity \in Nat
  BY DEF Inputs
<1>3. c \in Nat \ {0, 1}
  <2>1. DOMAIN probes = 1..Len(probes)
    BY <1>2, ListDef DEF IsBundle
  <2> QED BY <1>2, <2>1 DEF IsBundle, IsProbe
<1>4. sel \in Seq(DOMAIN probes) /\ sel # <<>>
  BY <1>1, <1>2, ChosenAppend DEF SelectionFits
<1>5. product = BundleCardinality(Chosen(probes, sel))
  BY <1>1, SelectionGrows DEF SelectionFits
<1>6. product \in 1..capacity
  <2>1. f.product \in Nat \ {0}
    BY <1>1, <1>2 DEF SelectionFits
  <2> DEFINE n == f.product
  <2>2. n * c \in Nat \ {0}
    <3> HIDE DEF c
    <3> QED BY <1>3, <2>1
  <2> QED BY <1>2, <2>2
<1>7. outcomes = BundleOutcomes(prior, probes, sel)
  BY CombineIs
<1>8. f.start + 1 \in Nat \ {0}
  BY DEF FrameSound
<1> HIDE DEF product, sel, outcomes, c
<1>9. RowSound(prior, probes, capacity, row)
  BY <1>4, <1>5, <1>6, <1>7 DEF RowSound, SelectionFits
<1>10. FrameSound(prior, probes, capacity, g)
  <2>1. /\ g.start = f.start + 1 /\ g.product = product /\ g.selected = sel
        /\ g.combined = outcomes
        /\ g = Frame(g.start, g.product, g.selected, g.combined)
    BY DEF Frame
  <2> HIDE DEF g
  <2> QED BY <1>4, <1>5, <1>6, <1>7, <1>8, <2>1 DEF FrameSound, SelectionFits
<1> QED BY <1>9, <1>10 DEF product, sel, outcomes, c

-----------------------------------------------------------------------------
(* The table of representatives and the actions made of it.                *)

\* A sound row may become the representative of its behavior.
LEMMA RowIsPut ==
  ASSUME NEW pr, NEW pb, NEW cap, NEW bb, TableSound(pr, pb, cap, bb),
         NEW row, RowSound(pr, pb, cap, row), NEW b, b = BehaviorKey(row.outcomes)
  PROVE  TableSound(pr, pb, cap, Put(bb, b, row))
<1> DEFINE q == Put(bb, b, row)
<1>1. DOMAIN q = DOMAIN bb \cup {b} /\ \A z \in DOMAIN q : q[z] = IF z = b THEN row ELSE bb[z]
  BY DEF Put
<1> HIDE DEF q
<1>2. IsFiniteSet(DOMAIN q)
  <2>1. IsFiniteSet(DOMAIN bb)
    BY DEF TableSound
  <2> QED BY <1>1, <2>1, FS_AddElement
<1>3. ASSUME NEW z \in DOMAIN q
      PROVE  RowSound(pr, pb, cap, q[z]) /\ z = BehaviorKey(q[z].outcomes)
  <2>1. CASE z = b
    BY <1>1, <2>1
  <2>2. CASE z # b
    BY <1>1, <2>2 DEF TableSound
  <2> QED BY <2>1, <2>2
<1> QED BY <1>2, <1>3 DEF TableSound, q

\* Rows is finite, and rows with the same selection are the same.
LEMMA RowsAreSound ==
  ASSUME NEW pr, NEW pb, NEW cap, Inputs(pr, pb, cap), TableSound(pr, pb, cap, by_behavior)
  PROVE  /\ IsFiniteSet(Rows)
         /\ \A x \in Rows : RowSound(pr, pb, cap, x)
         /\ \A x \in Rows : x.selected \in Seq(Int)
         /\ \A x, y \in Rows : x.selected = y.selected => x = y
<1> DEFINE D == DOMAIN by_behavior
           K == {c \in D : ~ \E d \in D \ {c} : Refines(d, c)}
<1>1. Rows = {by_behavior[b] : b \in K}
  BY DEF Rows
<1>2. K \in SUBSET D /\ IsFiniteSet(D)
  BY DEF TableSound
<1> HIDE DEF K
<1>3. IsFiniteSet(Rows)
  <2>1. IsFiniteSet(K)
    BY <1>2, FS_Subset
  <2> DEFINE g == [b \in K |-> by_behavior[b]]
  <2>2. g \in Surjection(K, Rows)
    BY <1>1 DEF Surjection
  <2> QED BY <2>1, <2>2, FS_Surjection
<1>4. \A b \in K : RowSound(pr, pb, cap, by_behavior[b]) /\ b = BehaviorKey(by_behavior[b].outcomes)
  BY <1>2 DEF TableSound
<1>5. \A x \in Rows : RowSound(pr, pb, cap, x)
  BY <1>1, <1>4
<1>6. DOMAIN pb \in SUBSET Int
  <2>1. DOMAIN pb = 1..Len(pb) /\ Len(pb) \in Nat
    BY ListDef DEF Inputs, IsBundle
  <2> QED BY <2>1
<1>7. ASSUME NEW x \in Rows
      PROVE  x.selected \in Seq(Int)
  <2>1. x.selected \in Seq(DOMAIN pb)
    BY <1>5 DEF RowSound, SelectionFits
  <2> QED BY <1>6, <2>1
<1>8. ASSUME NEW x \in Rows, NEW y \in Rows, x.selected = y.selected
      PROVE  x = y
  <2>1. PICK b \in K : x = by_behavior[b]
    BY <1>1
  <2>2. PICK c \in K : y = by_behavior[c]
    BY <1>1
  <2>3. x.outcomes = y.outcomes
    BY <1>5, <1>8 DEF RowSound
  <2> QED BY <1>4, <2>1, <2>2, <2>3
<1> QED BY <1>3, <1>5, <1>7, <1>8

\* The actions that the outermost call leaves are sound.
LEMMA BundlesAreSound ==
  ASSUME NEW pr, NEW pb, NEW cap, Inputs(pr, pb, cap), TableSound(pr, pb, cap, by_behavior)
  PROVE  BundlesSound(pr, pb, cap, Ordered(Rows, LAMBDA a, b : SeqLess(a.selected, b.selected)))
<1> DEFINE q == Ordered(Rows, LAMBDA a, b : SeqLess(a.selected, b.selected))
<1>1. /\ IsFiniteSet(Rows)
      /\ \A x \in Rows : RowSound(pr, pb, cap, x)
      /\ \A x \in Rows : x.selected \in Seq(Int)
      /\ \A x, y \in Rows : x.selected = y.selected => x = y
  BY RowsAreSound
<1>2. IsSortedList(q, Rows, SmallerRow(Rows))
  BY <1>1, OrderedRows
<1> HIDE DEF q
<1>3. q \in Seq(Rows) /\ DOMAIN q = 1..Len(q)
  BY <1>2 DEF IsSortedList
<1>4. IsList(q) /\ \A k \in 1..Len(q) : q[k] \in Rows
  BY <1>3, ListDef
<1> QED BY <1>1, <1>4 DEF BundlesSound, q

\* The scalars are probes.
LEMMA ScalarsAreProbes ==
  ASSUME IsBundle(probes)
  PROVE  ScalarCandidates \in Seq(DOMAIN probes)
<1> DEFINE S == Undominated
           q == Ordered(S, <)
<1>1. DOMAIN probes = 1..Len(probes) /\ Len(probes) \in Nat
  BY ListDef DEF IsBundle
<1>2. S \in SUBSET DOMAIN probes
  BY DEF Undominated, Representatives, Distinguishing
<1>3. IsFiniteSet(DOMAIN probes)
  <2> DEFINE a == 1
             b == Len(probes)
  <2>1. a \in Int /\ b \in Int
    BY <1>1
  <2> HIDE DEF a, b
  <2>2. IsFiniteSet(a..b)
    BY <2>1, FS_Interval
  <2> QED BY <1>1, <2>2 DEF a, b
<1> HIDE DEF S
<1>4. IsFiniteSet(S) /\ S \in SUBSET Int
  <2>1. DOMAIN probes \in SUBSET Int
    BY <1>1
  <2> QED BY <1>2, <1>3, <2>1, FS_Subset
<1>5. IsSortedList(q, S, Smaller(S))
  BY <1>4, OrderedNumbers
<1> HIDE DEF q
<1>6. q \in Seq(S)
  BY <1>5 DEF IsSortedList
<1>7. q \in Seq(DOMAIN probes)
  BY <1>2, <1>6
<1> QED BY <1>7 DEF q, S, ScalarCandidates

-----------------------------------------------------------------------------
(* Shaped priors.                                                          *)

\* Units that are added up are a natural number.
LEMMA MergedIsNatural ==
  ASSUME NEW rows \in Seq(Scenarios), NEW pair
  PROVE  MergedUnits(rows, pair) \in Nat
<1> DEFINE S == RowsOf(rows, pair)
           f == [i \in DOMAIN rows |-> rows[i].units]
           Adds(g) == g = [s \in SUBSET S |-> IF s = {} THEN 0
                                              ELSE rows[Picked(s)].units + g[s \ {Picked(s)}]]
<1>1. DOMAIN rows = 1..Len(rows) /\ Len(rows) \in Nat /\ \A i \in DOMAIN rows : rows[i].units \in Nat
  BY ScenarioTyped
<1>2. S \in SUBSET DOMAIN rows
  BY DEF RowsOf
<1>3. MergedUnits(rows, pair) = (CHOOSE g : Adds(g))[S]
  BY DEF MergedUnits, MapThenSumSet, MapThenFoldSet, Picked
<1> HIDE DEF S
<1>4. IsFiniteSet(S) /\ f \in [DOMAIN rows -> Nat]
  <2> DEFINE a == 1
             b == Len(rows)
  <2>1. a \in Int /\ b \in Int
    BY <1>1
  <2> HIDE DEF a, b
  <2>2. IsFiniteSet(a..b)
    BY <2>1, FS_Interval
  <2>3. IsFiniteSet(DOMAIN rows)
    BY <1>1, <2>2 DEF a, b
  <2> QED BY <1>1, <1>2, <2>3, FS_Subset
<1>5. \A s \in SUBSET S : s # {} => f[Picked(s)] = rows[Picked(s)].units
  BY <1>2, PickedIsIn
<1> HIDE DEF f
<1>6. \A g : Adds(g) <=> AddsUp(g, f, S)
  <2>1. ASSUME NEW g
        PROVE  [s \in SUBSET S |-> IF s = {} THEN 0 ELSE rows[Picked(s)].units + g[s \ {Picked(s)}]]
                 = [s \in SUBSET S |-> IF s = {} THEN 0 ELSE f[Picked(s)] + g[s \ {Picked(s)}]]
    BY <1>5
  <2> QED BY <2>1 DEF AddsUp
<1> HIDE DEF Adds
<1>7. Cardinality(S) \in Nat
  BY <1>4, FS_CardinalityType
<1>8. \E g : AddsUp(g, f, S)
  BY <1>4, <1>7, AddsUpExists
<1> DEFINE h == CHOOSE g : Adds(g)
<1>9. Adds(h)
  BY <1>6, <1>8
<1> HIDE DEF h
<1>10. AddsUp(h, f, S)
  BY <1>6, <1>9
<1>11. PICK g : AddsUp(g, f, S) /\ Total(f, S) = g[S]
  BY <1>8, TotalAddsUp
<1>12. g[S] = h[S]
  <2>1. AgreeOn(f, Cardinality(S)) /\ S \in SUBSET S
    BY <1>7, AddsUpOnce
  <2> QED BY <1>4, <1>10, <1>11, <2>1 DEF AgreeOn
<1>13. Total(f, S) \in Nat
  BY <1>2, <1>4, TotalIsNatural
<1> QED BY <1>3, <1>11, <1>12, <1>13 DEF h

\* from_fixed_point_scenarios makes scenarios of scenarios.
LEMMA ShapedIsPrior ==
  ASSUME NEW rows \in Seq(Scenarios), NEW bits \in Nat
  PROVE  Shaped(rows, bits) \in Seq(Scenarios)
<1> DEFINE K == {j \in DOMAIN rows : IsKept(rows[j])}
           S == {Pair(rows[i]) : i \in K}
           q == Ordered(S, SeqLess)
           r == [k \in DOMAIN q |-> Scenario(q[k][1], q[k][2], MergedUnits(rows, q[k]), bits)]
<1>1. DOMAIN rows = 1..Len(rows) /\ Len(rows) \in Nat
  OBVIOUS
<1>2. ASSUME NEW i \in K
      PROVE  /\ Pair(rows[i]) \in Seq(Int)
             /\ Pair(rows[i])[1] \in Strings /\ Pair(rows[i])[2] \in Strings
  <2>1. rows[i].left \in Strings /\ rows[i].right \in Strings
    BY ScenarioTyped
  <2>2. Strings \in SUBSET Int
    BY StringsAssumption
  <2> DEFINE x == rows[i].left
             y == rows[i].right
  <2>3. Pair(rows[i]) = IF y < x THEN <<y, x>> ELSE <<x, y>>
    BY DEF Pair
  <2> HIDE DEF x, y
  <2>4. x \in Strings /\ y \in Strings
    BY <2>1 DEF x, y
  <2> QED BY <2>2, <2>3, <2>4
<1>3. IsFiniteSet(K)
  <2> DEFINE a == 1
             b == Len(rows)
  <2>1. a \in Int /\ b \in Int
    BY <1>1
  <2> HIDE DEF a, b
  <2>2. IsFiniteSet(a..b)
    BY <2>1, FS_Interval
  <2>3. IsFiniteSet(DOMAIN rows)
    BY <1>1, <2>2 DEF a, b
  <2>4. K \in SUBSET DOMAIN rows
    OBVIOUS
  <2> QED BY <2>3, <2>4, FS_Subset
<1>4. IsFiniteSet(S)
  <2> DEFINE g == [i \in K |-> Pair(rows[i])]
  <2>1. g \in Surjection(K, S)
    BY DEF Surjection
  <2> QED BY <1>3, <2>1, FS_Surjection
<1>5. S \in SUBSET Seq(Int) /\ \A p \in S : p[1] \in Strings /\ p[2] \in Strings
  BY <1>2
<1>6. Shaped(rows, bits) = r
  BY DEF Shaped
<1> HIDE DEF S
<1>7. IsSortedList(q, S, SmallerSeq(S))
  BY <1>4, <1>5, OrderedSequences
<1> HIDE DEF q
<1>8. DOMAIN q = 1..Len(q) /\ Len(q) \in Nat /\ \A k \in 1..Len(q) : q[k] \in S
  BY <1>7 DEF IsSortedList
<1>9. ASSUME NEW k \in 1..Len(q)
      PROVE  Scenario(q[k][1], q[k][2], MergedUnits(rows, q[k]), bits) \in Scenarios
  <2>1. MergedUnits(rows, q[k]) \in Nat /\ q[k][1] \in Strings /\ q[k][2] \in Strings
    BY <1>5, <1>8, MergedIsNatural
  <2> QED BY <2>1 DEF Scenario, Scenarios
<1>10. r \in Seq(Scenarios)
  BY <1>8, <1>9
<1> QED BY <1>6, <1>10

-----------------------------------------------------------------------------
(* The invariant of the generation holds.                                  *)

\* An empty stack, list or table is sound.
LEMMA NothingIsSound ==
  ASSUME NEW pr, NEW pb, NEW cap, NEW f, f = <<>>
  PROVE  /\ FramesSound(pr, pb, cap, f)
         /\ BundlesSound(pr, pb, cap, f)
         /\ TableSound(pr, pb, cap, f)
         /\ DOMAIN f = {}
<1>1. Len(f) = 0 /\ DOMAIN f = {} /\ f \in Seq({f[k] : k \in DOMAIN f})
  OBVIOUS
<1>2. FramesSound(pr, pb, cap, f)
  BY <1>1 DEF FramesSound, IsStack
<1>3. BundlesSound(pr, pb, cap, f)
  BY <1>1 DEF BundlesSound, IsList
<1>4. TableSound(pr, pb, cap, f)
  BY <1>1, FS_EmptySet DEF TableSound
<1> QED BY <1>1, <1>2, <1>3, <1>4

\* It holds at the call.
LEMMA GenerationInit ==
  ASSUME Init
  PROVE  GInv
<1>1. /\ scalars = <<>> /\ frames = <<>> /\ by_behavior = <<>> /\ bundles = <<>>
  BY DEF Init
<1>2. /\ scalars \in Seq(DOMAIN probes)
      /\ FramesSound(prior, probes, capacity, frames)
      /\ TableSound(prior, probes, capacity, by_behavior)
      /\ BundlesSound(prior, probes, capacity, bundles)
      /\ DOMAIN by_behavior = {}
  BY <1>1, NothingIsSound
<1>3. CASE InitCook
  <2>1. request \in CookRequests /\ phase = "cook"
    BY <1>3 DEF InitCook
  <2>2. /\ request.rows \in Seq(Scenarios)
        /\ request.capacity \in Nat \ {0, 1}
        /\ request.probes \in Seq(Range(request.probes))
        /\ \A k \in DOMAIN request.probes : IsProbe(request.probes[k])
    BY <2>1, CookAssumption DEF Scenarios, IsProbe
  <2>3. IsBundle(request.probes)
    <3>1. IsList(request.probes)
      BY <2>2, ListDef
    <3>2. DOMAIN request.probes = 1..Len(request.probes)
      BY <3>1, ListDef
    <3> QED BY <2>2, <3>1, <3>2 DEF IsBundle
  <2>4. Shaped(request.rows, 96) \in Seq(Scenarios)
    <3> DEFINE bits == 96
    <3>1. bits \in Nat
      OBVIOUS
    <3> HIDE DEF bits
    <3>2. Shaped(request.rows, bits) \in Seq(Scenarios)
      BY <2>2, <3>1, ShapedIsPrior
    <3> QED BY <3>2 DEF bits
  <2>5. prior \in Seq(Scenarios) /\ probes = request.probes /\ capacity = request.capacity
    BY <1>3, <2>2, <2>4 DEF InitCook
  <2>6. Inputs(prior, probes, capacity)
    BY <2>2, <2>3, <2>5 DEF Inputs
  <2>7. TestsTyped
    BY <1>3 DEF InitCook, TestsTyped
  <2> QED BY <1>1, <1>2, <2>1, <2>2, <2>5, <2>6, <2>7 DEF GInv
<1>4. CASE InitSolve
  <2>1. request \in SolveRequests /\ phase = "solve" /\ prior = <<>> /\ probes = <<>> /\ capacity = 0
    BY <1>4 DEF InitSolve
  <2>2. Inputs(prior, probes, capacity)
    BY <2>1, BundleOfNone DEF Inputs
  <2>3. weights = request.weights /\ tests = request.tests
    BY <1>4 DEF InitSolve
  <2>4. TestsTyped
    BY <2>1, <2>3, SolveAssumption DEF TestsTyped
  <2> QED BY <1>2, <2>1, <2>2, <2>4 DEF GInv
<1> QED BY <1>3, <1>4 DEF Init

\* The rest of the state, when the generation is over or has not begun.
LEMMA RestKeeps ==
  ASSUME GInv, UNCHANGED actionVars, phase' # "actions", phase' # "cook", TestsTyped'
  PROVE  GInv'
BY DEF GInv, actionVars

\* Generation begins with the probes that are kept and one call.
LEMMA BeginKeeps ==
  ASSUME GInv, BeginActions
  PROVE  GInv'
<1>1. /\ phase = "cook" /\ phase' = "actions" /\ prior # <<>>
      /\ scalars' = ScalarCandidates /\ frames' = <<Frame(1, 1, <<>>, <<>>)>>
      /\ UNCHANGED <<capacity, prior, probes, best_product, by_behavior, bundles>>
      /\ UNCHANGED <<weights, tests>>
  BY DEF BeginActions, StartGeneration, Become, searchVars
<1>2. Inputs(prior, probes, capacity) /\ capacity \in Nat \ {0, 1}
  BY <1>1 DEF GInv
<1>3. ScalarCandidates \in Seq(DOMAIN probes)
  BY <1>2, ScalarsAreProbes DEF Inputs
<1>4. FramesSound(prior, probes, capacity, <<Frame(1, 1, <<>>, <<>>)>>)
  <2> DEFINE f == Frame(1, 1, <<>>, <<>>)
             fs == <<f>>
  <2>1. /\ f.start = 1 /\ f.product = 1 /\ f.selected = <<>> /\ f.combined = <<>>
        /\ f = Frame(f.start, f.product, f.selected, f.combined)
    BY DEF Frame
  <2>2. SelectionFits(probes, capacity, <<>>, 1)
    <3>1. Chosen(probes, <<>>) = <<>>
      BY DEF Chosen
    <3>2. <<>> \in Seq(DOMAIN probes) /\ 1 \in 1..capacity
      BY <1>2
    <3> QED BY <3>1, <3>2, BundleOfNone DEF SelectionFits
  <2> HIDE DEF f
  <2>3. FrameSound(prior, probes, capacity, f)
    BY <2>1, <2>2 DEF FrameSound
  <2>4. IsStack(fs) /\ Len(fs) = 1 /\ fs[1] = f
    BY DEF IsStack
  <2> QED BY <2>3, <2>4 DEF FramesSound, f
<1>5. TestsTyped'
  BY <1>1 DEF GInv, TestsTyped
<1>6. /\ FramesSound(prior, probes, capacity, frames')
      /\ TableSound(prior, probes, capacity, by_behavior)
      /\ BundlesSound(prior, probes, capacity, bundles)
  BY <1>1, <1>4 DEF GInv
<1> QED BY <1>1, <1>2, <1>3, <1>5, <1>6 DEF GInv

\* A probe is passed over.
LEMMA PassOverKeeps ==
  ASSUME GInv, PassOver, prior # <<>>, phase' # "cook", UNCHANGED searchVars
  PROVE  GInv'
<1>1. /\ frames # <<>> /\ frames' = Advanced(frames)
      /\ UNCHANGED <<capacity, prior, probes, scalars, best_product, by_behavior, bundles>>
  BY DEF PassOver
<1>2. FramesSound(prior, probes, capacity, Advanced(frames))
  BY <1>1, AdvancedSound DEF GInv
<1>3. TestsTyped'
  BY DEF GInv, TestsTyped, searchVars
<1> QED BY <1>1, <1>2, <1>3 DEF GInv

\* A probe joins the selection.
LEMMA SelectKeeps ==
  ASSUME GInv, Select, prior # <<>>, phase' # "cook", UNCHANGED searchVars
  PROVE  GInv'
<1> DEFINE f == Last(frames)
           i == scalars[f.start]
           product == f.product * probes[i].cardinality
           outcomes == Combine(f.combined, i)
           behavior == BehaviorKey(outcomes)
           row == [selected |-> Append(f.selected, i), product |-> product, outcomes |-> outcomes]
           next == f.start + 1
           g == Frame(next, product, row.selected, outcomes)
<1>1. /\ frames # <<>> /\ f.start <= Len(scalars) /\ product <= capacity
      /\ by_behavior' \in {by_behavior, Put(by_behavior, behavior, row)}
      /\ frames' \in {Advanced(frames), Append(Advanced(frames), g)}
      /\ UNCHANGED <<capacity, prior, probes, scalars, bundles>>
  BY DEF Select
<1>2. FramesSound(prior, probes, capacity, frames)
  BY DEF GInv
<1>3. FrameSound(prior, probes, capacity, f)
  <2>1. IsStack(frames) /\ Len(frames) \in 1..Len(frames) /\ Last(frames) = frames[Len(frames)]
    BY <1>1, <1>2, StackTop DEF FramesSound
  <2> QED BY <1>2, <2>1 DEF FramesSound
<1>4. i \in DOMAIN probes
  <2>1. f.start \in Nat \ {0}
    BY <1>3 DEF FrameSound
  <2>2. scalars \in Seq(DOMAIN probes)
    BY DEF GInv
  <2> HIDE DEF f
  <2>3. f.start \in 1..Len(scalars)
    BY <1>1, <2>1, <2>2
  <2> QED BY <2>2, <2>3
<1>5. Inputs(prior, probes, capacity)
  BY DEF GInv
<1>6. RowSound(prior, probes, capacity, row) /\ FrameSound(prior, probes, capacity, g)
  <2> HIDE DEF f, i
  <2> QED BY <1>1, <1>3, <1>4, <1>5, SelectedIsSound
<1>7. behavior = BehaviorKey(row.outcomes)
  OBVIOUS
<1> HIDE DEF row, g, behavior
<1>8. TableSound(prior, probes, capacity, by_behavior')
  <2>1. TableSound(prior, probes, capacity, by_behavior)
    BY DEF GInv
  <2>2. TableSound(prior, probes, capacity, Put(by_behavior, behavior, row))
    BY <1>6, <1>7, <2>1, RowIsPut
  <2> QED BY <1>1, <2>1, <2>2
<1>9. FramesSound(prior, probes, capacity, frames')
  <2>1. FramesSound(prior, probes, capacity, Advanced(frames))
    BY <1>1, <1>2, AdvancedSound
  <2>2. FramesSound(prior, probes, capacity, Append(Advanced(frames), g))
    BY <1>6, <2>1, FramePushed
  <2> QED BY <1>1, <2>1, <2>2
<1>10. TestsTyped'
  BY DEF GInv, TestsTyped, searchVars
<1>11. UNCHANGED <<capacity, prior, probes, scalars, bundles>>
  BY <1>1
<1> QED BY <1>8, <1>9, <1>10, <1>11 DEF GInv

\* A call of enumerate_bundles returns.
LEMMA ReturnBundlesKeeps ==
  ASSUME GInv, ReturnBundles, prior # <<>>, phase' # "cook", UNCHANGED searchVars
  PROVE  GInv'
<1> DEFINE q == Ordered(Rows, LAMBDA a, b : SeqLess(a.selected, b.selected))
<1>1. /\ frames # <<>> /\ frames' = Front(frames)
      /\ bundles' \in {bundles, q}
      /\ UNCHANGED <<capacity, prior, probes, scalars, best_product, by_behavior>>
  BY DEF ReturnBundles
<1>2. BundlesSound(prior, probes, capacity, q)
  BY BundlesAreSound DEF GInv
<1> HIDE DEF q
<1>3. BundlesSound(prior, probes, capacity, bundles')
  BY <1>1, <1>2 DEF GInv
<1>4. FramesSound(prior, probes, capacity, Front(frames))
  BY <1>1, FramePopped DEF GInv
<1>5. TestsTyped'
  BY DEF GInv, TestsTyped, searchVars
<1> QED BY <1>1, <1>3, <1>4, <1>5 DEF GInv

\* Each step of the generation keeps the invariant.
LEMMA GenerateKeeps ==
  ASSUME GInv, Generate
  PROVE  GInv'
<1>1. /\ phase = "actions" /\ phase' \in {"matrix", "actions"} /\ UNCHANGED searchVars
      /\ PassOver \/ Select \/ ReturnBundles
  BY DEF Generate, Become
<1>2. prior # <<>> /\ phase' # "cook"
  BY <1>1 DEF GInv
<1> QED BY <1>1, <1>2, PassOverKeeps, SelectKeeps, ReturnBundlesKeeps

\* The table has the outcomes of each action.
LEMMA TabulateKeeps ==
  ASSUME GInv, Tabulate
  PROVE  GInv'
<1> DEFINE ws == [s \in DOMAIN prior |-> prior[s].units]
           O == [DOMAIN ws -> [left : Nat, right : Nat]]
           ts == [b \in DOMAIN bundles |->
                    PairOutcomes(BundleValues(ProbesOf(bundles[b].selected)))]
<1>1. /\ phase' = "solve" /\ weights' = ws /\ tests' = ts /\ UNCHANGED actionVars
  BY DEF Tabulate, Become
<1>2. prior \in Seq(Scenarios) /\ IsBundle(probes)
  BY DEF GInv, Inputs
<1>3. DOMAIN prior = 1..Len(prior) /\ Len(prior) \in Nat
  BY <1>2
<1>4. ws \in Seq(Nat) /\ DOMAIN ws = DOMAIN prior
  <2>1. \A s \in DOMAIN prior : prior[s].units \in Nat
    BY <1>2, ScenarioTyped
  <2> QED BY <1>3, <2>1
<1>5. BundlesSound(prior, probes, capacity, bundles)
  BY DEF GInv
<1>6. IsList(bundles) /\ DOMAIN bundles = 1..Len(bundles) /\ Len(bundles) \in Nat
  BY <1>5, ListDef DEF BundlesSound
<1> HIDE DEF ws
<1>7. ASSUME NEW b \in 1..Len(bundles)
      PROVE  PairOutcomes(BundleValues(ProbesOf(bundles[b].selected))) \in O
  <2> DEFINE ps == Chosen(probes, bundles[b].selected)
             values == BundleValues(ps)
  <2>1. bundles[b].selected \in Seq(DOMAIN probes)
    BY <1>5 DEF BundlesSound, RowSound, SelectionFits
  <2>2. IsBundle(ps)
    BY <1>2, <2>1, ChosenIsBundle
  <2> HIDE DEF ps
  <2>3. BundleCardinality(ps) \in Nat /\ values \in [Strings -> 0..(BundleCardinality(ps) - 1)]
    BY <2>2, BundleFits
  <2> HIDE DEF values
  <2>4. \A x \in Strings : values[x] \in Nat
    BY <2>3
  <2>5. ASSUME NEW s \in DOMAIN prior
        PROVE  [left |-> values[prior[s].left], right |-> values[prior[s].right]]
                 \in [left : Nat, right : Nat]
    <3>1. prior[s].left \in Strings /\ prior[s].right \in Strings
      BY <1>2, ScenarioTyped
    <3> QED BY <2>4, <3>1
  <2>6. PairOutcomes(BundleValues(ProbesOf(bundles[b].selected))) = PairOutcomes(values)
    BY ModelOutcomes DEF ps, values
  <2>7. PairOutcomes(values) \in O
    BY <1>4, <2>5 DEF PairOutcomes
  <2> QED BY <2>6, <2>7
<1>8. ts \in Seq(O)
  BY <1>6, <1>7
<1> HIDE DEF ts
<1>9. TestsTyped'
  BY <1>1, <1>4, <1>8 DEF TestsTyped
<1> QED BY <1>1, <1>9, RestKeeps

\* Every step keeps it.
LEMMA GenerationStep ==
  ASSUME GInv, [Next]_vars
  PROVE  GInv'
<1>1. UNCHANGED <<weights, tests>> => TestsTyped'
  BY DEF GInv, TestsTyped
<1>2. CASE CookNothing
  <2>1. phase' = "cooked" /\ UNCHANGED actionVars /\ UNCHANGED <<weights, tests>>
    BY <1>2 DEF CookNothing, Become
  <2> QED BY <1>1, <2>1, RestKeeps
<1>3. CASE BeginActions
  BY <1>3, BeginKeeps
<1>4. CASE Generate
  BY <1>4, GenerateKeeps
<1>5. CASE NoActions \/ MixedScales \/ EmptyTests \/ Unseparable
  <2>1. phase' \in {"unseparable", "mixed_scales", "empty_tests"}
    BY <1>5 DEF NoActions, MixedScales, EmptyTests, Unseparable, Become
  <2>2. UNCHANGED <<actionVars, searchVars>>
    BY <1>5 DEF NoActions, MixedScales, EmptyTests, Unseparable
  <2> QED BY <1>1, <2>1, <2>2, RestKeeps DEF searchVars
<1>6. CASE Tabulate
  BY <1>6, TabulateKeeps
<1>7. CASE StartSolve
  <2>1. UNCHANGED <<weights, tests>> /\ UNCHANGED actionVars
    BY <1>7 DEF StartSolve, StartSearch, SolveNothing
  <2>2. phase' \in {"solve", "solved"}
    BY <1>7 DEF StartSolve, Become
  <2> QED BY <1>1, <2>1, <2>2, RestKeeps
<1>8. CASE Solve
  <2>1. UNCHANGED <<weights, tests>> /\ UNCHANGED actionVars
    BY <1>8 DEF Solve, SkipTest, TryTest, HitMemo, Explore, JudgeTest, ReturnBest
  <2>2. phase' \in {"solve", "solved"}
    BY <1>8 DEF Solve, Become
  <2> QED BY <1>1, <2>1, <2>2, RestKeeps
<1>9. CASE BeginMaterialize
  <2>1. phase' = "materialize" /\ UNCHANGED <<actionVars, searchVars>>
    BY <1>9 DEF BeginMaterialize
  <2> QED BY <1>1, <2>1, RestKeeps DEF searchVars
<1>10. CASE MaterializeNode
  <2>1. phase = "materialize" /\ phase' = phase /\ UNCHANGED <<actionVars, searchVars>>
    BY <1>10 DEF MaterializeNode
  <2> QED BY <1>1, <2>1, RestKeeps DEF searchVars
<1>11. CASE ValidateScheme
  <2>1. phase' \in {"cooked", "invalid"} /\ UNCHANGED <<actionVars, searchVars>>
    BY <1>11 DEF ValidateScheme, Become
  <2> QED BY <1>1, <2>1, RestKeeps DEF searchVars
<1>12. CASE UNCHANGED vars
  <2>1. UNCHANGED <<actionVars, searchVars, phase>>
    BY <1>12 DEF vars, buildVars
  <2> QED BY <1>1, <2>1 DEF GInv, actionVars, searchVars
<1> QED BY <1>2, <1>3, <1>4, <1>5, <1>6, <1>7, <1>8, <1>9, <1>10, <1>11, <1>12 DEF Next

\* The generation of actions works with selections that fit the capacity, with their own
\* outcomes and behaviors, so that the tables it hands to the search are well formed.
THEOREM GenerationInvariant == Spec => []GInv
<1>1. Init => GInv
  BY GenerationInit
<1>2. GInv /\ [Next]_vars => GInv'
  BY GenerationStep
<1> QED BY <1>1, <1>2, PTL DEF Spec

\* Whatever is cooked, and whatever a caller hands to ExactCooker: the search has a pair
\* of outcomes for every test and scenario, and a weight for every scenario
\* (pair_outcome_matrix, fixed_point_matrix).
THEOREM TablesAreTyped == Spec => []TestsTyped
<1>1. GInv => TestsTyped
  BY DEF GInv
<1> QED BY <1>1, GenerationInvariant, PTL

\* The search of the cooker, and that of ExactCooker alone: the costs are the least ones.
THEOREM CookerSearchIsExact == Spec => []SearchExact
BY TablesAreTyped, SearchIsExact, PTL

\* For every prior and all probes a call of solve_state works on fewer scenarios than its
\* caller, and on none that it has solved.
THEOREM CookerStatesShrink == Spec => []StatesShrink
BY TablesAreTyped, StatesAlwaysShrink, PTL

\* For every prior and all probes the certificate of the cooker is sound: the lower bound
\* of the first step lies between the total weight and the cost.
THEOREM CookerCertificateIsSound == Spec => []CertificateSound
BY TablesAreTyped, CertificateIsSound, PTL

-----------------------------------------------------------------------------
(* The trees that the search builds.                                       *)

\* The trees of the branches with the values V.
Subnodes(ts, m, t, S, V) == [v \in V |-> m[Part(ts, t, S, v)].node]

\* An answer for a state: a test that divides it, with the trees that the memo has for all
\* its branches, and what they cost.
AnswerSound(ws, ts, m, S, a) ==
  LET t == a.node.test_id
      V == Values(ts, t, S)
  IN /\ t \in 1..Len(ts) /\ ~Useless(ts, t, S)
     /\ Solved(ts, m, t, S, V)
     /\ a.cost = CostOf(ws, ts, m, t, S)
     /\ a.node = TreeNode(t, Subnodes(ts, m, t, S, V))

CallTrees(ws, ts, m, c) ==
  /\ c.best # <<>> => AnswerSound(ws, ts, m, c.state, c.best)
  /\ c.trying => c.children = Subnodes(ts, m, c.test, c.state,
                                       Values(ts, c.test, c.state) \ c.todo)

\* What solve returns: the tree of the whole problem.
RootSound(ws, m, sol) ==
  /\ Whole(ws) = {} => sol.root = <<>> /\ sol.cost = 0
  /\ Whole(ws) # {} => /\ Whole(ws) \in DOMAIN m
                       /\ sol.root = m[Whole(ws)].node /\ sol.cost = m[Whole(ws)].cost

TreeInv(ws, ts, m, st, sol, ph) ==
  /\ ph \in {"cook", "actions", "matrix"} => ws = <<>>
  /\ \A S \in DOMAIN m : AnswerSound(ws, ts, m, S, m[S])
  /\ \A k \in 1..Len(st) : CallTrees(ws, ts, m, st[k])
  /\ sol # <<>> => RootSound(ws, m, sol)
  /\ ph \in {"solved", "materialize", "cooked", "invalid"} => sol # <<>>

TInv == TreeInv(weights, tests, memo, stack, solution, phase)

-----------------------------------------------------------------------------
(* A call.                                                                 *)

\* The trees stay when the memo learns one more state.
LEMMA AnswerStays ==
  ASSUME NEW ws, NEW ts, NEW m, NEW R, R \notin DOMAIN m, NEW b,
         NEW S, NEW a, AnswerSound(ws, ts, m, S, a)
  PROVE  AnswerSound(ws, ts, Extended(m, R, b), S, a)
<1> DEFINE e == Extended(m, R, b)
           t == a.node.test_id
           V == Values(ts, t, S)
<1>1. /\ t \in 1..Len(ts) /\ ~Useless(ts, t, S) /\ Solved(ts, m, t, S, V)
      /\ a.cost = CostOf(ws, ts, m, t, S)
      /\ a.node = TreeNode(t, Subnodes(ts, m, t, S, V))
  BY DEF AnswerSound
<1>2. Solved(ts, e, t, S, V) /\ Spent(ws, ts, e, t, S, V) = Spent(ws, ts, m, t, S, V)
  BY <1>1, SpentStays
<1>3. a.cost = CostOf(ws, ts, e, t, S)
  BY <1>1, <1>2 DEF CostOf
<1>4. \A v \in V : Part(ts, t, S, v) \in DOMAIN m /\ Part(ts, t, S, v) # R
  BY <1>1 DEF Solved
<1>5. Subnodes(ts, e, t, S, V) = Subnodes(ts, m, t, S, V)
  BY <1>4 DEF Subnodes, Extended
<1> HIDE DEF e, t, V
<1>6. a.node = TreeNode(t, Subnodes(ts, e, t, S, V))
  BY <1>1, <1>5
<1> QED BY <1>1, <1>2, <1>3, <1>6 DEF AnswerSound, e, t, V

\* Answers stay right while the memo keeps what it has.
LEMMA TreesStay ==
  ASSUME NEW ws, NEW ts, NEW m, NEW R, R \notin DOMAIN m, NEW b,
         NEW c, CallSound(ws, ts, m, c), CallTrees(ws, ts, m, c)
  PROVE  CallTrees(ws, ts, Extended(m, R, b), c)
<1> DEFINE e == Extended(m, R, b)
           V == Values(ts, c.test, c.state) \ c.todo
<1>1. c.best # <<>> => AnswerSound(ws, ts, e, c.state, c.best)
  BY AnswerStays DEF CallTrees
<1>2. ASSUME c.trying
      PROVE  c.children = Subnodes(ts, e, c.test, c.state, V)
  <2>1. Solved(ts, m, c.test, c.state, V)
    BY <1>2 DEF CallSound, TryingSound
  <2>2. \A v \in V : Part(ts, c.test, c.state, v) \in DOMAIN m /\ Part(ts, c.test, c.state, v) # R
    BY <2>1 DEF Solved
  <2>3. Subnodes(ts, e, c.test, c.state, V) = Subnodes(ts, m, c.test, c.state, V)
    BY <2>2 DEF Subnodes, Extended
  <2> QED BY <1>2, <2>3 DEF CallTrees
<1> HIDE DEF e
<1> QED BY <1>1, <1>2 DEF CallTrees, e

\* A call begins without an answer.
LEMMA TreesBegin ==
  ASSUME NEW ws, NEW ts, NEW m, NEW S
  PROVE  CallTrees(ws, ts, m, Call(S))
<1>1. Call(S).best = <<>> /\ Call(S).trying = FALSE
  BY DEF Call
<1>2. ~Call(S).trying
  BY <1>1, Zenon
<1> QED BY <1>1, <1>2 DEF CallTrees

\* A call passes over a test.
LEMMA TreesSkip ==
  ASSUME NEW ws, NEW ts, NEW m, NEW c, CallSound(ws, ts, m, c), ~c.trying,
         CallTrees(ws, ts, m, c)
  PROVE  CallTrees(ws, ts, m, [c EXCEPT !.test = @ + 1])
<1> DEFINE d == [c EXCEPT !.test = @ + 1]
<1>1. IsRecord(c)
  BY DEF CallSound
<1>2. d.state = c.state /\ d.trying = c.trying /\ d.best = c.best
  BY <1>1 DEF IsRecord
<1> HIDE DEF d
<1>3. CallTrees(ws, ts, m, d)
  BY <1>2 DEF CallTrees
<1> QED BY <1>3 DEF d

\* A call begins a test.
LEMMA TreesTry ==
  ASSUME NEW ws, NEW m, NEW c, CallSound(ws, tests, m, c), CallTrees(ws, tests, m, c)
  PROVE  CallTrees(ws, tests, m, Trying(c))
<1> DEFINE d == Trying(c)
           todo == DOMAIN Branches(c.test + 1, c.state)
           total == Weight(c.state)
           children == <<>>
<1>1. IsRecord(c)
  BY DEF CallSound
<1>2. d = [c EXCEPT !.test = @ + 1, !.trying = TRUE, !.todo = todo, !.total = total,
                    !.children = children]
  BY DEF Trying
<1>3. todo = Values(tests, c.test + 1, c.state)
  BY ModelWords
<1> HIDE DEF d, todo, total
<1>4. /\ d.state = c.state /\ d.test = c.test + 1 /\ d.todo = todo /\ d.best = c.best
      /\ d.children = <<>>
  BY <1>1, <1>2 DEF IsRecord
<1>5. Values(tests, d.test, d.state) \ d.todo = {}
  BY <1>3, <1>4
<1>6. Subnodes(tests, m, d.test, d.state, {}) = <<>>
  BY DEF Subnodes
<1>7. CallTrees(ws, tests, m, d)
  BY <1>4, <1>5, <1>6 DEF CallTrees
<1> QED BY <1>7 DEF d

\* A call gets the answer for one of its branches.
LEMMA TreesAnswered ==
  ASSUME Table(weights, tests), NEW m, MemoSound(weights, tests, m),
         NEW c, CallSound(weights, tests, m, c), c.trying, c.todo # {},
         CallTrees(weights, tests, m, c)
  PROVE  CallTrees(weights, tests, m, Answered(c, m[NextPart(tests, c)]))
<1> DEFINE S == c.state
           t == c.test
           v == Value(c)
           V == Values(tests, t, S)
           U == V \ c.todo
           a == m[NextPart(tests, c)]
           d == Answered(c, a)
<1>1. v = Min(c.todo) /\ v \in c.todo /\ v \in V
  BY BranchIsNext
<1>2. NextPart(tests, c) = Part(tests, t, S, v)
  BY <1>1 DEF NextPart
<1>3. IsRecord(c)
  BY DEF CallSound
<1> DEFINE todo == c.todo \ {v}
           total == c.total + a.cost
           children == [x \in DOMAIN c.children \cup {v} |->
                          IF x = v THEN a.node ELSE c.children[x]]
<1>4. d = [c EXCEPT !.todo = todo, !.total = total, !.children = children]
  BY <1>3 DEF Answered, IsRecord
<1>5. c.children = Subnodes(tests, m, t, S, U)
  BY DEF CallTrees
<1>6. children = Subnodes(tests, m, t, S, U \cup {v})
  BY <1>1, <1>2, <1>5 DEF Subnodes
<1>7. V \ todo = U \cup {v}
  BY <1>1
<1> HIDE DEF d, todo, total, children, U
<1>8. d.state = S /\ d.test = t /\ d.todo = todo /\ d.best = c.best /\ d.children = children
  <2> HIDE DEF S, t
  <2>1. d.state = c.state /\ d.test = c.test /\ d.todo = todo /\ d.best = c.best /\ d.children = children
    BY <1>3, <1>4 DEF IsRecord
  <2> QED BY <2>1 DEF S, t
<1>9. CallTrees(weights, tests, m, d)
  BY <1>6, <1>7, <1>8 DEF CallTrees
<1> QED BY <1>9 DEF d

\* A call compares its answer with that of the test it has tried.
LEMMA TreesJudged ==
  ASSUME Table(weights, tests), NEW m, NEW c, CallSound(weights, tests, m, c), c.trying, c.todo = {},
         CallTrees(weights, tests, m, c)
  PROVE  CallTrees(weights, tests, m, Judged(c))
<1> DEFINE d == Judged(c)
           S == c.state
           V == Values(tests, c.test, S)
           new == Candidate(c)
           best == IF c.best = <<>> THEN new ELSE IF c.total < c.best.cost THEN new ELSE c.best
<1>1. IsRecord(c) /\ TryingSound(weights, tests, m, c) /\ c.test \in 0..Len(tests)
      /\ Len(tests) \in Nat
  BY DEF CallSound, Table
<1>2. V \ c.todo = V
  OBVIOUS
<1>3. /\ ~Useless(tests, c.test, S) /\ Solved(tests, m, c.test, S, V)
      /\ c.total = CostOf(weights, tests, m, c.test, S)
      /\ c.test # 0
  BY <1>1, <1>2 DEF TryingSound, CostOf
<1>4. c.children = Subnodes(tests, m, c.test, S, V)
  BY <1>2 DEF CallTrees
<1>5. /\ new.cost = c.total /\ new.node = TreeNode(c.test, c.children)
      /\ new.node.test_id = c.test
  BY DEF Candidate, TreeNode
<1>6. AnswerSound(weights, tests, m, S, new)
  <2>1. c.test \in 1..Len(tests)
    BY <1>1, <1>3
  <2> HIDE DEF new
  <2> QED BY <1>3, <1>4, <1>5, <2>1 DEF AnswerSound
<1>7. best # <<>> => AnswerSound(weights, tests, m, S, best)
  BY <1>6 DEF CallTrees
<1>8. d = [c EXCEPT !.trying = FALSE, !.best = best]
  <2> HIDE DEF new
  <2> QED BY <1>1 DEF IsRecord, Judged, new
<1> HIDE DEF d, best
<1>9. d.state = S /\ d.best = best /\ d.trying = FALSE
  BY <1>1, <1>8 DEF IsRecord
<1>10. ~d.trying
  BY <1>9, Zenon
<1>11. CallTrees(weights, tests, m, d)
  BY <1>7, <1>9, <1>10 DEF CallTrees
<1> QED BY <1>11 DEF d

-----------------------------------------------------------------------------
(* The invariant of the trees holds.                                       *)

StackTrees(ws, ts, m, st) == \A k \in 1..Len(st) : CallTrees(ws, ts, m, st[k])

\* The innermost call is replaced by itself in a later state.
LEMMA TreesReplaced ==
  ASSUME NEW ws, NEW ts, NEW m, NEW st, IsStack(st), st # <<>>, StackTrees(ws, ts, m, st),
         NEW c, CallTrees(ws, ts, m, c)
  PROVE  StackTrees(ws, ts, m, Replaced(st, c))
<1> DEFINE n == Len(st)
           r == Replaced(st, c)
<1>1. n \in Nat \ {0} /\ Len(r) = n /\ r[n] = c /\ \A k \in 1..(n - 1) : r[k] = st[k]
  BY StackTop, StackReplaced
<1> HIDE DEF r
<1>2. \A k \in 1..n : CallTrees(ws, ts, m, r[k])
  BY <1>1 DEF StackTrees
<1> QED BY <1>1, <1>2 DEF StackTrees, r

\* A step that changes the last call.
LEMMA TopTreesKeep ==
  ASSUME SInv, TInv, phase = "solve", stack # <<>>,
         NEW c, CallTrees(weights, tests, memo, c),
         stack' = Replaced(stack, c), Become(IF solution' = <<>> THEN "solve" ELSE "solved"),
         UNCHANGED <<weights, tests, memo, explored, solution>>
  PROVE  TInv'
<1> DEFINE r == Replaced(stack, c)
<1>1. solution = <<>> /\ IsStack(stack)
  BY DEF SInv, SearchInv, StackSound
<1>2. phase' = "solve"
  BY <1>1 DEF Become
<1>3. StackTrees(weights, tests, memo, stack)
  BY DEF TInv, TreeInv, StackTrees
<1>4. StackTrees(weights, tests, memo, r)
  BY <1>1, <1>3, TreesReplaced
<1> HIDE DEF r
<1>5. TreeInv(weights, tests, memo, r, solution, "solve")
  BY <1>1, <1>4 DEF TInv, TreeInv, StackTrees
<1> QED BY <1>2, <1>5 DEF TInv, r

\* The facts of the last call.
LEMMA TopTrees ==
  ASSUME SInv, TInv, stack # <<>>
  PROVE  CallTrees(weights, tests, memo, Last(stack))
<1>1. IsStack(stack)
  BY DEF SInv, SearchInv, StackSound
<1>2. Len(stack) \in 1..Len(stack) /\ Last(stack) = stack[Len(stack)]
  BY <1>1, StackTop
<1> QED BY <1>2 DEF TInv, TreeInv

\* The steps of a call among its tests keep the trees right.
LEMMA SolveTreesKeep ==
  ASSUME Table(weights, tests), SInv, TInv, phase = "solve",
         SkipTest \/ TryTest \/ HitMemo \/ JudgeTest,
         Become(IF solution' = <<>> THEN "solve" ELSE "solved")
  PROVE  TInv'
<1> DEFINE c == Last(stack)
<1>1. MemoSound(weights, tests, memo)
  BY DEF SInv, SearchInv
<1>2. CASE SkipTest
  <2> DEFINE d == [c EXCEPT !.test = @ + 1]
  <2>1. /\ stack # <<>> /\ ~c.trying /\ stack' = Replaced(stack, d)
        /\ UNCHANGED <<weights, tests, memo, explored, solution>>
    BY <1>2 DEF SkipTest, IsBetweenTests
  <2>2. CallSound(weights, tests, memo, c) /\ CallTrees(weights, tests, memo, c)
    BY <2>1, TopIsSound, TopTrees
  <2>3. CallTrees(weights, tests, memo, d)
    <3> HIDE DEF c
    <3> QED BY <2>1, <2>2, TreesSkip
  <2> HIDE DEF d
  <2> QED BY <2>1, <2>3, TopTreesKeep
<1>3. CASE TryTest
  <2> DEFINE d == Trying(c)
  <2>1. /\ stack # <<>> /\ stack' = Replaced(stack, d)
        /\ UNCHANGED <<weights, tests, memo, explored, solution>>
    BY <1>3 DEF TryTest, IsBetweenTests
  <2>2. CallSound(weights, tests, memo, c) /\ CallTrees(weights, tests, memo, c)
    BY <2>1, TopIsSound, TopTrees
  <2>3. CallTrees(weights, tests, memo, d)
    <3> HIDE DEF c
    <3> QED BY <2>2, TreesTry
  <2> HIDE DEF d
  <2> QED BY <2>1, <2>3, TopTreesKeep
<1>4. CASE HitMemo
  <2> DEFINE d == Answered(c, memo[NextPart(tests, c)])
  <2>1. /\ stack # <<>> /\ c.trying /\ c.todo # {}
        /\ stack' = Replaced(stack, Answered(c, memo[ChildState(c)]))
        /\ UNCHANGED <<weights, tests, memo, explored, solution>>
    BY <1>4 DEF HitMemo, IsAtBranch
  <2>2. CallSound(weights, tests, memo, c) /\ CallTrees(weights, tests, memo, c)
    BY <2>1, TopIsSound, TopTrees
  <2>3. ChildState(c) = NextPart(tests, c)
    <3> HIDE DEF c
    <3> QED BY <2>1, <2>2, BranchIsNext
  <2>4. CallTrees(weights, tests, memo, d)
    <3> HIDE DEF c
    <3> QED BY <1>1, <2>1, <2>2, TreesAnswered
  <2>5. stack' = Replaced(stack, d)
    BY <2>1, <2>3
  <2> HIDE DEF d
  <2> QED BY <2>1, <2>4, <2>5, TopTreesKeep
<1>5. CASE JudgeTest
  <2> DEFINE d == Judged(c)
  <2>1. /\ stack # <<>> /\ c.trying /\ c.todo = {} /\ stack' = Replaced(stack, d)
        /\ UNCHANGED <<weights, tests, memo, explored, solution>>
    BY <1>5 DEF JudgeTest
  <2>2. CallSound(weights, tests, memo, c) /\ CallTrees(weights, tests, memo, c)
    BY <2>1, TopIsSound, TopTrees
  <2>3. CallTrees(weights, tests, memo, d)
    <3> HIDE DEF c
    <3> QED BY <2>1, <2>2, TreesJudged
  <2> HIDE DEF d
  <2> QED BY <2>1, <2>3, TopTreesKeep
<1> QED BY <1>2, <1>3, <1>4, <1>5

\* A call for a branch keeps them right.
LEMMA ExploreTreesKeep ==
  ASSUME SInv, TInv, phase = "solve", Explore,
         Become(IF solution' = <<>> THEN "solve" ELSE "solved")
  PROVE  TInv'
<1> DEFINE c == Call(ChildState(Last(stack)))
           r == Append(stack, c)
           n == Len(stack)
<1>1. stack' = r /\ UNCHANGED <<weights, tests, memo, solution>>
  BY DEF Explore
<1>2. solution = <<>> /\ IsStack(stack)
  BY DEF SInv, SearchInv, StackSound
<1>3. phase' = "solve"
  BY <1>1, <1>2 DEF Become
<1>4. CallTrees(weights, tests, memo, c)
  BY TreesBegin
<1> HIDE DEF c
<1>5. n \in Nat /\ Len(r) = n + 1 /\ r[n + 1] = c /\ \A k \in 1..n : r[k] = stack[k]
  BY <1>2, StackTop, StackPushed
<1> HIDE DEF r
<1>6. \A k \in 1..(n + 1) : CallTrees(weights, tests, memo, r[k])
  BY <1>4, <1>5 DEF TInv, TreeInv
<1>7. TreeInv(weights, tests, memo, r, solution, "solve")
  BY <1>2, <1>5, <1>6 DEF TInv, TreeInv
<1> QED BY <1>1, <1>3, <1>7 DEF TInv

\* An answer that is remembered keeps them right.
LEMMA ReturnTreesKeep ==
  ASSUME Table(weights, tests), SInv, TInv, phase = "solve", ReturnBest,
         Become(IF solution' = <<>> THEN "solve" ELSE "solved")
  PROVE  TInv'
<1> DEFINE call == Last(stack)
           R == call.state
           e == Extended(memo, R, call.best)
           callers == Front(stack)
           n == Len(stack)
<1>1. /\ stack # <<>> /\ ~call.trying /\ call.best # <<>>
      /\ memo' = e /\ UNCHANGED <<weights, tests, explored>>
      /\ callers = <<>> =>
           /\ stack' = <<>>
           /\ solution' = Solution(call.best.cost, call.best.node, Weight(Initial),
                                   Weight(Initial) + MinResidualWeight(Initial),
                                   Cardinality(DOMAIN memo'))
      /\ callers # <<>> => /\ stack' = Replaced(callers, Answered(Last(callers), call.best))
                           /\ solution' = solution
  BY DEF ReturnBest, IsExhausted, IsBetweenTests, Extended
<1>2. /\ StackSound(weights, tests, memo, stack) /\ MemoSound(weights, tests, memo)
      /\ solution = <<>>
  BY DEF SInv, SearchInv
<1>3. /\ StackSound(weights, tests, e, callers) /\ R \notin DOMAIN memo
      /\ callers # <<>> => /\ CallSound(weights, tests, e, Last(callers))
                           /\ Last(callers).trying /\ Last(callers).todo # {}
                           /\ NextPart(tests, Last(callers)) = R
  BY <1>1, <1>2, CallIsPopped
<1>4. CallSound(weights, tests, memo, call) /\ CallTrees(weights, tests, memo, call)
  BY <1>1, TopIsSound, TopTrees
<1>5. AnswerSound(weights, tests, e, R, call.best)
  <2>1. AnswerSound(weights, tests, memo, R, call.best)
    BY <1>1, <1>4 DEF CallTrees
  <2> HIDE DEF call, R
  <2> QED BY <1>3, <2>1, AnswerStays DEF e
<1>6. DOMAIN e = DOMAIN memo \cup {R} /\ \A S \in DOMAIN e : e[S] = IF S = R THEN call.best ELSE memo[S]
  BY DEF Extended
<1>7. \A S \in DOMAIN e : AnswerSound(weights, tests, e, S, e[S])
  <2> SUFFICES ASSUME NEW S \in DOMAIN e
               PROVE  AnswerSound(weights, tests, e, S, e[S])
    OBVIOUS
  <2>1. CASE S = R
    <3> HIDE DEF e
    <3> QED BY <1>5, <1>6, <2>1
  <2>2. CASE S # R
    <3>1. S \in DOMAIN memo /\ e[S] = memo[S]
      BY <1>6, <2>2
    <3>2. AnswerSound(weights, tests, memo, S, memo[S])
      BY <3>1 DEF TInv, TreeInv
    <3> DEFINE a == memo[S]
    <3>3. AnswerSound(weights, tests, e, S, a)
      <4> HIDE DEF call, R
      <4> QED BY <1>3, <3>2, AnswerStays DEF e
    <3> HIDE DEF e
    <3> QED BY <3>1, <3>3
  <2> QED BY <2>1, <2>2
<1>8. IsStack(stack) /\ n \in Nat \ {0} /\ Len(callers) = n - 1
      /\ \A k \in 1..(n - 1) : callers[k] = stack[k]
  BY <1>1, <1>2, StackPopped, StackTop DEF StackSound
<1>9. StackTrees(weights, tests, e, callers)
  <2> SUFFICES ASSUME NEW k \in 1..(n - 1)
               PROVE  CallTrees(weights, tests, e, callers[k])
    <3> HIDE DEF callers, e, n
    <3> QED BY <1>8 DEF StackTrees
  <2>1. k \in 1..n /\ callers[k] = stack[k]
    BY <1>8
  <2> DEFINE c == stack[k]
  <2>2. CallSound(weights, tests, memo, c) /\ CallTrees(weights, tests, memo, c)
    BY <1>2, <2>1 DEF StackSound, TInv, TreeInv
  <2>3. CallTrees(weights, tests, e, c)
    <3> HIDE DEF c, call, R
    <3> QED BY <1>3, <2>2, TreesStay DEF e
  <2> QED BY <2>1, <2>3
<1>10. phase \notin {"cook", "actions", "matrix"}
  OBVIOUS
<1>11. CASE callers = <<>>
  <2>1. stack' = <<>> /\ solution' # <<>> /\ solution'.root = call.best.node
        /\ solution'.cost = call.best.cost
    <3>1. solution' = Solution(call.best.cost, call.best.node, Weight(Initial),
                               Weight(Initial) + MinResidualWeight(Initial),
                               Cardinality(DOMAIN memo'))
      BY <1>1, <1>11
    <3> DEFINE root == call.best.node
               cost == call.best.cost
               bound == Weight(Initial) + MinResidualWeight(Initial)
               total == Weight(Initial)
               states == Cardinality(DOMAIN memo')
    <3>2. solution' = Solution(cost, root, total, bound, states)
      BY <3>1
    <3> HIDE DEF root, cost, bound, total, states
    <3>3. Solution(cost, root, total, bound, states).root = root
      BY DEF Solution
    <3>4. solution' # <<>> /\ solution'.root = root /\ solution'.cost = cost
      BY <3>2, <3>3, SolutionIsSome
    <3> QED BY <1>1, <1>11, <3>4 DEF root, cost
  <2>2. phase' = "solved"
    BY <2>1 DEF Become
  <2>3. R = Whole(weights) /\ R # {}
    <3>1. n = 1
      <4>1. IsStack(callers)
        BY <1>3 DEF StackSound
      <4>2. Len(callers) = 0
        BY <1>11, <4>1, StackTop
      <4> QED BY <1>8, <4>2
    <3>2. Last(stack) = stack[n] /\ n \in 1..n
      BY <1>1, <1>8, StackTop
    <3> QED BY <1>2, <1>4, <3>1, <3>2 DEF StackSound, CallSound
  <2>4. RootSound(weights, e, solution')
    <3>1. R \in DOMAIN e /\ e[R] = call.best
      BY <1>6
    <3> HIDE DEF e, R
    <3> QED BY <2>1, <2>3, <3>1 DEF RootSound
  <2>5. \A k \in 1..Len(<<>>) : CallTrees(weights, tests, e, <<>>[k])
    OBVIOUS
  <2> HIDE DEF e
  <2>6. TreeInv(weights, tests, e, <<>>, solution', "solved")
    BY <1>7, <2>1, <2>4, <2>5 DEF TreeInv
  <2> QED BY <1>1, <2>1, <2>2, <2>6 DEF TInv
<1>12. CASE callers # <<>>
  <2> DEFINE top == Last(callers)
             d == Answered(top, e[R])
             r == Replaced(callers, d)
  <2>1. stack' = r /\ solution' = <<>>
    BY <1>1, <1>2, <1>6, <1>12
  <2>2. phase' = "solve"
    BY <2>1 DEF Become
  <2>3. IsStack(callers)
    BY <1>3 DEF StackSound
  <2>4. CallTrees(weights, tests, e, top)
    <3>1. Len(callers) \in 1..Len(callers) /\ top = callers[Len(callers)]
      BY <1>12, <2>3, StackTop
    <3> HIDE DEF callers, e
    <3> QED BY <1>9, <3>1 DEF StackTrees
  <2>5. MemoSound(weights, tests, e)
    <3> HIDE DEF call
    <3>1. call.test = Len(tests)
      BY DEF ReturnBest, IsExhausted, call
    <3> QED BY <1>1, <1>2, <1>3, <1>4, <3>1, MemoLearns
  <2>6. CallTrees(weights, tests, e, d)
    <3>1. CallSound(weights, tests, e, top) /\ top.trying /\ top.todo # {} /\ NextPart(tests, top) = R
      BY <1>3, <1>12
    <3> HIDE DEF top, e, R
    <3>2. CallTrees(weights, tests, e, Answered(top, e[NextPart(tests, top)]))
      BY <2>4, <2>5, <3>1, TreesAnswered
    <3> QED BY <3>1, <3>2
  <2> HIDE DEF d, e
  <2>7. StackTrees(weights, tests, e, r)
    <3> HIDE DEF callers
    <3> QED BY <1>9, <1>12, <2>3, <2>6, TreesReplaced
  <2> HIDE DEF r
  <2>8. TreeInv(weights, tests, e, r, <<>>, "solve")
    BY <1>7, <2>7 DEF TreeInv, StackTrees
  <2> QED BY <1>1, <2>1, <2>2, <2>8 DEF TInv
<1> QED BY <1>11, <1>12

\* There is no tree at the call.
LEMMA TreesInit ==
  ASSUME Init
  PROVE  TInv
<1>1. /\ memo = <<>> /\ stack = <<>> /\ solution = <<>>
      /\ (phase = "cook" /\ weights = <<>>) \/ phase = "solve"
  BY DEF Init, InitCook, InitSolve
<1>2. DOMAIN memo = {} /\ Len(stack) = 0
  BY <1>1
<1> QED BY <1>1, <1>2 DEF TInv, TreeInv

\* The first call keeps them right.
LEMMA StartTreesKeep ==
  ASSUME SInv, TInv, StartSolve
  PROVE  TInv'
<1>1. /\ phase = "solve" /\ UNCHANGED <<weights, tests, memo>>
  BY DEF StartSolve, StartSearch, SolveNothing
<1>2. CASE StartSearch
  <2> DEFINE c == Call(Initial)
             r == <<c>>
  <2>1. stack' = r /\ solution' = solution
    BY <1>2 DEF StartSearch
  <2>2. solution = <<>>
    BY <1>1 DEF SInv, SearchInv
  <2>3. phase' = "solve"
    BY <2>1, <2>2 DEF StartSolve, Become
  <2>4. CallTrees(weights, tests, memo, c)
    BY TreesBegin
  <2> HIDE DEF c
  <2>5. Len(r) = 1 /\ r[1] = c
    OBVIOUS
  <2> HIDE DEF r
  <2>6. TreeInv(weights, tests, memo, r, <<>>, "solve")
    BY <2>4, <2>5 DEF TInv, TreeInv
  <2> QED BY <1>1, <2>1, <2>2, <2>3, <2>6 DEF TInv
<1>3. CASE SolveNothing
  <2> DEFINE zero == 0
             none == <<>>
             sol == Solution(zero, none, zero, zero, zero)
  <2>1. Initial = {} /\ stack' = stack /\ solution' = sol
    BY <1>3 DEF SolveNothing
  <2> HIDE DEF zero, none
  <2>2. sol # <<>> /\ sol.root = none /\ sol.cost = zero
    BY SolutionIsSome DEF Solution
  <2> HIDE DEF sol
  <2>3. phase' = "solved"
    BY <2>1, <2>2 DEF StartSolve, Become
  <2>4. RootSound(weights, memo, sol)
    BY <2>1, <2>2, InitialIsWhole DEF RootSound, zero, none
  <2>5. TreeInv(weights, tests, memo, stack, sol, "solved")
    BY <1>1, <2>2, <2>4 DEF TInv, TreeInv
  <2> QED BY <1>1, <2>1, <2>3, <2>5 DEF TInv
<1> QED BY <1>2, <1>3 DEF StartSolve

\* Every step keeps them right.
LEMMA TreesStep ==
  ASSUME TestsTyped, SInv, TInv, [Next]_vars
  PROVE  TInv'
<1>0. Table(weights, tests)
  BY DEF TestsTyped, Table
<1>1. CASE CookNothing
  <2> DEFINE zero == 0
             none == <<>>
             sol == Solution(zero, none, zero, zero, zero)
  <2>1. phase = "cook" /\ phase' = "cooked" /\ UNCHANGED <<weights, tests, memo, stack>>
        /\ solution' = sol
    BY <1>1 DEF CookNothing, Become
  <2> HIDE DEF zero, none
  <2>2. sol # <<>> /\ sol.root = none /\ sol.cost = zero
    BY SolutionIsSome DEF Solution
  <2> HIDE DEF sol
  <2>3. weights = <<>>
    BY <2>1 DEF TInv, TreeInv
  <2>4. Whole(weights) = {}
    BY <2>3 DEF Whole
  <2>5. RootSound(weights, memo, sol)
    BY <2>2, <2>4 DEF RootSound, zero, none
  <2>6. TreeInv(weights, tests, memo, stack, sol, "cooked")
    BY <2>2, <2>5 DEF TInv, TreeInv
  <2> QED BY <2>1, <2>6 DEF TInv
<1>2. CASE BeginActions \/ Generate
  <2>1. phase \in {"cook", "actions"} /\ phase' \in {"actions", "matrix"} /\ UNCHANGED searchVars
    BY <1>2 DEF BeginActions, Generate, Become
  <2> QED BY <2>1 DEF TInv, TreeInv, searchVars
<1>3. CASE NoActions \/ MixedScales \/ EmptyTests \/ Unseparable
  <2>1. phase' \in {"unseparable", "mixed_scales", "empty_tests"} /\ UNCHANGED searchVars
    BY <1>3 DEF NoActions, MixedScales, EmptyTests, Unseparable, Become
  <2> QED BY <2>1 DEF TInv, TreeInv, searchVars
<1>4. CASE Tabulate
  <2>1. phase = "matrix" /\ phase' = "solve" /\ UNCHANGED <<memo, stack, solution>>
    BY <1>4 DEF Tabulate, Become
  <2>2. DOMAIN memo = {} /\ stack = <<>> /\ solution = <<>> /\ Len(<<>>) = 0
    BY <2>1 DEF SInv, SearchInv
  <2> QED BY <2>1, <2>2 DEF TInv, TreeInv
<1>5. CASE StartSolve
  BY <1>5, StartTreesKeep
<1>6. CASE Solve
  <2>1. /\ phase = "solve" /\ Become(IF solution' = <<>> THEN "solve" ELSE "solved")
        /\ SkipTest \/ TryTest \/ HitMemo \/ Explore \/ JudgeTest \/ ReturnBest
    BY <1>6 DEF Solve
  <2> QED BY <1>0, <2>1, SolveTreesKeep, ExploreTreesKeep, ReturnTreesKeep
<1>7. CASE BeginMaterialize \/ MaterializeNode
  <2>1. phase \in {"solved", "materialize"} /\ phase' = "materialize" /\ UNCHANGED searchVars
    BY <1>7 DEF BeginMaterialize, MaterializeNode
  <2> QED BY <2>1 DEF TInv, TreeInv, searchVars
<1>8. CASE ValidateScheme
  <2>1. phase = "materialize" /\ phase' \in {"cooked", "invalid"} /\ UNCHANGED searchVars
    BY <1>8 DEF ValidateScheme, Become
  <2> QED BY <2>1 DEF TInv, TreeInv, searchVars
<1>9. CASE UNCHANGED vars
  <2>1. UNCHANGED <<searchVars, phase>>
    BY <1>9 DEF vars, buildVars
  <2> QED BY <2>1 DEF TInv, searchVars
<1> QED BY <1>1, <1>2, <1>3, <1>4, <1>5, <1>6, <1>7, <1>8, <1>9 DEF Next

\* The memo has a tree for each of its states, made of the trees of smaller ones, and its
\* cost is that of the tree.
THEOREM TreesAreSound == Spec => []TInv
<1>1. Init => TInv
  BY TreesInit
<1>2. TestsTyped /\ SInv /\ TInv /\ [Next]_vars => TInv'
  BY TreesStep
<1>3. Spec => []SInv
  BY TablesAreTyped, SearchInvariant, PTL
<1> QED BY <1>1, <1>2, <1>3, TablesAreTyped, PTL DEF Spec

-----------------------------------------------------------------------------
(* The nodes that are written down.  The k-th of them has a state g[k]: it *)
(* is the node of the tree that the memo has for this state.               *)

TestOf(m, S) == m[S].node.test_id
AtomsAt(ts, m, S) == Values(ts, TestOf(m, S), S)
KidAt(ts, m, S, v) == Part(ts, TestOf(m, S), S, v)

\* The k-th node has the bundle of its test.
NodeSound(m, bs, pb, S, nd) ==
  /\ nd = Node(Chosen(pb, bs[TestOf(m, S)].selected), nd.branches, None)
  /\ IsList(nd.branches)

\* A branch of the k-th of n nodes leads to a later one, which has the state of the branch.
LinkSound(ts, m, g, n, k, b) ==
  /\ b = <<b[1], b[2]>>
  /\ b[1] \in AtomsAt(ts, m, g[k])
  /\ b[2] \in k..(n - 1)
  /\ g[b[2] + 1] = KidAt(ts, m, g[k], b[1])

LinksSound(ts, m, g, n, k, br) ==
  /\ \A j \in 1..Len(br) : LinkSound(ts, m, g, n, k, br[j])
  /\ \A i, j \in 1..Len(br) : i < j => br[i][1] < br[j][1]

NodesSound(ts, m, bs, pb, ns, g) ==
  /\ IsList(ns) /\ IsList(g) /\ Len(g) = Len(ns)
  /\ \A k \in 1..Len(ns) : /\ g[k] \in DOMAIN m
                           /\ NodeSound(m, bs, pb, g[k], ns[k])
                           /\ LinksSound(ts, m, g, Len(ns), k, ns[k].branches)

\* A call to come is for the first node, or for a branch that its caller does not have yet
\* and that is greater than those it has.
BranchToCome(ts, m, ns, g, p) ==
  LET k == p.parent + 1 IN
  /\ p.parent \in 0..(Len(ns) - 1)
  /\ p.atom \in AtomsAt(ts, m, g[k])
  /\ p.tree = m[KidAt(ts, m, g[k], p.atom)].node
  /\ \A j \in 1..Len(ns[k].branches) : ns[k].branches[j][1] < p.atom

RootToCome(ws, m, ns, pd, p) ==
  /\ ns = <<>> /\ Len(pd) = 1
  /\ Whole(ws) \in DOMAIN m /\ p.tree = m[Whole(ws)].node

PendingSound(ws, ts, m, ns, pd, g) ==
  /\ IsList(pd)
  /\ \A k \in 1..Len(pd) : /\ pd[k].parent = None => RootToCome(ws, m, ns, pd, pd[k])
                           /\ pd[k].parent # None => BranchToCome(ts, m, ns, g, pd[k])
  /\ \A i, j \in 1..Len(pd) : i < j /\ pd[i].parent = pd[j].parent => pd[i].atom < pd[j].atom

\* The first node is for the whole problem, and a branch leads to each of the others.
RootedSound(ws, ns, pd, g) ==
  /\ ns # <<>> => g[1] = Whole(ws)
  /\ ns = <<>> /\ Whole(ws) # {} => pd # <<>>
  /\ \A k \in 2..Len(ns) : \E h \in 1..(k - 1) :
       \E j \in 1..Len(ns[h].branches) : ns[h].branches[j][2] = k - 1

\* Every value that a test leaves has its branch, or will have one.
HasBranch(ns, k, v) == \E j \in 1..Len(ns[k].branches) : ns[k].branches[j][1] = v
WillHaveBranch(pd, k, v) == \E j \in 1..Len(pd) : pd[j].parent = k - 1 /\ pd[j].atom = v
BranchesComplete(ts, m, ns, pd, g) ==
  \A k \in 1..Len(ns) : \A v \in AtomsAt(ts, m, g[k]) :
    HasBranch(ns, k, v) \/ WillHaveBranch(pd, k, v)

WritingSound(ws, ts, m, bs, pb, ns, pd, g) ==
  /\ NodesSound(ts, m, bs, pb, ns, g)
  /\ PendingSound(ws, ts, m, ns, pd, g)
  /\ RootedSound(ws, ns, pd, g)
  /\ BranchesComplete(ts, m, ns, pd, g)

\* The table of the generated actions.
IsTabulated(ws, ts, pr, pb, bs) ==
  /\ ws = [s \in DOMAIN pr |-> pr[s].units]
  /\ ts = [b \in DOMAIN bs |-> BundleOutcomes(pr, pb, bs[b].selected)]

\* The invariant of the scheme.
WriteInv(ws, ts, m, pr, bs, pb, ns, pd, ph) ==
  /\ ph # "invalid"
  /\ ph \in {"cook", "actions", "matrix", "solve", "solved"} => ns = <<>> /\ pd = <<>>
  /\ bs # <<>> /\ ph \in {"solve", "solved", "materialize", "cooked"} => IsTabulated(ws, ts, pr, pb, bs)
  /\ ph = "materialize" => bs # <<>>
  /\ ph = "cooked" => pd = <<>> /\ (bs = <<>> => pr = <<>> /\ ns = <<>>)
  /\ bs # <<>> /\ ph \in {"materialize", "cooked"} =>
       \E g : WritingSound(ws, ts, m, bs, pb, ns, pd, g)

WInv == WriteInv(weights, tests, memo, prior, bundles, probes, nodes, pending, phase)

-----------------------------------------------------------------------------
(* One more node.                                                          *)

\* The calls for the branches of a state's tree, in order of their atoms.
KidsToCome(ts, m, S, id, q, kids) ==
  /\ IsSortedList(q, AtomsAt(ts, m, S), Smaller(AtomsAt(ts, m, S)))
  /\ IsList(kids) /\ Len(kids) = Len(q)
  /\ \A k \in 1..Len(q) : kids[k] = Writing(m[KidAt(ts, m, S, q[k])].node, id, q[k])

\* Subtrees gives the calls for the branches.
LEMMA SubtreesAreKids ==
  ASSUME Table(weights, tests), NEW m, MemoSound(weights, tests, m), NEW S \in DOMAIN m,
         AnswerSound(weights, tests, m, S, m[S]), NEW id
  PROVE  \E q : KidsToCome(tests, m, S, id, q, Subtrees(m[S].node, id))
<1> DEFINE tree == m[S].node
           t == TestOf(m, S)
           V == AtomsAt(tests, m, S)
           branches == tree.residual_branches
           q == Ordered(DOMAIN branches, <)
           kids == Subtrees(tree, id)
<1>1. /\ t \in DOMAIN tests
      /\ Solved(tests, m, t, S, V)
      /\ tree = TreeNode(t, Subnodes(tests, m, t, S, V))
  <2>1. DOMAIN tests = 1..Len(tests)
    BY DEF Table
  <2> QED BY <2>1 DEF AnswerSound, TestOf, AtomsAt
<1>2. branches = Subnodes(tests, m, t, S, V)
  BY <1>1 DEF TreeNode
<1>3. DOMAIN branches = V /\ \A v \in V : branches[v] = m[KidAt(tests, m, S, v)].node
  BY <1>2 DEF Subnodes, KidAt
<1>4. V \in SUBSET Nat /\ IsFiniteSet(V)
  <2>1. S \in SUBSET Whole(weights)
    BY DEF MemoSound
  <2> QED BY <1>1, <2>1, StatesAreFinite DEF AtomsAt
<1>5. V \in SUBSET Int
  BY <1>4
<1>6. kids = [k \in DOMAIN q |-> Writing(branches[q[k]], id, q[k])]
  BY DEF Subtrees
<1>7. q = Ordered(V, <)
  BY <1>3
<1> HIDE DEF q, V, kids, tree, branches
<1>8. IsSortedList(q, V, Smaller(V))
  BY <1>4, <1>5, <1>7, OrderedNumbers
<1>9. DOMAIN q = 1..Len(q) /\ Len(q) \in Nat /\ \A k \in 1..Len(q) : q[k] \in V
  BY <1>8 DEF IsSortedList
<1>10. kids = [k \in 1..Len(q) |-> kids[k]]
       /\ \A k \in 1..Len(q) : kids[k] = Writing(m[KidAt(tests, m, S, q[k])].node, id, q[k])
  BY <1>3, <1>6, <1>9
<1>11. IsList(kids) /\ Len(kids) = Len(q)
  <2> DEFINE T == {kids[k] : k \in 1..Len(q)}
  <2>1. kids \in Seq(T) /\ Len(kids) = Len(q)
    BY <1>9, <1>10
  <2> QED BY <2>1, ListDef
<1>12. KidsToCome(tests, m, S, id, q, kids)
  BY <1>8, <1>10, <1>11 DEF KidsToCome, V
<1> QED BY <1>12 DEF kids, tree

\* What a call of materialize_node makes of the nodes ns and the calls pd to come: the
\* node of the state S, and a branch to it at its parent.
IsLinked(ns, ln, p, n) ==
  /\ IsList(ln) /\ Len(ln) = n
  /\ \A k \in 1..n : ln[k] = Node(ns[k].action, ln[k].branches, ns[k].default_child)
  /\ \A k \in 1..n : p.parent # k - 1 => ln[k].branches = ns[k].branches
  /\ \A k \in 1..n : p.parent = k - 1 => ln[k].branches = Append(ns[k].branches, <<p.atom, n>>)

OneMore(ws, ts, m, bs, pb, ns, pd, g, S, ln, ns2, pd2, g2, kids, q, n) ==
  /\ n = Len(ns) /\ n \in Nat
  /\ S \in DOMAIN m
  /\ pd[1].parent = None => S = Whole(ws)
  /\ pd[1].parent # None => S = KidAt(ts, m, g[pd[1].parent + 1], pd[1].atom)
  /\ IsLinked(ns, ln, pd[1], n)
  /\ IsList(ns2) /\ Len(ns2) = n + 1
  /\ \A k \in 1..n : ns2[k] = ln[k]
  /\ ns2[n + 1] = Node(Chosen(pb, bs[TestOf(m, S)].selected), <<>>, None)
  /\ IsList(g2) /\ Len(g2) = n + 1 /\ g2[n + 1] = S
  /\ \A k \in 1..n : g2[k] = g[k]
  /\ KidsToCome(ts, m, S, n, q, kids)
  /\ Len(q) \in Nat /\ Len(pd) \in Nat \ {0}
  /\ IsList(pd2) /\ Len(pd2) = Len(q) + (Len(pd) - 1)
  /\ \A k \in 1..Len(q) : pd2[k] = kids[k]
  /\ \A k \in 2..Len(pd) : pd2[Len(q) + (k - 1)] = pd[k]

\* Where an entry of the new list of calls comes from.
LEMMA WhereFrom ==
  ASSUME NEW ws, NEW ts, NEW m, NEW bs, NEW pb, NEW ns, NEW pd, NEW g, NEW S, NEW ln,
         NEW ns2, NEW pd2, NEW g2, NEW kids, NEW q, NEW n,
         OneMore(ws, ts, m, bs, pb, ns, pd, g, S, ln, ns2, pd2, g2, kids, q, n),
         NEW j \in 1..Len(pd2), j > Len(q)
  PROVE  \E k \in 2..Len(pd) : j = Len(q) + (k - 1) /\ pd2[j] = pd[k]
<1>1. /\ Len(q) \in Nat /\ Len(pd) \in Nat \ {0} /\ Len(pd2) = Len(q) + (Len(pd) - 1)
      /\ \A k \in 2..Len(pd) : pd2[Len(q) + (k - 1)] = pd[k]
  BY DEF OneMore
<1>2. j - Len(q) + 1 \in 2..Len(pd) /\ j = Len(q) + ((j - Len(q) + 1) - 1)
  BY <1>1
<1> QED BY <1>1, <1>2

\* The branches of a node that was there stay sound.
LEMMA OldLinksStay ==
  ASSUME NEW ws, NEW ts, NEW m, NEW bs, NEW pb, NEW ns, NEW pd, NEW g, NEW S, NEW ln,
         NEW ns2, NEW pd2, NEW g2, NEW kids, NEW q, NEW n,
         OneMore(ws, ts, m, bs, pb, ns, pd, g, S, ln, ns2, pd2, g2, kids, q, n),
         NEW k \in 1..n, LinksSound(ts, m, g, n, k, ns[k].branches)
  PROVE  LinksSound(ts, m, g2, n + 1, k, ns[k].branches)
<1> DEFINE br == ns[k].branches
<1>1. n \in Nat /\ \A i \in 1..n : g2[i] = g[i]
  BY DEF OneMore
<1>2. ASSUME NEW j \in 1..Len(br)
      PROVE  LinkSound(ts, m, g2, n + 1, k, br[j])
  <2> DEFINE b == br[j]
  <2>1. LinkSound(ts, m, g, n, k, b)
    BY DEF LinksSound
  <2> HIDE DEF b
  <2>2. b[2] \in k..(n - 1) /\ b[2] \in k..((n + 1) - 1) /\ b[2] + 1 \in 1..n
    BY <1>1, <2>1 DEF LinkSound
  <2>3. g2[k] = g[k] /\ g2[b[2] + 1] = g[b[2] + 1]
    BY <1>1, <2>2
  <2>4. LinkSound(ts, m, g2, n + 1, k, b)
    BY <2>1, <2>2, <2>3 DEF LinkSound
  <2> QED BY <2>4 DEF b
<1> QED BY <1>2 DEF LinksSound

\* And with one more branch, to the new node.
LEMMA NewLinkIsSound ==
  ASSUME NEW ws, NEW ts, NEW m, NEW bs, NEW pb, NEW ns, NEW pd, NEW g, NEW S, NEW ln,
         NEW ns2, NEW pd2, NEW g2, NEW kids, NEW q, NEW n,
         OneMore(ws, ts, m, bs, pb, ns, pd, g, S, ln, ns2, pd2, g2, kids, q, n),
         NEW k \in 1..n, LinksSound(ts, m, g, n, k, ns[k].branches),
         IsList(ns[k].branches),
         pd[1].parent = k - 1, BranchToCome(ts, m, ns, g, pd[1]), pd[1].parent # None
  PROVE  LinksSound(ts, m, g2, n + 1, k, Append(ns[k].branches, <<pd[1].atom, n>>))
<1> DEFINE br == ns[k].branches
           b == <<pd[1].atom, n>>
           r == Append(br, b)
           l == Len(br)
<1>1. /\ n \in Nat /\ (\A i \in 1..n : g2[i] = g[i]) /\ g2[n + 1] = S
      /\ S = KidAt(ts, m, g[pd[1].parent + 1], pd[1].atom)
  BY DEF OneMore
<1>2. pd[1].parent + 1 = k
  OBVIOUS
<1>3. /\ pd[1].atom \in AtomsAt(ts, m, g[k])
      /\ \A j \in 1..l : br[j][1] < pd[1].atom
  BY <1>2 DEF BranchToCome
<1>4. LinksSound(ts, m, g2, n + 1, k, br)
  BY OldLinksStay
<1>5. LinkSound(ts, m, g2, n + 1, k, b)
  <2>1. b[1] = pd[1].atom /\ b[2] = n
    OBVIOUS
  <2>2. b = <<b[1], b[2]>>
    OBVIOUS
  <2> HIDE DEF b
  <2>3. n \in k..((n + 1) - 1) /\ g2[k] = g[k]
    BY <1>1
  <2> QED BY <1>1, <1>2, <1>3, <2>1, <2>2, <2>3 DEF LinkSound
<1>6. b[1] = pd[1].atom
  OBVIOUS
<1> HIDE DEF b
<1>7. Len(r) = l + 1 /\ l \in Nat /\ r[l + 1] = b /\ \A j \in 1..l : r[j] = br[j]
  BY ListAppend, ListDef
<1> HIDE DEF r, l
<1>8. \A j \in 1..l : LinkSound(ts, m, g2, n + 1, k, r[j])
  BY <1>4, <1>7 DEF LinksSound, l
<1>9. \A j \in 1..Len(r) : LinkSound(ts, m, g2, n + 1, k, r[j])
  BY <1>5, <1>7, <1>8
<1>10. ASSUME NEW i \in 1..Len(r), NEW j \in 1..Len(r), i < j
       PROVE  r[i][1] < r[j][1]
  <2>1. i \in 1..l /\ r[i] = br[i]
    BY <1>7, <1>10
  <2>2. CASE j = l + 1
    BY <1>3, <1>6, <1>7, <2>1, <2>2
  <2>3. CASE j # l + 1
    <3>1. j \in 1..l /\ r[j] = br[j]
      BY <1>7, <2>3
    <3> QED BY <1>4, <1>10, <2>1, <3>1 DEF LinksSound, l
  <2> QED BY <2>2, <2>3
<1> QED BY <1>9, <1>10 DEF LinksSound, r, b

\* The nodes stay sound when one is written down.
LEMMA NodesStaySound ==
  ASSUME NEW ws, NEW ts, NEW m, NEW bs, NEW pb, NEW ns, NEW pd, NEW g, NEW S, NEW ln,
         NEW ns2, NEW pd2, NEW g2, NEW kids, NEW q, NEW n,
         OneMore(ws, ts, m, bs, pb, ns, pd, g, S, ln, ns2, pd2, g2, kids, q, n),
         NodesSound(ts, m, bs, pb, ns, g), PendingSound(ws, ts, m, ns, pd, g)
  PROVE  NodesSound(ts, m, bs, pb, ns2, g2)
<1>1. /\ n = Len(ns) /\ n \in Nat /\ S \in DOMAIN m
      /\ IsLinked(ns, ln, pd[1], n)
      /\ IsList(ns2) /\ Len(ns2) = n + 1 /\ (\A k \in 1..n : ns2[k] = ln[k])
      /\ ns2[n + 1] = Node(Chosen(pb, bs[TestOf(m, S)].selected), <<>>, None)
      /\ IsList(g2) /\ Len(g2) = n + 1 /\ g2[n + 1] = S /\ (\A k \in 1..n : g2[k] = g[k])
      /\ 1 \in 1..Len(pd)
  BY DEF OneMore
<1>2. ASSUME NEW k \in 1..n
      PROVE  /\ g2[k] \in DOMAIN m /\ NodeSound(m, bs, pb, g2[k], ns2[k])
             /\ LinksSound(ts, m, g2, n + 1, k, ns2[k].branches)
  <2> DEFINE nd == ns[k]
             ld == ln[k]
             action == Chosen(pb, bs[TestOf(m, g[k])].selected)
  <2>1. /\ g[k] \in DOMAIN m /\ NodeSound(m, bs, pb, g[k], nd)
        /\ LinksSound(ts, m, g, n, k, nd.branches)
    BY <1>1 DEF NodesSound
  <2> HIDE DEF action
  <2>2. nd.action = action /\ nd.default_child = None /\ IsList(nd.branches)
    <3>1. nd = Node(action, nd.branches, None) /\ IsList(nd.branches)
      BY <2>1 DEF NodeSound, action
    <3> QED BY <3>1 DEF Node
  <2>3. ld = Node(nd.action, ld.branches, nd.default_child)
    BY <1>1 DEF IsLinked
  <2>4. IsList(ld.branches) /\ LinksSound(ts, m, g2, n + 1, k, ld.branches)
    <3>1. CASE pd[1].parent # k - 1
      <4>1. ld.branches = nd.branches
        BY <1>1, <3>1 DEF IsLinked
      <4>2. LinksSound(ts, m, g2, n + 1, k, nd.branches)
        BY <2>1, OldLinksStay
      <4> QED BY <2>2, <4>1, <4>2
    <3>2. CASE pd[1].parent = k - 1
      <4>1. ld.branches = Append(nd.branches, <<pd[1].atom, n>>)
        BY <1>1, <3>2 DEF IsLinked
      <4>2. pd[1].parent # None
        BY <1>1, <3>2, NoneAssumption
      <4>3. BranchToCome(ts, m, ns, g, pd[1])
        BY <1>1, <4>2 DEF PendingSound
      <4>4. LinksSound(ts, m, g2, n + 1, k, Append(nd.branches, <<pd[1].atom, n>>))
        BY <2>1, <2>2, <3>2, <4>2, <4>3, NewLinkIsSound
      <4>5. IsList(Append(nd.branches, <<pd[1].atom, n>>))
        BY <2>2, ListAppend
      <4> QED BY <4>1, <4>4, <4>5
    <3> QED BY <3>1, <3>2
  <2> HIDE DEF nd, ld
  <2>5. ld = Node(action, ld.branches, None)
    BY <2>2, <2>3
  <2>6. NodeSound(m, bs, pb, g[k], ld)
    BY <2>4, <2>5 DEF NodeSound, action
  <2>7. ns2[k] = ld /\ g2[k] = g[k]
    BY <1>1 DEF ld
  <2> QED BY <2>1, <2>4, <2>6, <2>7
<1>3. NodeSound(m, bs, pb, S, ns2[n + 1]) /\ LinksSound(ts, m, g2, n + 1, n + 1, ns2[n + 1].branches)
  <2> DEFINE action == Chosen(pb, bs[TestOf(m, S)].selected)
             br == <<>>
             nd == Node(action, br, None)
  <2>1. nd.branches = br /\ nd = Node(action, nd.branches, None)
    BY DEF Node
  <2>2. IsList(br) /\ Len(br) = 0
    <3>1. br \in Seq({1}) /\ Len(br) = 0
      OBVIOUS
    <3> QED BY <3>1, ListDef
  <2>3. ns2[n + 1] = nd
    BY <1>1
  <2> HIDE DEF nd, br
  <2>4. NodeSound(m, bs, pb, S, nd)
    BY <2>1, <2>2 DEF NodeSound
  <2>5. LinksSound(ts, m, g2, n + 1, n + 1, br)
    BY <2>2 DEF LinksSound
  <2> QED BY <2>1, <2>3, <2>4, <2>5
<1>4. \A k \in 1..(n + 1) : /\ g2[k] \in DOMAIN m /\ NodeSound(m, bs, pb, g2[k], ns2[k])
                            /\ LinksSound(ts, m, g2, n + 1, k, ns2[k].branches)
  <2> SUFFICES ASSUME NEW k \in 1..(n + 1)
               PROVE  /\ g2[k] \in DOMAIN m /\ NodeSound(m, bs, pb, g2[k], ns2[k])
                      /\ LinksSound(ts, m, g2, n + 1, k, ns2[k].branches)
    OBVIOUS
  <2>1. CASE k \in 1..n
    BY <1>2, <2>1
  <2>2. CASE k = n + 1
    BY <1>1, <1>3, <2>2
  <2> QED BY <1>1, <2>1, <2>2
<1> QED BY <1>1, <1>4 DEF NodesSound

\* The branches of a node, before and after: the parent gets one more.
BranchesKept(ns, ns2, pd, n, k) ==
  /\ \A j \in 1..Len(ns[k].branches) : /\ j \in 1..Len(ns2[k].branches)
                                       /\ ns2[k].branches[j] = ns[k].branches[j]
  /\ pd[1].parent # k - 1 => ns2[k].branches = ns[k].branches
  /\ pd[1].parent = k - 1 =>
       /\ Len(ns2[k].branches) = Len(ns[k].branches) + 1
       /\ Len(ns[k].branches) \in Nat
       /\ ns2[k].branches[Len(ns[k].branches) + 1] = <<pd[1].atom, n>>

\* The branches that a node has stay where they are, and the parent gets one more.
LEMMA BranchesStay ==
  ASSUME NEW ws, NEW ts, NEW m, NEW bs, NEW pb, NEW ns, NEW pd, NEW g, NEW S, NEW ln,
         NEW ns2, NEW pd2, NEW g2, NEW kids, NEW q, NEW n,
         OneMore(ws, ts, m, bs, pb, ns, pd, g, S, ln, ns2, pd2, g2, kids, q, n),
         NodesSound(ts, m, bs, pb, ns, g), NEW k \in 1..n
  PROVE  BranchesKept(ns, ns2, pd, n, k)
<1> DEFINE br == ns[k].branches
           r == ns2[k].branches
           b == <<pd[1].atom, n>>
<1>1. /\ pd[1].parent # k - 1 => r = br
      /\ pd[1].parent = k - 1 => r = Append(br, b)
  <2>1. ns2[k] = ln[k] /\ IsLinked(ns, ln, pd[1], n)
    BY DEF OneMore
  <2> QED BY <2>1 DEF IsLinked
<1>2. IsList(br)
  <2>1. n = Len(ns)
    BY DEF OneMore
  <2> QED BY <2>1 DEF NodesSound, NodeSound
<1> HIDE DEF br, r, b
<1>3. Len(br) \in Nat
  BY <1>2, ListDef
<1>4. pd[1].parent = k - 1 => /\ Len(r) = Len(br) + 1 /\ r[Len(br) + 1] = b
                              /\ \A j \in 1..Len(br) : r[j] = br[j]
  BY <1>1, <1>2, ListAppend
<1>5. \A j \in 1..Len(br) : j \in 1..Len(r) /\ r[j] = br[j]
  BY <1>1, <1>3, <1>4
<1> QED BY <1>1, <1>3, <1>4, <1>5 DEF BranchesKept, br, r, b

\* A call that was to come for a branch still is.
LEMMA BranchIsStillToCome ==
  ASSUME NEW ws, NEW ts, NEW m, NEW bs, NEW pb, NEW ns, NEW pd, NEW g, NEW S, NEW ln,
         NEW ns2, NEW pd2, NEW g2, NEW kids, NEW q, NEW n,
         OneMore(ws, ts, m, bs, pb, ns, pd, g, S, ln, ns2, pd2, g2, kids, q, n),
         NodesSound(ts, m, bs, pb, ns, g), NEW p, BranchToCome(ts, m, ns, g, p),
         pd[1].parent = p.parent => pd[1].atom < p.atom
  PROVE  BranchToCome(ts, m, ns2, g2, p)
<1> DEFINE k == p.parent + 1
           br == ns[k].branches
           r == ns2[k].branches
<1>1. /\ n = Len(ns) /\ n \in Nat /\ Len(ns2) = n + 1 /\ \A i \in 1..n : g2[i] = g[i]
  BY DEF OneMore
<1>2. /\ p.parent \in 0..(n - 1)
      /\ p.atom \in AtomsAt(ts, m, g[k])
      /\ p.tree = m[KidAt(ts, m, g[k], p.atom)].node
      /\ \A j \in 1..Len(br) : br[j][1] < p.atom
  BY <1>1 DEF BranchToCome
<1>3. k \in 1..n /\ p.parent = k - 1 /\ p.parent \in 0..(Len(ns2) - 1)
  BY <1>1, <1>2
<1>4. /\ \A j \in 1..Len(br) : j \in 1..Len(r) /\ r[j] = br[j]
      /\ pd[1].parent # k - 1 => r = br
      /\ pd[1].parent = k - 1 => /\ Len(r) = Len(br) + 1 /\ Len(br) \in Nat
                                 /\ r[Len(br) + 1] = <<pd[1].atom, n>>
  <2> HIDE DEF k
  <2>1. BranchesKept(ns, ns2, pd, n, k)
    BY <1>3, BranchesStay
  <2> QED BY <2>1 DEF BranchesKept
<1> HIDE DEF k
<1>5. ASSUME NEW j \in 1..Len(r)
      PROVE  r[j][1] < p.atom
  <2>1. CASE pd[1].parent # k - 1
    BY <1>2, <1>4, <2>1
  <2>2. CASE pd[1].parent = k - 1
    <3>1. CASE j = Len(br) + 1
      BY <1>3, <1>4, <2>2, <3>1
    <3>2. CASE j # Len(br) + 1
      <4>1. j \in 1..Len(br)
        BY <1>4, <2>2, <3>2
      <4> QED BY <1>2, <1>4, <4>1
    <3> QED BY <3>1, <3>2
  <2> QED BY <2>1, <2>2
<1>6. g2[k] = g[k]
  BY <1>1, <1>3
<1> QED BY <1>2, <1>3, <1>5, <1>6 DEF BranchToCome, k

\* A branch of the new node is a call to come.
LEMMA KidIsToCome ==
  ASSUME NEW ws, NEW ts, NEW m, NEW bs, NEW pb, NEW ns, NEW pd, NEW g, NEW S, NEW ln,
         NEW ns2, NEW pd2, NEW g2, NEW kids, NEW q, NEW n,
         OneMore(ws, ts, m, bs, pb, ns, pd, g, S, ln, ns2, pd2, g2, kids, q, n),
         NEW j \in 1..Len(q)
  PROVE  /\ pd2[j].parent = n /\ pd2[j].atom = q[j] /\ q[j] \in AtomsAt(ts, m, S)
         /\ BranchToCome(ts, m, ns2, g2, pd2[j])
<1> DEFINE V == AtomsAt(ts, m, S)
           p == pd2[j]
           tree == m[KidAt(ts, m, S, q[j])].node
<1>1. /\ n \in Nat /\ Len(ns2) = n + 1 /\ g2[n + 1] = S
      /\ ns2[n + 1] = Node(Chosen(pb, bs[TestOf(m, S)].selected), <<>>, None)
      /\ pd2[j] = kids[j]
      /\ KidsToCome(ts, m, S, n, q, kids)
  BY DEF OneMore
<1>2. IsSortedList(q, V, Smaller(V)) /\ p = Writing(tree, n, q[j])
  BY <1>1 DEF KidsToCome
<1>3. q[j] \in V
  BY <1>2 DEF IsSortedList
<1> HIDE DEF p, tree
<1>4. p.tree = tree /\ p.parent = n /\ p.atom = q[j]
  BY <1>2 DEF Writing
<1>5. Len(ns2[n + 1].branches) = 0
  <2>1. ns2[n + 1].branches = <<>>
    BY <1>1 DEF Node
  <2> QED BY <2>1
<1>6. BranchToCome(ts, m, ns2, g2, p)
  <2>1. p.parent + 1 = n + 1 /\ p.parent \in 0..(Len(ns2) - 1)
    BY <1>1, <1>4
  <2> QED BY <1>1, <1>3, <1>4, <1>5, <2>1 DEF BranchToCome, tree
<1> QED BY <1>3, <1>4, <1>6 DEF p

\* The calls to come stay sound when a node is written down.
LEMMA PendingStaysSound ==
  ASSUME NEW ws, NEW ts, NEW m, NEW bs, NEW pb, NEW ns, NEW pd, NEW g, NEW S, NEW ln,
         NEW ns2, NEW pd2, NEW g2, NEW kids, NEW q, NEW n,
         OneMore(ws, ts, m, bs, pb, ns, pd, g, S, ln, ns2, pd2, g2, kids, q, n),
         NodesSound(ts, m, bs, pb, ns, g), PendingSound(ws, ts, m, ns, pd, g)
  PROVE  PendingSound(ws, ts, m, ns2, pd2, g2)
<1>1. /\ n = Len(ns) /\ n \in Nat /\ IsList(pd2)
      /\ Len(q) \in Nat /\ Len(pd) \in Nat \ {0} /\ Len(pd2) = Len(q) + (Len(pd) - 1)
      /\ KidsToCome(ts, m, S, n, q, kids)
  BY DEF OneMore
<1>2. ASSUME NEW k \in 2..Len(pd)
      PROVE  /\ pd[k].parent # None /\ pd[k].parent \in 0..(n - 1)
             /\ BranchToCome(ts, m, ns2, g2, pd[k])
  <2>1. k \in 1..Len(pd) /\ 1 \in 1..Len(pd) /\ 1 < k /\ Len(pd) # 1
    <3> DEFINE l == Len(pd)
    <3>1. l \in Nat /\ k \in 2..l
      BY <1>1
    <3> HIDE DEF l
    <3>2. k \in 1..l /\ 1 \in 1..l /\ 1 < k /\ l # 1
      BY <3>1
    <3> QED BY <3>2 DEF l
  <2>2. pd[k].parent # None
    BY <2>1 DEF PendingSound, RootToCome
  <2>3. BranchToCome(ts, m, ns, g, pd[k])
    BY <2>1, <2>2 DEF PendingSound
  <2>4. pd[1].parent = pd[k].parent => pd[1].atom < pd[k].atom
    BY <2>1 DEF PendingSound
  <2>5. BranchToCome(ts, m, ns2, g2, pd[k])
    <3> DEFINE p == pd[k]
    <3> HIDE DEF p
    <3>1. BranchToCome(ts, m, ns, g, p) /\ (pd[1].parent = p.parent => pd[1].atom < p.atom)
      BY <2>3, <2>4 DEF p
    <3>2. BranchToCome(ts, m, ns2, g2, p)
      BY <3>1, BranchIsStillToCome
    <3> QED BY <3>2 DEF p
  <2>6. pd[k].parent \in 0..(n - 1)
    BY <1>1, <2>3 DEF BranchToCome
  <2> QED BY <2>2, <2>5, <2>6
<1>3. ASSUME NEW j \in 1..Len(pd2), j <= Len(q)
      PROVE  /\ pd2[j].parent = n /\ pd2[j].atom = q[j] /\ q[j] \in AtomsAt(ts, m, S)
             /\ BranchToCome(ts, m, ns2, g2, pd2[j])
  <2>1. j \in 1..Len(q)
    BY <1>1, <1>3
  <2> QED BY <2>1, KidIsToCome
<1>4. ASSUME NEW j \in 1..Len(pd2), j > Len(q)
      PROVE  \E k \in 2..Len(pd) : j = Len(q) + (k - 1) /\ pd2[j] = pd[k]
  BY <1>4, WhereFrom
<1>5. ASSUME NEW j \in 1..Len(pd2)
      PROVE  pd2[j].parent # None /\ BranchToCome(ts, m, ns2, g2, pd2[j])
  <2>1. CASE j <= Len(q)
    BY <1>1, <1>3, <2>1, NoneAssumption
  <2>2. CASE j > Len(q)
    BY <1>2, <1>4, <2>2
  <2> QED BY <1>1, <2>1, <2>2
<1>6. ASSUME NEW i \in 1..Len(pd2), NEW j \in 1..Len(pd2), i < j, pd2[i].parent = pd2[j].parent
      PROVE  pd2[i].atom < pd2[j].atom
  <2>1. CASE j <= Len(q)
    <3> DEFINE V == AtomsAt(ts, m, S)
    <3>1. i <= Len(q) /\ i \in 1..Len(q) /\ j \in 1..Len(q)
      BY <1>1, <1>6, <2>1
    <3>2. <<q[i], q[j]>> \in Smaller(V)
      BY <1>1, <1>6, <3>1 DEF KidsToCome, IsSortedList
    <3>3. q[i] < q[j]
      BY <3>2 DEF Smaller
    <3> QED BY <1>3, <2>1, <3>1, <3>3
  <2>2. CASE j > Len(q) /\ i <= Len(q)
    <3>1. pd2[i].parent = n
      BY <1>3, <2>2
    <3>2. pd2[j].parent \in 0..(n - 1)
      BY <1>2, <1>4, <2>2
    <3> QED BY <1>1, <1>6, <3>1, <3>2
  <2>3. CASE j > Len(q) /\ i > Len(q)
    <3>1. PICK k \in 2..Len(pd) : j = Len(q) + (k - 1) /\ pd2[j] = pd[k]
      BY <1>4, <2>3
    <3>2. PICK l \in 2..Len(pd) : i = Len(q) + (l - 1) /\ pd2[i] = pd[l]
      BY <1>4, <2>3
    <3>3. l < k /\ l \in 1..Len(pd) /\ k \in 1..Len(pd)
      BY <1>1, <1>6, <3>1, <3>2
    <3>4. pd[l].parent = pd[k].parent
      BY <1>6, <3>1, <3>2
    <3>5. pd[l].atom < pd[k].atom
      BY <3>3, <3>4 DEF PendingSound
    <3> QED BY <3>1, <3>2, <3>5
  <2> QED BY <1>1, <2>1, <2>2, <2>3
<1> QED BY <1>1, <1>5, <1>6 DEF PendingSound

\* The parent of the call that is made.
LEMMA FirstCallIs ==
  ASSUME NEW ws, NEW ts, NEW m, NEW ns, NEW pd, NEW g, PendingSound(ws, ts, m, ns, pd, g),
         Len(pd) \in Nat \ {0}, Len(ns) \in Nat
  PROVE  /\ pd[1].parent = None => ns = <<>> /\ Len(pd) = 1
         /\ pd[1].parent # None => pd[1].parent \in 0..(Len(ns) - 1)
<1>1. 1 \in 1..Len(pd)
  OBVIOUS
<1> QED BY <1>1 DEF PendingSound, RootToCome, BranchToCome

\* Every node but the first stays the child of one before it.
LEMMA RootedStaysSound ==
  ASSUME NEW ws, NEW ts, NEW m, NEW bs, NEW pb, NEW ns, NEW pd, NEW g, NEW S, NEW ln,
         NEW ns2, NEW pd2, NEW g2, NEW kids, NEW q, NEW n,
         OneMore(ws, ts, m, bs, pb, ns, pd, g, S, ln, ns2, pd2, g2, kids, q, n),
         NodesSound(ts, m, bs, pb, ns, g), PendingSound(ws, ts, m, ns, pd, g),
         RootedSound(ws, ns, pd, g)
  PROVE  RootedSound(ws, ns2, pd2, g2)
<1>1. /\ n = Len(ns) /\ n \in Nat /\ Len(ns2) = n + 1
      /\ (\A i \in 1..n : g2[i] = g[i]) /\ g2[n + 1] = S
      /\ pd[1].parent = None => S = Whole(ws)
      /\ Len(pd) \in Nat \ {0}
  BY DEF OneMore
<1>2. /\ pd[1].parent = None => ns = <<>> /\ Len(pd) = 1
      /\ pd[1].parent # None => pd[1].parent \in 0..(n - 1)
  BY <1>1, FirstCallIs
<1>3. ns2 # <<>>
  <2>1. Len(<<>>) = 0
    OBVIOUS
  <2> QED BY <1>1, <2>1
<1>4. g2[1] = Whole(ws)
  <2>1. CASE n = 0
    <3>1. pd[1].parent = None
      BY <1>2, <2>1
    <3> QED BY <1>1, <2>1, <3>1
  <2>2. CASE n # 0
    <3>1. 1 \in 1..n /\ ns # <<>>
      BY <1>1, <2>2
    <3> QED BY <1>1, <3>1 DEF RootedSound
  <2> QED BY <2>1, <2>2
<1>5. ASSUME NEW k \in 2..(n + 1)
      PROVE  \E h \in 1..(k - 1) : \E j \in 1..Len(ns2[h].branches) : ns2[h].branches[j][2] = k - 1
  <2>1. CASE k <= n
    <3>1. k \in 2..Len(ns)
      BY <1>1, <2>1
    <3>2. PICK h \in 1..(k - 1) : \E j \in 1..Len(ns[h].branches) : ns[h].branches[j][2] = k - 1
      BY <3>1 DEF RootedSound
    <3>3. PICK j \in 1..Len(ns[h].branches) : ns[h].branches[j][2] = k - 1
      BY <3>2
    <3>4. h \in 1..n
      BY <1>1, <2>1
    <3>5. j \in 1..Len(ns2[h].branches) /\ ns2[h].branches[j] = ns[h].branches[j]
      <4>1. BranchesKept(ns, ns2, pd, n, h)
        BY <3>4, BranchesStay
      <4> QED BY <4>1 DEF BranchesKept
    <3> QED BY <3>3, <3>5
  <2>2. CASE k = n + 1
    <3> DEFINE h == pd[1].parent + 1
               j == Len(ns[h].branches) + 1
    <3>1. n # 0 /\ ns # <<>>
      <4>1. Len(<<>>) = 0
        OBVIOUS
      <4> QED BY <1>1, <2>2, <4>1
    <3>2. h \in 1..n /\ pd[1].parent = h - 1
      BY <1>1, <1>2, <3>1
    <3> HIDE DEF h
    <3>a. BranchesKept(ns, ns2, pd, n, h)
      BY <3>2, BranchesStay
    <3>3. /\ Len(ns2[h].branches) = j /\ Len(ns[h].branches) \in Nat
          /\ ns2[h].branches[j] = <<pd[1].atom, n>>
      BY <3>2, <3>a DEF BranchesKept
    <3>4. j \in 1..Len(ns2[h].branches)
      BY <3>3
    <3>5. ns2[h].branches[j][2] = n
      BY <3>3
    <3> HIDE DEF j
    <3>6. h \in 1..(k - 1) /\ k - 1 = n
      BY <1>1, <2>2, <3>2
    <3> QED BY <3>4, <3>5, <3>6
  <2> QED BY <1>1, <2>1, <2>2
<1> QED BY <1>1, <1>3, <1>4, <1>5 DEF RootedSound

\* Every branch of the nodes is there or to come.
LEMMA BranchesStayComplete ==
  ASSUME NEW ws, NEW ts, NEW m, NEW bs, NEW pb, NEW ns, NEW pd, NEW g, NEW S, NEW ln,
         NEW ns2, NEW pd2, NEW g2, NEW kids, NEW q, NEW n,
         OneMore(ws, ts, m, bs, pb, ns, pd, g, S, ln, ns2, pd2, g2, kids, q, n),
         NodesSound(ts, m, bs, pb, ns, g), BranchesComplete(ts, m, ns, pd, g)
  PROVE  BranchesComplete(ts, m, ns2, pd2, g2)
<1>1. /\ n = Len(ns) /\ n \in Nat /\ Len(ns2) = n + 1
      /\ (\A i \in 1..n : g2[i] = g[i]) /\ g2[n + 1] = S
      /\ Len(q) \in Nat /\ Len(pd) \in Nat \ {0} /\ Len(pd2) = Len(q) + (Len(pd) - 1)
      /\ \A k \in 2..Len(pd) : pd2[Len(q) + (k - 1)] = pd[k]
      /\ KidsToCome(ts, m, S, n, q, kids)
  BY DEF OneMore
<1>2. ASSUME NEW k \in 1..n, NEW v \in AtomsAt(ts, m, g2[k])
      PROVE  HasBranch(ns2, k, v) \/ WillHaveBranch(pd2, k, v)
  <2>1. /\ \A j \in 1..Len(ns[k].branches) : /\ j \in 1..Len(ns2[k].branches)
                                              /\ ns2[k].branches[j] = ns[k].branches[j]
        /\ pd[1].parent = k - 1 =>
              /\ Len(ns2[k].branches) = Len(ns[k].branches) + 1
              /\ Len(ns[k].branches) \in Nat
              /\ ns2[k].branches[Len(ns[k].branches) + 1] = <<pd[1].atom, n>>
    <3>1. BranchesKept(ns, ns2, pd, n, k)
      BY BranchesStay
    <3> QED BY <3>1 DEF BranchesKept
  <2>2. HasBranch(ns, k, v) \/ WillHaveBranch(pd, k, v)
    <3>1. v \in AtomsAt(ts, m, g[k])
      BY <1>1
    <3> QED BY <1>1, <3>1 DEF BranchesComplete
  <2>3. CASE HasBranch(ns, k, v)
    BY <2>1, <2>3 DEF HasBranch
  <2>4. CASE WillHaveBranch(pd, k, v)
    <3>1. PICK j \in 1..Len(pd) : pd[j].parent = k - 1 /\ pd[j].atom = v
      BY <2>4 DEF WillHaveBranch
    <3>2. CASE j = 1
      <4> DEFINE c == Len(ns[k].branches)
                 e == Len(ns2[k].branches)
                 l == c + 1
      <4>a. e = c + 1 /\ c \in Nat /\ ns2[k].branches[l] = <<pd[1].atom, n>>
        BY <2>1, <3>1, <3>2
      <4>b. pd[1].atom = v
        BY <3>1, <3>2
      <4> HIDE DEF c, e
      <4>c. l \in 1..e
        BY <4>a
      <4>d. ns2[k].branches[l][1] = v
        <5> HIDE DEF l
        <5> QED BY <4>a, <4>b
      <4>1. l \in 1..Len(ns2[k].branches) /\ ns2[k].branches[l][1] = v
        BY <4>c, <4>d DEF e
      <4> HIDE DEF l
      <4> QED BY <4>1 DEF HasBranch
    <3>3. CASE j # 1
      <4> DEFINE l == Len(q) + (j - 1)
      <4>1. j \in 2..Len(pd) /\ l \in 1..Len(pd2)
        BY <1>1, <3>3
      <4>2. pd2[l] = pd[j]
        BY <1>1, <4>1
      <4> HIDE DEF l
      <4> QED BY <3>1, <4>1, <4>2 DEF WillHaveBranch
    <3> QED BY <3>2, <3>3
  <2> QED BY <2>2, <2>3, <2>4
<1>3. ASSUME NEW v \in AtomsAt(ts, m, g2[n + 1])
      PROVE  WillHaveBranch(pd2, n + 1, v)
  <2>1. PICK i \in 1..Len(q) : q[i] = v
    BY <1>1 DEF KidsToCome, IsSortedList
  <2>2. pd2[i].parent = n /\ pd2[i].atom = v
    BY <2>1, KidIsToCome
  <2>3. i \in 1..Len(pd2) /\ (n + 1) - 1 = n
    BY <1>1
  <2> QED BY <2>2, <2>3 DEF WillHaveBranch
<1>4. ASSUME NEW k \in 1..(n + 1), NEW v \in AtomsAt(ts, m, g2[k])
      PROVE  HasBranch(ns2, k, v) \/ WillHaveBranch(pd2, k, v)
  <2>1. CASE k \in 1..n
    BY <1>2, <2>1
  <2>2. CASE k = n + 1
    BY <1>3, <2>2
  <2> QED BY <1>1, <2>1, <2>2
<1> QED BY <1>1, <1>4 DEF BranchesComplete

\* The calls to come after the first: its subtrees', then the others.
IsQueued(r, kids, pd) ==
  /\ IsList(r)
  /\ Len(kids) \in Nat /\ Len(pd) \in Nat \ {0}
  /\ Len(r) = Len(kids) + (Len(pd) - 1)
  /\ \A k \in 1..Len(kids) : r[k] = kids[k]
  /\ \A k \in 2..Len(pd) : r[Len(kids) + (k - 1)] = pd[k]

\* This is what concatenating them gives.
LEMMA CallsAreQueued ==
  ASSUME NEW kids, IsList(kids), NEW pd, IsList(pd), pd # <<>>, NEW r, r = kids \o Tail(pd)
  PROVE  IsQueued(r, kids, pd)
<1> DEFINE T == {kids[k] : k \in DOMAIN kids} \cup {pd[k] : k \in DOMAIN pd}
           tl == Tail(pd)
           m == Len(kids)
           l == Len(pd)
<1>1. DOMAIN kids = 1..Len(kids) /\ DOMAIN pd = 1..Len(pd) /\ m \in Nat /\ l \in Nat
  BY ListDef
<1>2. kids \in Seq(T) /\ pd \in Seq(T)
  BY <1>1, ListDef
<1> HIDE DEF T
<1>3. l # 0
  BY <1>2
<1>4. tl \in Seq(T) /\ Len(tl) = l - 1 /\ \A k \in 1..(l - 1) : tl[k] = pd[k + 1]
  BY <1>2
<1> HIDE DEF l
<1>0. r = kids \o tl
  OBVIOUS
<1> HIDE DEF tl
<1>5. r \in Seq(T) /\ Len(r) = m + (l - 1) /\ (\A k \in 1..m : r[k] = kids[k])
      /\ \A k \in 1..(l - 1) : r[m + k] = tl[k]
  <2>1. tl \in Seq(T)
    BY <1>4
  <2>2. /\ kids \o tl \in Seq(T) /\ Len(kids \o tl) = Len(kids) + Len(tl)
        /\ \A k \in 1..Len(kids) : (kids \o tl)[k] = kids[k]
        /\ \A k \in 1..Len(tl) : (kids \o tl)[Len(kids) + k] = tl[k]
    BY <1>2, <2>1, ConcatElements
  <2> QED BY <1>0, <1>4, <2>2
<1> HIDE DEF m
<1>6. IsList(r)
  BY <1>5, ListDef
<1>7. ASSUME NEW k \in 2..l
      PROVE  r[m + (k - 1)] = pd[k]
  <2> DEFINE i == k - 1
  <2>1. i \in 1..(l - 1) /\ i + 1 = k
    BY <1>1
  <2> HIDE DEF i
  <2>2. r[m + i] = pd[k]
    BY <1>4, <1>5, <2>1
  <2> QED BY <2>2 DEF i
<1> QED BY <1>1, <1>3, <1>5, <1>6, <1>7 DEF IsQueued, m, l

Linked(ns, p) ==
  IF p.parent = None THEN ns
  ELSE [ns EXCEPT ![p.parent + 1].branches = Append(@, <<p.atom, Len(ns)>>)]

\* The parent gets its branch.
LEMMA LinkedIsLinked ==
  ASSUME NEW ts, NEW m, NEW bs, NEW pb, NEW ns, NEW g, NodesSound(ts, m, bs, pb, ns, g), NEW p,
         p.parent = None \/ p.parent \in 0..(Len(ns) - 1)
  PROVE  IsLinked(ns, Linked(ns, p), p, Len(ns))
<1> DEFINE n == Len(ns)
           ln == Linked(ns, p)
           h == p.parent + 1
           br == Append(ns[h].branches, <<p.atom, n>>)
           nd == [ns[h] EXCEPT !.branches = br]
<1>1. IsList(ns) /\ n \in Nat /\ DOMAIN ns = 1..n
  BY ListDef DEF NodesSound
<1>2. ASSUME NEW k \in 1..n
      PROVE  ns[k] = Node(ns[k].action, ns[k].branches, ns[k].default_child)
  <2> DEFINE a == Chosen(pb, bs[TestOf(m, g[k])].selected)
             b == ns[k].branches
  <2>1. ns[k] = Node(a, b, None)
    BY DEF NodesSound, NodeSound
  <2> HIDE DEF a, b
  <2>2. ns[k].action = a /\ ns[k].default_child = None
    BY <2>1 DEF Node
  <2> QED BY <2>1, <2>2 DEF b
<1>3. CASE p.parent = None
  <2>1. ln = ns
    BY <1>3 DEF Linked
  <2>2. \A k \in 1..n : p.parent # k - 1
    BY <1>1, <1>3, NoneAssumption
  <2> QED BY <1>1, <1>2, <2>1, <2>2 DEF IsLinked
<1>4. CASE p.parent # None
  <2>1. h \in 1..n /\ p.parent = h - 1 /\ \A k \in 1..n : p.parent = k - 1 <=> k = h
    BY <1>1, <1>4
  <2>2. ln = [ns EXCEPT ![h].branches = br]
    BY <1>4 DEF Linked
  <2>3. ln = [ns EXCEPT ![h] = nd]
    BY <2>2
  <2>4. nd = Node(ns[h].action, br, ns[h].default_child)
    <3> DEFINE a == ns[h].action
               b == ns[h].branches
               d == ns[h].default_child
    <3>1. ns[h] = Node(a, b, d)
      BY <1>2, <2>1
    <3> HIDE DEF a, b, d, br
    <3>2. nd = Node(a, br, d)
      BY <3>1 DEF Node
    <3> QED BY <3>2 DEF a, d
  <2> HIDE DEF nd, br, h
  <2>5. /\ DOMAIN ln = 1..n /\ ln[h] = nd
        /\ \A k \in 1..n : k # h => ln[k] = ns[k]
    BY <1>1, <2>1, <2>3
  <2>6. IsList(ln) /\ Len(ln) = n
    <3> DEFINE T == {ln[k] : k \in 1..n}
    <3>1. ln = [k \in 1..n |-> IF k = h THEN nd ELSE ns[k]]
      BY <1>1, <2>1, <2>3
    <3>2. ln \in [1..n -> T]
      BY <2>5, <3>1
    <3> HIDE DEF T, ln
    <3>3. ln \in Seq(T)
      BY <1>1, <3>2
    <3> QED BY <1>1, <2>5, <3>3, ListDef
  <2>7. nd.branches = br
    BY <2>4 DEF Node
  <2>8. ASSUME NEW k \in 1..n
        PROVE  /\ ln[k] = Node(ns[k].action, ln[k].branches, ns[k].default_child)
               /\ p.parent # k - 1 => ln[k].branches = ns[k].branches
               /\ p.parent = k - 1 => ln[k].branches = Append(ns[k].branches, <<p.atom, n>>)
    <3> HIDE DEF ln
    <3>1. CASE k = h
      BY <2>1, <2>4, <2>5, <2>7, <3>1 DEF br
    <3>2. CASE k # h
      BY <1>2, <2>1, <2>5, <3>2
    <3> QED BY <3>1, <3>2
  <2> QED BY <2>6, <2>8 DEF IsLinked
<1> QED BY <1>3, <1>4

\* materialize_node writes a node down.
LEMMA OneNodeMore ==
  ASSUME Table(weights, tests), MemoSound(weights, tests, memo),
         \A S \in DOMAIN memo : AnswerSound(weights, tests, memo, S, memo[S]),
         NEW g, WritingSound(weights, tests, memo, bundles, probes, nodes, pending, g),
         MaterializeNode
  PROVE  \E h : WritingSound(weights, tests, memo, bundles, probes, nodes', pending', h)
<1> DEFINE p == Head(pending)
           n == Len(nodes)
           ln == Linked(nodes, p)
           kids == Subtrees(p.tree, n)
           node == Node(ProbesOf(bundles[p.tree.test_id].selected), <<>>, None)
           S == IF p.parent = None THEN Whole(weights)
                ELSE KidAt(tests, memo, g[p.parent + 1], p.atom)
           g2 == Append(g, S)
           ns2 == Append(ln, node)
           pd2 == kids \o Tail(pending)
<1>1. pending # <<>> /\ nodes' = ns2 /\ pending' = pd2
  BY DEF MaterializeNode, Linked
<1>2. /\ NodesSound(tests, memo, bundles, probes, nodes, g)
      /\ PendingSound(weights, tests, memo, nodes, pending, g)
      /\ RootedSound(weights, nodes, pending, g)
      /\ BranchesComplete(tests, memo, nodes, pending, g)
  BY DEF WritingSound
<1>3. /\ IsList(nodes) /\ IsList(g) /\ Len(g) = n /\ n \in Nat /\ IsList(pending)
      /\ Len(pending) \in Nat
  BY <1>2, ListDef DEF NodesSound, PendingSound
<1>4. p = pending[1] /\ Len(pending) \in Nat \ {0} /\ 1 \in 1..Len(pending)
  BY <1>1, <1>3 DEF IsList
<1> HIDE DEF p
<1>5. p.parent = None \/ p.parent \in 0..(n - 1)
  BY <1>2, <1>3, <1>4, FirstCallIs
<1>6. S \in DOMAIN memo /\ p.tree = memo[S].node
  <2>1. CASE p.parent = None
    BY <1>2, <1>4, <2>1 DEF PendingSound, RootToCome
  <2>2. CASE p.parent # None
    <3> DEFINE R == g[p.parent + 1]
    <3>1. /\ p.parent + 1 \in 1..n
          /\ p.atom \in AtomsAt(tests, memo, R)
          /\ p.tree = memo[KidAt(tests, memo, R, p.atom)].node
      BY <1>2, <1>3, <1>4, <1>5, <2>2 DEF PendingSound, BranchToCome
    <3>2. R \in DOMAIN memo
      BY <1>2, <3>1 DEF NodesSound
    <3>3. Solved(tests, memo, TestOf(memo, R), R, AtomsAt(tests, memo, R))
      BY <3>2 DEF AnswerSound, TestOf, AtomsAt
    <3>4. KidAt(tests, memo, R, p.atom) \in DOMAIN memo
      BY <3>1, <3>3 DEF Solved, KidAt
    <3> QED BY <2>2, <3>1, <3>4
  <2> QED BY <2>1, <2>2
<1>7. /\ pending[1].parent = None => S = Whole(weights)
      /\ pending[1].parent # None => S = KidAt(tests, memo, g[pending[1].parent + 1], pending[1].atom)
  BY <1>4
<1> HIDE DEF S
<1>8. PICK q : KidsToCome(tests, memo, S, n, q, kids)
  <2>1. AnswerSound(weights, tests, memo, S, memo[S])
    BY <1>6
  <2>2. \E q : KidsToCome(tests, memo, S, n, q, Subtrees(memo[S].node, n))
    BY <1>6, <2>1, SubtreesAreKids
  <2> QED BY <1>6, <2>2
<1>9. IsLinked(nodes, ln, pending[1], n)
  <2>1. IsLinked(nodes, ln, p, n)
    BY <1>2, <1>5, LinkedIsLinked
  <2> QED BY <1>4, <2>1
<1>10. node = Node(Chosen(probes, bundles[TestOf(memo, S)].selected), <<>>, None)
  BY <1>6 DEF TestOf, ProbesOf, Chosen
<1>11. IsList(ln) /\ Len(ln) = n
  BY <1>9 DEF IsLinked
<1> HIDE DEF ln, node, kids
<1>12. IsList(ns2) /\ Len(ns2) = n + 1 /\ (\A k \in 1..n : ns2[k] = ln[k]) /\ ns2[n + 1] = node
  BY <1>11, ListAppend
<1>13. IsList(g2) /\ Len(g2) = n + 1 /\ g2[n + 1] = S /\ (\A k \in 1..n : g2[k] = g[k])
  BY <1>3, ListAppend
<1>14. IsList(kids) /\ Len(kids) = Len(q)
  BY <1>8 DEF KidsToCome
<1>15. /\ IsList(pd2) /\ Len(kids) \in Nat /\ Len(pd2) = Len(kids) + (Len(pending) - 1)
       /\ \A k \in 1..Len(kids) : pd2[k] = kids[k]
       /\ \A k \in 2..Len(pending) : pd2[Len(kids) + (k - 1)] = pending[k]
  <2> DEFINE calls == pending
  <2>1. IsList(calls) /\ calls # <<>>
    BY <1>1, <1>3
  <2>2. pd2 = kids \o Tail(calls)
    BY DEF calls
  <2> HIDE DEF pd2, calls
  <2>3. IsQueued(pd2, kids, calls)
    BY <1>14, <2>1, <2>2, CallsAreQueued
  <2> QED BY <2>3 DEF IsQueued, calls
<1> HIDE DEF g2, ns2, pd2
<1>16. OneMore(weights, tests, memo, bundles, probes, nodes, pending, g, S, ln, ns2, pd2, g2,
               kids, q, n)
  BY <1>3, <1>4, <1>6, <1>7, <1>8, <1>9, <1>10, <1>12, <1>13, <1>14, <1>15 DEF OneMore
<1>17. NodesSound(tests, memo, bundles, probes, ns2, g2)
  BY <1>2, <1>16, NodesStaySound
<1>18. PendingSound(weights, tests, memo, ns2, pd2, g2)
  BY <1>2, <1>16, PendingStaysSound
<1>19. RootedSound(weights, ns2, pd2, g2)
  BY <1>2, <1>16, RootedStaysSound
<1>20. BranchesComplete(tests, memo, ns2, pd2, g2)
  BY <1>2, <1>16, BranchesStayComplete
<1>21. WritingSound(weights, tests, memo, bundles, probes, ns2, pd2, g2)
  BY <1>17, <1>18, <1>19, <1>20 DEF WritingSound
<1> QED BY <1>1, <1>21

-----------------------------------------------------------------------------
(* What has been written down is a decision graph.                         *)

\* r marks the nodes that the nodes below lead to.
Marks(s, r, n) ==
  r = [k \in 0..n |->
         IF k = 0 THEN {0}
         ELSE r[k - 1] \cup (IF k - 1 \in r[k - 1] THEN Children(NodeOf(s, k - 1)) ELSE {})]

\* There is such a marking.
LEMMA MarksExist ==
  ASSUME NEW s
  PROVE  \A n \in Nat : \E r : Marks(s, r, n)
<1> DEFINE W == {n \in Nat : \E r : Marks(s, r, n)}
           More(S, k) == S \cup (IF k \in S THEN Children(NodeOf(s, k)) ELSE {})
<1>1. 0 \in W
  <2> DEFINE r == [k \in 0..0 |-> {0}]
  <2>1. Marks(s, r, 0)
    BY DEF Marks
  <2> QED BY <2>1
<1>2. ASSUME NEW n \in Nat, NEW r, Marks(s, r, n)
      PROVE  \E q : Marks(s, q, n + 1)
  <2> DEFINE q == [k \in 0..(n + 1) |-> IF k = n + 1 THEN More(r[n], n) ELSE r[k]]
  <2>1. /\ \A k \in 0..n : q[k] = r[k]
        /\ q[n + 1] = More(r[n], n)
        /\ q = [k \in 0..(n + 1) |-> q[k]]
    OBVIOUS
  <2>2. \A k \in 0..n : r[k] = IF k = 0 THEN {0} ELSE More(r[k - 1], k - 1)
    BY <1>2 DEF Marks
  <2> HIDE DEF q, More
  <2>3. ASSUME NEW k \in 0..(n + 1)
        PROVE  q[k] = IF k = 0 THEN {0} ELSE More(q[k - 1], k - 1)
    <3>1. CASE k = n + 1
      <4>1. k # 0 /\ k - 1 = n /\ n \in 0..n
        BY <3>1
      <4> QED BY <2>1, <3>1, <4>1
    <3>2. CASE k # n + 1
      <4>1. k \in 0..n /\ (k # 0 => k - 1 \in 0..n)
        BY <3>2
      <4> QED BY <2>1, <2>2, <4>1
    <3> QED BY <3>1, <3>2
  <2>4. q = [k \in 0..(n + 1) |-> IF k = 0 THEN {0} ELSE More(q[k - 1], k - 1)]
    BY <2>1, <2>3
  <2>5. Marks(s, q, n + 1)
    BY <2>4 DEF Marks, More
  <2> QED BY <2>5
<1>3. \A n \in Nat : n \in W => n + 1 \in W
  BY <1>2
<1> HIDE DEF W
<1>4. \A n \in Nat : n \in W
  BY <1>1, <1>3, Induction
<1> QED BY <1>4 DEF W

\* Reachable is the last of one's marks.
LEMMA ReachableIsMarked ==
  ASSUME NEW s, Len(s.nodes) \in Nat
  PROVE  \E r : Marks(s, r, Len(s.nodes)) /\ Reachable(s) = r[Len(s.nodes)]
<1> DEFINE n == Len(s.nodes)
           r == CHOOSE q : Marks(s, q, n)
<1>1. Marks(s, r, n)
  BY MarksExist
<1>2. Reachable(s) = r[n]
  BY DEF Reachable, Marks
<1> QED BY <1>1, <1>2

\* One step of the marking.
LEMMA MarksStep ==
  ASSUME NEW s, NEW n \in Nat, NEW r, Marks(s, r, n), NEW k \in 0..n
  PROVE  /\ k = 0 => r[k] = {0}
         /\ k # 0 => /\ r[k - 1] \subseteq r[k]
                     /\ k - 1 \in r[k - 1] => Children(NodeOf(s, k - 1)) \subseteq r[k]
<1>1. r[k] = IF k = 0 THEN {0}
             ELSE r[k - 1] \cup (IF k - 1 \in r[k - 1] THEN Children(NodeOf(s, k - 1)) ELSE {})
  BY DEF Marks
<1> QED BY <1>1

\* Marks stay.
LEMMA MarksStay ==
  ASSUME NEW s, NEW n \in Nat, NEW r, Marks(s, r, n), NEW k \in 0..n, NEW l \in k..n
  PROVE  r[k] \subseteq r[l]
<1> DEFINE W == {d \in Nat : k + d <= n => r[k] \subseteq r[k + d]}
<1>1. 0 \in W
  OBVIOUS
<1>2. ASSUME NEW d \in Nat, d \in W
      PROVE  d + 1 \in W
  <2> SUFFICES ASSUME k + (d + 1) <= n
               PROVE  r[k] \subseteq r[k + (d + 1)]
    OBVIOUS
  <2> DEFINE j == k + (d + 1)
  <2>1. r[k] \subseteq r[k + d]
    BY <1>2
  <2>2. j \in 0..n /\ j # 0 /\ j - 1 = k + d
    OBVIOUS
  <2> HIDE DEF j
  <2>3. r[j - 1] \subseteq r[j]
    BY <2>2, MarksStep
  <2>4. r[k] \subseteq r[j]
    BY <2>1, <2>2, <2>3
  <2> QED BY <2>4 DEF j
<1> HIDE DEF W
<1>3. \A d \in Nat : d \in W
  BY <1>1, <1>2, Induction
<1>4. l - k \in Nat /\ k + (l - k) = l
  OBVIOUS
<1> QED BY <1>3, <1>4 DEF W

\* A node that leads to each later one marks them all.
LEMMA AllAreMarked ==
  ASSUME NEW s, NEW n \in Nat, NEW r, Marks(s, r, n),
         \A k \in 1..(n - 1) : \E h \in 0..(k - 1) : k \in Children(NodeOf(s, h)),
         NEW id \in 0..(n - 1)
  PROVE  id \in r[n]
<1> DEFINE W == {k \in Nat : \A i \in 0..k : i <= n - 1 => i \in r[i]}
<1>1. 0 \in W
  <2>1. r[0] = {0}
    <3> DEFINE k == 0
    <3>1. k \in 0..n /\ k = 0
      OBVIOUS
    <3> HIDE DEF k
    <3>2. r[k] = {0}
      BY <3>1 DEF Marks
    <3> QED BY <3>1, <3>2
  <2>2. \A i \in 0..0 : i = 0
    OBVIOUS
  <2> QED BY <2>1, <2>2
<1>2. ASSUME NEW k \in Nat, k \in W
      PROVE  k + 1 \in W
  <2> DEFINE j == k + 1
  <2>1. ASSUME j <= n - 1
        PROVE  j \in r[j]
    <3>1. j \in 1..(n - 1)
      BY <2>1
    <3> HIDE DEF j
    <3>2. PICK h \in 0..(j - 1) : j \in Children(NodeOf(s, h))
      BY <3>1
    <3>3. h \in r[h]
      <4>1. h \in 0..k /\ h <= n - 1
        BY <3>1, <3>2 DEF j
      <4> QED BY <1>2, <4>1
    <3> DEFINE l == h + 1
    <3>4. l \in 0..n /\ l # 0 /\ l - 1 = h /\ j \in l..n
      BY <3>1, <3>2
    <3> HIDE DEF l
    <3>5. Children(NodeOf(s, h)) \subseteq r[l]
      BY <3>3, <3>4, MarksStep
    <3>6. r[l] \subseteq r[j]
      BY <3>4, MarksStay
    <3> QED BY <3>2, <3>5, <3>6
  <2>2. \A i \in 0..(k + 1) : i = j \/ i \in 0..k
    OBVIOUS
  <2> HIDE DEF j
  <2> QED BY <1>2, <2>1, <2>2
<1> HIDE DEF W
<1>3. \A k \in Nat : k \in W
  BY <1>1, <1>2, Induction
<1>4. id \in r[id]
  BY <1>3 DEF W
<1>5. id \in 0..n /\ n \in id..n
  OBVIOUS
<1>6. r[id] \subseteq r[n]
  BY <1>5, MarksStay
<1> QED BY <1>4, <1>6

-----------------------------------------------------------------------------

\* The values that the test of a state leaves are below the product of its bundle, which
\* fits the capacity.
LEMMA AtomsFit ==
  ASSUME NEW ws, NEW ts, NEW m, NEW pr, NEW pb, NEW cap, NEW bs,
         Inputs(pr, pb, cap), BundlesSound(pr, pb, cap, bs), IsTabulated(ws, ts, pr, pb, bs),
         NEW S \in DOMAIN m, S \in SUBSET Whole(ws), AnswerSound(ws, ts, m, S, m[S]),
         NEW action, action = Chosen(pb, bs[TestOf(m, S)].selected)
  PROVE  /\ BundleCardinality(action) \in 1..cap
         /\ \A v \in AtomsAt(ts, m, S) : v \in 0..(BundleCardinality(action) - 1)
<1> DEFINE t == TestOf(m, S)
           sel == bs[t].selected
           n == BundleCardinality(action)
<1>1. DOMAIN bs = 1..Len(bs) /\ Len(bs) \in Nat
  BY ListDef DEF BundlesSound
<1>2. ts = [b \in 1..Len(bs) |-> BundleOutcomes(pr, pb, bs[b].selected)]
  BY <1>1 DEF IsTabulated
<1>3. Len(ts) = Len(bs)
  <2> DEFINE T == {BundleOutcomes(pr, pb, bs[b].selected) : b \in 1..Len(bs)}
  <2>1. ts \in [1..Len(bs) -> T]
    BY <1>2
  <2> HIDE DEF T
  <2>2. ts \in Seq(T) /\ DOMAIN ts = 1..Len(bs)
    BY <1>1, <2>1
  <2> QED BY <1>1, <2>2
<1>4. t \in 1..Len(bs)
  BY <1>3 DEF AnswerSound, TestOf
<1>5. RowSound(pr, pb, cap, bs[t])
  BY <1>4 DEF BundlesSound
<1>6. sel \in Seq(DOMAIN pb) /\ n \in 1..cap
  BY <1>5 DEF RowSound, SelectionFits
<1>7. ts[t] = OutcomesOf(pr, BundleValues(action))
  BY <1>2, <1>4 DEF BundleOutcomes
<1>8. BundleValues(action) \in [Strings -> 0..(n - 1)]
  <2>1. IsBundle(action)
    BY <1>6, ChosenIsBundle DEF Inputs
  <2> QED BY <2>1, BundleFits
<1>9. ASSUME NEW v \in AtomsAt(ts, m, S)
      PROVE  v \in 0..(n - 1)
  <2>1. PICK s \in Left(ts, t, S) : v = ts[t][s].left
    BY DEF AtomsAt, Values
  <2>2. s \in DOMAIN pr
    <3>1. s \in S
      BY DEF Left
    <3>2. DOMAIN ws = DOMAIN pr
      BY DEF IsTabulated
    <3> QED BY <3>1, <3>2 DEF Whole
  <2>3. pr[s].left \in Strings
    BY <2>2, ScenarioTyped DEF Inputs
  <2>4. v = BundleValues(action)[pr[s].left]
    <3> DEFINE values == BundleValues(action)
    <3> HIDE DEF values
    <3>1. OutcomesOf(pr, values)[s].left = values[pr[s].left]
      BY <2>2 DEF OutcomesOf
    <3> QED BY <1>7, <2>1, <3>1 DEF values
  <2> QED BY <1>8, <2>3, <2>4
<1> QED BY <1>6, <1>9

\* What validate looks at.
SchemeOf(cap, ns) == [capacity |-> cap, nodes |-> ns, root |-> IF ns = <<>> THEN None ELSE 0]
SizesOf(ns) == [id \in {i - 1 : i \in DOMAIN ns} |-> BundleCardinality(ns[id + 1].action)]

\* What is written down, with no call to come, is a graph that validates.
LEMMA WrittenIsGraph ==
  ASSUME NEW ws, NEW ts, NEW m, NEW pr, NEW pb, NEW cap, NEW bs, NEW ns, NEW g, NEW pd,
         Inputs(pr, pb, cap), BundlesSound(pr, pb, cap, bs), IsTabulated(ws, ts, pr, pb, bs),
         \A S \in DOMAIN m : S \in SUBSET Whole(ws) /\ AnswerSound(ws, ts, m, S, m[S]),
         NodesSound(ts, m, bs, pb, ns, g), RootedSound(ws, ns, pd, g)
  PROVE  /\ \A id \in NodeIds(SchemeOf(cap, ns)) : BundleCardinality(ns[id + 1].action) <= cap
         /\ IsGraph(SchemeOf(cap, ns), SizesOf(ns))
<1> DEFINE s == SchemeOf(cap, ns)
           n == Len(ns)
           sizes == SizesOf(ns)
<1>1. IsList(ns) /\ n \in Nat /\ DOMAIN ns = 1..n
  BY ListDef DEF NodesSound
<1>2. /\ s.nodes = ns /\ s.capacity = cap /\ s.root = IF ns = <<>> THEN None ELSE 0
  BY DEF SchemeOf
<1>3. NodeIds(s) = 0..(n - 1) /\ \A id \in 0..(n - 1) : id + 1 \in 1..n /\ NodeOf(s, id) = ns[id + 1]
  <2>1. NodeIds(s) = {i - 1 : i \in 1..n}
    BY <1>1, <1>2 DEF NodeIds
  <2>2. {i - 1 : i \in 1..n} = 0..(n - 1)
    <3>1. \A id \in 0..(n - 1) : id + 1 \in 1..n /\ id = (id + 1) - 1
      BY <1>1
    <3>2. \A i \in 1..n : i - 1 \in 0..(n - 1)
      BY <1>1
    <3> QED BY <3>1, <3>2
  <2>3. \A id \in 0..(n - 1) : id + 1 \in 1..n /\ NodeOf(s, id) = ns[id + 1]
    BY <1>1, <1>2 DEF NodeOf
  <2> QED BY <2>1, <2>2, <2>3
<1>4. ASSUME NEW id \in 0..(n - 1)
      PROVE  sizes[id] = BundleCardinality(ns[id + 1].action)
  <2>1. id + 1 \in DOMAIN ns /\ id = (id + 1) - 1
    BY <1>1
  <2> QED BY <2>1 DEF SizesOf
<1> HIDE DEF s, sizes
<1>5. ASSUME NEW k \in 1..n
      PROVE  /\ BundleCardinality(ns[k].action) \in 1..cap
             /\ ns[k].default_child = None
             /\ \A v \in AtomsAt(ts, m, g[k]) : v \in 0..(BundleCardinality(ns[k].action) - 1)
  <2> DEFINE S == g[k]
             nd == ns[k]
             action == Chosen(pb, bs[TestOf(m, S)].selected)
  <2>1. S \in DOMAIN m /\ nd = Node(action, nd.branches, None)
    BY DEF NodesSound, NodeSound
  <2> HIDE DEF action, S, nd
  <2>2. nd.action = action /\ nd.default_child = None
    BY <2>1 DEF Node
  <2>3. S \in SUBSET Whole(ws) /\ AnswerSound(ws, ts, m, S, m[S])
    BY <2>1
  <2>4. /\ BundleCardinality(action) \in 1..cap
        /\ \A v \in AtomsAt(ts, m, S) : v \in 0..(BundleCardinality(action) - 1)
    BY <2>1, <2>3, AtomsFit DEF action
  <2> QED BY <2>2, <2>4 DEF S, nd
<1>6. ASSUME NEW k \in 1..n, NEW j \in 1..Len(ns[k].branches)
      PROVE  LinkSound(ts, m, g, n, k, ns[k].branches[j])
  BY DEF NodesSound, LinksSound
<1>7. ASSUME NEW k \in 1..n
      PROVE  /\ IsList(ns[k].branches)
             /\ DOMAIN ns[k].branches = 1..Len(ns[k].branches)
             /\ Len(ns[k].branches) \in Nat
             /\ \A i, j \in 1..Len(ns[k].branches) : i < j => ns[k].branches[i][1] < ns[k].branches[j][1]
             /\ Children(ns[k]) = {ns[k].branches[j][2] : j \in 1..Len(ns[k].branches)}
  <2>1. IsList(ns[k].branches)
    BY DEF NodesSound, NodeSound
  <2>2. DOMAIN ns[k].branches = 1..Len(ns[k].branches) /\ Len(ns[k].branches) \in Nat
    BY <2>1, ListDef
  <2>3. LinksSound(ts, m, g, n, k, ns[k].branches)
    BY DEF NodesSound
  <2>4. Children(ns[k]) = {ns[k].branches[j][2] : j \in 1..Len(ns[k].branches)}
    BY <1>5, <2>2 DEF Children
  <2> QED BY <2>1, <2>2, <2>3, <2>4 DEF LinksSound
<1>8. cap \in Nat
  BY DEF Inputs
<1>9. ASSUME NEW id \in 0..(n - 1)
      PROVE  AreBranches(s, id, sizes[id]) /\ IsForward(s, id)
  <2> DEFINE k == id + 1
             br == ns[k].branches
             size == BundleCardinality(ns[k].action)
  <2>1. k \in 1..n /\ NodeOf(s, id) = ns[k] /\ sizes[id] = size
    BY <1>3, <1>4
  <2>2. size \in 1..cap /\ \A v \in AtomsAt(ts, m, g[k]) : v \in 0..(size - 1)
    BY <1>5, <2>1
  <2>3. /\ DOMAIN br = 1..Len(br) /\ Len(br) \in Nat
        /\ \A i, j \in 1..Len(br) : i < j => br[i][1] < br[j][1]
        /\ Children(ns[k]) = {br[j][2] : j \in 1..Len(br)}
    BY <1>7, <2>1
  <2>4. \A j \in 1..Len(br) : /\ br[j][1] \in AtomsAt(ts, m, g[k])
                              /\ br[j][2] \in k..(n - 1)
    BY <1>6, <2>1 DEF LinkSound
  <2> HIDE DEF size
  <2>5. \A j \in 1..Len(br) : br[j][1] < cap /\ br[j][1] < size
    BY <1>8, <2>2, <2>4
  <2>6. \A j \in 1..(Len(br) - 1) : j \in 1..Len(br) /\ j + 1 \in 1..Len(br) /\ j < j + 1
    BY <2>3
  <2>7. \A j \in 1..(Len(br) - 1) : br[j][1] < br[j + 1][1]
    BY <2>3, <2>6
  <2>8. AreBranches(s, id, sizes[id])
    BY <1>2, <2>1, <2>3, <2>5, <2>7 DEF AreBranches
  <2>9. \A child \in Children(ns[k]) : child \in 0..(n - 1) /\ child > id
    <3>1. \A child \in Children(ns[k]) : child \in k..(n - 1)
      BY <2>3, <2>4
    <3> QED BY <1>1, <3>1
  <2>10. IsForward(s, id)
    BY <1>3, <2>1, <2>9 DEF IsForward
  <2> QED BY <2>8, <2>10
<1>10. ASSUME NEW id \in 0..(n - 1)
       PROVE  id \in Reachable(s)
  <2>1. PICK r : Marks(s, r, n) /\ Reachable(s) = r[n]
    <3>1. Len(s.nodes) = n
      BY <1>2
    <3> QED BY <1>1, <3>1, ReachableIsMarked
  <2>2. ASSUME NEW k \in 1..(n - 1)
        PROVE  \E h \in 0..(k - 1) : k \in Children(NodeOf(s, h))
    <3> DEFINE l == k + 1
    <3>1. l \in 2..n /\ l - 1 = k
      BY <1>1
    <3> HIDE DEF l
    <3>2. PICK i \in 1..(l - 1) : \E j \in 1..Len(ns[i].branches) : ns[i].branches[j][2] = l - 1
      BY <3>1 DEF RootedSound
    <3>3. k \in {ns[i].branches[j][2] : j \in 1..Len(ns[i].branches)}
      BY <3>1, <3>2
    <3>4. i \in 1..n /\ i - 1 \in 0..(k - 1) /\ i - 1 \in 0..(n - 1) /\ (i - 1) + 1 = i
      BY <1>1, <3>1, <3>2
    <3>5. k \in Children(ns[i])
      BY <1>7, <3>3, <3>4
    <3>6. NodeOf(s, i - 1) = ns[i]
      BY <1>3, <3>4
    <3> QED BY <3>4, <3>5, <3>6
  <2>3. id \in r[n]
    BY <1>1, <2>1, <2>2, AllAreMarked
  <2> QED BY <2>1, <2>3
<1>11. IsGraph(s, sizes)
  <2>1. NodeIds(s) \subseteq Reachable(s)
    BY <1>3, <1>10
  <2> QED BY <1>2, <1>3, <1>9, <2>1 DEF IsGraph
<1>12. \A id \in NodeIds(s) : BundleCardinality(ns[id + 1].action) <= cap
  <2> SUFFICES ASSUME NEW id \in 0..(n - 1)
               PROVE  BundleCardinality(ns[id + 1].action) <= cap
    BY <1>3
  <2> DEFINE k == id + 1
             size == BundleCardinality(ns[k].action)
  <2>1. k \in 1..n
    BY <1>3
  <2>2. size \in 1..cap
    BY <1>5, <2>1
  <2> HIDE DEF size
  <2>3. size <= cap
    BY <1>8, <2>2
  <2> QED BY <2>3 DEF size
<1> QED BY <1>11, <1>12 DEF s, sizes

-----------------------------------------------------------------------------
(* The invariant of the scheme holds.                                      *)

\* Nothing is written down at the call.
LEMMA WritingInit ==
  ASSUME Init
  PROVE  WInv
<1>1. nodes = <<>> /\ pending = <<>> /\ bundles = <<>> /\ phase \in {"cook", "solve"}
  BY DEF Init, InitCook, InitSolve
<1> QED BY <1>1 DEF WInv, WriteInv

\* Nothing has been written yet: at most the call for the first node is to come.
LEMMA FirstToWrite ==
  ASSUME NEW ws, NEW ts, NEW m, NEW bs, NEW pb, NEW ns, ns = <<>>, NEW pd, IsList(pd),
         \/ Len(pd) = 0 /\ Whole(ws) = {}
         \/ /\ Len(pd) = 1 /\ pd[1].parent = None
            /\ Whole(ws) \in DOMAIN m /\ pd[1].tree = m[Whole(ws)].node
  PROVE  \E g : WritingSound(ws, ts, m, bs, pb, ns, pd, g)
<1> DEFINE g == <<>>
<1>1. IsList(g) /\ Len(g) = 0
  <2>1. g \in Seq({1}) /\ Len(g) = 0
    OBVIOUS
  <2> QED BY <2>1, ListDef
<1>2. IsList(ns) /\ Len(ns) = 0
  BY <1>1
<1> HIDE DEF g
<1>3. NodesSound(ts, m, bs, pb, ns, g)
  BY <1>1, <1>2 DEF NodesSound
<1>4. PendingSound(ws, ts, m, ns, pd, g)
  <2>1. ASSUME NEW k \in 1..Len(pd)
        PROVE  pd[k].parent = None /\ RootToCome(ws, m, ns, pd, pd[k])
    <3>1. Len(pd) = 1
      BY <2>1
    <3>2. k = 1
      BY <3>1
    <3> QED BY <3>1, <3>2 DEF RootToCome
  <2>2. ASSUME NEW i \in 1..Len(pd), NEW j \in 1..Len(pd), i < j
        PROVE  FALSE
    <3> DEFINE l == Len(pd)
    <3>1. (l = 1 \/ l = 0) /\ i \in 1..l /\ j \in 1..l
      OBVIOUS
    <3> HIDE DEF l
    <3>2. CASE l = 1
      BY <2>2, <3>1, <3>2
    <3>3. CASE l = 0
      BY <3>1, <3>3
    <3> QED BY <3>1, <3>2, <3>3
  <2> QED BY <2>1, <2>2 DEF PendingSound
<1>5. RootedSound(ws, ns, pd, g)
  <2>1. \A k \in 2..Len(ns) : FALSE
    BY <1>2
  <2>2. Whole(ws) # {} => pd # <<>>
    <3>1. Len(<<>>) = 0
      OBVIOUS
    <3> QED BY <3>1
  <2> QED BY <2>1, <2>2 DEF RootedSound
<1>6. BranchesComplete(ts, m, ns, pd, g)
  BY <1>2 DEF BranchesComplete
<1>7. WritingSound(ws, ts, m, bs, pb, ns, pd, g)
  BY <1>3, <1>4, <1>5, <1>6 DEF WritingSound
<1> QED BY <1>7

\* The first call of materialize_node is for the root of the tree.
LEMMA BeginWriting ==
  ASSUME SInv, TInv, WInv, BeginMaterialize
  PROVE  WInv'
<1> DEFINE w == Writing(solution.root, None, None)
<1>1. /\ phase = "solved" /\ bundles # <<>> /\ phase' = "materialize"
      /\ pending' = IF solution.root = <<>> THEN <<>> ELSE <<w>>
      /\ UNCHANGED <<weights, tests, memo, prior, bundles, probes, nodes>>
  BY DEF BeginMaterialize, actionVars, searchVars
<1>2. nodes = <<>> /\ IsTabulated(weights, tests, prior, probes, bundles)
  BY <1>1 DEF WInv, WriteInv
<1>3. RootSound(weights, memo, solution) /\ solution # <<>>
  BY <1>1 DEF TInv, TreeInv
<1>4. \/ Len(pending') = 0 /\ Whole(weights) = {} /\ IsList(pending')
      \/ /\ Len(pending') = 1 /\ pending'[1].parent = None /\ IsList(pending')
         /\ Whole(weights) \in DOMAIN memo /\ pending'[1].tree = memo[Whole(weights)].node
  <2>1. CASE Whole(weights) = {}
    <3>1. pending' = <<>>
      BY <1>1, <1>3, <2>1 DEF RootSound
    <3>2. <<>> \in Seq({1}) /\ Len(<<>>) = 0
      OBVIOUS
    <3> QED BY <2>1, <3>1, <3>2, ListDef
  <2>2. CASE Whole(weights) # {}
    <3> DEFINE S == Whole(weights)
               node == memo[S].node
               t == node.test_id
    <3>1. S \in DOMAIN memo /\ solution.root = node
      BY <1>3, <2>2 DEF RootSound
    <3>2. AnswerSound(weights, tests, memo, S, memo[S])
      BY <3>1 DEF TInv, TreeInv
    <3>3. node = TreeNode(t, Subnodes(tests, memo, t, S, Values(tests, t, S)))
      BY <3>2 DEF AnswerSound
    <3>4. node # <<>>
      <4> DEFINE kids == Subnodes(tests, memo, t, S, Values(tests, t, S))
                 id == t
      <4>1. node = TreeNode(id, kids)
        BY <3>3
      <4> HIDE DEF node, kids, id
      <4>2. "test_id" \in DOMAIN node
        BY <4>1 DEF TreeNode
      <4>3. DOMAIN <<>> = {}
        OBVIOUS
      <4> QED BY <4>2, <4>3
    <3>5. pending' = <<w>>
      BY <1>1, <3>1, <3>4
    <3>6. w.parent = None /\ w.tree = node
      BY <3>1 DEF Writing
    <3> HIDE DEF w, node
    <3>7. <<w>> \in Seq({w}) /\ Len(<<w>>) = 1 /\ <<w>>[1] = w
      OBVIOUS
    <3> QED BY <3>1, <3>5, <3>6, <3>7, ListDef DEF node
  <2> QED BY <2>1, <2>2
<1> HIDE DEF w
<1>5. \E g : WritingSound(weights, tests, memo, bundles, probes, nodes, pending', g)
  BY <1>2, <1>4, FirstToWrite
<1>6. WriteInv(weights, tests, memo, prior, bundles, probes, nodes, pending', "materialize")
  BY <1>1, <1>2, <1>5 DEF WriteInv
<1> QED BY <1>1, <1>6 DEF WInv

\* A call of materialize_node keeps the invariant.
LEMMA MaterializeKeeps ==
  ASSUME Table(weights, tests), SInv, TInv, WInv, MaterializeNode
  PROVE  WInv'
<1>1. /\ phase = "materialize" /\ phase' = phase
      /\ UNCHANGED <<weights, tests, memo, prior, bundles, probes>>
  BY DEF MaterializeNode, actionVars, searchVars
<1>2. bundles # <<>> /\ IsTabulated(weights, tests, prior, probes, bundles)
  BY <1>1 DEF WInv, WriteInv
<1>3. PICK g : WritingSound(weights, tests, memo, bundles, probes, nodes, pending, g)
  BY <1>1, <1>2 DEF WInv, WriteInv
<1>4. MemoSound(weights, tests, memo)
  BY DEF SInv, SearchInv
<1>5. \A S \in DOMAIN memo : AnswerSound(weights, tests, memo, S, memo[S])
  BY DEF TInv, TreeInv
<1>6. \E h : WritingSound(weights, tests, memo, bundles, probes, nodes', pending', h)
  BY <1>3, <1>4, <1>5, OneNodeMore
<1>7. WriteInv(weights, tests, memo, prior, bundles, probes, nodes', pending', "materialize")
  BY <1>1, <1>2, <1>6 DEF WriteInv
<1> QED BY <1>1, <1>7 DEF WInv

\* Validation lets the scheme pass.
LEMMA ValidationPasses ==
  ASSUME GInv, SInv, TInv, WInv, ValidateScheme
  PROVE  WInv'
<1>1. /\ phase = "materialize" /\ pending = <<>>
      /\ UNCHANGED <<weights, tests, memo, prior, bundles, probes, capacity, nodes, pending>>
  BY DEF ValidateScheme, Become, actionVars, searchVars
<1>2. bundles # <<>> /\ IsTabulated(weights, tests, prior, probes, bundles)
  BY <1>1 DEF WInv, WriteInv
<1>3. PICK g : WritingSound(weights, tests, memo, bundles, probes, nodes, pending, g)
  BY <1>1, <1>2 DEF WInv, WriteInv
<1>4. Inputs(prior, probes, capacity) /\ BundlesSound(prior, probes, capacity, bundles)
  BY DEF GInv
<1>5. \A S \in DOMAIN memo : S \in SUBSET Whole(weights) /\ AnswerSound(weights, tests, memo, S, memo[S])
  <2>1. MemoSound(weights, tests, memo)
    BY DEF SInv, SearchInv
  <2> QED BY <2>1 DEF MemoSound, TInv, TreeInv
<1>6. /\ NodesSound(tests, memo, bundles, probes, nodes, g)
      /\ RootedSound(weights, nodes, pending, g)
  BY <1>3 DEF WritingSound
<1>7. /\ \A id \in NodeIds(SchemeOf(capacity, nodes)) : BundleCardinality(nodes[id + 1].action) <= capacity
      /\ IsGraph(SchemeOf(capacity, nodes), SizesOf(nodes))
  BY <1>2, <1>4, <1>5, <1>6, WrittenIsGraph
<1>8. Scheme = SchemeOf(capacity, nodes)
  BY DEF Scheme, SchemeOf
<1>9. [id \in NodeIds(Scheme) |-> BundleCardinality(nodes[id + 1].action)] = SizesOf(nodes)
  BY <1>8 DEF NodeIds, SchemeOf, SizesOf
<1>10. phase' = "cooked"
  BY <1>7, <1>8, <1>9 DEF ValidateScheme, Become
<1>11. WriteInv(weights, tests, memo, prior, bundles, probes, nodes, pending, "cooked")
  BY <1>1, <1>2, <1>3 DEF WriteInv
<1> QED BY <1>1, <1>10, <1>11 DEF WInv

\* Every step keeps it.
LEMMA WritingStep ==
  ASSUME GInv, SInv, TInv, WInv, [Next]_vars
  PROVE  WInv'
<1>0. Table(weights, tests)
  BY DEF GInv, TestsTyped, Table
<1>1. CASE CookNothing
  <2>1. /\ phase = "cook" /\ phase' = "cooked" /\ prior = <<>>
        /\ UNCHANGED <<weights, tests, memo, prior, bundles, probes, nodes, pending>>
    BY <1>1 DEF CookNothing, Become, actionVars
  <2>2. bundles = <<>> /\ nodes = <<>> /\ pending = <<>>
    BY <2>1 DEF GInv, WInv, WriteInv
  <2>3. WriteInv(weights, tests, memo, prior, bundles, probes, nodes, pending, "cooked")
    BY <2>1, <2>2 DEF WriteInv
  <2> QED BY <2>1, <2>3 DEF WInv
<1>2. CASE BeginActions \/ Generate
  <2>1. /\ phase \in {"cook", "actions"} /\ phase' \in {"actions", "matrix"}
        /\ UNCHANGED <<nodes, pending>>
    BY <1>2 DEF BeginActions, Generate, Become
  <2> QED BY <2>1 DEF WInv, WriteInv
<1>3. CASE NoActions \/ MixedScales \/ EmptyTests \/ Unseparable
  <2>1. /\ phase' \in {"unseparable", "mixed_scales", "empty_tests"}
        /\ UNCHANGED <<weights, tests, memo, prior, bundles, probes, nodes, pending>>
    BY <1>3 DEF NoActions, MixedScales, EmptyTests, Unseparable, Become, actionVars, searchVars
  <2> QED BY <2>1 DEF WInv, WriteInv
<1>4. CASE Tabulate
  <2> DEFINE ws == [s \in DOMAIN prior |-> prior[s].units]
             ts == [b \in DOMAIN bundles |-> BundleOutcomes(prior, probes, bundles[b].selected)]
  <2>1. /\ phase = "matrix" /\ phase' = "solve" /\ weights' = ws
        /\ UNCHANGED <<memo, prior, bundles, probes, nodes, pending>>
    BY <1>4 DEF Tabulate, Become, actionVars
  <2>2. tests' = ts
    <3>1. tests' = [b \in DOMAIN bundles |-> PairOutcomes(BundleValues(ProbesOf(bundles[b].selected)))]
      BY <1>4 DEF Tabulate
    <3> QED BY <3>1, ModelOutcomes DEF BundleOutcomes
  <2>3. nodes = <<>> /\ pending = <<>>
    BY <2>1 DEF WInv, WriteInv
  <2>4. IsTabulated(ws, ts, prior, probes, bundles)
    BY DEF IsTabulated
  <2> HIDE DEF ws, ts
  <2>5. WriteInv(ws, ts, memo, prior, bundles, probes, nodes, pending, "solve")
    BY <2>3, <2>4 DEF WriteInv
  <2> QED BY <2>1, <2>2, <2>5 DEF WInv
<1>5. CASE StartSolve \/ Solve
  <2>1. /\ phase = "solve" /\ phase' \in {"solve", "solved"}
        /\ UNCHANGED <<prior, bundles, probes, nodes, pending>>
    BY <1>5 DEF StartSolve, Solve, Become, actionVars
  <2>2. UNCHANGED <<weights, tests>>
    <3>1. CASE StartSolve
      BY <3>1 DEF StartSolve, StartSearch, SolveNothing
    <3>2. CASE Solve
      BY <3>2 DEF Solve, SkipTest, TryTest, HitMemo, Explore, JudgeTest, ReturnBest
    <3> QED BY <1>5, <3>1, <3>2
  <2>3. nodes = <<>> /\ pending = <<>>
        /\ (bundles # <<>> => IsTabulated(weights, tests, prior, probes, bundles))
    BY <2>1 DEF WInv, WriteInv
  <2>4. WriteInv(weights, tests, memo', prior, bundles, probes, nodes, pending, phase')
    BY <2>1, <2>3 DEF WriteInv
  <2> QED BY <2>1, <2>2, <2>4 DEF WInv
<1>6. CASE BeginMaterialize
  BY <1>6, BeginWriting
<1>7. CASE MaterializeNode
  BY <1>0, <1>7, MaterializeKeeps
<1>8. CASE ValidateScheme
  BY <1>8, ValidationPasses
<1>9. CASE UNCHANGED vars
  BY <1>9 DEF vars, actionVars, searchVars, buildVars, WInv
<1> QED BY <1>1, <1>2, <1>3, <1>4, <1>5, <1>6, <1>7, <1>8, <1>9 DEF Next

\* What is written down stays sound while it grows.
THEOREM WritingIsSound == Spec => []WInv
<1>1. Init => WInv
  BY WritingInit
<1>2. GInv /\ SInv /\ TInv /\ WInv /\ [Next]_vars => WInv'
  BY WritingStep
<1>3. Spec => []SInv
  BY TablesAreTyped, SearchInvariant, PTL
<1> QED BY <1>1, <1>2, <1>3, GenerationInvariant, TreesAreSound, PTL DEF Spec

-----------------------------------------------------------------------------
(* The types of the state.                                                 *)

PhaseTyped == phase \in Phases

\* The cooker is in one of its phases.
LEMMA PhasesAreTyped == Spec => []PhaseTyped
<1>1. Init => PhaseTyped
  BY DEF Init, InitCook, InitSolve, Phases, PhaseTyped
<1>2. PhaseTyped /\ [Next]_vars => PhaseTyped'
  <2> SUFFICES ASSUME phase \in Phases, [Next]_vars
               PROVE  phase' \in Phases
    BY DEF PhaseTyped
  <2>1. CASE CookNothing \/ BeginActions \/ Generate \/ NoActions \/ MixedScales
    BY <2>1 DEF CookNothing, BeginActions, Generate, NoActions, MixedScales, Become, Phases
  <2>2. CASE Tabulate \/ EmptyTests \/ StartSolve \/ Solve \/ Unseparable
    BY <2>2 DEF Tabulate, EmptyTests, StartSolve, Solve, Unseparable, Become, Phases
  <2>3. CASE BeginMaterialize \/ MaterializeNode \/ ValidateScheme
    BY <2>3 DEF BeginMaterialize, MaterializeNode, ValidateScheme, Become, Phases
  <2>4. CASE UNCHANGED vars
    BY <2>4 DEF vars, buildVars
  <2> QED BY <2>1, <2>2, <2>3, <2>4 DEF Next
<1> QED BY <1>1, <1>2, PTL DEF Spec

\* The outcomes of a row are below its product.
LEMMA RowOutcomesFit ==
  ASSUME NEW pr, NEW pb, NEW cap, Inputs(pr, pb, cap), NEW row, RowSound(pr, pb, cap, row)
  PROVE  row.outcomes \in [DOMAIN pr -> Outcome(row.product)]
<1> DEFINE ps == Chosen(pb, row.selected)
           n == BundleCardinality(ps)
           values == BundleValues(ps)
<1>1. row.selected \in Seq(DOMAIN pb) /\ row.product = n
  BY DEF RowSound, SelectionFits
<1>2. values \in [Strings -> 0..(n - 1)]
  <2>1. IsBundle(ps)
    BY <1>1, ChosenIsBundle DEF Inputs
  <2> QED BY <2>1, BundleFits
<1>3. row.outcomes = OutcomesOf(pr, values)
  BY DEF RowSound, BundleOutcomes
<1> HIDE DEF values, n
<1>4. ASSUME NEW s \in DOMAIN pr
      PROVE  values[pr[s].left] \in 0..(n - 1) /\ values[pr[s].right] \in 0..(n - 1)
  <2>1. pr[s].left \in Strings /\ pr[s].right \in Strings
    BY ScenarioTyped DEF Inputs
  <2> QED BY <1>2, <2>1
<1>5. OutcomesOf(pr, values) \in [DOMAIN pr -> Outcome(n)]
  BY <1>4 DEF OutcomesOf, Outcome
<1> QED BY <1>1, <1>3, <1>5

\* The types of the state of the cooker.
THEOREM CookerTypes == Spec => []TypeOK
<1>1. GInv /\ SInv /\ WInv /\ PhaseTyped => TypeOK
  <2> SUFFICES ASSUME GInv, SInv, WInv, phase \in Phases
               PROVE  TypeOK
    BY DEF PhaseTyped
  <2>1. phase \in Phases \ {"invalid"}
    BY DEF WInv, WriteInv
  <2>2. ASSUME NEW k \in DOMAIN frames
        PROVE  frames[k].product \in 1..capacity
    <3>1. k \in 1..Len(frames)
      BY StackTop DEF GInv, FramesSound
    <3> QED BY <3>1 DEF GInv, FramesSound, FrameSound, SelectionFits
  <2>3. ASSUME NEW b \in DOMAIN by_behavior
        PROVE  /\ by_behavior[b].product \in 1..capacity
               /\ by_behavior[b].outcomes \in [DOMAIN prior -> Outcome(by_behavior[b].product)]
    <3>1. RowSound(prior, probes, capacity, by_behavior[b])
      BY DEF GInv, TableSound
    <3>2. by_behavior[b].product \in 1..capacity
      BY <3>1 DEF RowSound, SelectionFits
    <3> QED BY <3>1, <3>2, RowOutcomesFit DEF GInv
  <2>4. TestsTyped
    BY DEF GInv
  <2>5. MemoSound(weights, tests, memo) /\ StackSound(weights, tests, memo, stack)
    BY DEF SInv, SearchInv
  <2>6. DOMAIN memo \subseteq (SUBSET Initial) \ {{}}
    BY <2>5, InitialIsWhole DEF MemoSound
  <2>7. ASSUME NEW k \in DOMAIN stack
        PROVE  stack[k].state \in (SUBSET Initial) \ {{}} /\ stack[k].test \in 0..Len(tests)
    <3>1. k \in 1..Len(stack)
      BY <2>5, StackTop DEF StackSound
    <3>2. CallSound(weights, tests, memo, stack[k])
      BY <2>5, <3>1 DEF StackSound
    <3> QED BY <3>2, InitialIsWhole DEF CallSound
  <2> QED BY <2>1, <2>2, <2>3, <2>4, <2>6, <2>7 DEF TypeOK
<1>2. Spec => []SInv
  BY TablesAreTyped, SearchInvariant, PTL
<1> QED BY <1>1, <1>2, GenerationInvariant, WritingIsSound, PhasesAreTyped, PTL

-----------------------------------------------------------------------------
(* Sums of sums.                                                           *)

\* The sum of two functions.
LEMMA TotalOfSums ==
  ASSUME NEW D, NEW f \in [D -> Nat], NEW h \in [D -> Nat], NEW k \in [D -> Nat],
         NEW S \in SUBSET D, IsFiniteSet(S), \A x \in S : k[x] = f[x] + h[x]
  PROVE  Total(k, S) = Total(f, S) + Total(h, S)
<1> DEFINE Adds(T) == Total(k, T) = Total(f, T) + Total(h, T)
           W == {n \in Nat : \A T \in SUBSET S : Cardinality(T) = n => Adds(T)}
<1>1. 0 \in W
  <2>1. ASSUME NEW T \in SUBSET S, Cardinality(T) = 0
        PROVE  Adds(T)
    <3>1. T = {} /\ IsFiniteSet(T)
      BY <2>1, FS_Subset, FS_EmptySet
    <3>2. Total(f, T) = 0
      BY <3>1, TotalStep
    <3>3. Total(h, T) = 0
      BY <3>1, TotalStep
    <3>4. Total(k, T) = 0
      BY <3>1, TotalStep
    <3> QED BY <3>2, <3>3, <3>4
  <2> QED BY <2>1
<1>2. ASSUME NEW n \in Nat, n \in W, NEW T \in SUBSET S, Cardinality(T) = n + 1
      PROVE  Adds(T)
  <2> DEFINE p == Picked(T)
             r == T \ {p}
  <2>1. IsFiniteSet(T) /\ Cardinality(T) = n + 1
    BY <1>2, FS_Subset
  <2>2. T # {}
    BY <2>1, FS_EmptySet
  <2>3. p \in T
    BY <2>2, PickedIsIn
  <2>4. IsFiniteSet(r) /\ Cardinality(r) = IF p \in T THEN Cardinality(T) - 1 ELSE Cardinality(T)
    BY <2>1, FS_RemoveElement
  <2>5. Cardinality(r) = n /\ r \in SUBSET S /\ r \in SUBSET D /\ p \in D
    BY <2>1, <2>3, <2>4
  <2>6. Total(f, T) = f[p] + Total(f, r)
    BY <2>1, <2>2, TotalStep
  <2>7. Total(h, T) = h[p] + Total(h, r)
    BY <2>1, <2>2, TotalStep
  <2>8. Total(k, T) = k[p] + Total(k, r)
    BY <2>1, <2>2, TotalStep
  <2>9. Total(f, r) \in Nat /\ Total(h, r) \in Nat /\ f[p] \in Nat /\ h[p] \in Nat
    <3> HIDE DEF r, p
    <3> QED BY <2>4, <2>5, TotalIsNatural
  <2>10. k[p] = f[p] + h[p]
    BY <2>3
  <2> HIDE DEF r
  <2>11. Total(k, r) = Total(f, r) + Total(h, r)
    BY <1>2, <2>5
  <2> HIDE DEF p
  <2> QED BY <2>6, <2>7, <2>8, <2>9, <2>10, <2>11
<1>3. \A n \in Nat : n \in W => n + 1 \in W
  BY <1>2
<1> HIDE DEF W
<1>4. \A n \in Nat : n \in W
  BY <1>1, <1>3, Induction
<1>5. Cardinality(S) \in Nat /\ S \in SUBSET S
  BY FS_CardinalityType
<1> QED BY <1>4, <1>5 DEF W

\* The elements of S with a key of U.
Keyed(S, key, U) == {x \in S : key[x] \in U}

\* The sums over the elements with the same key, one of V.
AreSums(f, S, key, V, sums) ==
  /\ \A x \in S : key[x] \in V
  /\ \A v \in V : sums[v] = Total(f, Keyed(S, key, {v}))

\* A sum is that of the sums over the elements with the same key.
LEMMA TotalByKeys ==
  ASSUME NEW D, NEW f \in [D -> Nat], NEW S \in SUBSET D, IsFiniteSet(S), NEW key,
         NEW V, IsFiniteSet(V), NEW sums, AreSums(f, S, key, V, sums)
  PROVE  Total(f, S) = Total(sums, V)
<1> DEFINE Adds(U) == Total(f, Keyed(S, key, U)) = Total(sums, U)
           W == {n \in Nat : \A U \in SUBSET V : Cardinality(U) = n => Adds(U)}
           g == [v \in V |-> sums[v]]
<1>0. \A U : Keyed(S, key, U) \in SUBSET S /\ Keyed(S, key, U) \in SUBSET D
             /\ IsFiniteSet(Keyed(S, key, U))
  <2> SUFFICES ASSUME NEW U
               PROVE  Keyed(S, key, U) \in SUBSET S /\ Keyed(S, key, U) \in SUBSET D
                      /\ IsFiniteSet(Keyed(S, key, U))
    OBVIOUS
  <2>1. Keyed(S, key, U) \in SUBSET S
    BY DEF Keyed
  <2> QED BY <2>1, FS_Subset
<1>a. \A U : Total(f, Keyed(S, key, U)) \in Nat
  <2> SUFFICES ASSUME NEW U
               PROVE  Total(f, Keyed(S, key, U)) \in Nat
    OBVIOUS
  <2> DEFINE T == Keyed(S, key, U)
  <2>1. T \in SUBSET D /\ IsFiniteSet(T)
    BY <1>0
  <2> HIDE DEF T
  <2>2. Total(f, T) \in Nat
    BY <2>1, TotalIsNatural
  <2> QED BY <2>2 DEF T
<1>b. g \in [V -> Nat]
  BY <1>a DEF AreSums
<1>1. 0 \in W
  <2>1. ASSUME NEW U \in SUBSET V, Cardinality(U) = 0
        PROVE  Adds(U)
    <3>1. U = {} /\ IsFiniteSet(U)
      BY <2>1, FS_Subset, FS_EmptySet
    <3> DEFINE T == Keyed(S, key, U)
    <3>2. T = {} /\ IsFiniteSet(T)
      BY <3>1, FS_EmptySet DEF Keyed
    <3> HIDE DEF T
    <3>3. Total(f, T) = 0
      BY <3>2, TotalStep
    <3>4. Total(sums, U) = 0
      BY <3>1, TotalStep
    <3> QED BY <3>3, <3>4 DEF T
  <2> QED BY <2>1
<1>2. ASSUME NEW n \in Nat, n \in W, NEW U \in SUBSET V, Cardinality(U) = n + 1
      PROVE  Adds(U)
  <2>1. IsFiniteSet(U) /\ Cardinality(U) = n + 1
    BY <1>2, FS_Subset
  <2>2. U # {}
    BY <2>1, FS_EmptySet
  <2> DEFINE v == Picked(U)
             r == U \ {v}
             A == Keyed(S, key, r)
             B == Keyed(S, key, {v})
             C == Keyed(S, key, U)
  <2>3. v \in U
    BY <2>2, PickedIsIn
  <2>4. IsFiniteSet(r) /\ Cardinality(r) = IF v \in U THEN Cardinality(U) - 1 ELSE Cardinality(U)
    BY <2>1, FS_RemoveElement
  <2>5. Cardinality(r) = n /\ r \in SUBSET V
    BY <2>1, <2>3, <2>4
  <2>6. Total(sums, U) = sums[v] + Total(sums, r)
    BY <2>1, <2>2, TotalStep
  <2>7. C = A \cup B /\ A \cap B = {}
    BY <2>3 DEF Keyed
  <2>8. /\ A \in SUBSET D /\ B \in SUBSET D /\ IsFiniteSet(A) /\ IsFiniteSet(B)
        /\ Total(f, A) \in Nat /\ Total(f, B) \in Nat
    BY <1>0, <1>a
  <2>9. sums[v] = Total(f, B)
    BY <2>3 DEF AreSums
  <2>10. Total(f, A) = Total(sums, r)
    <3> HIDE DEF r
    <3> QED BY <1>2, <2>5
  <2> HIDE DEF A, B, C, r, v
  <2>11. Total(f, A \cup B) = Total(f, A) + Total(f, B)
    BY <2>7, <2>8, TotalOfTwo
  <2> QED BY <2>6, <2>7, <2>8, <2>9, <2>10, <2>11 DEF C
<1>3. \A n \in Nat : n \in W => n + 1 \in W
  BY <1>2
<1> HIDE DEF W
<1>4. \A n \in Nat : n \in W
  BY <1>1, <1>3, Induction
<1>5. Cardinality(V) \in Nat /\ V \in SUBSET V
  BY FS_CardinalityType
<1>6. Adds(V)
  BY <1>4, <1>5 DEF W
<1>7. Keyed(S, key, V) = S
  BY DEF Keyed, AreSums
<1> QED BY <1>6, <1>7

\* The sum of the units of the rows of a pair.
UnitsOf(rows) == [i \in DOMAIN rows |-> rows[i].units]

\* The units of merged rows are a sum over these rows.
LEMMA MergedIsTotal ==
  ASSUME NEW rows \in Seq(Scenarios), NEW pair
  PROVE  MergedUnits(rows, pair) = Total(UnitsOf(rows), RowsOf(rows, pair))
<1> DEFINE S == RowsOf(rows, pair)
           f == [i \in DOMAIN rows |-> rows[i].units]
           Adds(g) == g = [s \in SUBSET S |-> IF s = {} THEN 0
                                              ELSE rows[Picked(s)].units + g[s \ {Picked(s)}]]
<1>1. DOMAIN rows = 1..Len(rows) /\ Len(rows) \in Nat
  OBVIOUS
<1>2. S \in SUBSET DOMAIN rows
  BY DEF RowsOf
<1>3. MergedUnits(rows, pair) = (CHOOSE g : Adds(g))[S]
  BY DEF MergedUnits, MapThenSumSet, MapThenFoldSet, Picked
<1> HIDE DEF S
<1>5. \A s \in SUBSET S : s # {} => f[Picked(s)] = rows[Picked(s)].units
  BY <1>2, PickedIsIn
<1> HIDE DEF f
<1>6. \A g : Adds(g) <=> AddsUp(g, f, S)
  <2>1. ASSUME NEW g
        PROVE  [s \in SUBSET S |-> IF s = {} THEN 0 ELSE rows[Picked(s)].units + g[s \ {Picked(s)}]]
                 = [s \in SUBSET S |-> IF s = {} THEN 0 ELSE f[Picked(s)] + g[s \ {Picked(s)}]]
    BY <1>5
  <2> QED BY <2>1 DEF AddsUp
<1> HIDE DEF Adds
<1>4. IsFiniteSet(S)
  <2> DEFINE a == 1
             b == Len(rows)
  <2>1. a \in Int /\ b \in Int
    BY <1>1
  <2> HIDE DEF a, b
  <2>2. IsFiniteSet(a..b)
    BY <2>1, FS_Interval
  <2>3. IsFiniteSet(DOMAIN rows)
    BY <1>1, <2>2 DEF a, b
  <2> QED BY <1>2, <2>3, FS_Subset
<1>7. Cardinality(S) \in Nat
  BY <1>4, FS_CardinalityType
<1>8. \E g : AddsUp(g, f, S)
  BY <1>4, <1>7, AddsUpExists
<1> DEFINE h == CHOOSE g : Adds(g)
<1>9. Adds(h)
  BY <1>6, <1>8
<1> HIDE DEF h
<1>10. AddsUp(h, f, S)
  BY <1>6, <1>9
<1>11. PICK g : AddsUp(g, f, S) /\ Total(f, S) = g[S]
  BY <1>8, TotalAddsUp
<1>12. g[S] = h[S]
  <2>1. AgreeOn(f, Cardinality(S)) /\ S \in SUBSET S
    BY <1>7, AddsUpOnce
  <2> QED BY <1>4, <1>10, <1>11, <2>1 DEF AgreeOn
<1>13. f = UnitsOf(rows)
  BY DEF f, UnitsOf
<1> QED BY <1>3, <1>11, <1>12, <1>13 DEF h, S

\* A sum of products with one factor.
LEMMA TotalScaled ==
  ASSUME NEW D, NEW f \in [D -> Nat], NEW k \in [D -> Nat], NEW c \in Nat,
         NEW S \in SUBSET D, IsFiniteSet(S), \A x \in S : k[x] = f[x] * c
  PROVE  Total(k, S) = Total(f, S) * c
<1> DEFINE Scales(T) == Total(k, T) = Total(f, T) * c
           W == {n \in Nat : \A T \in SUBSET S : Cardinality(T) = n => Scales(T)}
<1>1. 0 \in W
  <2>1. ASSUME NEW T \in SUBSET S, Cardinality(T) = 0
        PROVE  Scales(T)
    <3>1. T = {} /\ IsFiniteSet(T)
      BY <2>1, FS_Subset, FS_EmptySet
    <3>2. Total(f, T) = 0
      BY <3>1, TotalStep
    <3>3. Total(k, T) = 0
      BY <3>1, TotalStep
    <3> QED BY <3>2, <3>3
  <2> QED BY <2>1
<1>2. ASSUME NEW n \in Nat, n \in W, NEW T \in SUBSET S, Cardinality(T) = n + 1
      PROVE  Scales(T)
  <2> DEFINE p == Picked(T)
             r == T \ {p}
  <2>1. IsFiniteSet(T) /\ Cardinality(T) = n + 1
    BY <1>2, FS_Subset
  <2>2. T # {}
    BY <2>1, FS_EmptySet
  <2>3. p \in T
    BY <2>2, PickedIsIn
  <2>4. IsFiniteSet(r) /\ Cardinality(r) = IF p \in T THEN Cardinality(T) - 1 ELSE Cardinality(T)
    BY <2>1, FS_RemoveElement
  <2>5. Cardinality(r) = n /\ r \in SUBSET S /\ r \in SUBSET D /\ p \in D
    BY <2>1, <2>3, <2>4
  <2>6. Total(f, T) = f[p] + Total(f, r)
    BY <2>1, <2>2, TotalStep
  <2>7. Total(k, T) = k[p] + Total(k, r)
    BY <2>1, <2>2, TotalStep
  <2>8. Total(f, r) \in Nat /\ f[p] \in Nat
    <3> HIDE DEF r, p
    <3> QED BY <2>4, <2>5, TotalIsNatural
  <2>9. k[p] = f[p] * c
    BY <2>3
  <2> HIDE DEF r
  <2>10. Total(k, r) = Total(f, r) * c
    BY <1>2, <2>5
  <2> HIDE DEF p
  <2> DEFINE a == f[p]
             b == Total(f, r)
  <2>11. a \in Nat /\ b \in Nat /\ Total(k, T) = a * c + b * c /\ Total(f, T) = a + b
    BY <2>6, <2>7, <2>8, <2>9, <2>10
  <2> HIDE DEF a, b
  <2>12. a * c + b * c = (a + b) * c
    BY <2>11
  <2> QED BY <2>11, <2>12
<1>3. \A n \in Nat : n \in W => n + 1 \in W
  BY <1>2
<1> HIDE DEF W
<1>4. \A n \in Nat : n \in W
  BY <1>1, <1>3, Induction
<1>5. Cardinality(S) \in Nat /\ S \in SUBSET S
  BY FS_CardinalityType
<1> QED BY <1>4, <1>5 DEF W

\* What is zero adds nothing.
LEMMA TotalOfRest ==
  ASSUME NEW D, NEW f \in [D -> Nat], NEW T \in SUBSET D, IsFiniteSet(T), NEW S \in SUBSET T,
         \A x \in T \ S : f[x] = 0
  PROVE  Total(f, T) = Total(f, S)
<1> DEFINE R == T \ S
           zero == 0
<1>1. R \in SUBSET D /\ S \in SUBSET D /\ S \cap R = {} /\ S \cup R = T
  OBVIOUS
<1>2. IsFiniteSet(R) /\ IsFiniteSet(S)
  BY FS_Subset
<1>3. \A x \in R : f[x] = f[x] * zero
  OBVIOUS
<1>4. zero \in Nat
  OBVIOUS
<1> HIDE DEF R, zero
<1>5. Total(f, R) = Total(f, R) * zero
  BY <1>1, <1>2, <1>3, <1>4, TotalScaled
<1>6. Total(f, R) \in Nat /\ Total(f, S) \in Nat
  BY <1>1, <1>2, TotalIsNatural
<1>7. Total(f, R) = 0
  BY <1>5, <1>6 DEF zero
<1>8. Total(f, S \cup R) = Total(f, S) + Total(f, R)
  BY <1>1, <1>2, TotalOfTwo
<1>9. S \cup R = T
  BY <1>1
<1>10. Total(f, T) = Total(f, S) + Total(f, R)
  BY <1>8, <1>9
<1> QED BY <1>6, <1>7, <1>10

-----------------------------------------------------------------------------
(* What the nodes cost.  A scenario of a node goes along the nodes until   *)
(* one resolves it.                                                        *)

OutcomeAt(ts, m, S, s) == ts[TestOf(m, S)][s]

IsKid(ns, k, v, h) == \E j \in 1..Len(ns[k].branches) : ns[k].branches[j] = <<v, h - 1>>

\* The scenario s goes from the node k to the node h.
Passes(ts, m, ns, g, s, k, h) ==
  /\ Collides(OutcomeAt(ts, m, g[k], s))
  /\ IsKid(ns, k, OutcomeAt(ts, m, g[k], s).left, h)

\* p are the j nodes of s.
IsRun(ts, m, ns, g, s, p, j) ==
  /\ p \in [1..j -> 1..Len(ns)]
  /\ \A i \in 1..(j - 1) : Passes(ts, m, ns, g, s, p[i], p[i + 1])
  /\ ~Collides(OutcomeAt(ts, m, g[p[j]], s))

Lasts(ts, m, ns, g, k, s, j) ==
  j \in Nat \ {0} /\ \E p : IsRun(ts, m, ns, g, s, p, j) /\ p[1] = k

\* A node that resolves the scenario.
LEMMA RunEnds ==
  ASSUME NEW ts, NEW m, NEW ns, NEW g, NEW k \in 1..Len(ns), NEW s, NEW j, j = 1,
         ~Collides(OutcomeAt(ts, m, g[k], s))
  PROVE  Lasts(ts, m, ns, g, k, s, j)
<1> DEFINE p == [i \in 1..j |-> k]
<1>1. p \in [1..j -> 1..Len(ns)] /\ p[1] = k /\ p[j] = k
  OBVIOUS
<1>2. \A i \in 1..(j - 1) : FALSE
  OBVIOUS
<1> HIDE DEF p
<1>3. IsRun(ts, m, ns, g, s, p, j)
  BY <1>1, <1>2 DEF IsRun
<1> QED BY <1>1, <1>3 DEF Lasts

\* A node that leaves it to another one.
LEMMA RunGoesOn ==
  ASSUME NEW ts, NEW m, NEW ns, NEW g, NEW k \in 1..Len(ns), NEW h \in 1..Len(ns), NEW s,
         NEW i, NEW j, Lasts(ts, m, ns, g, h, s, i), j = i + 1,
         Passes(ts, m, ns, g, s, k, h)
  PROVE  Lasts(ts, m, ns, g, k, s, j)
<1>1. PICK q : IsRun(ts, m, ns, g, s, q, i) /\ q[1] = h
  BY DEF Lasts
<1>2. i \in Nat \ {0} /\ j \in Nat \ {0}
  BY DEF Lasts
<1> DEFINE p == [a \in 1..j |-> IF a = 1 THEN k ELSE q[a - 1]]
<1>3. q \in [1..i -> 1..Len(ns)]
  BY <1>1 DEF IsRun
<1>4. \A a \in 1..j : a # 1 => a - 1 \in 1..i
  BY <1>2
<1>5. \A a \in 1..j : p[a] = IF a = 1 THEN k ELSE q[a - 1]
  OBVIOUS
<1>6. p \in [1..j -> 1..Len(ns)]
  BY <1>3, <1>4
<1> HIDE DEF p
<1>7. ASSUME NEW a \in 1..(j - 1)
      PROVE  Passes(ts, m, ns, g, s, p[a], p[a + 1])
  <2>1. a \in 1..j /\ a + 1 \in 1..j /\ a + 1 # 1 /\ (a + 1) - 1 = a
    BY <1>2
  <2>2. p[a + 1] = q[a]
    BY <1>5, <2>1
  <2>3. CASE a = 1
    <3>1. p[a] = k /\ p[a + 1] = h
      BY <1>1, <1>5, <2>1, <2>2, <2>3
    <3> QED BY <3>1
  <2>4. CASE a # 1
    <3> DEFINE b == a - 1
    <3>1. b \in 1..(i - 1) /\ a = b + 1 /\ p[a] = q[b]
      BY <1>2, <1>5, <2>1, <2>4
    <3> HIDE DEF b
    <3>2. Passes(ts, m, ns, g, s, q[b], q[b + 1])
      BY <1>1, <3>1 DEF IsRun
    <3> QED BY <2>2, <3>1, <3>2
  <2> QED BY <2>3, <2>4
<1>8. p[j] = q[i] /\ p[1] = k
  BY <1>2, <1>5
<1>9. ~Collides(OutcomeAt(ts, m, g[q[i]], s))
  BY <1>1 DEF IsRun
<1>10. IsRun(ts, m, ns, g, s, p, j)
  BY <1>6, <1>7, <1>8, <1>9 DEF IsRun
<1> QED BY <1>2, <1>8, <1>10 DEF Lasts

\* What the scenarios of S pay for f atoms.
Paid(ws, S, f) == [s \in S |-> ws[s] * f[s]]

CostSound(ws, ts, m, ns, g, k, f) ==
  /\ f \in [g[k] -> Nat \ {0}]
  /\ m[g[k]].cost = Total(Paid(ws, g[k], f), g[k])
  /\ \A s \in g[k] : Lasts(ts, m, ns, g, k, s, f[s])

HasCost(ws, ts, m, ns, g, k) == \E f : CostSound(ws, ts, m, ns, g, k, f)

\* The numbers of atoms from a node on: one more than from the node that the scenario
\* goes to, and one where it is resolved.
AtomsFrom(ts, t, S, F) ==
  [s \in S |-> IF s \in Left(ts, t, S) THEN F[ts[t][s].left][s] + 1 ELSE 1]

\* F has, per branch, for how many atoms its scenarios pay.
BranchesPay(ws, ts, m, t, S, F) ==
  \A v \in Values(ts, t, S) :
    /\ F[v] \in [Part(ts, t, S, v) -> Nat \ {0}]
    /\ m[Part(ts, t, S, v)].cost = Total(Paid(ws, Part(ts, t, S, v), F[v]), Part(ts, t, S, v))

\* They pay the cost of a tree that begins with a test.
PaysFor(ws, ts, m, t, S, f) ==
  /\ f \in [S -> Nat \ {0}]
  /\ CostOf(ws, ts, m, t, S) = Total(Paid(ws, S, f), S)

\* What a state costs is what its scenarios pay, if this is so for its branches.
LEMMA CostsAddUp ==
  ASSUME NEW ws, NEW ts, Table(ws, ts), NEW m, MemoSound(ws, ts, m),
         NEW S \in SUBSET Whole(ws), NEW t \in DOMAIN ts, Solved(ts, m, t, S, Values(ts, t, S)),
         NEW F, BranchesPay(ws, ts, m, t, S, F),
         NEW f, f = AtomsFrom(ts, t, S, F)
  PROVE  PaysFor(ws, ts, m, t, S, f)
<1> DEFINE V == Values(ts, t, S)
           L == Left(ts, t, S)
           w == [s \in S |-> ws[s]]
           e == [s \in S |-> IF s \in L THEN ws[s] * F[ts[t][s].left][s] ELSE 0]
           k == Paid(ws, S, f)
           key == [s \in L |-> ts[t][s].left]
           sums == ChildCosts(ts, m, t, S, V)
<1>1. /\ IsFiniteSet(S) /\ ws \in [DOMAIN ws -> Nat] /\ S \in SUBSET DOMAIN ws
      /\ V \in SUBSET Nat /\ IsFiniteSet(V)
      /\ \A v \in V : Part(ts, t, S, v) \in SUBSET S
  BY StatesAreFinite
<1>2. L \in SUBSET S
  BY DEF Left
<1>3. \A s \in L : ts[t][s].left \in V /\ s \in Part(ts, t, S, ts[t][s].left)
  BY DEF Values, Part
<1>4. ASSUME NEW s \in L
      PROVE  F[ts[t][s].left][s] \in Nat \ {0}
  <2> DEFINE v == ts[t][s].left
             P == Part(ts, t, S, v)
  <2>1. v \in V /\ s \in P
    BY <1>3
  <2>2. F[v] \in [P -> Nat \ {0}]
    BY <2>1 DEF BranchesPay
  <2> HIDE DEF P, v
  <2>3. F[v][s] \in Nat \ {0}
    BY <2>1, <2>2
  <2> QED BY <2>3 DEF v
<1>5. \A s \in S : ws[s] \in Nat
  BY <1>1
<1>6. \A s \in S : f[s] = IF s \in L THEN F[ts[t][s].left][s] + 1 ELSE 1
  BY DEF AtomsFrom
<1>7. f \in [S -> Nat \ {0}]
  <2>1. \A s \in L : F[ts[t][s].left][s] + 1 \in Nat \ {0}
    BY <1>4
  <2> QED BY <2>1 DEF AtomsFrom
<1>8. \A s \in S : k[s] = ws[s] * f[s]
  BY DEF Paid
<1>9. w \in [S -> Nat]
  BY <1>5
<1>10. e \in [S -> Nat]
  <2>1. ASSUME NEW s \in L
        PROVE  ws[s] * F[ts[t][s].left][s] \in Nat
    BY <1>2, <1>4, <1>5
  <2> QED BY <2>1
<1>11. k \in [S -> Nat]
  <2>1. ASSUME NEW s \in S
        PROVE  ws[s] * f[s] \in Nat
    <3>1. f[s] \in Nat
      BY <1>7
    <3> QED BY <1>5, <3>1
  <2> QED BY <2>1 DEF Paid
<1>12. ASSUME NEW s \in S
       PROVE  k[s] = w[s] + e[s]
  <2> DEFINE a == ws[s]
             b == F[ts[t][s].left][s]
  <2>1. a \in Nat /\ k[s] = a * f[s] /\ w[s] = a
    BY <1>5, <1>8
  <2>2. CASE s \in L
    <3>1. b \in Nat /\ f[s] = b + 1 /\ e[s] = a * b
      BY <1>4, <1>6, <2>2
    <3> HIDE DEF a, b
    <3>2. a * (b + 1) = a + a * b
      BY <2>1, <3>1
    <3> QED BY <2>1, <3>1, <3>2
  <2>3. CASE s \notin L
    <3>1. f[s] = 1 /\ e[s] = 0
      BY <1>6, <2>3
    <3> HIDE DEF a, b
    <3>2. a * 1 = a + 0
      BY <2>1
    <3> QED BY <2>1, <3>1, <3>2
  <2> QED BY <2>2, <2>3
<1>13. \A s \in S : w[s] = ws[s]
  OBVIOUS
<1>14. \A s \in S \ L : e[s] = 0
  OBVIOUS
<1>15. \A s \in L : e[s] = ws[s] * F[ts[t][s].left][s]
  BY <1>2
<1>16. \A v \in V : Keyed(L, key, {v}) = Part(ts, t, S, v)
  BY DEF Keyed, Part
<1>17. \A v \in V : sums[v] = m[Part(ts, t, S, v)].cost
  BY DEF ChildCosts
<1>18. \A s \in L : key[s] \in V
  BY <1>3
<1>19. CostOf(ws, ts, m, t, S) = Total(ws, S) + Total(sums, V)
  BY DEF CostOf, Spent
<1> HIDE DEF w, e, k, key, sums, L
<1>20. Total(k, S) = Total(w, S) + Total(e, S)
  <2>1. S \in SUBSET S
    OBVIOUS
  <2> QED BY <1>1, <1>9, <1>10, <1>11, <1>12, <2>1, TotalOfSums
<1>21. Total(w, S) = Total(ws, S)
  BY <1>1, <1>13, TotalAgree
<1>22. Total(e, S) = Total(e, L)
  <2>1. S \in SUBSET S
    OBVIOUS
  <2> QED BY <1>1, <1>2, <1>10, <1>14, <2>1, TotalOfRest
<1>23. ASSUME NEW v \in V
       PROVE  sums[v] = Total(e, Keyed(L, key, {v}))
  <2> DEFINE P == Part(ts, t, S, v)
             q == Paid(ws, P, F[v])
  <2>1. P \in SUBSET S /\ P \in SUBSET L /\ \A s \in P : ts[t][s].left = v
    BY <1>1 DEF Part, L
  <2>2. IsFiniteSet(P)
    BY <1>1, <2>1, FS_Subset
  <2>3. \A s \in P : q[s] = ws[s] * F[v][s]
    BY DEF Paid
  <2>4. sums[v] = Total(q, P)
    BY <1>17 DEF BranchesPay
  <2> HIDE DEF P, q
  <2>5. \A s \in P : q[s] = e[s]
    BY <1>15, <2>1, <2>3
  <2>6. Total(q, P) = Total(e, P)
    BY <2>2, <2>5, TotalAgree
  <2>7. Keyed(L, key, {v}) = P
    BY <1>16 DEF P
  <2> QED BY <2>4, <2>6, <2>7
<1>24. Total(e, L) = Total(sums, V)
  <2>1. IsFiniteSet(L)
    BY <1>1, <1>2, FS_Subset
  <2> HIDE DEF V
  <2>2. \A v \in V : sums[v] = Total(e, Keyed(L, key, {v}))
    BY <1>23
  <2>3. IsFiniteSet(V)
    BY <1>1
  <2>4. AreSums(e, L, key, V, sums)
    BY <1>18, <2>2 DEF AreSums
  <2> QED BY <1>2, <1>10, <2>1, <2>3, <2>4, TotalByKeys
<1>25. CostOf(ws, ts, m, t, S) = Total(k, S)
  BY <1>19, <1>20, <1>21, <1>22, <1>24
<1>26. CostOf(ws, ts, m, t, S) = Total(Paid(ws, S, f), S)
  BY <1>25 DEF k
<1> QED BY <1>7, <1>26 DEF PaysFor

\* Nothing is to come: every branch of a node is there, and leads to a later one.
LEMMA KidIsThere ==
  ASSUME NEW ws, NEW ts, NEW m, NEW bs, NEW pb, NEW ns, NEW pd, pd = <<>>, NEW g,
         WritingSound(ws, ts, m, bs, pb, ns, pd, g),
         NEW k \in 1..Len(ns), NEW v \in AtomsAt(ts, m, g[k])
  PROVE  \E h \in 1..Len(ns) : h > k /\ IsKid(ns, k, v, h) /\ g[h] = KidAt(ts, m, g[k], v)
<1> DEFINE n == Len(ns)
           br == ns[k].branches
<1>1. ~WillHaveBranch(pd, k, v)
  BY DEF WillHaveBranch
<1>2. PICK j \in 1..Len(br) : br[j][1] = v
  BY <1>1 DEF WritingSound, BranchesComplete, HasBranch
<1>3. n \in Nat /\ LinkSound(ts, m, g, n, k, br[j])
  BY <1>2 DEF WritingSound, NodesSound, LinksSound, IsList
<1> DEFINE b == br[j]
           h == b[2] + 1
<1>4. /\ b = <<b[1], b[2]>> /\ b[2] \in k..(n - 1)
      /\ g[b[2] + 1] = KidAt(ts, m, g[k], b[1])
  BY <1>3 DEF LinkSound
<1>5. b[2] \in Int /\ k \in Int /\ n \in Int
  BY <1>3, <1>4
<1>6. h \in 1..n /\ h > k /\ h - 1 = b[2]
  BY <1>4, <1>5
<1>7. b = <<v, h - 1>> /\ g[h] = KidAt(ts, m, g[k], v)
  BY <1>2, <1>4, <1>6
<1>8. IsKid(ns, k, v, h)
  BY <1>2, <1>7 DEF IsKid
<1> QED BY <1>6, <1>7, <1>8

\* The same for a state of the memo.
LEMMA StateCostsAddUp ==
  ASSUME NEW ws, NEW ts, Table(ws, ts), NEW m, MemoSound(ws, ts, m), NEW S \in DOMAIN m,
         AnswerSound(ws, ts, m, S, m[S]), NEW t, t = TestOf(m, S),
         NEW F, BranchesPay(ws, ts, m, t, S, F), NEW f, f = AtomsFrom(ts, t, S, F)
  PROVE  /\ f \in [S -> Nat \ {0}]
         /\ m[S].cost = Total(Paid(ws, S, f), S)
<1>1. S \in SUBSET Whole(ws)
  BY DEF MemoSound
<1>2. /\ t \in DOMAIN ts /\ Solved(ts, m, t, S, Values(ts, t, S))
      /\ m[S].cost = CostOf(ws, ts, m, t, S)
  <2>1. DOMAIN ts = 1..Len(ts)
    BY DEF Table
  <2> QED BY <2>1 DEF AnswerSound, TestOf
<1>3. PaysFor(ws, ts, m, t, S, f)
  BY <1>1, <1>2, CostsAddUp
<1> QED BY <1>2, <1>3 DEF PaysFor

\* What a node costs, if the later ones do so.
LEMMA NodeHasCost ==
  ASSUME NEW ws, NEW ts, Table(ws, ts), NEW m, MemoSound(ws, ts, m),
         \A S \in DOMAIN m : AnswerSound(ws, ts, m, S, m[S]),
         NEW bs, NEW pb, NEW ns, NEW pd, pd = <<>>, NEW g,
         WritingSound(ws, ts, m, bs, pb, ns, pd, g),
         NEW k \in 1..Len(ns),
         \A h \in 1..Len(ns) : h > k => HasCost(ws, ts, m, ns, g, h)
  PROVE  HasCost(ws, ts, m, ns, g, k)
<1> DEFINE n == Len(ns)
           S == g[k]
           t == TestOf(m, S)
           V == Values(ts, t, S)
           L == Left(ts, t, S)
           Kid(v, h) == h \in 1..n /\ IsKid(ns, k, v, h) /\ g[h] = Part(ts, t, S, v)
           Fits(v, f) == \E h : Kid(v, h) /\ CostSound(ws, ts, m, ns, g, h, f)
           F == [v \in V |-> CHOOSE f : Fits(v, f)]
           f == [s \in S |-> IF s \in L THEN F[ts[t][s].left][s] + 1 ELSE 1]
<1>1. S \in DOMAIN m
  BY DEF WritingSound, NodesSound
<1>2. S \in SUBSET Whole(ws)
  BY <1>1 DEF MemoSound
<1>3. /\ t \in DOMAIN ts /\ Solved(ts, m, t, S, V)
      /\ m[S].cost = CostOf(ws, ts, m, t, S)
  <2>1. DOMAIN ts = 1..Len(ts)
    BY DEF Table
  <2>2. AnswerSound(ws, ts, m, S, m[S])
    BY <1>1
  <2> QED BY <2>1, <2>2 DEF AnswerSound, TestOf
<1>4. ASSUME NEW v \in V
      PROVE  Fits(v, F[v])
  <2>1. v \in AtomsAt(ts, m, S)
    BY DEF AtomsAt
  <2> HIDE DEF V
  <2>2. PICK h \in 1..n : h > k /\ IsKid(ns, k, v, h) /\ g[h] = KidAt(ts, m, S, v)
    BY <2>1, KidIsThere
  <2>3. Kid(v, h)
    BY <2>2 DEF KidAt
  <2>4. PICK q : CostSound(ws, ts, m, ns, g, h, q)
    BY <2>2 DEF HasCost
  <2>5. Fits(v, q)
    BY <2>3, <2>4
  <2> HIDE DEF Fits
  <2> QED BY <2>5
<1>5. BranchesPay(ws, ts, m, t, S, F)
  <2>1. ASSUME NEW v \in V
        PROVE  /\ F[v] \in [Part(ts, t, S, v) -> Nat \ {0}]
               /\ m[Part(ts, t, S, v)].cost
                    = Total(Paid(ws, Part(ts, t, S, v), F[v]), Part(ts, t, S, v))
    <3> HIDE DEF F, V
    <3>1. PICK h : Kid(v, h) /\ CostSound(ws, ts, m, ns, g, h, F[v])
      BY <1>4
    <3>2. g[h] = Part(ts, t, S, v)
      BY <3>1
    <3> QED BY <3>1, <3>2 DEF CostSound
  <2> QED BY <2>1 DEF BranchesPay
<1>6. f \in [S -> Nat \ {0}] /\ m[S].cost = Total(Paid(ws, S, f), S)
  <2>1. f = AtomsFrom(ts, t, S, F)
    BY DEF AtomsFrom
  <2>2. t = TestOf(m, S) /\ AnswerSound(ws, ts, m, S, m[S])
    BY <1>1
  <2> HIDE DEF F, f, S, t, V, L
  <2> QED BY <1>1, <1>5, <2>1, <2>2, StateCostsAddUp
<1>7. ASSUME NEW s \in S
      PROVE  Lasts(ts, m, ns, g, k, s, f[s])
  <2> HIDE DEF F
  <2>1. CASE s \notin L
    <3>1. f[s] = 1
      BY <2>1
    <3>2. ~Collides(OutcomeAt(ts, m, g[k], s))
      BY <2>1 DEF Collides, OutcomeAt, Left
    <3> DEFINE j == f[s]
    <3> HIDE DEF f
    <3>3. j = 1
      BY <3>1
    <3> HIDE DEF j
    <3>4. Lasts(ts, m, ns, g, k, s, j)
      BY <3>2, <3>3, RunEnds
    <3> QED BY <3>4 DEF j
  <2>2. CASE s \in L
    <3> DEFINE v == ts[t][s].left
               i == F[v][s]
               j == f[s]
    <3>1. v \in V /\ s \in Part(ts, t, S, v) /\ j = i + 1
      BY <2>2 DEF Values, Part
    <3>2. Collides(OutcomeAt(ts, m, g[k], s)) /\ OutcomeAt(ts, m, g[k], s).left = v
      BY <2>2 DEF Collides, OutcomeAt, Left
    <3> HIDE DEF v, f
    <3>3. PICK h : Kid(v, h) /\ CostSound(ws, ts, m, ns, g, h, F[v])
      BY <1>4, <3>1
    <3>4. s \in g[h]
      BY <3>1, <3>3
    <3>5. Lasts(ts, m, ns, g, h, s, i)
      BY <3>3, <3>4 DEF CostSound
    <3>6. Passes(ts, m, ns, g, s, k, h) /\ h \in 1..Len(ns)
      BY <3>2, <3>3 DEF Passes
    <3> HIDE DEF i, j
    <3>7. Lasts(ts, m, ns, g, k, s, j)
      BY <3>1, <3>5, <3>6, RunGoesOn
    <3> QED BY <3>7 DEF j
  <2> QED BY <2>1, <2>2
<1> HIDE DEF f
<1>8. CostSound(ws, ts, m, ns, g, k, f)
  BY <1>3, <1>6, <1>7 DEF CostSound
<1> QED BY <1>8 DEF HasCost

\* All nodes do.
LEMMA NodesHaveCosts ==
  ASSUME NEW ws, NEW ts, Table(ws, ts), NEW m, MemoSound(ws, ts, m),
         \A S \in DOMAIN m : AnswerSound(ws, ts, m, S, m[S]),
         NEW bs, NEW pb, NEW ns, NEW pd, pd = <<>>, NEW g,
         WritingSound(ws, ts, m, bs, pb, ns, pd, g), NEW k \in 1..Len(ns)
  PROVE  HasCost(ws, ts, m, ns, g, k)
<1> DEFINE n == Len(ns)
           W == {d \in Nat : \A h \in 1..n : n - h < d => HasCost(ws, ts, m, ns, g, h)}
<1>0. n \in Nat
  BY DEF WritingSound, NodesSound, IsList
<1>1. 0 \in W
  BY <1>0
<1>2. ASSUME NEW d \in Nat, d \in W
      PROVE  d + 1 \in W
  <2>1. ASSUME NEW h \in 1..n, n - h < d + 1
        PROVE  HasCost(ws, ts, m, ns, g, h)
    <3>1. \A a \in 1..n : a > h => n - a < d
      BY <1>0, <2>1
    <3>2. \A a \in 1..Len(ns) : a > h => HasCost(ws, ts, m, ns, g, a)
      BY <1>2, <3>1
    <3> QED BY <3>2, NodeHasCost
  <2> QED BY <2>1
<1>3. \A d \in Nat : d \in W => d + 1 \in W
  BY <1>2
<1> HIDE DEF W
<1>4. \A d \in Nat : d \in W
  BY <1>1, <1>3, Induction
<1>5. n - k < n /\ k \in 1..n
  BY <1>0
<1> QED BY <1>0, <1>4, <1>5 DEF W

-----------------------------------------------------------------------------
(* What the scheme does with the strings of a scenario.                    *)

\* w are the nodes before the atoms of x.
IsWalk(s, x, w, n) ==
  w = [k \in 1..(n + 1) |->
         IF k = 1 THEN s.root
         ELSE IF w[k - 1] = None THEN None
         ELSE ChildFor(NodeOf(s, w[k - 1]), BundleValues(NodeOf(s, w[k - 1]).action)[x])]

\* There is such a walk.
LEMMA WalkExists ==
  ASSUME NEW s, NEW x
  PROVE  \A n \in Nat : \E w : IsWalk(s, x, w, n)
<1> DEFINE W == {n \in Nat : \E w : IsWalk(s, x, w, n)}
           More(v) == IF v = None THEN None
                      ELSE ChildFor(NodeOf(s, v), BundleValues(NodeOf(s, v).action)[x])
<1>1. 0 \in W
  <2> DEFINE w == [k \in 1..(0 + 1) |-> s.root]
  <2>1. \A k \in 1..(0 + 1) : k = 1
    OBVIOUS
  <2>2. IsWalk(s, x, w, 0)
    BY <2>1 DEF IsWalk
  <2> QED BY <2>2
<1>2. ASSUME NEW n \in Nat, NEW w, IsWalk(s, x, w, n)
      PROVE  \E q : IsWalk(s, x, q, n + 1)
  <2> DEFINE m == n + 1
             q == [k \in 1..(m + 1) |-> IF k = m + 1 THEN More(w[m]) ELSE w[k]]
  <2>1. /\ \A k \in 1..m : q[k] = w[k]
        /\ q[m + 1] = More(w[m])
        /\ q = [k \in 1..(m + 1) |-> q[k]]
    OBVIOUS
  <2>2. \A k \in 1..m : w[k] = IF k = 1 THEN s.root ELSE More(w[k - 1])
    BY <1>2 DEF IsWalk
  <2>0. m \in Nat \ {0}
    OBVIOUS
  <2> HIDE DEF q, More, m
  <2>3. ASSUME NEW k \in 1..(m + 1)
        PROVE  q[k] = IF k = 1 THEN s.root ELSE More(q[k - 1])
    <3>1. CASE k = m + 1
      <4>1. k # 1 /\ k - 1 = m /\ m \in 1..m
        BY <2>0, <3>1
      <4> QED BY <2>1, <3>1, <4>1
    <3>2. CASE k # m + 1
      <4>1. k \in 1..m /\ (k # 1 => k - 1 \in 1..m)
        BY <2>0, <3>2
      <4> QED BY <2>1, <2>2, <4>1
    <3> QED BY <3>1, <3>2
  <2>4. q = [k \in 1..(m + 1) |-> IF k = 1 THEN s.root ELSE More(q[k - 1])]
    BY <2>1, <2>3
  <2>5. IsWalk(s, x, q, m)
    BY <2>4 DEF IsWalk, More
  <2> QED BY <2>5 DEF m
<1>3. \A n \in Nat : n \in W => n + 1 \in W
  BY <1>2
<1> HIDE DEF W
<1>4. \A n \in Nat : n \in W
  BY <1>1, <1>3, Induction
<1> QED BY <1>4 DEF W

\* Walk is one.
LEMMA WalkIs ==
  ASSUME NEW x, Len(nodes) \in Nat
  PROVE  IsWalk(Scheme, x, Walk(x), Len(nodes))
<1> DEFINE n == Len(nodes)
           w == CHOOSE q : IsWalk(Scheme, x, q, n)
<1>1. IsWalk(Scheme, x, w, n)
  BY WalkExists
<1>2. Walk(x) = w
  BY DEF Walk, IsWalk, AtomOf
<1> QED BY <1>1, <1>2

\* One step of it.
LEMMA WalkStep ==
  ASSUME NEW x, Len(nodes) \in Nat, NEW k \in 1..(Len(nodes) + 1)
  PROVE  /\ k = 1 => Walk(x)[k] = Scheme.root
         /\ k # 1 /\ Walk(x)[k - 1] # None =>
              Walk(x)[k] = ChildFor(NodeOf(Scheme, Walk(x)[k - 1]), AtomOf(Walk(x)[k - 1], x))
<1> DEFINE w == Walk(x)
           n == Len(nodes)
<1>1. IsWalk(Scheme, x, w, n)
  BY WalkIs
<1> HIDE DEF w
<1>2. w[k] = IF k = 1 THEN Scheme.root
             ELSE IF w[k - 1] = None THEN None
             ELSE ChildFor(NodeOf(Scheme, w[k - 1]), BundleValues(NodeOf(Scheme, w[k - 1]).action)[x])
  BY <1>1 DEF IsWalk
<1> QED BY <1>2 DEF AtomOf, w

\* The scheme has been written down, with g for the states of its nodes.
IsWritten(g) ==
  /\ Table(weights, tests)
  /\ MemoSound(weights, tests, memo)
  /\ \A S \in DOMAIN memo : AnswerSound(weights, tests, memo, S, memo[S])
  /\ IsTabulated(weights, tests, prior, probes, bundles)
  /\ WritingSound(weights, tests, memo, bundles, probes, nodes, <<>>, g)

\* The nodes of the scheme.
LEMMA SchemeNodes ==
  ASSUME NEW g, IsWritten(g), NEW k \in 1..Len(nodes)
  PROVE  /\ NodeOf(Scheme, k - 1) = nodes[k]
         /\ k - 1 # None
         /\ Scheme.root = 0
         /\ Len(nodes) \in Nat
<1>1. IsList(nodes)
  BY DEF IsWritten, WritingSound, NodesSound
<1>2. Len(nodes) \in Nat /\ DOMAIN nodes = 1..Len(nodes)
  BY <1>1, ListDef
<1>3. nodes # <<>>
  <2>1. Len(<<>>) = 0
    OBVIOUS
  <2> QED BY <1>2, <2>1
<1>4. (k - 1) + 1 = k /\ k - 1 \in Nat
  BY <1>2
<1>5. NodeOf(Scheme, k - 1) = nodes[k]
  BY <1>4 DEF NodeOf, Scheme
<1>6. Scheme.root = 0
  BY <1>3 DEF Scheme
<1> QED BY <1>2, <1>4, <1>5, <1>6, NoneAssumption

\* A node sends the strings of a scenario the way the table says.
LEMMA AtomsAreOutcomes ==
  ASSUME NEW g, IsWritten(g), NEW k \in 1..Len(nodes), NEW s \in DOMAIN prior
  PROVE  /\ AtomOf(k - 1, prior[s].left) = OutcomeAt(tests, memo, g[k], s).left
         /\ AtomOf(k - 1, prior[s].right) = OutcomeAt(tests, memo, g[k], s).right
<1> DEFINE S == g[k]
           t == TestOf(memo, S)
           sel == bundles[t].selected
           values == BundleValues(Chosen(probes, sel))
<1>1. S \in DOMAIN memo /\ NodeSound(memo, bundles, probes, S, nodes[k])
  BY DEF IsWritten, WritingSound, NodesSound
<1>2. nodes[k].action = Chosen(probes, sel)
  <2> DEFINE a == Chosen(probes, sel)
             b == nodes[k].branches
  <2>1. nodes[k] = Node(a, b, None)
    BY <1>1 DEF NodeSound
  <2> HIDE DEF a, b
  <2>2. nodes[k].action = a
    BY <2>1 DEF Node
  <2> QED BY <2>2 DEF a
<1>3. \A x : AtomOf(k - 1, x) = values[x]
  BY <1>2, SchemeNodes DEF AtomOf
<1>4. t \in DOMAIN tests
  <2>1. DOMAIN tests = 1..Len(tests)
    BY DEF IsWritten, Table
  <2> QED BY <1>1, <2>1 DEF IsWritten, AnswerSound, TestOf
<1>5. tests[t] = OutcomesOf(prior, values)
  BY <1>4 DEF IsWritten, IsTabulated, BundleOutcomes
<1> HIDE DEF values
<1>6. tests[t][s] = [left |-> values[prior[s].left], right |-> values[prior[s].right]]
  BY <1>5 DEF OutcomesOf
<1>7. OutcomeAt(tests, memo, S, s) = tests[t][s]
  BY DEF OutcomeAt
<1> QED BY <1>3, <1>6, <1>7

\* A branch is the child for its atom: there is no other branch with it.
LEMMA ChildIs ==
  ASSUME NEW g, IsWritten(g), NEW k \in 1..Len(nodes), NEW v,
         NEW h \in 1..Len(nodes), IsKid(nodes, k, v, h)
  PROVE  ChildFor(nodes[k], v) = h - 1 /\ h > k
<1> DEFINE br == nodes[k].branches
<1>1. /\ NodeSound(memo, bundles, probes, g[k], nodes[k])
      /\ LinksSound(tests, memo, g, Len(nodes), k, br)
      /\ IsList(nodes)
  BY DEF IsWritten, WritingSound, NodesSound
<1>2. Len(nodes) \in Nat
  BY <1>1, ListDef
<1>3. DOMAIN br = 1..Len(br) /\ Len(br) \in Nat
  BY <1>1, ListDef DEF NodeSound
<1>4. PICK j \in 1..Len(br) : br[j] = <<v, h - 1>>
  BY DEF IsKid
<1>5. br[j][1] = v /\ br[j][2] = h - 1
  BY <1>4
<1>6. ASSUME NEW i \in 1..Len(br), br[i][1] = v
      PROVE  i = j
  <2>1. \A a \in 1..Len(br) : br[a][1] \in Nat
    <3>1. g[k] \in DOMAIN memo
      BY DEF IsWritten, WritingSound, NodesSound
    <3>2. AtomsAt(tests, memo, g[k]) \in SUBSET Nat
      <4>1. g[k] \in SUBSET Whole(weights)
        BY <3>1 DEF IsWritten, MemoSound
      <4>2. TestOf(memo, g[k]) \in DOMAIN tests
        <5>1. DOMAIN tests = 1..Len(tests)
          BY DEF IsWritten, Table
        <5> QED BY <3>1, <5>1 DEF IsWritten, AnswerSound, TestOf
      <4> DEFINE S == g[k]
                 t == TestOf(memo, S)
      <4>3. Table(weights, tests) /\ S \in SUBSET Whole(weights) /\ t \in DOMAIN tests
        BY <4>1, <4>2 DEF IsWritten
      <4> HIDE DEF t, S
      <4>4. Values(tests, t, S) \in SUBSET Nat
        BY <4>3, StatesAreFinite
      <4> QED BY <4>4 DEF AtomsAt, t, S
    <3> QED BY <1>1, <3>2 DEF LinksSound, LinkSound
  <2>2. i < j => br[i][1] < br[j][1]
    BY <1>1 DEF LinksSound
  <2>3. j < i => br[j][1] < br[i][1]
    BY <1>1 DEF LinksSound
  <2>4. v \in Nat
    BY <1>5, <2>1
  <2> QED BY <1>3, <1>5, <1>6, <2>2, <2>3, <2>4
<1>7. ChildFor(nodes[k], v) = h - 1
  <2>1. \E i \in DOMAIN br : br[i][1] = v
    BY <1>3, <1>5
  <2> DEFINE a == CHOOSE i \in DOMAIN br : br[i][1] = v
  <2>2. a \in DOMAIN br /\ br[a][1] = v
    BY <2>1
  <2>3. ChildFor(nodes[k], v) = br[a][2]
    BY <2>1 DEF ChildFor
  <2> HIDE DEF a
  <2>4. a = j
    BY <1>3, <1>6, <2>2
  <2> QED BY <1>5, <2>3, <2>4
<1>8. h - 1 \in k..(Len(nodes) - 1)
  <2>1. LinkSound(tests, memo, g, Len(nodes), k, br[j])
    BY <1>1 DEF LinksSound
  <2> QED BY <1>5, <2>1 DEF LinkSound
<1>9. h > k
  <2>1. h \in Int /\ k \in Int
    BY <1>2
  <2> QED BY <1>2, <1>8, <2>1
<1> QED BY <1>7, <1>9

\* A run only goes to later nodes.
LEMMA RunRises ==
  ASSUME NEW g, IsWritten(g), NEW s, NEW p, NEW j \in Nat \ {0},
         IsRun(tests, memo, nodes, g, s, p, j), NEW i \in 1..j
  PROVE  p[i] \in 1..Len(nodes) /\ p[i] >= i
<1> DEFINE n == Len(nodes)
           W == {d \in Nat : d \in 1..j => p[d] >= d}
<1>0. \A d \in 1..j : p[d] \in 1..n /\ p[d] \in Nat
  BY DEF IsRun
<1>1. 0 \in W
  OBVIOUS
<1>2. ASSUME NEW d \in Nat, d \in W, NEW e, e = d + 1, e \in 1..j
      PROVE  p[e] >= e
  <2>1. CASE d = 0
    BY <1>0, <1>2, <2>1
  <2>2. CASE d # 0
    <3>1. d \in 1..(j - 1) /\ d \in 1..j
      BY <1>2, <2>2
    <3>2. IsKid(nodes, p[d], OutcomeAt(tests, memo, g[p[d]], s).left, p[d + 1])
      BY <3>1 DEF IsRun, Passes
    <3> DEFINE k == p[d]
               h == p[e]
               v == OutcomeAt(tests, memo, g[k], s).left
    <3>3. k \in 1..Len(nodes) /\ h \in 1..Len(nodes) /\ IsKid(nodes, k, v, h) /\ k >= d
          /\ k \in Nat /\ h \in Nat
      BY <1>0, <1>2, <3>1, <3>2
    <3> HIDE DEF k, h, v
    <3>4. h > k
      BY <3>3, ChildIs
    <3>5. h >= e
      BY <1>2, <3>3, <3>4
    <3> QED BY <3>5 DEF h
  <2> QED BY <2>1, <2>2
<1>3. \A d \in Nat : d \in W => d + 1 \in W
  BY <1>2
<1> HIDE DEF W
<1>4. \A d \in Nat : d \in W
  BY <1>1, <1>3, Induction
<1> QED BY <1>0, <1>4 DEF W

\* One of the two strings of the scenario s.
IsOf(s, x) == x = prior[s].left \/ x = prior[s].right

\* Where the strings of a scenario meet in an outcome, the atom of both is its value.
LEMMA AtomsMeet ==
  ASSUME NEW g, IsWritten(g), NEW k \in 1..Len(nodes), NEW s \in DOMAIN prior,
         Collides(OutcomeAt(tests, memo, g[k], s)), NEW x, IsOf(s, x)
  PROVE  AtomOf(k - 1, x) = OutcomeAt(tests, memo, g[k], s).left
BY AtomsAreOutcomes DEF IsOf, Collides

\* Up to the node that resolves the scenario, its strings go along the run.
LEMMA WalkFollows ==
  ASSUME NEW g, IsWritten(g), NEW s \in DOMAIN prior, NEW x, IsOf(s, x),
         NEW p, NEW j \in Nat \ {0},
         IsRun(tests, memo, nodes, g, s, p, j), p[1] = 1, NEW i \in 1..j
  PROVE  Walk(x)[i] = p[i] - 1
<1> DEFINE n == Len(nodes)
           w == Walk(x)
           W == {d \in Nat : d \in 1..j => w[d] = p[d] - 1}
<1>1. 0 \in W
  OBVIOUS
<1>2. ASSUME NEW d \in Nat, d \in W, NEW e, e = d + 1, e \in 1..j
      PROVE  w[e] = p[e] - 1
  <2>0. p[1] \in 1..n /\ p[e] \in 1..n /\ p[e] >= e
    <3>1. 1 \in 1..j
      OBVIOUS
    <3> QED BY <1>2, <3>1, RunRises
  <2>1. Scheme.root = 0 /\ Len(nodes) \in Nat
    BY <2>0, SchemeNodes
  <2>2. e \in 1..(Len(nodes) + 1)
    BY <1>2, <2>0, <2>1
  <2>3. CASE d = 0
    <3>1. e = 1 /\ p[e] - 1 = 0
      BY <1>2, <2>3
    <3>2. w[e] = Scheme.root
      BY <2>1, <2>2, <3>1, WalkStep
    <3> QED BY <2>1, <3>1, <3>2
  <2>4. CASE d # 0
    <3>1. d \in 1..(j - 1) /\ d \in 1..j /\ e # 1 /\ e - 1 = d
      BY <1>2, <2>4
    <3>2. Passes(tests, memo, nodes, g, s, p[d], p[d + 1])
      BY <3>1 DEF IsRun
    <3> DEFINE k == p[d]
               h == p[e]
               v == OutcomeAt(tests, memo, g[k], s).left
    <3>3. Collides(OutcomeAt(tests, memo, g[k], s)) /\ IsKid(nodes, k, v, h)
      BY <1>2, <3>2 DEF Passes
    <3>4. k \in 1..Len(nodes) /\ h \in 1..Len(nodes) /\ w[d] = k - 1
      BY <1>2, <2>0, <3>1, RunRises
    <3> HIDE DEF k, h, w
    <3>5. AtomOf(k - 1, x) = v
      BY <3>3, <3>4, AtomsMeet
    <3>6. NodeOf(Scheme, k - 1) = nodes[k] /\ k - 1 # None
      BY <3>4, SchemeNodes
    <3> HIDE DEF v
    <3>7. ChildFor(nodes[k], v) = h - 1
      BY <3>3, <3>4, ChildIs
    <3>8. w[e] = ChildFor(NodeOf(Scheme, w[e - 1]), AtomOf(w[e - 1], x))
      <4>1. Walk(x)[e - 1] # None
        BY <3>1, <3>4, <3>6 DEF w
      <4> QED BY <2>1, <2>2, <3>1, <4>1, WalkStep DEF w
    <3>9. w[e - 1] = k - 1
      BY <3>1, <3>4
    <3>10. w[e] = h - 1
      BY <3>5, <3>6, <3>7, <3>8, <3>9
    <3> QED BY <3>10 DEF h
  <2> QED BY <2>3, <2>4
<1>3. \A d \in Nat : d \in W => d + 1 \in W
  BY <1>2
<1> HIDE DEF W
<1>4. \A d \in Nat : d \in W
  BY <1>1, <1>3, Induction
<1> QED BY <1>4 DEF W

\* The least atom at which two strings differ is the j-th.
Pays(x, y, j) == Differences(x, y) # {} /\ Min(Differences(x, y)) = j

\* The two strings of the scenario s.
AreOf(s, x, y) ==
  \/ x = prior[s].left /\ y = prior[s].right
  \/ x = prior[s].right /\ y = prior[s].left

\* They differ where the run ends, and not before.
LEMMA ScenarioPays ==
  ASSUME NEW g, IsWritten(g), NEW s \in DOMAIN prior, NEW x, NEW y, AreOf(s, x, y),
         NEW j, Lasts(tests, memo, nodes, g, 1, s, j)
  PROVE  Pays(x, y, j)
<1> DEFINE n == Len(nodes)
           D == Differences(x, y)
<1>1. j \in Nat \ {0}
  BY DEF Lasts
<1>2. PICK p : IsRun(tests, memo, nodes, g, s, p, j) /\ p[1] = 1
  BY DEF Lasts
<1>3. IsOf(s, x) /\ IsOf(s, y)
  BY DEF AreOf, IsOf
<1>4. \A i \in 1..j : p[i] \in 1..n /\ p[i] >= i /\ Walk(x)[i] = p[i] - 1
  BY <1>1, <1>2, <1>3, RunRises, WalkFollows
<1>5. n \in Nat /\ j \in 1..n
  <2>1. j \in 1..j
    BY <1>1
  <2>2. p[j] \in 1..n /\ p[j] >= j
    BY <1>4, <2>1
  <2>3. n \in Nat
    BY <2>2, SchemeNodes
  <2> QED BY <1>1, <2>2, <2>3
<1>6. \A d \in D : d \in 1..n /\ Walk(x)[d] # None /\ AtomOf(Walk(x)[d], x) # AtomOf(Walk(x)[d], y)
  BY DEF Differences
<1>7. j \in D
  <2> DEFINE k == p[j]
  <2>1. k \in 1..n /\ Walk(x)[j] = k - 1 /\ ~Collides(OutcomeAt(tests, memo, g[k], s))
    BY <1>1, <1>2, <1>4 DEF IsRun
  <2> HIDE DEF k
  <2>2. /\ AtomOf(k - 1, prior[s].left) = OutcomeAt(tests, memo, g[k], s).left
        /\ AtomOf(k - 1, prior[s].right) = OutcomeAt(tests, memo, g[k], s).right
    BY <2>1, AtomsAreOutcomes
  <2>3. AtomOf(k - 1, x) # AtomOf(k - 1, y)
    BY <2>1, <2>2 DEF AreOf, Collides
  <2>4. k - 1 # None
    BY <2>1, SchemeNodes
  <2> QED BY <1>5, <2>1, <2>3, <2>4 DEF Differences
<1>8. ASSUME NEW d \in D
      PROVE  j <= d
  <2> SUFFICES ASSUME d < j
               PROVE  FALSE
    BY <1>1, <1>5, <1>6
  <2>1. d \in 1..n /\ d \in 1..(j - 1) /\ d \in 1..j
    BY <1>1, <1>5, <1>6
  <2> DEFINE k == p[d]
  <2>2. k \in 1..n /\ Walk(x)[d] = k - 1
    BY <1>4, <2>1
  <2>3. Collides(OutcomeAt(tests, memo, g[k], s))
    BY <1>2, <2>1 DEF IsRun, Passes
  <2> HIDE DEF k, D
  <2>4. AtomOf(k - 1, x) = AtomOf(k - 1, y)
    BY <1>3, <2>2, <2>3, AtomsMeet
  <2> QED BY <1>6, <2>2, <2>4
<1>9. D \in SUBSET Nat
  BY <1>5, <1>6
<1> HIDE DEF D
<1>10. Min(D) \in D /\ \A d \in D : Min(D) <= d
  BY <1>7, <1>9, LeastIsIn
<1>11. Min(D) = j
  <2> DEFINE a == Min(D)
  <2>1. a \in Nat /\ a <= j /\ j <= a
    BY <1>7, <1>8, <1>9, <1>10
  <2> HIDE DEF a
  <2>2. a = j
    BY <1>1, <2>1
  <2> QED BY <2>2 DEF a
<1> QED BY <1>7, <1>11 DEF Pays, D

-----------------------------------------------------------------------------
(* From the scenarios of the prior to the rows that were handed in.        *)

\* q are the pairs of the scenarios of pr, which has been made of rows.
IsShaped(rows, pr, q) ==
  /\ \A k \in DOMAIN pr : /\ pr[k].left = q[k][1] /\ pr[k].right = q[k][2]
                          /\ pr[k].units = MergedUnits(rows, q[k])
  /\ \A k, l \in DOMAIN pr : q[k] = q[l] => k = l
  /\ \A i \in DOMAIN rows : IsKept(rows[i]) => \E k \in DOMAIN pr : q[k] = Pair(rows[i])

\* from_fixed_point_scenarios keeps each pair once.
LEMMA ShapedHasPairs ==
  ASSUME NEW rows \in Seq(Scenarios), NEW bits
  PROVE  \E q : IsShaped(rows, Shaped(rows, bits), q)
<1> DEFINE K == {j \in DOMAIN rows : IsKept(rows[j])}
           S == {Pair(rows[i]) : i \in K}
           q == Ordered(S, SeqLess)
           r == [k \in DOMAIN q |-> Scenario(q[k][1], q[k][2], MergedUnits(rows, q[k]), bits)]
<1>1. DOMAIN rows = 1..Len(rows) /\ Len(rows) \in Nat
  OBVIOUS
<1>2. ASSUME NEW i \in K
      PROVE  Pair(rows[i]) \in Seq(Int)
  <2>1. rows[i].left \in Strings /\ rows[i].right \in Strings
    BY ScenarioTyped
  <2>2. Strings \in SUBSET Int
    BY StringsAssumption
  <2> DEFINE x == rows[i].left
             y == rows[i].right
  <2>3. Pair(rows[i]) = IF y < x THEN <<y, x>> ELSE <<x, y>>
    BY DEF Pair
  <2> HIDE DEF x, y
  <2>4. x \in Strings /\ y \in Strings
    BY <2>1 DEF x, y
  <2> QED BY <2>2, <2>3, <2>4
<1>3. IsFiniteSet(K)
  <2> DEFINE a == 1
             b == Len(rows)
  <2>1. a \in Int /\ b \in Int
    BY <1>1
  <2> HIDE DEF a, b
  <2>2. IsFiniteSet(a..b)
    BY <2>1, FS_Interval
  <2>3. IsFiniteSet(DOMAIN rows)
    BY <1>1, <2>2 DEF a, b
  <2>4. K \in SUBSET DOMAIN rows
    OBVIOUS
  <2> QED BY <2>3, <2>4, FS_Subset
<1>4. IsFiniteSet(S)
  <2> DEFINE g == [i \in K |-> Pair(rows[i])]
  <2>1. g \in Surjection(K, S)
    BY DEF Surjection
  <2> QED BY <1>3, <2>1, FS_Surjection
<1>5. S \in SUBSET Seq(Int)
  BY <1>2
<1>6. Shaped(rows, bits) = r
  BY DEF Shaped
<1>7. \A i \in DOMAIN rows : IsKept(rows[i]) => Pair(rows[i]) \in S
  OBVIOUS
<1> HIDE DEF S
<1>8. IsSortedList(q, S, SmallerSeq(S))
  BY <1>4, <1>5, OrderedSequences
<1> HIDE DEF q
<1>9. DOMAIN q = 1..Len(q) /\ Len(q) \in Nat /\ \A k \in 1..Len(q) : q[k] \in S
  BY <1>8 DEF IsSortedList
<1>10. ASSUME NEW k \in 1..Len(q), NEW l \in 1..Len(q), k < l
       PROVE  q[k] # q[l]
  <2>1. <<q[k], q[l]>> \in SmallerSeq(S)
    BY <1>8, <1>10 DEF IsSortedList
  <2>2. SeqLess(q[k], q[l])
    BY <2>1 DEF SmallerSeq
  <2>3. ~SeqLess(q[k], q[k])
    <3>1. \A x \in S : ~SeqLess(x, x)
      BY <1>5, SeqLessIsOrder
    <3> QED BY <1>9, <3>1
  <2> QED BY <2>2, <2>3
<1>11. ASSUME NEW k \in 1..Len(q), NEW l \in 1..Len(q), q[k] = q[l]
       PROVE  k = l
  BY <1>9, <1>10, <1>11
<1>12. \A i \in DOMAIN rows : IsKept(rows[i]) => \E k \in 1..Len(q) : q[k] = Pair(rows[i])
  BY <1>7, <1>8 DEF IsSortedList
<1>13. DOMAIN r = 1..Len(q)
  BY <1>9
<1>14. ASSUME NEW k \in 1..Len(q)
       PROVE  /\ r[k].left = q[k][1] /\ r[k].right = q[k][2]
              /\ r[k].units = MergedUnits(rows, q[k])
  BY <1>9 DEF Scenario
<1> HIDE DEF r
<1>15. IsShaped(rows, r, q)
  BY <1>11, <1>12, <1>13, <1>14 DEF IsShaped
<1> QED BY <1>6, <1>15

\* The rows that count, and what they pay.
KeptRows(rows) == {i \in DOMAIN rows : IsKept(rows[i])}

Fees(rows) ==
  [i \in KeptRows(rows) |-> rows[i].units * Min(Differences(rows[i].left, rows[i].right))]

\* The scenarios that weigh something differ after f atoms.
ScenariosPay(f) ==
  /\ f \in [Whole(weights) -> Nat \ {0}]
  /\ \A s \in Whole(weights) : \A x, y : AreOf(s, x, y) => Pays(x, y, f[s])

\* The rows pay the same.
RowsPay(rows, f) ==
  /\ \A i \in KeptRows(rows) : Differences(rows[i].left, rows[i].right) # {}
  /\ Total(Paid(weights, Whole(weights), f), Whole(weights)) = Total(Fees(rows), KeptRows(rows))

\* The weights are those of the prior.
WeightsAre(pr, ws) == pr \in Seq(Scenarios) /\ ws = [s \in DOMAIN pr |-> pr[s].units]

\* The scenarios that weigh something are finitely many.
LEMMA WholeIsFinite ==
  ASSUME NEW pr, NEW ws, WeightsAre(pr, ws)
  PROVE  /\ IsFiniteSet(Whole(ws)) /\ Whole(ws) \in SUBSET DOMAIN pr
         /\ \A s \in Whole(ws) : ws[s] = pr[s].units /\ ws[s] \in Nat
<1>1. DOMAIN pr = 1..Len(pr) /\ Len(pr) \in Nat /\ \A s \in DOMAIN pr : pr[s].units \in Nat
  BY ScenarioTyped DEF WeightsAre
<1>2. Whole(ws) \in SUBSET DOMAIN pr /\ \A s \in Whole(ws) : ws[s] = pr[s].units
  BY DEF WeightsAre, Whole
<1>3. IsFiniteSet(DOMAIN pr)
  <2> DEFINE a == 1
             b == Len(pr)
  <2>1. a \in Int /\ b \in Int
    BY <1>1
  <2> HIDE DEF a, b
  <2>2. IsFiniteSet(a..b)
    BY <2>1, FS_Interval
  <2> QED BY <1>1, <2>2 DEF a, b
<1>4. IsFiniteSet(Whole(ws))
  BY <1>2, <1>3, FS_Subset
<1> QED BY <1>1, <1>2, <1>4

\* A row that differs from itself would not be one.
LEMMA NoDifference ==
  ASSUME NEW x
  PROVE  Differences(x, x) = {}
BY DEF Differences

\* If the prior is the rows themselves.
LEMMA RowsThemselvesPay ==
  ASSUME NEW rows, rows = prior, WeightsAre(prior, weights), NEW f, ScenariosPay(f)
  PROVE  RowsPay(rows, f)
<1> DEFINE W == Whole(weights)
           u == Paid(weights, W, f)
           v == Fees(rows)
<1>1. IsFiniteSet(W) /\ W \in SUBSET DOMAIN prior /\ \A s \in W : weights[s] = prior[s].units
  BY WholeIsFinite
<1>2. ASSUME NEW s \in W
      PROVE  Pays(prior[s].left, prior[s].right, f[s])
  BY <1>2 DEF ScenariosPay, AreOf
<1>3. KeptRows(rows) = W
  <2>1. ASSUME NEW s \in W
        PROVE  s \in KeptRows(rows)
    <3>1. prior[s].left # prior[s].right
      BY <1>2, NoDifference DEF Pays
    <3>2. prior[s].units # 0
      BY <1>1 DEF Whole
    <3> QED BY <1>1, <3>1, <3>2 DEF KeptRows, IsKept
  <2>2. ASSUME NEW i \in KeptRows(rows)
        PROVE  i \in W
    BY <2>2 DEF KeptRows, IsKept, WeightsAre, Whole
  <2> QED BY <2>1, <2>2
<1>4. \A i \in KeptRows(rows) : Differences(rows[i].left, rows[i].right) # {}
  BY <1>2, <1>3 DEF Pays
<1>5. ASSUME NEW s \in W
      PROVE  u[s] = v[s]
  <2>1. u[s] = weights[s] * f[s]
    BY DEF Paid
  <2>2. v[s] = rows[s].units * Min(Differences(rows[s].left, rows[s].right))
    BY <1>3 DEF Fees
  <2> QED BY <1>1, <1>2, <2>1, <2>2 DEF Pays
<1> HIDE DEF u, v, W
<1>6. Total(u, W) = Total(v, W)
  BY <1>1, <1>5, TotalAgree
<1> QED BY <1>3, <1>4, <1>6 DEF RowsPay, u, v, W

\* A row of a pair is one of its scenario, one way or the other.
LEMMA RowIsOfPair ==
  ASSUME NEW rows, NEW q, IsShaped(rows, prior, q), NEW k \in DOMAIN prior,
         NEW i \in DOMAIN rows, Pair(rows[i]) = q[k]
  PROVE  AreOf(k, rows[i].left, rows[i].right)
<1> DEFINE x == rows[i].left
           y == rows[i].right
<1>1. Pair(rows[i]) = <<x, y>> \/ Pair(rows[i]) = <<y, x>>
  BY DEF Pair
<1>2. prior[k].left = q[k][1] /\ prior[k].right = q[k][2]
  BY DEF IsShaped
<1> HIDE DEF x, y
<1>3. AreOf(k, x, y)
  BY <1>1, <1>2 DEF AreOf
<1> QED BY <1>3 DEF x, y

\* A sum is no less than one of its terms.
LEMMA TotalIsSome ==
  ASSUME NEW D, NEW f \in [D -> Nat], NEW S \in SUBSET D, IsFiniteSet(S), NEW x \in S, f[x] # 0
  PROVE  Total(f, S) # 0
<1> DEFINE a == f[x]
           r == S \ {x}
           b == Total(f, r)
<1>1. r \in SUBSET D /\ IsFiniteSet(r)
  BY FS_Subset
<1>2. b \in Nat
  <2> HIDE DEF r
  <2> QED BY <1>1, TotalIsNatural
<1>3. Total(f, S) = a + b
  BY TotalTake
<1>4. a \in Nat /\ a # 0
  OBVIOUS
<1> HIDE DEF a, b
<1> QED BY <1>2, <1>3, <1>4

\* The rows are finitely many, and their units numbers.
LEMMA RowsAreFinite ==
  ASSUME NEW rows \in Seq(Scenarios)
  PROVE  /\ UnitsOf(rows) \in [DOMAIN rows -> Nat]
         /\ \A S \in SUBSET DOMAIN rows : IsFiniteSet(S)
<1>1. DOMAIN rows = 1..Len(rows) /\ Len(rows) \in Nat /\ \A i \in DOMAIN rows : rows[i].units \in Nat
  BY ScenarioTyped
<1>2. IsFiniteSet(DOMAIN rows)
  <2> DEFINE a == 1
             b == Len(rows)
  <2>1. a \in Int /\ b \in Int
    BY <1>1
  <2> HIDE DEF a, b
  <2>2. IsFiniteSet(a..b)
    BY <2>1, FS_Interval
  <2> QED BY <1>1, <2>2 DEF a, b
<1> QED BY <1>1, <1>2, FS_Subset DEF UnitsOf

\* A sum of products with one factor, in words.
Scaled(k, f, c, S) == \A x \in S : k[x] = f[x] * c
SumIsScaled(k, f, c, S) == Total(k, S) = Total(f, S) * c

\* The same in these words.
LEMMA ScaledSum ==
  ASSUME NEW R, IsFiniteSet(R), NEW f \in [R -> Nat], NEW k \in [R -> Nat], NEW c \in Nat,
         Scaled(k, f, c, R)
  PROVE  SumIsScaled(k, f, c, R)
<1>1. R \in SUBSET R
  OBVIOUS
<1>2. \A x \in R : k[x] = f[x] * c
  BY DEF Scaled
<1>3. Total(k, R) = Total(f, R) * c
  BY <1>1, <1>2, TotalScaled
<1> QED BY <1>3 DEF SumIsScaled

\* If the prior has been made of the rows.
LEMMA RowsOfPairsPay ==
  ASSUME NEW rows \in Seq(Scenarios), NEW q, IsShaped(rows, prior, q),
         WeightsAre(prior, weights), NEW f, ScenariosPay(f)
  PROVE  RowsPay(rows, f)
<1> DEFINE W == Whole(weights)
           K == KeptRows(rows)
           u == Paid(weights, W, f)
           v == Fees(rows)
           key == [i \in K |-> CHOOSE k \in DOMAIN prior : q[k] = Pair(rows[i])]
           U == UnitsOf(rows)
<1>1. IsFiniteSet(W) /\ W \in SUBSET DOMAIN prior /\ \A s \in W : weights[s] = prior[s].units
  BY WholeIsFinite
<1>2. /\ U \in [DOMAIN rows -> Nat]
      /\ \A S \in SUBSET DOMAIN rows : IsFiniteSet(S)
      /\ \A i \in DOMAIN rows : U[i] = rows[i].units
  BY RowsAreFinite DEF UnitsOf
<1>3. K \in SUBSET DOMAIN rows
  BY DEF KeptRows
<1>4. \A k \in DOMAIN prior : weights[k] = Total(U, RowsOf(rows, q[k]))
  <2> SUFFICES ASSUME NEW k \in DOMAIN prior
               PROVE  weights[k] = Total(U, RowsOf(rows, q[k]))
    OBVIOUS
  <2>1. weights[k] = MergedUnits(rows, q[k])
    BY DEF WeightsAre, IsShaped
  <2> DEFINE pair == q[k]
  <2> HIDE DEF pair
  <2>2. MergedUnits(rows, pair) = Total(U, RowsOf(rows, pair))
    BY MergedIsTotal
  <2> QED BY <2>1, <2>2 DEF pair
<1>5. ASSUME NEW i \in K
      PROVE  key[i] \in DOMAIN prior /\ q[key[i]] = Pair(rows[i]) /\ key[i] \in W
  <2> DEFINE k == key[i]
  <2>1. k \in DOMAIN prior /\ q[k] = Pair(rows[i])
    BY <1>3 DEF KeptRows, IsShaped
  <2> HIDE DEF k
  <2> DEFINE R == RowsOf(rows, q[k])
  <2>2. i \in R /\ R \in SUBSET DOMAIN rows /\ U[i] # 0
    BY <1>2, <1>3, <2>1 DEF RowsOf, KeptRows, IsKept
  <2>3. weights[k] = Total(U, R)
    BY <1>4, <2>1
  <2> HIDE DEF R, U
  <2>4. Total(U, R) # 0
    BY <1>2, <2>2, TotalIsSome
  <2>5. k \in W
    BY <2>1, <2>3, <2>4 DEF Whole, WeightsAre
  <2> QED BY <2>1, <2>5 DEF k
<1>6. ASSUME NEW k \in W, NEW i \in RowsOf(rows, q[k])
      PROVE  Pays(rows[i].left, rows[i].right, f[k]) /\ i \in K
  <2>1. i \in DOMAIN rows /\ Pair(rows[i]) = q[k] /\ IsKept(rows[i])
    BY <1>6 DEF RowsOf
  <2>2. AreOf(k, rows[i].left, rows[i].right)
    BY <1>1, <2>1, RowIsOfPair
  <2> QED BY <2>1, <2>2 DEF ScenariosPay, KeptRows
<1>7. ASSUME NEW i \in K
      PROVE  /\ Differences(rows[i].left, rows[i].right) # {}
             /\ v[i] = U[i] * f[key[i]] /\ f[key[i]] \in Nat
  <2> DEFINE k == key[i]
  <2>1. k \in DOMAIN prior /\ q[k] = Pair(rows[i]) /\ k \in W
    BY <1>5
  <2> HIDE DEF k
  <2>2. i \in RowsOf(rows, q[k])
    BY <1>3, <2>1 DEF RowsOf, KeptRows
  <2>3. Pays(rows[i].left, rows[i].right, f[k])
    BY <1>6, <2>1, <2>2
  <2>4. v[i] = rows[i].units * Min(Differences(rows[i].left, rows[i].right))
    BY DEF Fees
  <2>5. f[k] \in Nat
    BY <2>1 DEF ScenariosPay
  <2> QED BY <1>2, <1>3, <2>3, <2>4, <2>5 DEF Pays, k
<1>8. \A k \in W : u[k] = weights[k] * f[k]
  BY DEF Paid
<1>9. \A i \in DOMAIN rows : i \in K <=> IsKept(rows[i])
  BY DEF KeptRows
<1>a. \A k \in W : f[k] \in Nat
  BY DEF ScenariosPay
<1>b. \A k, l \in DOMAIN prior : q[k] = q[l] => k = l
  BY DEF IsShaped
<1> HIDE DEF u, v, key, U, W, K
<1>10. v \in [K -> Nat]
  <2>1. \A i \in K : v[i] \in Nat
    <3> SUFFICES ASSUME NEW i \in K
                 PROVE  v[i] \in Nat
      OBVIOUS
    <3> DEFINE a == U[i]
               b == f[key[i]]
    <3>1. a \in Nat /\ b \in Nat /\ v[i] = a * b
      BY <1>2, <1>3, <1>7
    <3> HIDE DEF a, b
    <3>2. a * b \in Nat
      BY <3>1
    <3> QED BY <3>1, <3>2
  <2> QED BY <2>1 DEF v, Fees, K
<1>11. ASSUME NEW k \in W
       PROVE  u[k] = Total(v, Keyed(K, key, {k}))
  <2> DEFINE R == RowsOf(rows, q[k])
             c == f[k]
             kk == [i \in R |-> v[i]]
             UU == [i \in R |-> U[i]]
  <2>1. Keyed(K, key, {k}) = R
    <3>1. \A i \in K : key[i] = k <=> q[k] = Pair(rows[i])
      BY <1>1, <1>5, <1>b
    <3>2. \A i \in R : i \in K /\ Pair(rows[i]) = q[k]
      BY <1>6 DEF RowsOf
    <3>3. \A i \in K : Pair(rows[i]) = q[k] => i \in R
      BY <1>3, <1>9 DEF RowsOf
    <3> HIDE DEF R
    <3> QED BY <3>1, <3>2, <3>3 DEF Keyed
  <2>2. R \in SUBSET K /\ R \in SUBSET DOMAIN rows
    BY <1>3, <1>6
  <2>3. \A i \in R : key[i] = k
    BY <2>1 DEF Keyed
  <2> HIDE DEF R
  <2>4. IsFiniteSet(R)
    BY <1>2, <2>2
  <2>5. UU \in [R -> Nat] /\ kk \in [R -> Nat]
    BY <1>2, <1>10, <2>2
  <2>6. \A i \in R : kk[i] = UU[i] * c
    BY <1>7, <2>2, <2>3
  <2>7. \A i \in R : kk[i] = v[i] /\ UU[i] = U[i]
    OBVIOUS
  <2>8. c \in Nat
    BY <1>a
  <2>9. u[k] = weights[k] * c /\ weights[k] = Total(U, R)
    BY <1>1, <1>4, <1>8 DEF R
  <2> HIDE DEF c, kk, UU
  <2>10. Total(kk, R) = Total(UU, R) * c
    <3>1. Scaled(kk, UU, c, R)
      BY <2>6 DEF Scaled
    <3>2. SumIsScaled(kk, UU, c, R)
      BY <2>4, <2>5, <2>8, <3>1, ScaledSum
    <3> QED BY <3>2 DEF SumIsScaled
  <2>11. Total(kk, R) = Total(v, R)
    BY <2>4, <2>7, TotalAgree
  <2>12. Total(UU, R) = Total(U, R)
    BY <2>4, <2>7, TotalAgree
  <2> QED BY <2>1, <2>9, <2>10, <2>11, <2>12
<1>12. Total(v, K) = Total(u, W)
  <2>1. AreSums(v, K, key, W, u)
    BY <1>5, <1>11 DEF AreSums
  <2>2. IsFiniteSet(K) /\ K \in SUBSET K
    BY <1>2, <1>3
  <2> QED BY <1>1, <1>10, <2>1, <2>2, TotalByKeys
<1>13. \A i \in K : Differences(rows[i].left, rows[i].right) # {}
  BY <1>7
<1> QED BY <1>12, <1>13 DEF RowsPay, u, v, W, K

-----------------------------------------------------------------------------
(* What the certificate states is what the rows that were handed in pay.   *)

\* The prior is that of the request, unless a table was handed in; and nothing costs
\* nothing.
RequestInv ==
  /\ \/ /\ phase \in {"solve", "solved", "unseparable", "empty_tests"}
        /\ bundles = <<>>
     \/ /\ request \in CookRequests
        /\ prior = IF request.shape THEN Shaped(request.rows, 96) ELSE request.rows
  /\ phase = "cooked" /\ bundles = <<>> => solution.cost = 0

\* Every step keeps it.
LEMMA RequestStep ==
  ASSUME WInv, RequestInv, [Next]_vars
  PROVE  RequestInv'
<1>1. CASE CookNothing
  <2>1. /\ phase = "cook" /\ solution' = Solution(0, <<>>, 0, 0, 0)
        /\ UNCHANGED <<prior, bundles, request>>
    BY <1>1 DEF CookNothing, Become, actionVars
  <2>2. solution'.cost = 0
    BY <2>1 DEF Solution
  <2> QED BY <2>1, <2>2 DEF RequestInv
<1>2. CASE BeginActions \/ Generate
  <2>1. /\ phase \in {"cook", "actions"} /\ phase' \in {"actions", "matrix"}
        /\ UNCHANGED <<request>>
    BY <1>2 DEF BeginActions, Generate, Become
  <2>2. UNCHANGED prior
    BY <1>2 DEF BeginActions, StartGeneration, Generate, PassOver, Select, ReturnBundles
  <2> QED BY <2>1, <2>2 DEF RequestInv
<1>3. CASE NoActions \/ MixedScales \/ Tabulate
  <2>1. /\ phase = "matrix" /\ phase' \in {"unseparable", "mixed_scales", "solve"}
        /\ UNCHANGED <<prior, bundles, request>>
    BY <1>3 DEF NoActions, MixedScales, Tabulate, Become, actionVars
  <2> QED BY <2>1 DEF RequestInv
<1>4. CASE EmptyTests \/ StartSolve \/ Solve \/ Unseparable
  <2>1. /\ phase = "solve" /\ phase' \in {"empty_tests", "solve", "solved", "unseparable"}
        /\ UNCHANGED <<prior, bundles, request>>
    BY <1>4 DEF EmptyTests, StartSolve, Solve, Unseparable, Become, actionVars
  <2> QED BY <2>1 DEF RequestInv
<1>5. CASE BeginMaterialize \/ MaterializeNode \/ ValidateScheme
  <2>1. /\ bundles # <<>> /\ UNCHANGED <<prior, bundles, request>>
        /\ phase' \in {"materialize", "cooked", "invalid"}
    <3>1. CASE BeginMaterialize
      BY <3>1 DEF BeginMaterialize, actionVars
    <3>2. CASE MaterializeNode
      BY <3>2 DEF MaterializeNode, actionVars, WInv, WriteInv
    <3>3. CASE ValidateScheme
      BY <3>3 DEF ValidateScheme, Become, actionVars, WInv, WriteInv
    <3> QED BY <1>5, <3>1, <3>2, <3>3
  <2> QED BY <2>1 DEF RequestInv
<1>6. CASE UNCHANGED vars
  <2>1. UNCHANGED <<phase, request, prior, bundles, solution>>
    BY <1>6 DEF vars, actionVars, searchVars, buildVars
  <2> QED BY <2>1 DEF RequestInv
<1> QED BY <1>1, <1>2, <1>3, <1>4, <1>5, <1>6 DEF Next

\* The prior stays that of the request.
LEMMA RequestStays == Spec => []RequestInv
<1>1. Init => RequestInv
  BY DEF Init, InitCook, InitSolve, RequestInv
<1>2. WInv /\ RequestInv /\ [Next]_vars => RequestInv'
  BY RequestStep
<1> QED BY <1>1, <1>2, WritingIsSound, PTL DEF Spec

\* There is one sum of a finite set.
LEMMA SumIsOne ==
  ASSUME NEW f, NEW K, IsFiniteSet(K), NEW g, AddsUp(g, f, K), NEW h, AddsUp(h, f, K)
  PROVE  g[K] = h[K]
<1>1. Cardinality(K) \in Nat /\ K \in SUBSET K
  BY FS_CardinalityType
<1>2. AgreeOn(f, Cardinality(K))
  BY <1>1, AddsUpOnce
<1> QED BY <1>1, <1>2 DEF AgreeOn

\* What CookedCost adds up are the fees of the rows.
LEMMA FeesAreAdded ==
  ASSUME NEW rows \in Seq(Scenarios), NEW K, K = KeptRows(rows)
  PROVE  MapThenSumSet(LAMBDA i : rows[i].units * Min(Differences(rows[i].left, rows[i].right)), K)
           = Total(Fees(rows), K)
<1> DEFINE f == Fees(rows)
           Adds(g) == g = [s \in SUBSET K |->
                             IF s = {} THEN 0
                             ELSE (rows[Picked(s)].units
                                     * Min(Differences(rows[Picked(s)].left, rows[Picked(s)].right)))
                                  + g[s \ {Picked(s)}]]
<1>1. K \in SUBSET DOMAIN rows
  BY DEF KeptRows
<1>2. IsFiniteSet(K)
  BY <1>1, RowsAreFinite
<1>3. MapThenSumSet(LAMBDA i : rows[i].units * Min(Differences(rows[i].left, rows[i].right)), K)
        = (CHOOSE g : Adds(g))[K]
  BY DEF MapThenSumSet, MapThenFoldSet, Picked
<1>4. ASSUME NEW s \in SUBSET K, s # {}
      PROVE  f[Picked(s)] = rows[Picked(s)].units
                              * Min(Differences(rows[Picked(s)].left, rows[Picked(s)].right))
  <2>1. Picked(s) \in KeptRows(rows)
    BY <1>4, PickedIsIn
  <2> QED BY <2>1 DEF Fees
<1> HIDE DEF f
<1>5. \A g : Adds(g) <=> AddsUp(g, f, K)
  <2>1. ASSUME NEW g
        PROVE  [s \in SUBSET K |->
                  IF s = {} THEN 0
                  ELSE (rows[Picked(s)].units
                          * Min(Differences(rows[Picked(s)].left, rows[Picked(s)].right)))
                       + g[s \ {Picked(s)}]]
                 = [s \in SUBSET K |-> IF s = {} THEN 0 ELSE f[Picked(s)] + g[s \ {Picked(s)}]]
    BY <1>4
  <2> QED BY <2>1 DEF AddsUp
<1> HIDE DEF Adds
<1>7. Cardinality(K) \in Nat
  BY <1>2, FS_CardinalityType
<1>8. \E g : AddsUp(g, f, K)
  BY <1>2, <1>7, AddsUpExists
<1> DEFINE h == CHOOSE g : Adds(g)
<1>9. Adds(h)
  BY <1>5, <1>8
<1> HIDE DEF h
<1>10. AddsUp(h, f, K)
  BY <1>5, <1>9
<1>11. PICK g : AddsUp(g, f, K) /\ Total(f, K) = g[K]
  BY <1>8, TotalAddsUp
<1>12. g[K] = h[K]
  BY <1>2, <1>10, <1>11, SumIsOne
<1> QED BY <1>3, <1>11, <1>12 DEF h, f

\* The scenarios pay what the certificate states.
LEMMA CostIsPaid ==
  ASSUME NEW g, IsWritten(g), nodes # <<>> \/ Whole(weights) = {}, WeightsAre(prior, weights),
         RootedSound(weights, nodes, <<>>, g), RootSound(weights, memo, solution)
  PROVE  \E f : /\ ScenariosPay(f)
                /\ solution.cost = Total(Paid(weights, Whole(weights), f), Whole(weights))
<1> DEFINE W == Whole(weights)
<1>1. W \in SUBSET DOMAIN prior
  BY WholeIsFinite
<1>2. CASE W = {}
  <2> DEFINE f == [s \in W |-> 1]
             u == Paid(weights, W, f)
  <2>1. ScenariosPay(f)
    BY <1>2 DEF ScenariosPay
  <2>2. Total(u, W) = 0
    <3>1. IsFiniteSet(W)
      BY WholeIsFinite
    <3> HIDE DEF u, W
    <3> QED BY <1>2, <3>1, TotalStep
  <2>3. solution.cost = 0
    BY <1>2 DEF RootSound
  <2> QED BY <2>1, <2>2, <2>3
<1>3. CASE W # {}
  <2>1. nodes # <<>> /\ g[1] = W
    BY <1>3 DEF RootedSound
  <2>2. IsList(nodes)
    BY DEF IsWritten, WritingSound, NodesSound
  <2>3. 1 \in 1..Len(nodes)
    BY <2>1, <2>2 DEF IsList
  <2> DEFINE pd == <<>>
             k == 1
  <2>4. pd = <<>> /\ k \in 1..Len(nodes) /\ k = 1
    BY <2>3
  <2>5. /\ Table(weights, tests) /\ MemoSound(weights, tests, memo)
        /\ \A S \in DOMAIN memo : AnswerSound(weights, tests, memo, S, memo[S])
        /\ WritingSound(weights, tests, memo, bundles, probes, nodes, pd, g)
    BY DEF IsWritten
  <2> HIDE DEF pd, k
  <2>6. HasCost(weights, tests, memo, nodes, g, k)
    BY <2>4, <2>5, NodesHaveCosts
  <2>7. PICK f : CostSound(weights, tests, memo, nodes, g, k, f)
    BY <2>6 DEF HasCost
  <2>8. g[k] = W
    BY <2>1, <2>4
  <2>9. /\ f \in [W -> Nat \ {0}] /\ memo[W].cost = Total(Paid(weights, W, f), W)
        /\ \A s \in W : Lasts(tests, memo, nodes, g, 1, s, f[s])
    BY <2>4, <2>7, <2>8 DEF CostSound
  <2>10. ASSUME NEW s \in W, NEW x, NEW y, AreOf(s, x, y)
         PROVE  Pays(x, y, f[s])
    <3>1. s \in DOMAIN prior
      BY <1>1
    <3> DEFINE j == f[s]
    <3>2. Lasts(tests, memo, nodes, g, 1, s, j)
      BY <2>9
    <3> HIDE DEF j
    <3>3. Pays(x, y, j)
      BY <2>10, <3>1, <3>2, ScenarioPays
    <3> QED BY <3>3 DEF j
  <2>11. ScenariosPay(f)
    BY <2>9, <2>10 DEF ScenariosPay
  <2>12. solution.cost = memo[W].cost
    BY <1>3 DEF RootSound
  <2> QED BY <2>9, <2>11, <2>12
<1> QED BY <1>2, <1>3

\* What the rows pay is what CookedCost states.
LEMMA RowsPayIsCost ==
  ASSUME request.rows \in Seq(Scenarios), solution.cost = Total(Fees(request.rows), KeptRows(request.rows)),
         \A i \in KeptRows(request.rows) :
           Differences(request.rows[i].left, request.rows[i].right) # {}
  PROVE  CookedCost
<1>1. PaidRows = KeptRows(request.rows)
  BY DEF PaidRows, KeptRows
<1> DEFINE rows == request.rows
           K == PaidRows
<1>2. rows \in Seq(Scenarios) /\ K = KeptRows(rows)
  BY <1>1
<1> HIDE DEF rows, K
<1>3. MapThenSumSet(LAMBDA i : rows[i].units * Min(Differences(rows[i].left, rows[i].right)), K)
        = Total(Fees(rows), K)
  BY <1>2, FeesAreAdded
<1>4. MapThenSumSet(LAMBDA i : request.rows[i].units
                      * Min(Differences(request.rows[i].left, request.rows[i].right)), PaidRows)
        = Total(Fees(request.rows), PaidRows)
  BY <1>3 DEF rows, K
<1> HIDE DEF PaidRows
<1> QED BY <1>1, <1>4 DEF CookedCost

\* The requests that are cooked have rows.
LEMMA RowsAreScenarios ==
  ASSUME request \in CookRequests
  PROVE  request.rows \in Seq(Scenarios)
BY CookAssumption DEF Scenarios

\* Without a scenario no row counts.
LEMMA NoRowsPay ==
  ASSUME NEW rows \in Seq(Scenarios), prior = <<>>,
         \/ prior = rows
         \/ \E q : IsShaped(rows, prior, q)
  PROVE  KeptRows(rows) = {} /\ Total(Fees(rows), KeptRows(rows)) = 0
<1>1. DOMAIN prior = {}
  OBVIOUS
<1>2. KeptRows(rows) = {}
  <2>1. CASE prior = rows
    BY <1>1, <2>1 DEF KeptRows
  <2>2. CASE \E q : IsShaped(rows, prior, q)
    BY <1>1, <2>2 DEF IsShaped, KeptRows
  <2> QED BY <2>1, <2>2
<1> DEFINE K == KeptRows(rows)
           f == Fees(rows)
<1>3. IsFiniteSet(K)
  BY <1>2, FS_EmptySet
<1> HIDE DEF K, f
<1>4. K = {}
  BY <1>2 DEF K
<1>5. Total(f, K) = 0
  BY <1>3, <1>4, TotalStep
<1> QED BY <1>2, <1>5 DEF K, f

\* The invariants together give the cost of the rows.
LEMMA CostIsCooked ==
  ASSUME GInv, SInv, TInv, WInv, RequestInv
  PROVE  CookedCost
<1> SUFFICES ASSUME phase = "cooked"
             PROVE  CookedCost
  BY DEF CookedCost
<1> DEFINE rows == request.rows
<1>1. /\ rows \in Seq(Scenarios)
      /\ \/ prior = rows
         \/ \E q : IsShaped(rows, prior, q)
  <2>1. /\ request \in CookRequests
        /\ prior = IF request.shape THEN Shaped(rows, 96) ELSE rows
    BY DEF RequestInv
  <2>2. rows \in Seq(Scenarios)
    BY <2>1, RowsAreScenarios
  <2> DEFINE bits == 96
  <2>3. prior = rows \/ prior = Shaped(rows, bits)
    BY <2>1
  <2> HIDE DEF bits, rows
  <2>4. \E q : IsShaped(rows, Shaped(rows, bits), q)
    BY <2>2, ShapedHasPairs
  <2> QED BY <2>2, <2>3, <2>4
<1>2. CASE bundles = <<>>
  <2>1. solution.cost = 0 /\ prior = <<>>
    BY <1>2 DEF RequestInv, WInv, WriteInv
  <2> HIDE DEF rows
  <2>2. KeptRows(rows) = {} /\ Total(Fees(rows), KeptRows(rows)) = 0
    BY <1>1, <2>1, NoRowsPay
  <2>3. CookedCost
    BY <1>1, <2>1, <2>2, RowsPayIsCost DEF rows
  <2> QED BY <2>3
<1>3. CASE bundles # <<>>
  <2>1. pending = <<>> /\ IsTabulated(weights, tests, prior, probes, bundles)
        /\ \E g : WritingSound(weights, tests, memo, bundles, probes, nodes, pending, g)
    BY <1>3 DEF WInv, WriteInv
  <2>2. PICK g : WritingSound(weights, tests, memo, bundles, probes, nodes, <<>>, g)
    BY <2>1
  <2>3. Table(weights, tests)
    BY DEF GInv, TestsTyped, Table
  <2>4. MemoSound(weights, tests, memo)
    BY DEF SInv, SearchInv
  <2>5. (\A S \in DOMAIN memo : AnswerSound(weights, tests, memo, S, memo[S]))
        /\ RootSound(weights, memo, solution)
    BY DEF TInv, TreeInv
  <2>6. IsWritten(g)
    BY <2>1, <2>2, <2>3, <2>4, <2>5 DEF IsWritten
  <2>7. RootedSound(weights, nodes, <<>>, g)
    BY <2>2 DEF WritingSound
  <2>8. nodes # <<>> \/ Whole(weights) = {}
    BY <2>7 DEF RootedSound
  <2>9. WeightsAre(prior, weights)
    BY <2>1 DEF WeightsAre, IsTabulated, GInv, Inputs
  <2>10. PICK f : /\ ScenariosPay(f)
                  /\ solution.cost = Total(Paid(weights, Whole(weights), f), Whole(weights))
    BY <2>5, <2>6, <2>7, <2>8, <2>9, CostIsPaid
  <2> HIDE DEF rows
  <2>11. RowsPay(rows, f)
    <3>1. CASE prior = rows
      BY <2>9, <2>10, <3>1, RowsThemselvesPay
    <3>2. CASE \E q : IsShaped(rows, prior, q)
      BY <1>1, <2>9, <2>10, <3>2, RowsOfPairsPay
    <3> QED BY <1>1, <3>1, <3>2
  <2>12. /\ solution.cost = Total(Fees(rows), KeptRows(rows))
         /\ \A i \in KeptRows(rows) : Differences(rows[i].left, rows[i].right) # {}
    BY <2>10, <2>11 DEF RowsPay
  <2>13. CookedCost
    BY <1>1, <2>12, RowsPayIsCost DEF rows
  <2> QED BY <2>13
<1> QED BY <1>2, <1>3

\* ExpectedDistinguishingAtoms: the cost the certificate states is what the scheme does at
\* run time, row by row of the rows that were handed in.
THEOREM CookedCostIsPaid == Spec => []CookedCost
<1>1. GInv /\ SInv /\ TInv /\ WInv /\ RequestInv => CookedCost
  BY CostIsCooked
<1>2. Spec => []SInv
  BY TablesAreTyped, SearchInvariant, PTL
<1> QED BY <1>1, <1>2, GenerationInvariant, TreesAreSound, WritingIsSound, RequestStays, PTL
=============================================================================
