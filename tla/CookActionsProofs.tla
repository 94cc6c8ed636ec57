-------------------------- MODULE CookActionsProofs --------------------------
(***************************************************************************)
(* The actions that the cooker generates are exhaustive, for every prior   *)
(* and all probes: whatever bundle of probes that tell something apart     *)
(* fits the capacity, one of the actions does as well.  enumerate_bundles  *)
(* drops most bundles; the invariant EInv says who makes up for each.      *)
(***************************************************************************)
EXTENDS CookerProofs

-----------------------------------------------------------------------------
(* What the actions make up for.  A behavior is good for a selection b and *)
(* the probes of the places E of the scalars sc, if it resolves what they  *)
(* resolve and leaves together only what they do.                          *)

Splits(pr, p, s) == p.values[pr[s].left] # p.values[pr[s].right]

Alikes(pr, p, s, t) == p.values[pr[s].left] = p.values[pr[t].left]

GoodFor(pr, pb, sc, b, E) ==
  {d \in [DOMAIN pr -> Nat] :
     /\ \A s \in DOMAIN pr :
          b[s] = RESOLVED \/ (\E e \in E : Splits(pr, pb[sc[e]], s)) => d[s] = RESOLVED
     /\ \A s, t \in DOMAIN pr :
          d[s] = d[t] /\ d[s] # RESOLVED =>
            b[s] = b[t] /\ \A e \in E : Alikes(pr, pb[sc[e]], s, t)}

\* A behavior tells which scenarios are resolved and which are alike.
LEMMA KeyFacts ==
  ASSUME NEW n \in Nat, NEW o, DOMAIN o = 1..n
  PROVE  /\ BehaviorKey(o) \in [1..n -> Nat]
         /\ \A s \in 1..n : BehaviorKey(o)[s] = RESOLVED <=> ~Collides(o[s])
         /\ \A s, t \in 1..n : Collides(o[s]) /\ Collides(o[t]) =>
              (BehaviorKey(o)[s] = BehaviorKey(o)[t] <=> o[s] = o[t])
<1> DEFINE First(s, t) == /\ Collides(o[t]) /\ o[t] = o[s]
                          /\ \A r \in 1..(t - 1) : o[r] # o[s]
           K == BehaviorKey(o)
<1>1. K = [s \in 1..n |-> IF ~Collides(o[s]) THEN RESOLVED ELSE CHOOSE t \in 1..s : First(s, t)]
  BY DEF BehaviorKey
<1>2. ASSUME NEW s \in 1..n, Collides(o[s])
      PROVE  \E t \in 1..s : First(s, t)
  <2> DEFINE T == {t \in 1..s : o[t] = o[s]}
  <2>1. T \in SUBSET Nat /\ s \in T
    OBVIOUS
  <2>2. PICK t \in T : \A r \in T : t <= r
    <3> HIDE DEF T
    <3> QED BY <2>1, LeastNatural
  <2>3. \A r \in 1..(t - 1) : o[r] # o[s]
    BY <2>2
  <2> QED BY <1>2, <2>2, <2>3
<1>3. ASSUME NEW s \in 1..n, Collides(o[s])
      PROVE  K[s] \in 1..s /\ First(s, K[s])
  <2>1. K[s] = CHOOSE t \in 1..s : First(s, t)
    BY <1>1, <1>3
  <2> HIDE DEF First, K
  <2> QED BY <1>2, <1>3, <2>1
<1>4. ASSUME NEW s \in 1..n, ~Collides(o[s])
      PROVE  K[s] = RESOLVED
  BY <1>1, <1>4
<1>5. ASSUME NEW s \in 1..n, NEW t \in 1..n, Collides(o[s]), Collides(o[t]), o[s] = o[t]
      PROVE  K[s] = K[t]
  <2>1. /\ K[s] \in 1..s /\ o[K[s]] = o[s] /\ \A r \in 1..(K[s] - 1) : o[r] # o[s]
        /\ K[t] \in 1..t /\ o[K[t]] = o[t] /\ \A r \in 1..(K[t] - 1) : o[r] # o[t]
    BY <1>3, <1>5
  <2> HIDE DEF K
  <2> QED BY <1>5, <2>1
<1>6. ASSUME NEW s \in 1..n, NEW t \in 1..n, Collides(o[s]), Collides(o[t]), K[s] = K[t]
      PROVE  o[s] = o[t]
  <2>1. o[K[s]] = o[s] /\ o[K[t]] = o[t]
    BY <1>3, <1>6
  <2> HIDE DEF K
  <2> QED BY <1>6, <2>1
<1>7. ASSUME NEW s \in 1..n, K[s] = RESOLVED
      PROVE  ~Collides(o[s])
  <2>1. Collides(o[s]) => K[s] \in 1..s
    BY <1>3
  <2> HIDE DEF K
  <2> QED BY <1>7, <2>1 DEF RESOLVED
<1>8. K \in [1..n -> Nat]
  <2>1. \A s \in 1..n : K[s] \in Nat
    <3> TAKE s \in 1..n
    <3>1. Collides(o[s]) => K[s] \in 1..s
      BY <1>3
    <3>2. ~Collides(o[s]) => K[s] = RESOLVED
      BY <1>4
    <3> HIDE DEF K
    <3> QED BY <3>1, <3>2 DEF RESOLVED
  <2>2. K = [s \in 1..n |-> K[s]]
    BY <1>1
  <2> HIDE DEF K
  <2> QED BY <2>1, <2>2
<1> HIDE DEF K
<1>9. /\ \A s \in 1..n : K[s] = RESOLVED <=> ~Collides(o[s])
      /\ \A s, t \in 1..n : Collides(o[s]) /\ Collides(o[t]) => (K[s] = K[t] <=> o[s] = o[t])
  BY <1>4, <1>5, <1>6, <1>7
<1> QED BY <1>8, <1>9 DEF K

\* Digits of a mixed radix can be read back.
LEMMA DigitsApart ==
  ASSUME NEW c \in Nat \ {0, 1}, NEW v \in Nat, NEW w \in Nat,
         NEW d \in 0..(c - 1), NEW e \in 0..(c - 1), v * c + d = w * c + e
  PROVE  v = w /\ d = e
<1>1. ASSUME NEW x \in Nat, NEW y \in Nat, x < y
      PROVE  x * c + c <= y * c
  <2>1. x + 1 <= y
    BY <1>1
  <2>2. (x + 1) * c <= y * c
    BY <2>1
  <2>3. (x + 1) * c = x * c + c
    OBVIOUS
  <2> QED BY <2>2, <2>3
<1>2. v * c \in Nat /\ w * c \in Nat
  OBVIOUS
<1>3. ~(v < w)
  <2>1. v < w => v * c + c <= w * c
    BY <1>1
  <2> QED BY <1>2, <2>1
<1>4. ~(w < v)
  <2>1. w < v => w * c + c <= v * c
    BY <1>1
  <2> QED BY <1>2, <2>1
<1>5. v = w
  BY <1>3, <1>4
<1> QED BY <1>2, <1>5

\* The behavior of the selection of a call; without one every scenario is left with every
\* other.
KeyOf(pr, f) ==
  IF f.combined = <<>> THEN [s \in DOMAIN pr |-> 1] ELSE BehaviorKey(f.combined)

\* A scalar joins a selection: what either resolves is resolved, and what stays together
\* neither divides.
LEMMA KeyOfMore ==
  ASSUME Inputs(prior, probes, capacity), prior # <<>>, NEW i \in DOMAIN probes,
         NEW f, FrameSound(prior, probes, capacity, f), NEW b, b = KeyOf(prior, f),
         NEW b2, b2 = BehaviorKey(Combine(f.combined, i))
  PROVE  /\ Combine(f.combined, i) # <<>>
         /\ b \in [DOMAIN prior -> Nat] /\ b2 \in [DOMAIN prior -> Nat]
         /\ \A s \in DOMAIN prior :
              b[s] = RESOLVED \/ Splits(prior, probes[i], s) => b2[s] = RESOLVED
         /\ \A s, t \in DOMAIN prior :
              b2[s] = b2[t] /\ b2[s] # RESOLVED =>
                b[s] = b[t] /\ Alikes(prior, probes[i], s, t)
<1> DEFINE o == BundleOutcomes(prior, probes, f.selected)
           m == BundleOutcomes(prior, probes, Append(f.selected, i))
           p == OutcomesOf(prior, probes[i].values)
           c == probes[i].cardinality
           N == Len(prior)
<1>1. /\ N \in Nat \ {0} /\ DOMAIN prior = 1..N /\ prior \in Seq(Scenarios)
      /\ IsBundle(probes) /\ IsProbe(probes[i])
  <2>1. DOMAIN probes = 1..Len(probes)
    BY ListDef DEF Inputs, IsBundle
  <2>2. prior \in Seq(Scenarios) /\ N \in Nat \ {0}
    BY NotEmpty DEF Inputs
  <2> QED BY <2>1, <2>2 DEF Inputs, IsBundle
<1>2. f.selected \in Seq(DOMAIN probes)
  BY DEF FrameSound, SelectionFits
<1>3. Combine(f.combined, i) = m
  BY CombineIs
<1>4. \A s \in DOMAIN prior : /\ m[s].left = o[s].left * c + p[s].left
                              /\ m[s].right = o[s].right * c + p[s].right
  BY <1>2, SelectionGrows
<1>5. /\ DOMAIN o = 1..N /\ DOMAIN m = 1..N
      /\ \A s \in 1..N : /\ o[s] = [left |-> o[s].left, right |-> o[s].right]
                         /\ m[s] = [left |-> m[s].left, right |-> m[s].right]
                         /\ p[s].left = probes[i].values[prior[s].left]
                         /\ p[s].right = probes[i].values[prior[s].right]
  BY <1>1 DEF BundleOutcomes, OutcomesOf
<1>6. \A s \in 1..N : /\ o[s].left \in Nat /\ o[s].right \in Nat
                      /\ p[s].left \in 0..(c - 1) /\ p[s].right \in 0..(c - 1)
  <2> TAKE s \in 1..N
  <2> DEFINE ps == Chosen(probes, f.selected)
  <2>1. prior[s].left \in Strings /\ prior[s].right \in Strings
    BY <1>1, ScenarioTyped
  <2>2. IsBundle(ps)
    BY <1>1, <1>2, ChosenIsBundle
  <2>3. /\ BundleCardinality(ps) \in Nat
        /\ BundleValues(ps) \in [Strings -> 0..(BundleCardinality(ps) - 1)]
    BY <2>2, BundleFits
  <2>4. o[s].left = BundleValues(ps)[prior[s].left] /\ o[s].right = BundleValues(ps)[prior[s].right]
    BY <1>1 DEF BundleOutcomes, OutcomesOf
  <2>5. p[s].left \in 0..(c - 1) /\ p[s].right \in 0..(c - 1)
    BY <1>1, <1>5, <2>1 DEF IsProbe
  <2> HIDE DEF o, p, c, ps
  <2> QED BY <2>1, <2>3, <2>4, <2>5
<1>7. c \in Nat \ {0, 1}
  BY <1>1 DEF IsProbe
<1> HIDE DEF o, m, p, c, N
<1>13. \A v, w, d, e : /\ v \in Nat /\ w \in Nat /\ d \in 0..(c - 1) /\ e \in 0..(c - 1)
                      /\ v * c + d = w * c + e
                      => v = w /\ d = e
  BY <1>7, DigitsApart
<1>14. \A s \in 1..N : /\ m[s].left = o[s].left * c + p[s].left
                      /\ m[s].right = o[s].right * c + p[s].right
  BY <1>1, <1>4
<1>8. ASSUME NEW s \in 1..N, m[s].left = m[s].right
      PROVE  o[s].left = o[s].right /\ p[s].left = p[s].right
  <2>1. o[s].left * c + p[s].left = o[s].right * c + p[s].right
    BY <1>14, <1>8
  <2> QED BY <1>6, <1>13, <2>1
<1>9. ASSUME NEW s \in 1..N, NEW t \in 1..N, m[s].left = m[t].left, m[s].right = m[t].right
      PROVE  o[s] = o[t] /\ p[s].left = p[t].left
  <2>1. o[s].left = o[t].left /\ p[s].left = p[t].left
    <3>1. o[s].left * c + p[s].left = o[t].left * c + p[t].left
      BY <1>14, <1>9
    <3> QED BY <1>6, <1>13, <3>1
  <2>2. o[s].right = o[t].right
    <3>1. o[s].right * c + p[s].right = o[t].right * c + p[t].right
      BY <1>14, <1>9
    <3> QED BY <1>6, <1>13, <3>1
  <2> QED BY <1>5, <2>1, <2>2
<1>10. /\ b2 \in [1..N -> Nat]
       /\ \A s \in 1..N : b2[s] = RESOLVED <=> m[s].left # m[s].right
       /\ \A s, t \in 1..N : m[s].left = m[s].right /\ m[t].left = m[t].right =>
            (b2[s] = b2[t] <=> m[s] = m[t])
  <2>1. b2 = BehaviorKey(m)
    BY <1>3
  <2> QED BY <1>1, <1>5, <2>1, KeyFacts DEF Collides
<1>11. CASE f.combined = <<>>
  <2>1. b = [s \in 1..N |-> 1]
    BY <1>1, <1>11 DEF KeyOf
  <2>2. b \in [1..N -> Nat] /\ \A s, t \in 1..N : b[s] # RESOLVED /\ b[s] = b[t]
    BY <2>1 DEF RESOLVED
  <2>4. ASSUME NEW s \in 1..N, b[s] = RESOLVED \/ Splits(prior, probes[i], s)
        PROVE  b2[s] = RESOLVED
    BY <1>5, <1>8, <1>10, <2>2, <2>4 DEF Splits
  <2>5. ASSUME NEW s \in 1..N, NEW t \in 1..N, b2[s] = b2[t], b2[s] # RESOLVED
        PROVE  b[s] = b[t] /\ Alikes(prior, probes[i], s, t)
    <3>1. m[s].left = m[s].right /\ m[t].left = m[t].right
      BY <1>10, <2>5
    <3>2. m[s] = m[t]
      BY <1>10, <2>5, <3>1
    <3>3. p[s].left = p[t].left
      BY <1>9, <3>2
    <3> QED BY <1>5, <2>2, <3>3 DEF Alikes
  <2>6. m # <<>>
    BY <1>1, <1>5
  <2> QED BY <1>1, <1>3, <1>10, <2>2, <2>4, <2>5, <2>6
<1>12. CASE f.combined # <<>>
  <2>1. f.combined = o
    BY <1>12 DEF FrameSound, o
  <2>2. b = BehaviorKey(o)
    BY <1>12, <2>1 DEF KeyOf
  <2>3. /\ b \in [1..N -> Nat]
        /\ \A s \in 1..N : b[s] = RESOLVED <=> o[s].left # o[s].right
        /\ \A s, t \in 1..N : o[s].left = o[s].right /\ o[t].left = o[t].right =>
             (b[s] = b[t] <=> o[s] = o[t])
    BY <1>1, <1>5, <2>2, KeyFacts DEF Collides
  <2>4. ASSUME NEW s \in 1..N, b[s] = RESOLVED \/ Splits(prior, probes[i], s)
        PROVE  b2[s] = RESOLVED
    BY <1>5, <1>8, <1>10, <2>3, <2>4 DEF Splits
  <2>5. ASSUME NEW s \in 1..N, NEW t \in 1..N, b2[s] = b2[t], b2[s] # RESOLVED
        PROVE  b[s] = b[t] /\ Alikes(prior, probes[i], s, t)
    <3>1. m[s].left = m[s].right /\ m[t].left = m[t].right
      BY <1>10, <2>5
    <3>2. m[s] = m[t]
      BY <1>10, <2>5, <3>1
    <3>3. o[s] = o[t] /\ p[s].left = p[t].left
      BY <1>9, <3>2
    <3>4. o[s].left = o[s].right /\ o[t].left = o[t].right
      BY <1>8, <3>1
    <3> QED BY <1>5, <2>3, <3>3, <3>4 DEF Alikes
  <2>6. m # <<>>
    BY <1>1, <1>5
  <2> QED BY <1>1, <1>3, <1>10, <2>3, <2>4, <2>5, <2>6
<1> QED BY <1>11, <1>12

\* g[k] is the product of the cardinalities of the scalars of E from the place k on, for
\* k >= n.
AreProducts(pb, sc, n, E, g) ==
  /\ g \in [1..(Len(sc) + 1) -> Nat \ {0}]
  /\ g[Len(sc) + 1] = 1
  /\ \A k \in n..Len(sc) : g[k] = IF k \in E THEN pb[sc[k]].cardinality * g[k + 1] ELSE g[k + 1]

\* Scalars from the place n on can join a selection of the given product; what is good for
\* the selection b and them is in G.
CanJoin(pr, pb, cap, sc, n, product, b, E, G) ==
  /\ E \in SUBSET (n..Len(sc))
  /\ \E g : AreProducts(pb, sc, n, E, g) /\ product * g[n] <= cap
  /\ GoodFor(pr, pb, sc, b, E) \subseteq G

\* A call comes to a selection for which only behaviors of G are good.
Reaches(pr, pb, cap, sc, f, G) ==
  \E E : /\ CanJoin(pr, pb, cap, sc, f.start, f.product, KeyOf(pr, f), E, G)
         /\ f.combined = <<>> => E # {}

\* A behavior that is good for a selection with one more scalar is good for the selection
\* and that scalar.
LEMMA GoodForMore ==
  ASSUME NEW pr, NEW pb, NEW sc, NEW b, NEW b2, NEW E, NEW n \in E,
         \A s \in DOMAIN pr : b[s] = RESOLVED \/ Splits(pr, pb[sc[n]], s) => b2[s] = RESOLVED,
         \A s, t \in DOMAIN pr :
           b2[s] = b2[t] /\ b2[s] # RESOLVED => b[s] = b[t] /\ Alikes(pr, pb[sc[n]], s, t)
  PROVE  GoodFor(pr, pb, sc, b2, E \ {n}) \subseteq GoodFor(pr, pb, sc, b, E)
<1> SUFFICES ASSUME NEW d \in GoodFor(pr, pb, sc, b2, E \ {n})
             PROVE  d \in GoodFor(pr, pb, sc, b, E)
  OBVIOUS
<1> DEFINE D == DOMAIN pr
<1>1. /\ d \in [D -> Nat]
      /\ \A s \in D : b2[s] = RESOLVED => d[s] = RESOLVED
      /\ \A s \in D : \A e \in E \ {n} : Splits(pr, pb[sc[e]], s) => d[s] = RESOLVED
      /\ \A s, t \in D : d[s] = d[t] /\ d[s] # RESOLVED =>
           b2[s] = b2[t] /\ \A e \in E \ {n} : Alikes(pr, pb[sc[e]], s, t)
  BY DEF GoodFor
<1>2. ASSUME NEW s \in D, b[s] = RESOLVED \/ \E e \in E : Splits(pr, pb[sc[e]], s)
      PROVE  d[s] = RESOLVED
  <2>1. CASE b[s] = RESOLVED
    BY <1>1, <2>1
  <2>2. ASSUME NEW e \in E, Splits(pr, pb[sc[e]], s)
        PROVE  d[s] = RESOLVED
    <3>1. CASE e = n
      BY <1>1, <2>2, <3>1
    <3>2. CASE e # n
      BY <1>1, <2>2, <3>2
    <3> QED BY <3>1, <3>2
  <2> QED BY <1>2, <2>1, <2>2
<1>3. ASSUME NEW s \in D, NEW t \in D, d[s] = d[t], d[s] # RESOLVED
      PROVE  b[s] = b[t] /\ \A e \in E : Alikes(pr, pb[sc[e]], s, t)
  <2>1. b2[s] = b2[t] /\ b2[s] # RESOLVED
    BY <1>1, <1>3
  <2>2. b[s] = b[t] /\ Alikes(pr, pb[sc[n]], s, t)
    BY <2>1
  <2>3. \A e \in E \ {n} : Alikes(pr, pb[sc[e]], s, t)
    BY <1>1, <1>3
  <2> QED BY <2>2, <2>3
<1> QED BY <1>1, <1>2, <1>3 DEF GoodFor

\* A product with a positive number is no less.
LEMMA NotLess ==
  ASSUME NEW u \in Nat, NEW v \in Nat \ {0}
  PROVE  u <= u * v
OBVIOUS

\* And so is one with more factors.
LEMMA FewerFactors ==
  ASSUME NEW p \in Nat, NEW c \in Nat \ {0}, NEW x \in Nat \ {0}
  PROVE  /\ p * (c * x) = (p * c) * x
         /\ p * c <= (p * c) * x
         /\ p * x <= p * (c * x)
<1>1. p * c \in Nat /\ p * x \in Nat /\ c * x \in Nat
  OBVIOUS
<1>2. p * (c * x) = (p * c) * x
  OBVIOUS
<1>3. p * (c * x) = (p * x) * c
  OBVIOUS
<1>4. p * c <= (p * c) * x
  BY <1>1, NotLess
<1>5. p * x <= (p * x) * c
  BY <1>1, NotLess
<1> QED BY <1>2, <1>3, <1>4, <1>5

\* The loop of a call goes on: what the call can come to it still comes to, or with the
\* scalar in its selection.
LEMMA ReachesNext ==
  ASSUME Inputs(prior, probes, capacity), prior # <<>>, NEW sc \in Seq(DOMAIN probes),
         NEW f, FrameSound(prior, probes, capacity, f), f.start \in 1..Len(sc),
         NEW G, Reaches(prior, probes, capacity, sc, f, G),
         NEW i, i = sc[f.start], NEW p2, p2 = f.product * probes[i].cardinality,
         NEW n2, n2 = f.start + 1
  PROVE  \/ Reaches(prior, probes, capacity, sc, Frame(n2, f.product, f.selected, f.combined), G)
         \/ /\ p2 <= capacity
            /\ \E E : /\ CanJoin(prior, probes, capacity, sc, n2, p2,
                                 BehaviorKey(Combine(f.combined, i)), E, G)
                      /\ CanJoin(prior, probes, capacity, sc, n2, f.product,
                                 BehaviorKey(Combine(f.combined, i)), E, G)
<1> DEFINE n == f.start
           b == KeyOf(prior, f)
           b2 == BehaviorKey(Combine(f.combined, i))
           c == probes[i].cardinality
           f2 == Frame(n2, f.product, f.selected, f.combined)
<1>1. PICK E : /\ CanJoin(prior, probes, capacity, sc, n, f.product, b, E, G)
               /\ f.combined = <<>> => E # {}
  BY DEF Reaches
<1>2. PICK g : AreProducts(probes, sc, n, E, g) /\ f.product * g[n] <= capacity
  BY <1>1 DEF CanJoin
<1>3. /\ n \in 1..Len(sc) /\ Len(sc) \in Nat /\ i \in DOMAIN probes /\ n2 = n + 1
      /\ E \in SUBSET (n..Len(sc)) /\ GoodFor(prior, probes, sc, b, E) \subseteq G
  BY <1>1 DEF CanJoin
<1>4. c \in Nat \ {0, 1} /\ f.product \in Nat \ {0} /\ capacity \in Nat
  <2>1. DOMAIN probes = 1..Len(probes) /\ IsProbe(probes[i])
    BY <1>3, ListDef DEF Inputs, IsBundle
  <2>2. f.product \in Nat \ {0} /\ capacity \in Nat
    BY DEF FrameSound, SelectionFits, Inputs
  <2> QED BY <2>1, <2>2 DEF IsProbe
<1>5. /\ f2.start = n2 /\ f2.product = f.product /\ f2.combined = f.combined
      /\ KeyOf(prior, f2) = b
  BY DEF Frame, KeyOf
<1> HIDE DEF f2, b, b2, c
<1>6. \A F : (\A k \in n2..Len(sc) : k \in E <=> k \in F) => AreProducts(probes, sc, n2, F, g)
  <2>1. /\ g \in [1..(Len(sc) + 1) -> Nat \ {0}]
        /\ g[Len(sc) + 1] = 1
        /\ \A k \in n..Len(sc) :
             g[k] = IF k \in E THEN probes[sc[k]].cardinality * g[k + 1] ELSE g[k + 1]
    BY <1>2 DEF AreProducts
  <2>2. \A k \in n2..Len(sc) : k \in n..Len(sc)
    BY <1>3
  <2> QED BY <2>1, <2>2 DEF AreProducts
<1>7. g[n2] \in Nat \ {0} /\ g[n] = IF n \in E THEN c * g[n2] ELSE g[n2]
  <2> USE DEF c
  <2> QED BY <1>2, <1>3 DEF AreProducts
<1>8. CASE n \notin E
  <2>1. E \in SUBSET (n2..Len(sc))
    BY <1>3, <1>8
  <2>2. AreProducts(probes, sc, n2, E, g) /\ f.product * g[n2] <= capacity
    BY <1>2, <1>6, <1>7, <1>8
  <2>3. CanJoin(prior, probes, capacity, sc, f2.start, f2.product, KeyOf(prior, f2), E, G)
    BY <1>3, <1>5, <2>1, <2>2 DEF CanJoin
  <2>4. Reaches(prior, probes, capacity, sc, f2, G)
    BY <1>1, <1>5, <2>3 DEF Reaches
  <2> QED BY <2>4 DEF f2
<1>9. CASE n \in E
  <2> DEFINE F == E \ {n}
  <2>1. F \in SUBSET (n2..Len(sc)) /\ AreProducts(probes, sc, n2, F, g)
    BY <1>3, <1>6
  <2>2. f.product * (c * g[n2]) <= capacity
    BY <1>2, <1>7, <1>9
  <2>3. /\ f.product * (c * g[n2]) = p2 * g[n2]
        /\ p2 <= p2 * g[n2]
        /\ f.product * g[n2] <= f.product * (c * g[n2])
        /\ p2 \in Nat /\ p2 * g[n2] \in Nat /\ f.product * g[n2] \in Nat
    <3> DEFINE p == f.product
               x == g[n2]
    <3>1. p2 = p * c
      BY DEF c
    <3>2. p \in Nat /\ c \in Nat \ {0} /\ x \in Nat \ {0}
      BY <1>4, <1>7
    <3> HIDE DEF p, x
    <3>3. p * (c * x) = (p * c) * x /\ p * c <= (p * c) * x /\ p * x <= p * (c * x)
      BY <3>2, FewerFactors
    <3>4. p * c \in Nat
      BY <3>2
    <3>5. (p * c) * x \in Nat /\ p * x \in Nat
      BY <3>2, <3>4
    <3>6. /\ p * (c * x) = p2 * x /\ p2 <= p2 * x /\ p * x <= p * (c * x)
          /\ p2 \in Nat /\ p2 * x \in Nat /\ p * x \in Nat
      BY <3>1, <3>3, <3>4, <3>5
    <3> QED BY <3>6 DEF p, x
  <2>4. p2 * g[n2] <= capacity /\ p2 <= capacity /\ f.product * g[n2] <= capacity
    BY <1>4, <2>2, <2>3
  <2>5. GoodFor(prior, probes, sc, b2, F) \subseteq GoodFor(prior, probes, sc, b, E)
    <3>1. /\ \A s \in DOMAIN prior :
               b[s] = RESOLVED \/ Splits(prior, probes[sc[n]], s) => b2[s] = RESOLVED
          /\ \A s, t \in DOMAIN prior :
               b2[s] = b2[t] /\ b2[s] # RESOLVED =>
                 b[s] = b[t] /\ Alikes(prior, probes[sc[n]], s, t)
      BY <1>3, KeyOfMore DEF b, b2
    <3> QED BY <1>9, <3>1, GoodForMore
  <2>6. GoodFor(prior, probes, sc, b2, F) \subseteq G
    BY <1>3, <2>5
  <2>7. /\ CanJoin(prior, probes, capacity, sc, n2, p2, b2, F, G)
        /\ CanJoin(prior, probes, capacity, sc, n2, f.product, b2, F, G)
    BY <2>1, <2>4, <2>6 DEF CanJoin
  <2> QED BY <2>4, <2>7 DEF b2
<1> QED BY <1>8, <1>9

\* A selection for which only behaviors of G are good is made up for: one of G has a
\* representative, or a call at the place n or after it comes to it.
IsMet(pr, pb, cap, sc, bb, fs, G, n) ==
  \/ \E d \in DOMAIN bb : d \in G
  \/ \E k \in 1..Len(fs) : n <= fs[k].start /\ Reaches(pr, pb, cap, sc, fs[k], G)

\* Whatever can join a selection that is in the memo, or nothing at first, is made up for.
\* What is left to do for an entry of the memo is left to calls at its place and after it.
MemoMet(pr, pb, cap, sc, bp, bb, fs) ==
  \A x \in DOMAIN bp :
    /\ x[1] \in Nat /\ bp[x] \in Nat
    /\ \A E, G : CanJoin(pr, pb, cap, sc, x[1], bp[x], x[2], E, G) =>
                   IsMet(pr, pb, cap, sc, bb, fs, G, x[1])

AllMet(pr, pb, cap, sc, bb, fs) ==
  \A E, G : E # {} /\ CanJoin(pr, pb, cap, sc, 1, 1, [s \in DOMAIN pr |-> 1], E, G) =>
              IsMet(pr, pb, cap, sc, bb, fs, G, 1)

Covered(pr, pb, cap, sc, bp, bb, fs) ==
  MemoMet(pr, pb, cap, sc, bp, bb, fs) /\ AllMet(pr, pb, cap, sc, bb, fs)

\* The calls have come to places in ascending order, and their selections have
\* representatives.
InOrder(sc, bb, fs) ==
  /\ \A k \in 1..Len(fs) : fs[k].start \in 1..(Len(sc) + 1)
  /\ \A j, k \in 1..Len(fs) : j <= k => fs[j].start <= fs[k].start
  /\ \A k \in 1..Len(fs) : fs[k].combined # <<>> => BehaviorKey(fs[k].combined) \in DOMAIN bb

\* A lower product leaves no less room.
LEMMA CheaperCanJoin ==
  ASSUME NEW pr, NEW pb, NEW cap \in Nat, NEW sc, IsList(sc), NEW n \in 1..(Len(sc) + 1),
         NEW p \in Nat, NEW b, NEW E, NEW G, CanJoin(pr, pb, cap, sc, n, p, b, E, G),
         NEW q \in Nat, q <= p
  PROVE  CanJoin(pr, pb, cap, sc, n, q, b, E, G)
<1>1. PICK g : AreProducts(pb, sc, n, E, g) /\ p * g[n] <= cap
  BY DEF CanJoin
<1>2. g[n] \in Nat
  BY <1>1, ListDef DEF AreProducts
<1>3. q * g[n] <= cap
  <2> DEFINE x == g[n]
  <2>1. x \in Nat /\ p * x <= cap
    BY <1>1, <1>2
  <2> HIDE DEF x
  <2>2. q * x <= p * x /\ q * x \in Nat /\ p * x \in Nat
    BY <2>1
  <2>3. q * x <= cap
    BY <2>1, <2>2
  <2> QED BY <2>3 DEF x
<1> QED BY <1>1, <1>3 DEF CanJoin

\* Of a step one has to see that it keeps what the calls come to.
LEMMA CoveredStays ==
  ASSUME NEW pr, NEW pb, NEW cap, NEW sc, NEW bp, NEW bb, NEW fs, NEW bb2, NEW fs2,
         Covered(pr, pb, cap, sc, bp, bb, fs), DOMAIN bb \subseteq DOMAIN bb2,
         \A G : \A n \in Nat, k \in 1..Len(fs) :
           n <= fs[k].start /\ Reaches(pr, pb, cap, sc, fs[k], G) =>
             IsMet(pr, pb, cap, sc, bb2, fs2, G, n)
  PROVE  Covered(pr, pb, cap, sc, bp, bb2, fs2)
<1>1. ASSUME NEW G, NEW n \in Nat, IsMet(pr, pb, cap, sc, bb, fs, G, n)
      PROVE  IsMet(pr, pb, cap, sc, bb2, fs2, G, n)
  <2>1. CASE \E d \in DOMAIN bb : d \in G
    BY <2>1 DEF IsMet
  <2>2. CASE \E k \in 1..Len(fs) : n <= fs[k].start /\ Reaches(pr, pb, cap, sc, fs[k], G)
    BY <2>2
  <2> QED BY <1>1, <2>1, <2>2 DEF IsMet
<1>2. MemoMet(pr, pb, cap, sc, bp, bb2, fs2)
  BY <1>1 DEF Covered, MemoMet
<1>3. AllMet(pr, pb, cap, sc, bb2, fs2)
  BY <1>1 DEF Covered, AllMet
<1> QED BY <1>2, <1>3 DEF Covered

\* The behavior of the selection of a call is one.
LEMMA KeyOfTyped ==
  ASSUME NEW pr, NEW pb, NEW cap, Inputs(pr, pb, cap), NEW f, FrameSound(pr, pb, cap, f)
  PROVE  KeyOf(pr, f) \in [DOMAIN pr -> Nat]
<1>1. CASE f.combined = <<>>
  BY <1>1 DEF KeyOf
<1>2. CASE f.combined # <<>>
  <2>1. Len(pr) \in Nat /\ DOMAIN pr = 1..Len(pr)
    BY DEF Inputs
  <2>2. DOMAIN f.combined = DOMAIN pr
    BY <1>2 DEF FrameSound, BundleOutcomes, OutcomesOf
  <2>3. KeyOf(pr, f) = BehaviorKey(f.combined)
    BY <1>2 DEF KeyOf
  <2> QED BY <2>1, <2>2, <2>3, KeyFacts
<1> QED BY <1>1, <1>2

\* The loop goes on: a call that is not the innermost one still comes to what it came to.
LEMMA OtherCallsStay ==
  ASSUME NEW pr, NEW pb, NEW cap, NEW sc, NEW bb, NEW fs, FramesSound(pr, pb, cap, fs),
         fs # <<>>, NEW fs2, Len(fs2) \in Nat, Len(fs) - 1 <= Len(fs2),
         \A k \in 1..(Len(fs) - 1) : fs2[k] = fs[k],
         NEW n \in Nat, NEW k \in 1..(Len(fs) - 1), n <= fs[k].start,
         NEW G, Reaches(pr, pb, cap, sc, fs[k], G)
  PROVE  IsMet(pr, pb, cap, sc, bb, fs2, G, n)
<1>1. Len(fs) \in Nat
  BY StackTop DEF FramesSound
<1>2. k \in 1..Len(fs2) /\ fs2[k] = fs[k]
  BY <1>1
<1> QED BY <1>2 DEF IsMet

\* The scalar does not fit, or does not refine the selection: nothing is lost without it.
LEMMA PassOverCovers ==
  ASSUME GInv, PassOver, prior # <<>>,
         Covered(prior, probes, capacity, scalars, best_product, by_behavior, frames),
         InOrder(scalars, by_behavior, frames)
  PROVE  /\ Covered(prior, probes, capacity, scalars, best_product, by_behavior, frames')
         /\ InOrder(scalars, by_behavior, frames')
<1> DEFINE N == Len(frames)
           f == frames[N]
           i == scalars[f.start]
           a == Advanced(frames)
           n2 == f.start + 1
           f2 == Frame(n2, f.product, f.selected, f.combined)
<1>1. /\ Inputs(prior, probes, capacity) /\ scalars \in Seq(DOMAIN probes)
      /\ FramesSound(prior, probes, capacity, frames)
      /\ frames # <<>> /\ frames' = a
  BY DEF GInv, PassOver
<1>2. /\ Len(a) = N /\ N \in Nat \ {0} /\ Last(frames) = f
      /\ \A k \in 1..(N - 1) : a[k] = frames[k]
      /\ a[N] = f2
  BY <1>1, AdvancedIs
<1>3. /\ f.start \in 1..Len(scalars)
      /\ \/ f.product * probes[i].cardinality > capacity
         \/ f.combined # <<>> /\ BehaviorKey(Combine(f.combined, i)) = BehaviorKey(f.combined)
  <2>1. /\ f.start <= Len(scalars)
        /\ \/ f.product * probes[i].cardinality > capacity
           \/ f.combined # <<>> /\ BehaviorKey(Combine(f.combined, i)) = BehaviorKey(f.combined)
    BY <1>2 DEF PassOver
  <2>2. f.start \in 1..(Len(scalars) + 1)
    BY <1>2 DEF InOrder
  <2>3. Len(scalars) \in Nat
    BY <1>1
  <2> HIDE DEF f, i
  <2> QED BY <2>1, <2>2, <2>3
<1>4. FrameSound(prior, probes, capacity, f)
  BY <1>1, <1>2 DEF FramesSound
<1>5. /\ f2.start = n2 /\ f2.product = f.product /\ f2.combined = f.combined
      /\ KeyOf(prior, f2) = KeyOf(prior, f)
  BY DEF Frame, KeyOf
<1>6. f.product \in Nat /\ probes[i].cardinality \in Nat /\ capacity \in Nat
  <2>1. DOMAIN probes = 1..Len(probes) /\ i \in DOMAIN probes
    BY <1>1, <1>3, ListDef DEF Inputs, IsBundle
  <2>2. IsProbe(probes[i])
    BY <1>1, <2>1 DEF Inputs, IsBundle
  <2>3. f.product \in Nat /\ capacity \in Nat
    BY <1>1, <1>4 DEF FrameSound, SelectionFits, Inputs
  <2> QED BY <2>2, <2>3 DEF IsProbe
<1> HIDE DEF f, a, N
<1>7. ASSUME NEW G, Reaches(prior, probes, capacity, scalars, f, G)
      PROVE  Reaches(prior, probes, capacity, scalars, f2, G)
  <2> DEFINE p2 == f.product * probes[i].cardinality
             b2 == BehaviorKey(Combine(f.combined, i))
  <2>1. \/ Reaches(prior, probes, capacity, scalars, f2, G)
        \/ /\ p2 <= capacity
           /\ \E E : CanJoin(prior, probes, capacity, scalars, n2, f.product, b2, E, G)
    <3>1. \/ Reaches(prior, probes, capacity, scalars, f2, G)
          \/ /\ p2 <= capacity
             /\ \E E : /\ CanJoin(prior, probes, capacity, scalars, n2, p2, b2, E, G)
                       /\ CanJoin(prior, probes, capacity, scalars, n2, f.product, b2, E, G)
      BY <1>1, <1>3, <1>4, <1>7, ReachesNext
    <3> QED BY <3>1
  <2>2. CASE p2 <= capacity /\ \E E : CanJoin(prior, probes, capacity, scalars, n2, f.product, b2, E, G)
    <3>1. f.combined # <<>> /\ b2 = BehaviorKey(f.combined)
      BY <1>3, <1>6, <2>2
    <3>2. KeyOf(prior, f2) = b2
      BY <1>5, <3>1 DEF KeyOf
    <3> HIDE DEF b2, f2
    <3> QED BY <1>5, <2>2, <3>1, <3>2 DEF Reaches
  <2> QED BY <2>1, <2>2
<1> HIDE DEF f2, i
<1>8. ASSUME NEW G, NEW n \in Nat, NEW k \in 1..N, n <= frames[k].start,
             Reaches(prior, probes, capacity, scalars, frames[k], G)
      PROVE  IsMet(prior, probes, capacity, scalars, by_behavior, a, G, n)
  <2>1. CASE k = N
    <3>1. frames[k] = f /\ N \in 1..Len(a)
      BY <1>2, <2>1 DEF f
    <3>2. n <= a[N].start /\ Reaches(prior, probes, capacity, scalars, a[N], G)
      BY <1>2, <1>3, <1>5, <1>7, <1>8, <3>1
    <3> QED BY <3>1, <3>2 DEF IsMet
  <2>2. CASE k # N
    <3>1. /\ Len(a) \in Nat /\ Len(frames) - 1 <= Len(a) /\ k \in 1..(Len(frames) - 1)
          /\ \A j \in 1..(Len(frames) - 1) : a[j] = frames[j]
      BY <1>2, <2>2 DEF N
    <3> QED BY <1>1, <1>8, <3>1, OtherCallsStay
  <2> QED BY <2>1, <2>2
<1>9. Covered(prior, probes, capacity, scalars, best_product, by_behavior, a)
  BY <1>8, CoveredStays DEF N
<1>10. InOrder(scalars, by_behavior, a)
  <2>1. /\ \A k \in 1..N : frames[k].start \in 1..(Len(scalars) + 1)
        /\ \A j, k \in 1..N : j <= k => frames[j].start <= frames[k].start
        /\ \A k \in 1..N : frames[k].combined # <<>> =>
                             BehaviorKey(frames[k].combined) \in DOMAIN by_behavior
    BY DEF InOrder, N
  <2>2. frames[N] = f /\ Len(scalars) \in Nat
    BY <1>1 DEF f
  <2>3. \A k \in 1..N : /\ a[k].start = IF k = N THEN frames[k].start + 1 ELSE frames[k].start
                        /\ a[k].combined = frames[k].combined
    BY <1>2, <1>5, <2>2
  <2>4. \A k \in 1..N : a[k].start \in 1..(Len(scalars) + 1)
    BY <1>2, <1>3, <2>1, <2>2, <2>3
  <2>5. \A j, k \in 1..N : j <= k => a[j].start <= a[k].start
    BY <1>2, <2>1, <2>2, <2>3
  <2> QED BY <1>2, <2>1, <2>3, <2>4, <2>5 DEF InOrder
<1> QED BY <1>1, <1>9, <1>10

\* A behavior that resolves everything is good for whatever is added to it, and any
\* behavior is good for itself.
LEMMA ResolvedIsGood ==
  ASSUME NEW pr, NEW pb, NEW sc, NEW b \in [DOMAIN pr -> Nat]
  PROVE  /\ \A E : IsResolved(b) => b \in GoodFor(pr, pb, sc, b, E)
         /\ b \in GoodFor(pr, pb, sc, b, {})
BY DEF IsResolved, GoodFor

\* The calls stay in order when the loop of the innermost one goes on.
LEMMA OrderAdvanced ==
  ASSUME NEW sc, NEW N \in Nat \ {0}, NEW fs, Len(fs) = N, NEW a, Len(a) = N, NEW bb, NEW bb2,
         InOrder(sc, bb, fs), DOMAIN bb \subseteq DOMAIN bb2, Len(sc) \in Nat,
         \A k \in 1..(N - 1) : a[k] = fs[k],
         a[N].start = fs[N].start + 1, a[N].combined = fs[N].combined, fs[N].start <= Len(sc)
  PROVE  InOrder(sc, bb2, a)
<1>1. /\ \A k \in 1..N : fs[k].start \in 1..(Len(sc) + 1)
      /\ \A j, k \in 1..N : j <= k => fs[j].start <= fs[k].start
      /\ \A k \in 1..N : fs[k].combined # <<>> => BehaviorKey(fs[k].combined) \in DOMAIN bb
  BY DEF InOrder
<1>2. \A k \in 1..N : /\ a[k].start = IF k = N THEN fs[N].start + 1 ELSE fs[k].start
                      /\ a[k].combined = fs[k].combined
  OBVIOUS
<1>3. \A k \in 1..N : a[k].start \in 1..(Len(sc) + 1)
  BY <1>1, <1>2
<1>4. \A j, k \in 1..N : j <= k => a[j].start <= a[k].start
  BY <1>1, <1>2
<1>5. \A k \in 1..N : a[k].combined # <<>> => BehaviorKey(a[k].combined) \in DOMAIN bb2
  BY <1>1, <1>2
<1> QED BY <1>3, <1>4, <1>5 DEF InOrder

\* And when it makes a call for the scalars after.
LEMMA OrderPushed ==
  ASSUME NEW sc, NEW N \in Nat \ {0}, NEW a, Len(a) = N, NEW bb, InOrder(sc, bb, a),
         NEW r, Len(r) = N + 1, \A k \in 1..N : r[k] = a[k], NEW g, r[N + 1] = g,
         g.start \in 1..(Len(sc) + 1), a[N].start <= g.start, Len(sc) \in Nat,
         g.combined # <<>> => BehaviorKey(g.combined) \in DOMAIN bb
  PROVE  InOrder(sc, bb, r)
<1>1. /\ \A k \in 1..N : a[k].start \in 1..(Len(sc) + 1)
      /\ \A j, k \in 1..N : j <= k => a[j].start <= a[k].start
      /\ \A k \in 1..N : a[k].combined # <<>> => BehaviorKey(a[k].combined) \in DOMAIN bb
  BY DEF InOrder
<1>2. \A k \in 1..(N + 1) : IF k = N + 1 THEN r[k] = g ELSE k \in 1..N /\ r[k] = a[k]
  OBVIOUS
<1>3. \A k \in 1..(N + 1) : r[k].start \in 1..(Len(sc) + 1)
  BY <1>1, <1>2
<1>4. \A k \in 1..(N + 1) : r[k].combined # <<>> => BehaviorKey(r[k].combined) \in DOMAIN bb
  BY <1>1, <1>2
<1>5. ASSUME NEW j \in 1..(N + 1), NEW k \in 1..(N + 1), j <= k
      PROVE  r[j].start <= r[k].start
  <2>1. CASE k = N + 1
    <3>1. CASE j = N + 1
      BY <1>2, <2>1, <3>1
    <3>2. CASE j # N + 1
      <4>1. j \in 1..N /\ r[j] = a[j] /\ r[k] = g
        BY <1>2, <2>1, <3>2
      <4>2. a[j].start <= a[N].start
        BY <1>1, <4>1
      <4>3. a[j].start \in Nat /\ a[N].start \in Nat
        BY <1>1, <4>1
      <4> QED BY <4>1, <4>2, <4>3
    <3> QED BY <3>1, <3>2
  <2>2. CASE k # N + 1
    <3>1. j \in 1..N /\ k \in 1..N /\ r[j] = a[j] /\ r[k] = a[k]
      BY <1>2, <1>5, <2>2
    <3> QED BY <1>1, <1>5, <3>1
  <2> QED BY <2>1, <2>2
<1> QED BY <1>3, <1>4, <1>5 DEF InOrder

\* The innermost call returns: what it could come to has a representative, that of its
\* selection.
LEMMA ReturnCovers ==
  ASSUME GInv, ReturnBundles, prior # <<>>,
         Covered(prior, probes, capacity, scalars, best_product, by_behavior, frames),
         InOrder(scalars, by_behavior, frames)
  PROVE  /\ Covered(prior, probes, capacity, scalars, best_product, by_behavior, frames')
         /\ InOrder(scalars, by_behavior, frames')
<1> DEFINE N == Len(frames)
           f == frames[N]
           a == Front(frames)
<1>1. /\ Inputs(prior, probes, capacity) /\ scalars \in Seq(DOMAIN probes)
      /\ FramesSound(prior, probes, capacity, frames)
      /\ frames # <<>> /\ frames' = a /\ Last(frames).start > Len(scalars)
  BY DEF GInv, ReturnBundles
<1>2. /\ IsStack(frames) /\ N \in Nat \ {0} /\ Last(frames) = f
      /\ Len(a) = N - 1 /\ \A k \in 1..(N - 1) : a[k] = frames[k]
  <2>1. IsStack(frames)
    BY <1>1 DEF FramesSound
  <2> QED BY <1>1, <2>1, StackTop, StackPopped
<1>3. FrameSound(prior, probes, capacity, f)
  BY <1>1, <1>2 DEF FramesSound
<1>4. f.start > Len(scalars) /\ Len(scalars) \in Nat /\ f.start \in Nat
  BY <1>1, <1>2, <1>3 DEF FrameSound
<1> HIDE DEF f, a
<1>5. ASSUME NEW G, Reaches(prior, probes, capacity, scalars, f, G)
      PROVE  \E d \in DOMAIN by_behavior : d \in G
  <2> DEFINE b == KeyOf(prior, f)
  <2>1. PICK E : /\ CanJoin(prior, probes, capacity, scalars, f.start, f.product, b, E, G)
                 /\ f.combined = <<>> => E # {}
    BY <1>5 DEF Reaches
  <2>2. E = {} /\ GoodFor(prior, probes, scalars, b, E) \subseteq G
    <3>1. f.start..Len(scalars) = {}
      BY <1>4
    <3> QED BY <2>1, <3>1 DEF CanJoin
  <2>3. b \in [DOMAIN prior -> Nat]
    BY <1>1, <1>3, KeyOfTyped
  <2>4. b \in G
    BY <2>2, <2>3, ResolvedIsGood
  <2>5. b \in DOMAIN by_behavior
    <3>1. f.combined # <<>>
      BY <2>1, <2>2
    <3>2. b = BehaviorKey(f.combined)
      BY <3>1 DEF KeyOf
    <3> QED BY <1>2, <3>1, <3>2 DEF InOrder, f
  <2> QED BY <2>4, <2>5
<1>6. ASSUME NEW G, NEW n \in Nat, NEW k \in 1..N, n <= frames[k].start,
             Reaches(prior, probes, capacity, scalars, frames[k], G)
      PROVE  IsMet(prior, probes, capacity, scalars, by_behavior, a, G, n)
  <2>1. CASE k = N
    <3>1. \E d \in DOMAIN by_behavior : d \in G
      BY <1>5, <1>6, <2>1 DEF f
    <3> QED BY <3>1 DEF IsMet
  <2>2. CASE k # N
    <3>1. /\ Len(a) \in Nat /\ Len(frames) - 1 <= Len(a) /\ k \in 1..(Len(frames) - 1)
          /\ \A j \in 1..(Len(frames) - 1) : a[j] = frames[j]
      BY <1>2, <2>2
    <3> QED BY <1>1, <1>6, <3>1, OtherCallsStay
  <2> QED BY <2>1, <2>2
<1>7. Covered(prior, probes, capacity, scalars, best_product, by_behavior, a)
  BY <1>6, CoveredStays
<1>8. InOrder(scalars, by_behavior, a)
  <2>1. /\ \A k \in 1..N : frames[k].start \in 1..(Len(scalars) + 1)
        /\ \A j, k \in 1..N : j <= k => frames[j].start <= frames[k].start
        /\ \A k \in 1..N : frames[k].combined # <<>> =>
                             BehaviorKey(frames[k].combined) \in DOMAIN by_behavior
    BY DEF InOrder
  <2>2. \A k \in 1..Len(a) : k \in 1..N /\ a[k] = frames[k]
    BY <1>2
  <2> QED BY <2>1, <2>2 DEF InOrder
<1> QED BY <1>1, <1>7, <1>8

\* The scalar joins the selection.  The call that is made comes to what the scalar is
\* needed for; without a call, the selection resolves everything, or an entry of the memo
\* at the next place, which no call has yet to do anything for, makes up for it.
LEMMA SelectCovers ==
  ASSUME GInv, Select, prior # <<>>,
         Covered(prior, probes, capacity, scalars, best_product, by_behavior, frames),
         InOrder(scalars, by_behavior, frames)
  PROVE  /\ Covered(prior, probes, capacity, scalars, best_product', by_behavior', frames')
         /\ InOrder(scalars, by_behavior', frames')
<1> DEFINE N == Len(frames)
           f == frames[N]
           i == scalars[f.start]
           a == Advanced(frames)
           n2 == f.start + 1
           f2 == Frame(n2, f.product, f.selected, f.combined)
           p2 == f.product * probes[i].cardinality
           o2 == Combine(f.combined, i)
           b2 == BehaviorKey(o2)
           row == [selected |-> Append(f.selected, i), product |-> p2, outcomes |-> o2]
           g2 == Frame(n2, p2, Append(f.selected, i), o2)
           pruned == IsPruned(n2, b2, p2)
           bb2 == by_behavior'
           bp2 == best_product'
           fs2 == frames'
<1>1. /\ Inputs(prior, probes, capacity) /\ scalars \in Seq(DOMAIN probes)
      /\ FramesSound(prior, probes, capacity, frames) /\ frames # <<>>
  BY DEF GInv, Select
<1>2. /\ Len(a) = N /\ N \in Nat \ {0} /\ Last(frames) = f
      /\ \A k \in 1..(N - 1) : a[k] = frames[k]
      /\ a[N] = f2 /\ IsStack(a)
  BY <1>1, AdvancedIs
<1>3. /\ f.start <= Len(scalars) /\ p2 <= capacity
      /\ bb2 = IF b2 \notin DOMAIN by_behavior \/ IsBetter(row, by_behavior[b2])
               THEN Put(by_behavior, b2, row) ELSE by_behavior
      /\ bp2 = IF pruned THEN best_product ELSE Put(best_product, <<n2, b2>>, p2)
      /\ fs2 = IF pruned \/ IsResolved(b2) THEN a ELSE Append(a, g2)
  BY <1>2 DEF Select
<1>4. f.start \in 1..Len(scalars) /\ Len(scalars) \in Nat
  <2>1. f.start \in 1..(Len(scalars) + 1)
    BY <1>2 DEF InOrder
  <2>2. Len(scalars) \in Nat
    BY <1>1
  <2> HIDE DEF f
  <2> QED BY <1>3, <2>1, <2>2
<1>5. FrameSound(prior, probes, capacity, f)
  BY <1>1, <1>2 DEF FramesSound
<1>6. /\ i \in DOMAIN probes /\ p2 \in Nat /\ capacity \in Nat
  <2>1. DOMAIN probes = 1..Len(probes) /\ i \in DOMAIN probes
    BY <1>1, <1>4, ListDef DEF Inputs, IsBundle
  <2>2. IsProbe(probes[i])
    BY <1>1, <2>1 DEF Inputs, IsBundle
  <2>3. f.product \in Nat /\ capacity \in Nat
    BY <1>1, <1>5 DEF FrameSound, SelectionFits, Inputs
  <2>4. probes[i].cardinality \in Nat
    BY <2>2 DEF IsProbe
  <2> HIDE DEF f, i
  <2>5. p2 \in Nat
    BY <2>3, <2>4
  <2> QED BY <2>1, <2>3, <2>5
<1>7. o2 # <<>> /\ b2 \in [DOMAIN prior -> Nat]
  <2> DEFINE b == KeyOf(prior, f)
  <2> HIDE DEF b, f, i
  <2> QED BY <1>1, <1>5, <1>6, KeyOfMore DEF b
<1>8. /\ f2.start = n2 /\ f2.combined = f.combined
      /\ g2.start = n2 /\ g2.product = p2 /\ g2.combined = o2
      /\ KeyOf(prior, g2) = b2
  <2>1. g2.combined = o2 /\ g2.start = n2 /\ g2.product = p2 /\ f2.start = n2 /\ f2.combined = f.combined
    BY DEF Frame
  <2> HIDE DEF g2, f2
  <2> QED BY <1>7, <2>1 DEF KeyOf
<1>9. DOMAIN by_behavior \subseteq DOMAIN bb2 /\ b2 \in DOMAIN bb2
  <2> HIDE DEF b2, row
  <2> QED BY <1>3 DEF Put
<1>10. /\ Len(fs2) \in Nat /\ N <= Len(fs2) /\ \A k \in 1..N : fs2[k] = a[k]
       /\ ~pruned /\ ~IsResolved(b2) => Len(fs2) = N + 1 /\ fs2[N + 1] = g2
       /\ pruned \/ IsResolved(b2) => fs2 = a
  <2> HIDE DEF g2, b2, pruned, a
  <2>1. CASE pruned \/ IsResolved(b2)
    BY <1>2, <1>3, <2>1
  <2>2. CASE ~(pruned \/ IsResolved(b2))
    BY <1>2, <1>3, <2>2, StackPushed
  <2> QED BY <2>1, <2>2
<1>11. n2 \in Nat /\ n2 = f.start + 1 /\ n2 \in 1..(Len(scalars) + 1)
  <2> HIDE DEF f
  <2> QED BY <1>4
<1> HIDE DEF f, a, g2, f2, b2, o2, p2, row, n2, bb2, bp2, fs2
\* What can join the selection is made up for, if no entry of the memo is in its place.
<1>12. ASSUME NEW E, NEW G, CanJoin(prior, probes, capacity, scalars, n2, p2, b2, E, G), ~pruned
       PROVE  IsMet(prior, probes, capacity, scalars, bb2, fs2, G, n2)
  <2>1. CASE IsResolved(b2)
    <3>1. b2 \in GoodFor(prior, probes, scalars, b2, E)
      BY <1>7, <2>1, ResolvedIsGood
    <3>2. b2 \in G
      BY <1>12, <3>1 DEF CanJoin
    <3> QED BY <1>9, <3>2 DEF IsMet
  <2>2. CASE ~IsResolved(b2)
    <3>1. Len(fs2) = N + 1 /\ fs2[N + 1] = g2 /\ N + 1 \in 1..Len(fs2)
      BY <1>2, <1>10, <1>12, <2>2
    <3>2. Reaches(prior, probes, capacity, scalars, g2, G)
      BY <1>7, <1>8, <1>12 DEF Reaches
    <3>3. n2 <= g2.start
      BY <1>8, <1>11
    <3> QED BY <3>1, <3>2, <3>3 DEF IsMet
  <2> QED BY <2>1, <2>2
\* And if there is one, it is.
<1>13. ASSUME NEW E, NEW G, CanJoin(prior, probes, capacity, scalars, n2, p2, b2, E, G), pruned
       PROVE  \E d \in DOMAIN by_behavior : d \in G
  <2> DEFINE x == <<n2, b2>>
  <2>1. x \in DOMAIN best_product /\ best_product[x] <= p2
    BY <1>13 DEF IsPruned
  <2>2. x[1] = n2 /\ x[2] = b2
    OBVIOUS
  <2> HIDE DEF x
  <2>3. /\ best_product[x] \in Nat
        /\ \A F, H : CanJoin(prior, probes, capacity, scalars, n2, best_product[x], b2, F, H) =>
             IsMet(prior, probes, capacity, scalars, by_behavior, frames, H, n2)
    BY <2>1, <2>2 DEF Covered, MemoMet
  <2>4. CanJoin(prior, probes, capacity, scalars, n2, best_product[x], b2, E, G)
    <3>1. IsList(scalars)
      BY <1>1, ListDef
    <3> QED BY <1>6, <1>11, <1>13, <2>1, <2>3, <3>1, CheaperCanJoin
  <2>5. IsMet(prior, probes, capacity, scalars, by_behavior, frames, G, n2)
    BY <2>3, <2>4
  <2>6. \A k \in 1..N : ~(n2 <= frames[k].start)
    <3>1. /\ \A k \in 1..N : frames[k].start \in 1..(Len(scalars) + 1)
          /\ \A j, k \in 1..N : j <= k => frames[j].start <= frames[k].start
      BY DEF InOrder
    <3>2. \A k \in 1..N : frames[k].start <= f.start /\ frames[k].start \in Nat
      BY <1>2, <3>1 DEF f
    <3>3. f.start \in Nat
      BY <1>4
    <3> QED BY <1>11, <3>2, <3>3
  <2> QED BY <2>5, <2>6 DEF IsMet
<1>14. ASSUME NEW G, NEW n \in Nat, n <= f.start,
              Reaches(prior, probes, capacity, scalars, f, G)
       PROVE  IsMet(prior, probes, capacity, scalars, bb2, fs2, G, n)
  <2>1. \/ Reaches(prior, probes, capacity, scalars, f2, G)
        \/ \E E : CanJoin(prior, probes, capacity, scalars, n2, p2, b2, E, G)
    <3>1. f.start \in 1..Len(scalars)
      BY <1>4
    <3>2. \/ Reaches(prior, probes, capacity, scalars,
                     Frame(n2, f.product, f.selected, f.combined), G)
          \/ /\ p2 <= capacity
             /\ \E E : /\ CanJoin(prior, probes, capacity, scalars, n2, p2,
                                  BehaviorKey(Combine(f.combined, i)), E, G)
                       /\ CanJoin(prior, probes, capacity, scalars, n2, f.product,
                                  BehaviorKey(Combine(f.combined, i)), E, G)
      BY <1>1, <1>5, <1>14, <3>1, ReachesNext DEF n2, p2
    <3> QED BY <3>2 DEF f2, b2, o2
  <2>2. CASE Reaches(prior, probes, capacity, scalars, f2, G)
    <3>1. N \in 1..Len(fs2) /\ fs2[N] = f2
      BY <1>2, <1>10
    <3>2. n <= f2.start
      BY <1>4, <1>8, <1>11, <1>14
    <3> QED BY <2>2, <3>1, <3>2 DEF IsMet
  <2>3. ASSUME NEW E, CanJoin(prior, probes, capacity, scalars, n2, p2, b2, E, G)
        PROVE  IsMet(prior, probes, capacity, scalars, bb2, fs2, G, n)
    <3>1. CASE pruned
      BY <1>9, <1>13, <2>3, <3>1 DEF IsMet
    <3>2. CASE ~pruned
      <4>1. IsMet(prior, probes, capacity, scalars, bb2, fs2, G, n2)
        BY <1>12, <2>3, <3>2
      <4>2. \A k \in 1..Len(fs2) : n2 <= fs2[k].start /\ fs2[k].start \in Nat => n <= fs2[k].start
        BY <1>4, <1>11, <1>14
      <4>3. \A k \in 1..Len(fs2) : fs2[k].start \in Nat
        <5>1. \A k \in 1..N : fs2[k] = a[k]
          BY <1>10
        <5>2. \A k \in 1..(N - 1) : a[k].start \in Nat
          BY <1>2 DEF InOrder
        <5>3. a[N].start \in Nat /\ g2.start \in Nat
          BY <1>2, <1>8, <1>11
        <5>4. Len(fs2) \in {N, N + 1} /\ (Len(fs2) = N + 1 => fs2[N + 1] = g2)
          BY <1>2, <1>10
        <5>5. \A k \in 1..Len(fs2) : k \in 1..(N - 1) \/ k = N \/ (k = N + 1 /\ Len(fs2) = N + 1)
          BY <1>2, <5>4
        <5> QED BY <1>2, <5>1, <5>2, <5>3, <5>4, <5>5
      <4> QED BY <4>1, <4>2, <4>3 DEF IsMet
    <3> QED BY <3>1, <3>2
  <2> QED BY <2>1, <2>2, <2>3
<1>15. Covered(prior, probes, capacity, scalars, best_product, bb2, fs2)
  <2>1. ASSUME NEW G, NEW n \in Nat, NEW k \in 1..N, n <= frames[k].start,
               Reaches(prior, probes, capacity, scalars, frames[k], G)
        PROVE  IsMet(prior, probes, capacity, scalars, bb2, fs2, G, n)
    <3>1. CASE k = N
      BY <1>14, <2>1, <3>1 DEF f
    <3>2. CASE k # N
      <4>1. /\ N - 1 <= Len(fs2) /\ k \in 1..(N - 1) /\ Len(fs2) \in Nat
            /\ \A j \in 1..(N - 1) : fs2[j] = frames[j]
        BY <1>2, <1>10, <3>2
      <4> QED BY <1>1, <2>1, <4>1, OtherCallsStay
    <3> QED BY <3>1, <3>2
  <2> QED BY <1>9, <2>1, CoveredStays
<1>16. Covered(prior, probes, capacity, scalars, bp2, bb2, fs2)
  <2>1. CASE pruned
    BY <1>3, <1>15, <2>1
  <2>2. CASE ~pruned
    <3> DEFINE x == <<n2, b2>>
    <3>1. /\ \A y \in DOMAIN bp2 : y # x => y \in DOMAIN best_product /\ bp2[y] = best_product[y]
          /\ bp2[x] = p2 /\ x[1] = n2 /\ x[2] = b2
      BY <1>3, <2>2 DEF Put
    <3> HIDE DEF x
    <3>2. ASSUME NEW y \in DOMAIN bp2
          PROVE  /\ y[1] \in Nat /\ bp2[y] \in Nat
                 /\ \A E, G : CanJoin(prior, probes, capacity, scalars, y[1], bp2[y], y[2], E, G) =>
                      IsMet(prior, probes, capacity, scalars, bb2, fs2, G, y[1])
      <4>1. CASE y = x
        BY <1>6, <1>11, <1>12, <2>2, <3>1, <4>1
      <4>2. CASE y # x
        BY <1>15, <3>1, <4>2 DEF Covered, MemoMet
      <4> QED BY <4>1, <4>2
    <3>3. MemoMet(prior, probes, capacity, scalars, bp2, bb2, fs2)
      BY <3>2 DEF MemoMet
    <3> QED BY <1>15, <3>3 DEF Covered
  <2> QED BY <2>1, <2>2
<1>17. InOrder(scalars, bb2, fs2)
  <2>1. frames[N].start + 1 = n2 /\ a[N].combined = frames[N].combined /\ a[N].start = n2
    BY <1>2, <1>8 DEF f, n2
  <2>2. frames[N].start <= Len(scalars)
    BY <1>3 DEF f
  <2>3. InOrder(scalars, bb2, a)
    <3>1. N \in Nat \ {0} /\ Len(frames) = N /\ Len(a) = N /\ Len(scalars) \in Nat
      BY <1>2, <1>4
    <3>2. a[N].start = frames[N].start + 1 /\ \A k \in 1..(N - 1) : a[k] = frames[k]
      BY <1>2, <2>1
    <3> HIDE DEF N
    <3> QED BY <1>9, <2>1, <2>2, <3>1, <3>2, OrderAdvanced
  <2>4. CASE fs2 = a
    BY <2>3, <2>4
  <2>5. CASE ~(fs2 = a)
    <3>1. Len(fs2) = N + 1 /\ fs2[N + 1] = g2 /\ \A k \in 1..N : fs2[k] = a[k]
      BY <1>10, <2>5
    <3>2. g2.combined # <<>> => BehaviorKey(g2.combined) \in DOMAIN bb2
      BY <1>8, <1>9 DEF b2
    <3>3. g2.start \in 1..(Len(scalars) + 1) /\ a[N].start <= g2.start
      BY <1>8, <1>11, <2>1
    <3>4. N \in Nat \ {0} /\ Len(a) = N /\ Len(scalars) \in Nat
      BY <1>2, <1>4
    <3> HIDE DEF N
    <3> QED BY <2>3, <3>1, <3>2, <3>3, <3>4, OrderPushed
  <2> QED BY <2>4, <2>5
<1> QED BY <1>16, <1>17 DEF bp2, bb2, fs2

-----------------------------------------------------------------------------
(* What domination drops has something left that is at least as good.      *)

IsPartialOrder(S, R) ==
  /\ IsFiniteSet(S)
  /\ \A x \in S : <<x, x>> \notin R
  /\ \A x, y, z \in S : <<x, y>> \in R /\ <<y, z>> \in R => <<x, z>> \in R

\* A strict order has a minimal element below or at each element of a finite set.
LEMMA MinimalElement ==
  ASSUME NEW S, NEW R, IsPartialOrder(S, R), NEW x \in S
  PROVE  \E y \in S : (y = x \/ <<y, x>> \in R) /\ \A z \in S : <<z, y>> \notin R
<1> DEFINE B(y) == {z \in S : <<z, y>> \in R}
           f == [y \in S |-> Cardinality(B(y))]
           T == {y \in S : y = x \/ <<y, x>> \in R}
           C == {f[y] : y \in T}
<1>1. \A y \in S : IsFiniteSet(B(y)) /\ Cardinality(B(y)) \in Nat
  <2> TAKE y \in S
  <2>1. IsFiniteSet(B(y))
    <3>1. B(y) \in SUBSET S
      OBVIOUS
    <3> QED BY <3>1, FS_Subset DEF IsPartialOrder
  <2> QED BY <2>1, FS_CardinalityType
<1>2. x \in T /\ T \in SUBSET S
  OBVIOUS
<1>3. f \in [S -> Nat] /\ \A y \in S : f[y] = Cardinality(B(y))
  <2> HIDE DEF B
  <2> QED BY <1>1
<1> HIDE DEF f
<1>4. PICK y \in T : \A z \in T : f[y] <= f[z]
  <2> HIDE DEF T
  <2>1. C \in SUBSET Nat /\ C # {}
    BY <1>2, <1>3
  <2>2. PICK c \in C : \A u \in C : c <= u
    <3> HIDE DEF C
    <3> QED BY <2>1, LeastNatural
  <2> QED BY <2>2
<1>5. ASSUME NEW z \in S, <<z, y>> \in R
      PROVE  FALSE
  <2>1. z \in T
    BY <1>2, <1>5 DEF IsPartialOrder
  <2>2. B(z) \in SUBSET B(y) /\ B(z) # B(y)
    <3>1. \A w \in B(z) : w \in B(y)
      BY <1>2, <1>5 DEF IsPartialOrder
    <3>2. z \in B(y) /\ z \notin B(z)
      BY <1>5 DEF IsPartialOrder
    <3> QED BY <3>1, <3>2
  <2>3. Cardinality(B(z)) < Cardinality(B(y))
    <3> DEFINE U == B(y) V == B(z)
    <3>1. IsFiniteSet(U) /\ V \in SUBSET U /\ V # U
      BY <1>1, <1>2, <2>2
    <3> HIDE DEF U, V
    <3>2. Cardinality(V) < Cardinality(U)
      BY <3>1, FS_Subset, FS_CardinalityType
    <3> QED BY <3>2 DEF U, V
  <2>4. f[y] <= f[z] /\ f[y] \in Nat /\ f[z] \in Nat
    BY <1>2, <1>3, <1>4, <2>1
  <2> HIDE DEF B
  <2> QED BY <1>2, <1>3, <2>1, <2>3, <2>4
<1> QED BY <1>2, <1>5

\* A behavior names scenarios that are left together by the first of them.
IsKey(K, n) ==
  /\ K \in [1..n -> Nat]
  /\ \A s \in 1..n : K[s] # RESOLVED =>
       K[s] \in 1..n /\ K[K[s]] = K[s] /\ \A r \in 1..n : K[r] = K[s] => K[s] <= r

\* The behavior of any outcomes is one of these.
LEMMA BehaviorsAreKeys ==
  ASSUME NEW n \in Nat, NEW o, DOMAIN o = 1..n
  PROVE  IsKey(BehaviorKey(o), n)
<1> DEFINE First(s, t) == /\ Collides(o[t]) /\ o[t] = o[s]
                          /\ \A r \in 1..(t - 1) : o[r] # o[s]
           K == BehaviorKey(o)
<1>1. K = [s \in 1..n |-> IF ~Collides(o[s]) THEN RESOLVED ELSE CHOOSE t \in 1..s : First(s, t)]
  BY DEF BehaviorKey
<1>2. /\ K \in [1..n -> Nat]
      /\ \A s \in 1..n : K[s] = RESOLVED <=> ~Collides(o[s])
      /\ \A s, t \in 1..n : Collides(o[s]) /\ Collides(o[t]) => (K[s] = K[t] <=> o[s] = o[t])
  BY KeyFacts
<1>3. ASSUME NEW s \in 1..n, K[s] # RESOLVED
      PROVE  K[s] \in 1..s /\ First(s, K[s])
  <2>1. Collides(o[s])
    BY <1>2, <1>3
  <2>2. K[s] = CHOOSE t \in 1..s : First(s, t)
    BY <1>1, <2>1
  <2>3. \E t \in 1..s : First(s, t)
    <3> DEFINE T == {t \in 1..s : o[t] = o[s]}
    <3>1. T \in SUBSET Nat /\ s \in T
      OBVIOUS
    <3>2. PICK t \in T : \A r \in T : t <= r
      <4> HIDE DEF T
      <4> QED BY <3>1, LeastNatural
    <3>3. \A r \in 1..(t - 1) : o[r] # o[s]
      BY <3>2
    <3> QED BY <2>1, <3>2, <3>3
  <2> HIDE DEF First, K
  <2> QED BY <2>2, <2>3
<1>4. ASSUME NEW s \in 1..n, K[s] # RESOLVED
      PROVE  K[s] \in 1..n /\ K[K[s]] = K[s] /\ \A r \in 1..n : K[r] = K[s] => K[s] <= r
  <2>1. /\ K[s] \in 1..s /\ Collides(o[K[s]]) /\ o[K[s]] = o[s]
        /\ \A r \in 1..(K[s] - 1) : o[r] # o[s]
    BY <1>3, <1>4
  <2> HIDE DEF K
  <2>2. K[s] \in 1..n
    BY <2>1
  <2>3. Collides(o[s])
    BY <1>2, <1>4
  <2>4. K[K[s]] = K[s]
    BY <1>2, <2>1, <2>2, <2>3
  <2>5. ASSUME NEW r \in 1..n, K[r] = K[s]
        PROVE  K[s] <= r
    <3>1. o[r] = o[s]
      BY <1>2, <1>4, <2>3, <2>5
    <3> QED BY <2>1, <2>2, <3>1
  <2> QED BY <2>2, <2>4, <2>5
<1> HIDE DEF K
<1> QED BY <1>2, <1>4 DEF IsKey, K

\* behavior_refines is an order of behaviors.
LEMMA RefinesIsOrder ==
  ASSUME NEW n \in Nat
  PROVE  /\ \A a : IsKey(a, n) => Refines(a, a)
         /\ \A a, b, c : Refines(a, b) /\ Refines(b, c) => Refines(a, c)
         /\ \A a, b : IsKey(a, n) /\ IsKey(b, n) /\ Refines(a, b) /\ Refines(b, a) => a = b
<1>1. ASSUME NEW a
      PROVE  Refines(a, a)
  BY DEF Refines
<1>2. ASSUME NEW a, NEW b, NEW c, Refines(a, b), Refines(b, c)
      PROVE  Refines(a, c)
  <2>1. /\ DOMAIN a = DOMAIN b
        /\ \A s \in DOMAIN a : b[s] = RESOLVED => a[s] = RESOLVED
        /\ \A s, t \in DOMAIN a : a[s] = a[t] /\ a[s] # RESOLVED => b[s] = b[t]
    BY <1>2 DEF Refines
  <2>2. /\ DOMAIN b = DOMAIN c
        /\ \A s \in DOMAIN b : c[s] = RESOLVED => b[s] = RESOLVED
        /\ \A s, t \in DOMAIN b : b[s] = b[t] /\ b[s] # RESOLVED => c[s] = c[t]
    BY <1>2 DEF Refines
  <2> QED BY <2>1, <2>2 DEF Refines
<1>3. ASSUME NEW a, NEW b, IsKey(a, n), IsKey(b, n), Refines(a, b), Refines(b, a)
      PROVE  a = b
  <2>1. a \in [1..n -> Nat] /\ b \in [1..n -> Nat]
    BY <1>3 DEF IsKey
  <2>2. ASSUME NEW s \in 1..n
        PROVE  a[s] = b[s]
    <3>1. a[s] = RESOLVED <=> b[s] = RESOLVED
      BY <1>3, <2>1 DEF Refines
    <3>2. CASE a[s] # RESOLVED
      <4>1. /\ a[s] \in 1..n /\ a[a[s]] = a[s] /\ \A r \in 1..n : a[r] = a[s] => a[s] <= r
            /\ b[s] \in 1..n /\ b[b[s]] = b[s] /\ \A r \in 1..n : b[r] = b[s] => b[s] <= r
        BY <1>3, <3>1, <3>2 DEF IsKey
      <4>2. b[a[s]] = b[s]
        BY <1>3, <2>1, <3>2, <4>1 DEF Refines
      <4>3. a[b[s]] = a[s]
        BY <1>3, <2>1, <3>1, <3>2, <4>1 DEF Refines
      <4>4. b[s] <= a[s] /\ a[s] <= b[s]
        BY <4>1, <4>2, <4>3
      <4> QED BY <4>1, <4>4
    <3> QED BY <3>1, <3>2
  <2> QED BY <2>1, <2>2
<1> QED BY <1>1, <1>2, <1>3

\* The behavior of a probe is one.
LEMMA ProbesHaveKeys ==
  ASSUME Inputs(prior, probes, capacity)
  PROVE  /\ Len(prior) \in Nat /\ DOMAIN prior = 1..Len(prior)
         /\ \A i : IsKey(ProbeBehavior(i), Len(prior))
<1>1. Len(prior) \in Nat /\ DOMAIN prior = 1..Len(prior)
  BY DEF Inputs
<1>2. ASSUME NEW i
      PROVE  IsKey(ProbeBehavior(i), Len(prior))
  <2> DEFINE o == PairOutcomes(probes[i].values)
  <2>1. DOMAIN o = 1..Len(prior)
    BY <1>1 DEF PairOutcomes
  <2>2. ProbeBehavior(i) = BehaviorKey(o)
    BY DEF ProbeBehavior
  <2> HIDE DEF o
  <2> QED BY <1>1, <2>1, <2>2, BehaviorsAreKeys
<1> QED BY <1>1, <1>2

\* The probes are finitely many, in a strict order by what they cost.
LEMMA CheaperIsOrder ==
  ASSUME Inputs(prior, probes, capacity)
  PROVE  /\ DOMAIN probes \in SUBSET Nat /\ IsFiniteSet(DOMAIN probes)
         /\ \A i \in DOMAIN probes : probes[i].cardinality \in Nat
         /\ \A i \in DOMAIN probes : ~IsCheaper(i, i)
         /\ \A i, j, k \in DOMAIN probes : IsCheaper(i, j) /\ IsCheaper(j, k) => IsCheaper(i, k)
         /\ \A i, j \in DOMAIN probes : i # j => IsCheaper(i, j) \/ IsCheaper(j, i)
         /\ \A i, j \in DOMAIN probes :
              IsCheaper(i, j) => probes[i].cardinality <= probes[j].cardinality
<1>1. DOMAIN probes = 1..Len(probes) /\ Len(probes) \in Nat
  BY ListDef DEF Inputs, IsBundle
<1>2. \A i \in DOMAIN probes : probes[i].cardinality \in Nat
  BY <1>1 DEF Inputs, IsBundle, IsProbe
<1>3. DOMAIN probes \in SUBSET Nat
  BY <1>1
<1>4. IsFiniteSet(DOMAIN probes)
  BY <1>1, FS_Interval
<1> QED BY <1>2, <1>3, <1>4 DEF IsCheaper

\* Among the probes that tell some scenario's strings apart, each behavior has its cheapest.
LEMMA EachHasRepresentative ==
  ASSUME Inputs(prior, probes, capacity), NEW i \in Distinguishing
  PROVE  \E j \in Representatives : /\ ProbeBehavior(j) = ProbeBehavior(i)
                                    /\ probes[j].cardinality <= probes[i].cardinality
<1> DEFINE S == Distinguishing
           R == {p \in S \X S : IsCheaper(p[1], p[2]) /\ ProbeBehavior(p[1]) = ProbeBehavior(p[2])}
<1>1. S \in SUBSET DOMAIN probes
  BY DEF Distinguishing
<1> HIDE DEF S
<1>2. /\ IsFiniteSet(S)
      /\ \A x \in S : ~IsCheaper(x, x) /\ probes[x].cardinality \in Nat
      /\ \A x, y, z \in S : IsCheaper(x, y) /\ IsCheaper(y, z) => IsCheaper(x, z)
      /\ \A x, y \in S : IsCheaper(x, y) => probes[x].cardinality <= probes[y].cardinality
  <2>1. IsFiniteSet(S)
    BY <1>1, CheaperIsOrder, FS_Subset
  <2> QED BY <1>1, <2>1, CheaperIsOrder
<1>3. \A x, y \in S : <<x, y>> \in R <=> IsCheaper(x, y) /\ ProbeBehavior(x) = ProbeBehavior(y)
  OBVIOUS
<1> HIDE DEF R
<1>4. PICK j \in S : (j = i \/ <<j, i>> \in R) /\ \A z \in S : <<z, j>> \notin R
  <2>1. \A x \in S : <<x, x>> \notin R
    BY <1>2, <1>3
  <2>2. \A x, y, z \in S : <<x, y>> \in R /\ <<y, z>> \in R => <<x, z>> \in R
    BY <1>2, <1>3
  <2>3. i \in S
    BY DEF S
  <2>4. IsFiniteSet(S)
    BY <1>2
  <2>5. \E y \in S : (y = i \/ <<y, i>> \in R) /\ \A z \in S : <<z, y>> \notin R
    <3>1. IsPartialOrder(S, R)
      BY <2>1, <2>2, <2>4 DEF IsPartialOrder
    <3> QED BY <2>3, <3>1, MinimalElement
  <2> QED BY <2>5
<1>5. i \in S
  BY DEF S
<1>6. ProbeBehavior(j) = ProbeBehavior(i) /\ probes[j].cardinality <= probes[i].cardinality
  BY <1>2, <1>3, <1>4, <1>5
<1>7. j \in Representatives
  BY <1>3, <1>4 DEF Representatives, S
<1> QED BY <1>6, <1>7

\* And of these one that no other refines at no higher cost.
LEMMA EachIsMadeUpFor ==
  ASSUME Inputs(prior, probes, capacity), NEW i \in Distinguishing
  PROVE  \E j \in Undominated : /\ Refines(ProbeBehavior(j), ProbeBehavior(i))
                                /\ probes[j].cardinality <= probes[i].cardinality
<1> DEFINE S == Representatives
           c(x) == probes[x].cardinality
           R == {p \in S \X S : /\ p[1] # p[2] /\ c(p[1]) <= c(p[2])
                                /\ Refines(ProbeBehavior(p[1]), ProbeBehavior(p[2]))}
<1>1. PICK k \in S : ProbeBehavior(k) = ProbeBehavior(i) /\ c(k) <= c(i)
  BY EachHasRepresentative
<1>2. /\ S \in SUBSET DOMAIN probes /\ S \in SUBSET Distinguishing
      /\ \A x, y \in S : ~(IsCheaper(x, y) /\ ProbeBehavior(x) = ProbeBehavior(y))
      /\ i \in DOMAIN probes
  BY DEF Representatives, Distinguishing
<1> HIDE DEF S
<1>3. /\ IsFiniteSet(S)
      /\ \A x \in S : c(x) \in Nat
      /\ \A x, y \in S : x # y => IsCheaper(x, y) \/ IsCheaper(y, x)
  <2>1. IsFiniteSet(S)
    BY <1>2, CheaperIsOrder, FS_Subset
  <2> QED BY <1>2, <2>1, CheaperIsOrder
<1>4. /\ \A x, y \in S : Refines(ProbeBehavior(x), ProbeBehavior(y)) /\ Refines(ProbeBehavior(y), ProbeBehavior(x))
                           => ProbeBehavior(x) = ProbeBehavior(y)
      /\ \A x, y, z : Refines(ProbeBehavior(x), ProbeBehavior(y)) /\ Refines(ProbeBehavior(y), ProbeBehavior(z))
                        => Refines(ProbeBehavior(x), ProbeBehavior(z))
  BY ProbesHaveKeys, RefinesIsOrder
<1>5. \A x, y \in S : <<x, y>> \in R <=> /\ x # y /\ c(x) <= c(y)
                                         /\ Refines(ProbeBehavior(x), ProbeBehavior(y))
  OBVIOUS
<1> HIDE DEF R
<1>6. \A x, y \in S : ~(<<x, y>> \in R /\ <<y, x>> \in R)
  BY <1>2, <1>3, <1>4, <1>5
<1>7. \A x, y, z \in S : <<x, y>> \in R /\ <<y, z>> \in R => <<x, z>> \in R
  <2> TAKE x, y, z \in S
  <2> HAVE <<x, y>> \in R /\ <<y, z>> \in R
  <2>1. x # z
    BY <1>6
  <2>2. c(x) <= c(z)
    <3>1. c(x) <= c(y) /\ c(y) <= c(z) /\ c(x) \in Nat /\ c(y) \in Nat /\ c(z) \in Nat
      BY <1>3, <1>5
    <3> HIDE DEF c
    <3> QED BY <3>1
  <2> QED BY <1>4, <1>5, <2>1, <2>2
<1>8. PICK j \in S : (j = k \/ <<j, k>> \in R) /\ \A z \in S : <<z, j>> \notin R
  <2>1. \A x \in S : <<x, x>> \notin R
    BY <1>5
  <2>2. IsFiniteSet(S)
    BY <1>3
  <2>3. \E y \in S : (y = k \/ <<y, k>> \in R) /\ \A z \in S : <<z, y>> \notin R
    <3>1. IsPartialOrder(S, R)
      BY <1>7, <2>1, <2>2 DEF IsPartialOrder
    <3> QED BY <3>1, MinimalElement
  <2> QED BY <2>3
<1>9. Refines(ProbeBehavior(j), ProbeBehavior(i)) /\ c(j) <= c(i)
  <2>1. Refines(ProbeBehavior(j), ProbeBehavior(k))
    BY <1>5, <1>8, ProbesHaveKeys, RefinesIsOrder
  <2>2. c(j) <= c(k) /\ c(j) \in Nat /\ c(k) \in Nat
    BY <1>3, <1>5, <1>8
  <2>3. c(i) \in Nat
    BY <1>2, CheaperIsOrder
  <2>4. c(k) <= c(i) /\ ProbeBehavior(k) = ProbeBehavior(i)
    BY <1>1
  <2> HIDE DEF c
  <2> QED BY <2>1, <2>2, <2>3, <2>4
<1>10. j \in Undominated
  BY <1>5, <1>8 DEF Undominated, S
<1> QED BY <1>9, <1>10

\* Strings that no probe of a bundle tells apart have one value.
LEMMA SameDigits ==
  ASSUME NEW ps, IsList(ps), NEW x \in Strings, NEW y \in Strings,
         \A k \in 1..Len(ps) : ps[k].values[x] = ps[k].values[y]
  PROVE  BundleValues(ps)[x] = BundleValues(ps)[y]
<1> DEFINE n == Len(ps)
           rank(z, k) == Folded("rank", 0, ps, z, k)
           W == {k \in Nat : k <= n => rank(x, k) = rank(y, k)}
<1>1. 0 \in W
  <2>1. rank(x, 0) = 0 /\ rank(y, 0) = 0
    BY FoldedStart
  <2> QED BY <2>1
<1>2. ASSUME NEW k \in Nat, k \in W
      PROVE  k + 1 \in W
  <2> SUFFICES ASSUME k + 1 <= n
               PROVE  rank(x, k + 1) = rank(y, k + 1)
    OBVIOUS
  <2> DEFINE m == k + 1
  <2>1. rank(x, k) = rank(y, k)
    BY <1>2
  <2>2. m = k + 1 /\ Alike(ps, ps, k) /\ ps[m].values[x] = ps[m].values[y]
    <3>1. n \in Nat /\ k + 1 \in 1..n
      BY ListDef
    <3> QED BY <3>1 DEF Alike
  <2> HIDE DEF m
  <2>3. /\ Folded("rank", 0, ps, x, m) = Step("rank", Folded("rank", 0, ps, x, k), ps[m], x)
        /\ Folded("rank", 0, ps, y, m) = Step("rank", Folded("rank", 0, ps, y, k), ps[m], y)
    BY <2>2, FoldedStep
  <2>4. Folded("rank", 0, ps, x, m) = Folded("rank", 0, ps, y, m)
    BY <2>1, <2>2, <2>3 DEF Step
  <2> QED BY <2>4 DEF m
<1> HIDE DEF W
<1>3. \A k \in Nat : k \in W
  BY <1>1, <1>2, Induction
<1>4. n \in Nat /\ rank(x, n) = rank(y, n)
  BY <1>3, ListDef DEF W
<1> QED BY <1>4, BundleFolds

\* The product of the scalars of one more place is at most as many times greater.
LEMMA PlaceAdded ==
  ASSUME NEW pb, NEW sc, Len(sc) \in Nat,
         \A k \in 1..Len(sc) : pb[sc[k]].cardinality \in Nat \ {0},
         NEW E \in SUBSET (1..Len(sc)), NEW g, AreProducts(pb, sc, 1, E, g),
         NEW e \in 1..Len(sc), NEW c, c = pb[sc[e]].cardinality
  PROVE  \E h : AreProducts(pb, sc, 1, E \cup {e}, h) /\ h[1] <= g[1] * c
<1> DEFINE L == Len(sc)
           card(k) == pb[sc[k]].cardinality
<1>1. /\ g \in [1..(L + 1) -> Nat \ {0}] /\ g[L + 1] = 1
      /\ \A k \in 1..L : g[k] = IF k \in E THEN card(k) * g[k + 1] ELSE g[k + 1]
  BY DEF AreProducts
<1>2. c \in Nat \ {0} /\ c = card(e) /\ \A k \in 1..L : card(k) \in Nat \ {0}
  OBVIOUS
<1>3. CASE e \in E
  <2>1. E \cup {e} = E
    BY <1>3
  <2>2. g[1] <= g[1] * c
    <3> DEFINE x == g[1]
    <3>1. x \in Nat
      BY <1>1
    <3> HIDE DEF x
    <3>2. x <= x * c
      BY <1>2, <3>1, NotLess
    <3> QED BY <3>2 DEF x
  <2> QED BY <2>1, <2>2
<1>4. CASE e \notin E
  <2> DEFINE F == E \cup {e}
             h == [k \in 1..(L + 1) |-> IF k <= e THEN g[k] * c ELSE g[k]]
  <2>1. \A k \in 1..(L + 1) : g[k] * c \in Nat \ {0}
    <3> TAKE k \in 1..(L + 1)
    <3> DEFINE x == g[k]
    <3>1. x \in Nat \ {0}
      BY <1>1
    <3> HIDE DEF x
    <3>2. x * c \in Nat \ {0}
      BY <1>2, <3>1
    <3> QED BY <3>2 DEF x
  <2>2. h \in [1..(L + 1) -> Nat \ {0}]
    BY <1>1, <2>1
  <2>3. h[L + 1] = 1
    BY <1>1
  <2>4. ASSUME NEW k \in 1..L
        PROVE  h[k] = IF k \in F THEN card(k) * h[k + 1] ELSE h[k + 1]
    <3> DEFINE x == g[k + 1]
               a == card(k)
    <3>1. x \in Nat \ {0} /\ a \in Nat \ {0}
      <4>1. k + 1 \in 1..(L + 1)
        OBVIOUS
      <4> QED BY <1>1, <1>2, <4>1
    <3>2. /\ g[k] = IF k \in E THEN a * x ELSE x
          /\ h[k] = IF k <= e THEN g[k] * c ELSE g[k]
          /\ h[k + 1] = IF k + 1 <= e THEN x * c ELSE x
      <4>1. k + 1 \in 1..(L + 1) /\ k \in 1..(L + 1)
        OBVIOUS
      <4> QED BY <1>1, <4>1
    <3>3. k \in F <=> k \in E \/ k = e
      OBVIOUS
    <3>4. k = e => a = c
      BY <1>2
    <3> HIDE DEF x, a, card, h, F, L
    <3>5. (a * x) * c = a * (x * c)
      BY <1>2, <3>1
    <3>6. x * c = c * x
      BY <1>2, <3>1
    <3>7. k < e => k + 1 <= e
      OBVIOUS
    <3>8. CASE k < e
      BY <3>2, <3>3, <3>5, <3>7, <3>8 DEF a
    <3>9. CASE k = e
      <4>1. h[k] = x * c /\ h[k + 1] = x
        BY <1>4, <3>2, <3>9
      <4>2. k \in F /\ a = c
        BY <3>3, <3>4, <3>9
      <4> QED BY <3>6, <4>1, <4>2 DEF a
    <3>10. CASE k > e
      <4>1. h[k] = g[k] /\ h[k + 1] = x /\ (k \in F <=> k \in E)
        BY <3>2, <3>3, <3>10
      <4> QED BY <3>2, <4>1 DEF a
    <3> QED BY <3>8, <3>9, <3>10
  <2>5. AreProducts(pb, sc, 1, F, h)
    <3> HIDE DEF h, F
    <3> QED BY <2>2, <2>3, <2>4 DEF AreProducts
  <2>6. h[1] <= g[1] * c
    <3>1. h[1] = g[1] * c
      BY <1>1
    <3>2. g[1] * c \in Nat
      BY <2>1
    <3> HIDE DEF h
    <3> QED BY <3>1, <3>2
  <2> QED BY <2>5, <2>6
<1> QED BY <1>3, <1>4

\* The scalars are the probes that no other one makes up for.
LEMMA ScalarsAreUndominated ==
  ASSUME Inputs(prior, probes, capacity)
  PROVE  /\ ScalarCandidates \in Seq(DOMAIN probes)
         /\ \A x \in Undominated : \E e \in 1..Len(ScalarCandidates) : ScalarCandidates[e] = x
<1> DEFINE S == Undominated
<1>1. S \in SUBSET DOMAIN probes
  BY DEF Undominated, Representatives, Distinguishing
<1>2. DOMAIN probes = 1..Len(probes) /\ Len(probes) \in Nat
  BY ListDef DEF Inputs, IsBundle
<1> HIDE DEF S
<1>3. S \in SUBSET Int /\ IsFiniteSet(S)
  <2>1. IsFiniteSet(1..Len(probes))
    BY <1>2, FS_Interval
  <2> QED BY <1>1, <1>2, <2>1, FS_Subset
<1>4. IsSortedList(Ordered(S, <), S, Smaller(S))
  BY <1>3, OrderedNumbers
<1>5. ScalarCandidates = Ordered(S, <)
  BY DEF ScalarCandidates, S
<1>6. \A x \in S : \E e \in 1..Len(ScalarCandidates) : ScalarCandidates[e] = x
  BY <1>4, <1>5 DEF IsSortedList
<1>7. ScalarCandidates \in Seq(DOMAIN probes)
  BY ScalarsAreProbes DEF Inputs
<1> QED BY <1>6, <1>7 DEF S

\* The scalars of the places E make up for the first k probes of q.
MakesUp(sc, E, q, k) ==
  \A j \in 1..k : \E e \in E : Refines(ProbeBehavior(sc[e]), ProbeBehavior(q[j]))

\* For any bundle there are scalars that make up for its probes, with no greater product.
LEMMA BundleIsMadeUpFor ==
  ASSUME Inputs(prior, probes, capacity), NEW sc, sc = ScalarCandidates,
         NEW q \in Seq(Distinguishing), NEW n, n = Len(q), NEW ps, ps = Chosen(probes, q)
  PROVE  \A k \in Nat : k <= n =>
           \E E \in SUBSET (1..Len(sc)) : \E g :
             /\ AreProducts(probes, sc, 1, E, g) /\ g[1] <= Folded("size", 1, ps, 0, k)
             /\ MakesUp(sc, E, q, k)
<1> DEFINE size(k) == Folded("size", 1, ps, 0, k)
           card(k) == probes[sc[k]].cardinality
           Made(k, E, g) == /\ AreProducts(probes, sc, 1, E, g) /\ g[1] <= size(k)
                            /\ MakesUp(sc, E, q, k)
           W == {k \in Nat : k <= n => \E E \in SUBSET (1..Len(sc)) : \E g : Made(k, E, g)}
<1>1. /\ sc \in Seq(DOMAIN probes) /\ Len(sc) \in Nat
      /\ \A x \in Undominated : \E e \in 1..Len(sc) : sc[e] = x
  BY ScalarsAreUndominated
<1>2. \A i \in DOMAIN probes : probes[i].cardinality \in Nat \ {0}
  <2>1. DOMAIN probes = 1..Len(probes)
    BY ListDef DEF Inputs, IsBundle
  <2> QED BY <2>1 DEF Inputs, IsBundle, IsProbe
<1>3. \A k \in 1..Len(sc) : card(k) \in Nat \ {0}
  BY <1>1, <1>2
<1>4. n \in Nat /\ \A k \in 1..n : /\ q[k] \in Distinguishing /\ q[k] \in DOMAIN probes
                                   /\ ps[k] = probes[q[k]]
  <2>1. n \in Nat /\ DOMAIN q = 1..n /\ \A k \in 1..n : q[k] \in Distinguishing
    OBVIOUS
  <2>2. \A i \in Distinguishing : i \in DOMAIN probes
    BY DEF Distinguishing
  <2> QED BY <2>1, <2>2 DEF Chosen
<1>5. 0 \in W
  <2> DEFINE g == [k \in 1..(Len(sc) + 1) |-> 1]
  <2>1. AreProducts(probes, sc, 1, {}, g)
    <3>1. g \in [1..(Len(sc) + 1) -> Nat \ {0}]
      BY <1>1
    <3>2. \A k \in 1..Len(sc) : g[k] = g[k + 1] /\ g[Len(sc) + 1] = 1
      BY <1>1
    <3>3. g[Len(sc) + 1] = 1
      BY <1>1
    <3> HIDE DEF g
    <3> QED BY <3>1, <3>2, <3>3 DEF AreProducts
  <2>2. g[1] = 1 /\ size(0) = 1
    <3>1. g[1] = 1
      BY <1>1
    <3> QED BY <3>1, FoldedStart
  <2>3. MakesUp(sc, {}, q, 0)
    BY DEF MakesUp
  <2> HIDE DEF g
  <2>4. Made(0, {}, g)
    BY <2>1, <2>2, <2>3
  <2> HIDE DEF Made
  <2> QED BY <2>4
<1>6. ASSUME NEW k \in Nat, k \in W
      PROVE  k + 1 \in W
  <2> SUFFICES ASSUME k + 1 <= n
               PROVE  \E E \in SUBSET (1..Len(sc)) : \E g : Made(k + 1, E, g)
    OBVIOUS
  <2> DEFINE m == k + 1
             c == probes[q[m]].cardinality
  <2>1. PICK E \in SUBSET (1..Len(sc)) : \E g : Made(k, E, g)
    BY <1>4, <1>6
  <2>2. PICK g : AreProducts(probes, sc, 1, E, g) /\ g[1] <= size(k) /\ MakesUp(sc, E, q, k)
    BY <2>1
  <2>3. m \in 1..n /\ m = k + 1 /\ Alike(ps, ps, k)
    BY <1>4 DEF Alike
  <2> HIDE DEF m
  <2>4. size(m) = size(k) * c
    <3>1. Folded("size", 1, ps, 0, m) = Step("size", Folded("size", 1, ps, 0, k), ps[m], 0)
      BY <2>3, FoldedStep
    <3> QED BY <1>4, <2>3, <3>1 DEF Step
  <2>5. PICK j \in Undominated : /\ Refines(ProbeBehavior(j), ProbeBehavior(q[m]))
                                 /\ probes[j].cardinality <= c
    BY <1>4, <2>3, EachIsMadeUpFor
  <2>6. PICK e \in 1..Len(sc) : sc[e] = j
    BY <1>1
  <2> DEFINE F == E \cup {e}
             d == card(e)
  <2>7. PICK h : AreProducts(probes, sc, 1, F, h) /\ h[1] <= g[1] * d
    BY <1>1, <1>3, <2>2, PlaceAdded
  <2>8. h[1] <= size(m)
    <3>1. d \in Nat /\ c \in Nat /\ d <= c
      <4>1. d <= c /\ d \in Nat
        BY <1>3, <2>5, <2>6
      <4>2. c \in Nat
        BY <1>2, <1>4, <2>3
      <4> QED BY <4>1, <4>2
    <3> DEFINE x == g[1] y == h[1] z == size(k)
    <3>2. x \in Nat /\ y \in Nat
      BY <1>1, <2>2, <2>7 DEF AreProducts
    <3>3. z \in Nat
      <4>1. \A i \in 1..k : IsProbe(ps[i])
        <5>1. DOMAIN probes = 1..Len(probes)
          BY ListDef DEF Inputs, IsBundle
        <5>2. \A i \in DOMAIN probes : IsProbe(probes[i])
          BY <5>1 DEF Inputs, IsBundle
        <5>3. \A i \in 1..k : i \in 1..n
          BY <1>4, <2>3
        <5> QED BY <1>4, <5>2, <5>3
      <4>2. Folded("size", 1, ps, 0, k) \in Nat \ {0}
        BY <4>1, SizeFits
      <4> QED BY <4>2
    <3>4. x <= z /\ y <= x * d /\ size(m) = z * c
      BY <2>2, <2>4, <2>7
    <3> HIDE DEF x, y, z, d, c, size
    <3>5. x * d <= z * d /\ z * d <= z * c
      BY <3>1, <3>2, <3>3, <3>4
    <3>6. x * d \in Nat /\ z * d \in Nat /\ z * c \in Nat
      BY <3>1, <3>2, <3>3
    <3>7. y <= size(m)
      BY <3>2, <3>4, <3>5, <3>6
    <3> QED BY <3>7 DEF y
  <2>9. MakesUp(sc, F, q, m)
    <3> SUFFICES ASSUME NEW i \in 1..m
                 PROVE  \E u \in F : Refines(ProbeBehavior(sc[u]), ProbeBehavior(q[i]))
      BY DEF MakesUp
    <3>1. CASE i = m
      BY <2>5, <2>6, <3>1
    <3>2. CASE i # m
      <4>1. i \in 1..k
        BY <2>3, <3>2
      <4> QED BY <2>2, <4>1 DEF MakesUp
    <3> QED BY <3>1, <3>2
  <2>10. F \in SUBSET (1..Len(sc)) /\ Made(m, F, h)
    BY <2>7, <2>8, <2>9
  <2> HIDE DEF F, Made
  <2>11. \E E2 \in SUBSET (1..Len(sc)) : \E g2 : Made(m, E2, g2)
    BY <2>10
  <2> QED BY <2>11 DEF m
<1>7. \A k \in Nat : k \in W
  <2> HIDE DEF W
  <2> QED BY <1>5, <1>6, Induction
<1>8. \A k \in Nat : k <= n => \E E \in SUBSET (1..Len(sc)) : \E g : Made(k, E, g)
  <2> HIDE DEF Made
  <2> QED BY <1>7
<1> QED BY <1>8

\* What the behavior of a probe tells of it.
LEMMA ProbeKeyIs ==
  ASSUME Inputs(prior, probes, capacity), NEW i
  PROVE  /\ \A s \in DOMAIN prior : ProbeBehavior(i)[s] = RESOLVED <=> Splits(prior, probes[i], s)
         /\ \A s, t \in DOMAIN prior :
              ~Splits(prior, probes[i], s) /\ ~Splits(prior, probes[i], t) =>
                (ProbeBehavior(i)[s] = ProbeBehavior(i)[t] <=> Alikes(prior, probes[i], s, t))
<1> DEFINE n == Len(prior)
           v == probes[i].values
           o == PairOutcomes(v)
           K == BehaviorKey(o)
<1>1. n \in Nat /\ DOMAIN prior = 1..n
  BY DEF Inputs
<1>2. /\ DOMAIN o = 1..n
      /\ \A s \in 1..n : /\ o[s] = [left |-> v[prior[s].left], right |-> v[prior[s].right]]
                         /\ o[s].left = v[prior[s].left] /\ o[s].right = v[prior[s].right]
  BY <1>1 DEF PairOutcomes
<1>3. ProbeBehavior(i) = K
  BY DEF ProbeBehavior
<1> HIDE DEF o, v
<1>4. /\ \A s \in 1..n : K[s] = RESOLVED <=> o[s].left # o[s].right
      /\ \A s, t \in 1..n : o[s].left = o[s].right /\ o[t].left = o[t].right =>
           (K[s] = K[t] <=> o[s] = o[t])
  BY <1>1, <1>2, KeyFacts DEF Collides
<1>5. /\ \A s \in 1..n : Splits(prior, probes[i], s) <=> v[prior[s].left] # v[prior[s].right]
      /\ \A s, t \in 1..n : Alikes(prior, probes[i], s, t) <=> v[prior[s].left] = v[prior[t].left]
  BY DEF Splits, Alikes, v
<1> HIDE DEF K
<1>6. ASSUME NEW s \in 1..n
      PROVE  K[s] = RESOLVED <=> Splits(prior, probes[i], s)
  BY <1>2, <1>4, <1>5
<1>7. ASSUME NEW s \in 1..n, NEW t \in 1..n,
             ~Splits(prior, probes[i], s), ~Splits(prior, probes[i], t)
      PROVE  K[s] = K[t] <=> Alikes(prior, probes[i], s, t)
  <2>1. o[s].left = o[s].right /\ o[t].left = o[t].right
    BY <1>2, <1>5, <1>7
  <2>2. o[s] = o[t] <=> o[s].left = o[t].left
    BY <1>2, <2>1
  <2> QED BY <1>2, <1>4, <1>5, <2>1, <2>2
<1> QED BY <1>1, <1>3, <1>6, <1>7

\* A behavior that is good for scalars that make up for the probes of a bundle refines
\* what the bundle does.
LEMMA GoodRefines ==
  ASSUME Inputs(prior, probes, capacity), NEW q \in Seq(DOMAIN probes),
         NEW sc, NEW E, MakesUp(sc, E, q, Len(q)),
         NEW d \in GoodFor(prior, probes, sc, [s \in DOMAIN prior |-> 1], E)
  PROVE  Refines(d, BehaviorKey(PairOutcomes(BundleValues(Chosen(probes, q)))))
<1> DEFINE n == Len(prior)
           ps == Chosen(probes, q)
           V == BundleValues(ps)
           o == PairOutcomes(V)
           K == BehaviorKey(o)
<1>1. n \in Nat /\ DOMAIN prior = 1..n /\ prior \in Seq(Scenarios)
  BY DEF Inputs
<1>2. /\ d \in [1..n -> Nat]
      /\ \A s \in 1..n : (\E e \in E : Splits(prior, probes[sc[e]], s)) => d[s] = RESOLVED
      /\ \A s, t \in 1..n : d[s] = d[t] /\ d[s] # RESOLVED =>
           \A e \in E : Alikes(prior, probes[sc[e]], s, t)
  BY <1>1 DEF GoodFor
<1>3. /\ DOMAIN o = 1..n
      /\ \A s \in 1..n : /\ o[s] = [left |-> V[prior[s].left], right |-> V[prior[s].right]]
                         /\ o[s].left = V[prior[s].left] /\ o[s].right = V[prior[s].right]
  BY <1>1 DEF PairOutcomes
<1>4. Len(q) \in Nat /\ IsList(ps) /\ Len(ps) = Len(q) /\ \A k \in 1..Len(q) : ps[k] = probes[q[k]]
  <2>1. IsList(ps) /\ Len(ps) = Len(q)
    BY ChosenIsBundle DEF Inputs, IsBundle
  <2> QED BY <2>1 DEF Chosen
<1> HIDE DEF ps, V, o
<1>5. /\ \A s \in 1..n : K[s] = RESOLVED <=> o[s].left # o[s].right
      /\ \A s, t \in 1..n : o[s].left = o[s].right /\ o[t].left = o[t].right =>
           (K[s] = K[t] <=> o[s] = o[t])
      /\ K \in [1..n -> Nat]
  BY <1>1, <1>3, KeyFacts DEF Collides
<1> HIDE DEF K
<1>6. \A x, y \in Strings :
        (\A k \in 1..Len(q) : probes[q[k]].values[x] = probes[q[k]].values[y]) => V[x] = V[y]
  BY <1>4, SameDigits DEF V
<1>7. \A s \in 1..n : prior[s].left \in Strings /\ prior[s].right \in Strings
  BY <1>1, ScenarioTyped
\* What the scalars do not resolve no probe of the bundle does.
<1>8. ASSUME NEW s \in 1..n, \A e \in E : ~Splits(prior, probes[sc[e]], s)
      PROVE  \A k \in 1..Len(q) : ~Splits(prior, probes[q[k]], s)
  <2> TAKE k \in 1..Len(q)
  <2>1. PICK e \in E : Refines(ProbeBehavior(sc[e]), ProbeBehavior(q[k]))
    BY DEF MakesUp
  <2>2. ProbeBehavior(sc[e])[s] # RESOLVED
    BY <1>1, <1>8, ProbeKeyIs
  <2>3. s \in DOMAIN ProbeBehavior(sc[e])
    BY <1>1, ProbesHaveKeys DEF IsKey
  <2>4. ProbeBehavior(q[k])[s] # RESOLVED
    BY <2>1, <2>2, <2>3 DEF Refines
  <2> QED BY <1>1, <2>4, ProbeKeyIs
\* And what they leave together it does not divide.
<1>9. ASSUME NEW s \in 1..n, NEW t \in 1..n,
             \A e \in E : /\ ~Splits(prior, probes[sc[e]], s) /\ ~Splits(prior, probes[sc[e]], t)
                          /\ Alikes(prior, probes[sc[e]], s, t)
      PROVE  \A k \in 1..Len(q) : Alikes(prior, probes[q[k]], s, t)
  <2> TAKE k \in 1..Len(q)
  <2>1. PICK e \in E : Refines(ProbeBehavior(sc[e]), ProbeBehavior(q[k]))
    BY DEF MakesUp
  <2>2. /\ ProbeBehavior(sc[e])[s] # RESOLVED
        /\ ProbeBehavior(sc[e])[s] = ProbeBehavior(sc[e])[t]
    BY <1>1, <1>9, ProbeKeyIs
  <2>3. s \in DOMAIN ProbeBehavior(sc[e]) /\ t \in DOMAIN ProbeBehavior(sc[e])
    BY <1>1, ProbesHaveKeys DEF IsKey
  <2>4. ProbeBehavior(q[k])[s] = ProbeBehavior(q[k])[t]
    BY <2>1, <2>2, <2>3 DEF Refines
  <2>5. ~Splits(prior, probes[q[k]], s) /\ ~Splits(prior, probes[q[k]], t)
    BY <1>8, <1>9
  <2> QED BY <1>1, <2>4, <2>5, ProbeKeyIs
<1>10. ASSUME NEW s \in 1..n, d[s] # RESOLVED
       PROVE  o[s].left = o[s].right
  <2>1. \A k \in 1..Len(q) : ~Splits(prior, probes[q[k]], s)
    BY <1>2, <1>8, <1>10
  <2>2. V[prior[s].left] = V[prior[s].right]
    BY <1>6, <1>7, <2>1 DEF Splits
  <2> QED BY <1>3, <2>2
<1>11. ASSUME NEW s \in 1..n, NEW t \in 1..n, d[s] = d[t], d[s] # RESOLVED
       PROVE  K[s] = K[t]
  <2>1. \A k \in 1..Len(q) : Alikes(prior, probes[q[k]], s, t)
    BY <1>2, <1>9, <1>11
  <2>2. V[prior[s].left] = V[prior[t].left]
    BY <1>6, <1>7, <2>1 DEF Alikes
  <2>3. o[s].left = o[s].right /\ o[t].left = o[t].right
    BY <1>10, <1>11
  <2>4. o[s] = o[t]
    BY <1>3, <2>2, <2>3
  <2> QED BY <1>5, <2>3, <2>4
<1>12. \A s \in 1..n : K[s] = RESOLVED => d[s] = RESOLVED
  BY <1>5, <1>10
<1>13. Refines(d, K)
  BY <1>2, <1>5, <1>11, <1>12 DEF Refines
<1> QED BY <1>13 DEF K, o, V, ps

\* The actions keep for each behavior one that is at least as good.
LEMMA RowsRefine ==
  ASSUME Inputs(prior, probes, capacity), TableSound(prior, probes, capacity, by_behavior),
         NEW b \in DOMAIN by_behavior
  PROVE  \E x \in Rows : Refines(BehaviorKey(x.outcomes), b)
<1> DEFINE S == DOMAIN by_behavior
           R == {p \in S \X S : p[1] # p[2] /\ Refines(p[1], p[2])}
           n == Len(prior)
<1>1. n \in Nat /\ DOMAIN prior = 1..n
  BY DEF Inputs
<1>2. IsFiniteSet(S) /\ \A c \in S : c = BehaviorKey(by_behavior[c].outcomes)
  BY DEF TableSound
<1>3. \A c \in S : IsKey(c, n)
  <2> TAKE c \in S
  <2> DEFINE o == by_behavior[c].outcomes
  <2>1. o = BundleOutcomes(prior, probes, by_behavior[c].selected)
    BY DEF TableSound, RowSound
  <2>2. DOMAIN o = 1..n
    BY <1>1, <2>1 DEF BundleOutcomes, OutcomesOf
  <2>3. c = BehaviorKey(o)
    BY <1>2
  <2> HIDE DEF o, n
  <2> QED BY <1>1, <2>2, <2>3, BehaviorsAreKeys
<1> HIDE DEF S, n
<1>4. /\ \A c \in S : Refines(c, c)
      /\ \A x, y, z : Refines(x, y) /\ Refines(y, z) => Refines(x, z)
      /\ \A x, y \in S : Refines(x, y) /\ Refines(y, x) => x = y
  BY <1>1, <1>3, RefinesIsOrder
<1>5. \A x, y \in S : <<x, y>> \in R <=> x # y /\ Refines(x, y)
  OBVIOUS
<1> HIDE DEF R
<1>6. IsPartialOrder(S, R)
  <2>1. \A x \in S : <<x, x>> \notin R
    BY <1>5
  <2>2. \A x, y, z \in S : <<x, y>> \in R /\ <<y, z>> \in R => <<x, z>> \in R
    BY <1>4, <1>5
  <2> QED BY <1>2, <2>1, <2>2 DEF IsPartialOrder
<1>7. \E c \in S : (c = b \/ <<c, b>> \in R) /\ \A z \in S : <<z, c>> \notin R
  BY <1>6, MinimalElement DEF S
<1>8. PICK c \in S : (c = b \/ <<c, b>> \in R) /\ \A z \in S : <<z, c>> \notin R
  BY <1>7
<1>9. Refines(c, b)
  BY <1>4, <1>5, <1>8 DEF S
<1>10. \A z \in S \ {c} : ~Refines(z, c)
  BY <1>5, <1>8
<1>11. by_behavior[c] \in Rows
  BY <1>10 DEF Rows, S
<1> QED BY <1>2, <1>9, <1>11

-----------------------------------------------------------------------------
(* The actions are exhaustive.                                             *)

\* What the memo and the calls promise while the actions are generated, and what came of it
\* when the last call has returned.
EInv ==
  /\ phase = "cook" => DOMAIN best_product = {}
  /\ phase = "actions" =>
       /\ scalars = ScalarCandidates
       /\ Covered(prior, probes, capacity, scalars, best_product, by_behavior, frames)
       /\ InOrder(scalars, by_behavior, frames)
  /\ ActionsExhaustive

\* Distinguishing probes can be put in order, ...
LEMMA DistinguishingIsFinite ==
  ASSUME Inputs(prior, probes, capacity), NEW chosen \in SUBSET Distinguishing
  PROVE  chosen \in SUBSET DOMAIN probes /\ chosen \in SUBSET Int /\ IsFiniteSet(chosen)
<1>1. DOMAIN probes \in SUBSET Nat /\ IsFiniteSet(DOMAIN probes)
  BY CheaperIsOrder
<1>2. chosen \in SUBSET DOMAIN probes
  BY DEF Distinguishing
<1>3. IsFiniteSet(chosen)
  BY <1>1, <1>2, FS_Subset
<1> QED BY <1>1, <1>2, <1>3

\* ... and are a bundle then.
LEMMA ChosenInOrder ==
  ASSUME Inputs(prior, probes, capacity), NEW chosen \in SUBSET Distinguishing, chosen # {},
         NEW q, IsSortedList(q, chosen, Smaller(chosen))
  PROVE  q \in Seq(Distinguishing) /\ q \in Seq(DOMAIN probes) /\ Len(q) \in Nat \ {0}
<1>1. chosen \in SUBSET DOMAIN probes
  BY DistinguishingIsFinite
<1>2. PICK x \in chosen : TRUE
  OBVIOUS
<1>3. q \in Seq(chosen) /\ \E i \in 1..Len(q) : q[i] = x
  BY <1>2 DEF IsSortedList
<1>4. \A S : chosen \in SUBSET S => q \in Seq(S)
  BY <1>3
<1>5. Len(q) \in Nat \ {0}
  BY <1>3
<1> QED BY <1>1, <1>4, <1>5

\* When no call is left, what is made up for has a representative.
LEMMA CoveredExhausts ==
  ASSUME Inputs(prior, probes, capacity), TableSound(prior, probes, capacity, by_behavior),
         NEW sc, sc = ScalarCandidates, NEW bp,
         Covered(prior, probes, capacity, sc, bp, by_behavior, <<>>),
         NEW ps \in FittingBundles(Distinguishing)
  PROVE  \E x \in Rows :
           Refines(BehaviorKey(x.outcomes), BehaviorKey(PairOutcomes(BundleValues(ps))))
<1> DEFINE K == BehaviorKey(PairOutcomes(BundleValues(ps)))
           none == [s \in DOMAIN prior |-> 1]
<1> DEFINE w(c) == ProbesOf(Ordered(c, <))
<1>1. PICK chosen \in (SUBSET Distinguishing) \ {{}} :
        ps = w(chosen) /\ BundleCardinality(ps) <= capacity
  <2> DEFINE S == (SUBSET Distinguishing) \ {{}}
  <2>1. FittingBundles(Distinguishing) = {p \in {w(c) : c \in S} : BundleCardinality(p) <= capacity}
    BY DEF FittingBundles
  <2> HIDE DEF w, S
  <2> QED BY <2>1 DEF S
<1> DEFINE q == Ordered(chosen, <)
           n == Len(q)
<1>2. q \in Seq(Distinguishing) /\ q \in Seq(DOMAIN probes) /\ n \in Nat \ {0}
  <2>1. chosen \in SUBSET Distinguishing /\ chosen # {}
    OBVIOUS
  <2>2. chosen \in SUBSET Int /\ IsFiniteSet(chosen)
    BY <2>1, DistinguishingIsFinite
  <2>3. IsSortedList(q, chosen, Smaller(chosen))
    BY <2>2, OrderedNumbers
  <2> HIDE DEF q
  <2> QED BY <2>1, <2>3, ChosenInOrder
<1>3. ps = Chosen(probes, q)
  BY <1>1, ModelOutcomes
<1> HIDE DEF q, w
<1>4. IsList(ps) /\ Len(ps) = n
  BY <1>2, <1>3, ChosenIsBundle DEF Inputs, IsBundle
<1>5. Folded("size", 1, ps, 0, n) <= capacity
  BY <1>1, <1>4, BundleFolds
<1>6. PICK E \in SUBSET (1..Len(sc)) : \E g :
        /\ AreProducts(probes, sc, 1, E, g) /\ g[1] <= Folded("size", 1, ps, 0, n)
        /\ MakesUp(sc, E, q, n)
  <2>1. n \in Nat /\ n <= n /\ n = Len(q)
    BY <1>2
  <2> HIDE DEF n
  <2> QED BY <1>2, <1>3, <2>1, BundleIsMadeUpFor
<1>7. PICK g : /\ AreProducts(probes, sc, 1, E, g) /\ g[1] <= Folded("size", 1, ps, 0, n)
               /\ MakesUp(sc, E, q, n)
  BY <1>6
<1>8. E # {}
  <2>1. 1 \in 1..n
    BY <1>2
  <2> QED BY <1>7, <2>1 DEF MakesUp
<1> DEFINE G == GoodFor(prior, probes, sc, none, E)
<1>9. 1 * g[1] <= capacity
  <2>1. Len(sc) \in Nat
    BY ScalarsAreUndominated
  <2>2. g[1] \in Nat
    BY <1>7, <2>1 DEF AreProducts
  <2>3. Folded("size", 1, ps, 0, n) \in Nat
    <3>1. IsBundle(ps)
      BY <1>2, <1>3, ChosenIsBundle DEF Inputs
    <3>2. \A k \in 1..n : IsProbe(ps[k])
      BY <1>4, <3>1 DEF IsBundle
    <3>3. n \in Nat
      BY <1>2
    <3> QED BY <3>2, <3>3, SizeFits
  <2>4. capacity \in Nat
    BY DEF Inputs
  <2> HIDE DEF n
  <2>5. g[1] <= Folded("size", 1, ps, 0, n)
    BY <1>7
  <2> DEFINE u == g[1] v == Folded("size", 1, ps, 0, n)
  <2>6. u \in Nat /\ v \in Nat /\ u <= v /\ v <= capacity
    BY <1>5, <2>2, <2>3, <2>5
  <2> HIDE DEF u, v
  <2>7. 1 * u <= capacity
    BY <2>4, <2>6
  <2> QED BY <2>7 DEF u
<1>10. CanJoin(prior, probes, capacity, sc, 1, 1, none, E, G)
  <2> HIDE DEF G, none
  <2>1. G \subseteq G
    OBVIOUS
  <2> QED BY <1>6, <1>7, <1>9, <2>1 DEF CanJoin, G
<1>11. IsMet(prior, probes, capacity, sc, by_behavior, <<>>, G, 1)
  <2> HIDE DEF G
  <2> QED BY <1>8, <1>10 DEF Covered, AllMet
<1>12. PICK d \in DOMAIN by_behavior : d \in G
  <2> HIDE DEF G
  <2>1. 1..Len(<<>>) = {}
    OBVIOUS
  <2> QED BY <1>11, <2>1 DEF IsMet
<1>13. Refines(d, K)
  <2>1. MakesUp(sc, E, q, Len(q))
    BY <1>7
  <2> QED BY <1>2, <1>3, <1>12, <2>1, GoodRefines
<1>14. PICK x \in Rows : Refines(BehaviorKey(x.outcomes), d)
  BY <1>12, RowsRefine
<1> HIDE DEF K
<1>15. Refines(BehaviorKey(x.outcomes), K)
  <2>1. Len(prior) \in Nat
    BY ProbesHaveKeys
  <2> QED BY <1>13, <1>14, <2>1, RefinesIsOrder
<1> QED BY <1>15 DEF K

\* The actions are the rows.
LEMMA ActionsAreRows ==
  ASSUME Inputs(prior, probes, capacity), TableSound(prior, probes, capacity, by_behavior),
         NEW bs, bs = Ordered(Rows, LAMBDA a, b : SeqLess(a.selected, b.selected)),
         NEW x \in Rows
  PROVE  \E b \in DOMAIN bs : bs[b] = x
<1>1. /\ IsFiniteSet(Rows)
      /\ \A y \in Rows : y.selected \in Seq(Int)
      /\ \A y, z \in Rows : y.selected = z.selected => y = z
  BY RowsAreSound
<1>2. IsSortedList(bs, Rows, SmallerRow(Rows))
  BY <1>1, OrderedRows
<1> QED BY <1>2 DEF IsSortedList

\* What the actions are made of is fixed.
LEMMA CandidatesStay ==
  ASSUME UNCHANGED <<prior, probes, capacity>>
  PROVE  /\ ScalarCandidates' = ScalarCandidates
         /\ FittingBundles(Distinguishing)' = FittingBundles(Distinguishing)
         /\ \A v : PairOutcomes(v)' = PairOutcomes(v)
<1>1. \A v : PairOutcomes(v)' = PairOutcomes(v)
  BY DEF PairOutcomes
<1>2. Distinguishing' = Distinguishing
  BY DEF Distinguishing, PairOutcomes
<1>3. ScalarCandidates' = ScalarCandidates
  <2>1. Representatives' = Representatives
    BY <1>2 DEF Representatives, ProbeBehavior, PairOutcomes, IsCheaper
  <2>2. Undominated' = Undominated
    BY <2>1 DEF Undominated, ProbeBehavior, PairOutcomes
  <2> QED BY <2>2 DEF ScalarCandidates, Ordered
<1>4. FittingBundles(Distinguishing)' = FittingBundles(Distinguishing)
  <2> DEFINE w(c) == Ordered(c, <)
             S == (SUBSET Distinguishing) \ {{}}
             F == {p \in {ProbesOf(w(c)) : c \in S} : BundleCardinality(p) <= capacity}
  <2>1. FittingBundles(Distinguishing) = F
    BY DEF FittingBundles
  <2>2. FittingBundles(Distinguishing)' = F'
    BY DEF FittingBundles
  <2>3. S' = S
    BY <1>2
  <2>4. \A c : w(c)' = w(c)
    BY DEF Ordered
  <2> HIDE DEF w, S
  <2>5. F' = F
    BY <2>3, <2>4 DEF ProbesOf
  <2> QED BY <2>1, <2>2, <2>5
<1> QED BY <1>1, <1>3, <1>4

\* At first every bundle is left to the only call.
LEMMA BeginCovers ==
  ASSUME GInv, EInv, BeginActions
  PROVE  EInv'
<1>1. /\ phase = "cook" /\ phase' = "actions" /\ prior # <<>>
      /\ scalars' = ScalarCandidates /\ frames' = <<Frame(1, 1, <<>>, <<>>)>>
      /\ UNCHANGED <<capacity, prior, probes, best_product, by_behavior, bundles>>
  BY DEF BeginActions, StartGeneration, Become
<1>2. Inputs(prior, probes, capacity) /\ DOMAIN best_product = {}
  BY <1>1 DEF GInv, EInv
<1> DEFINE f == Frame(1, 1, <<>>, <<>>)
           fs == <<f>>
           sc == ScalarCandidates
           none == [s \in DOMAIN prior |-> 1]
<1>3. Len(sc) \in Nat
  BY <1>2, ScalarsAreUndominated
<1>4. /\ Len(fs) = 1 /\ fs[1] = f
      /\ f.start = 1 /\ f.product = 1 /\ f.combined = <<>>
  BY DEF Frame
<1> HIDE DEF f, sc, fs
<1>5. KeyOf(prior, f) = none
  BY <1>4 DEF KeyOf
<1> HIDE DEF none
<1>6. AllMet(prior, probes, capacity, sc, by_behavior, fs)
  <2> SUFFICES ASSUME NEW E, NEW G, E # {},
                      CanJoin(prior, probes, capacity, sc, 1, 1, none, E, G)
               PROVE  IsMet(prior, probes, capacity, sc, by_behavior, fs, G, 1)
    BY DEF AllMet, none
  <2>1. Reaches(prior, probes, capacity, sc, f, G)
    BY <1>4, <1>5 DEF Reaches
  <2>2. 1 \in 1..Len(fs) /\ 1 <= fs[1].start /\ fs[1] = f
    BY <1>4
  <2>3. Reaches(prior, probes, capacity, sc, fs[1], G)
    BY <2>1, <2>2
  <2> QED BY <2>2, <2>3 DEF IsMet
<1>7. Covered(prior, probes, capacity, sc, best_product, by_behavior, fs)
  BY <1>2, <1>6 DEF Covered, MemoMet
<1>8. InOrder(sc, by_behavior, fs)
  <2>1. \A k \in 1..Len(fs) : fs[k].start = 1 /\ fs[k].combined = <<>>
    BY <1>4
  <2>2. \A j, k \in 1..Len(fs) : fs[j].start <= fs[k].start
    BY <2>1
  <2>3. 1 \in 1..(Len(sc) + 1)
    BY <1>3
  <2> QED BY <2>1, <2>2, <2>3 DEF InOrder
<1>9. scalars' = sc /\ frames' = fs /\ sc = ScalarCandidates'
  <2>1. ScalarCandidates' = ScalarCandidates
    BY <1>1, CandidatesStay
  <2> QED BY <1>1, <2>1 DEF sc, fs, f
<1>10. /\ Covered(prior, probes, capacity, scalars, best_product, by_behavior, frames)'
       /\ InOrder(scalars, by_behavior, frames)'
  BY <1>1, <1>7, <1>8, <1>9
<1>11. ActionsExhaustive'
  BY <1>1 DEF ActionsExhaustive, Exhausts
<1> QED BY <1>1, <1>9, <1>10, <1>11 DEF EInv

\* The actions are left when no call is.
LEMMA LastCallReturns ==
  ASSUME GInv, Generate, frames' = <<>>
  PROVE  /\ ReturnBundles
         /\ bundles' = Ordered(Rows, LAMBDA a, b : SeqLess(a.selected, b.selected))
<1>1. FramesSound(prior, probes, capacity, frames)
  BY DEF GInv
<1>2. frames # <<>>
  BY DEF Generate, PassOver, Select, ReturnBundles
<1> DEFINE a == Advanced(frames)
           N == Len(frames)
<1>3. N \in Nat \ {0} /\ Len(a) = N /\ IsStack(a) /\ IsStack(frames)
  <2>1. N \in Nat \ {0} /\ Len(a) = N /\ IsStack(a)
    BY <1>1, <1>2, AdvancedIs
  <2>2. IsStack(frames)
    BY <1>1 DEF FramesSound
  <2> QED BY <2>1, <2>2
<1>4. Len(frames') = 0
  OBVIOUS
<1> HIDE DEF a
<1>5. ~PassOver
  <2> SUFFICES ASSUME PassOver PROVE FALSE
    OBVIOUS
  <2>1. frames' = a
    BY DEF PassOver, a
  <2> QED BY <1>3, <1>4, <2>1
<1>6. ~Select
  <2> SUFFICES ASSUME Select PROVE FALSE
    OBVIOUS
  <2>1. frames' = a \/ \E g : frames' = Append(a, g)
    BY DEF Select, a
  <2>2. \A g : Len(Append(a, g)) = N + 1
    BY <1>3, StackPushed
  <2> QED BY <1>3, <1>4, <2>1, <2>2
<1>7. ReturnBundles
  BY <1>5, <1>6 DEF Generate
<1>8. N = 1
  <2>1. frames' = Front(frames)
    BY <1>7 DEF ReturnBundles
  <2>2. Len(Front(frames)) = N - 1
    BY <1>2, <1>3, StackPopped
  <2> QED BY <1>3, <1>4, <2>1, <2>2
<1>9. bundles' = Ordered(Rows, LAMBDA a1, b1 : SeqLess(a1.selected, b1.selected))
  <2>1. ~(Len(frames) > 1)
    BY <1>8
  <2> QED BY <1>7, <2>1 DEF ReturnBundles
<1> QED BY <1>7, <1>9

\* Everything promised is kept while the actions are generated, and they are exhaustive.
LEMMA GenerateCovers ==
  ASSUME GInv, EInv, Generate
  PROVE  EInv'
<1>1. /\ phase = "actions" /\ phase' = IF frames' = <<>> THEN "matrix" ELSE "actions"
      /\ PassOver \/ Select \/ ReturnBundles
  BY DEF Generate, Become
<1>2. /\ UNCHANGED <<prior, probes, capacity, scalars>>
      /\ PassOver \/ ReturnBundles => UNCHANGED <<best_product, by_behavior>>
  BY <1>1 DEF PassOver, Select, ReturnBundles
<1>3. /\ prior # <<>> /\ Inputs(prior, probes, capacity)
      /\ TableSound(prior, probes, capacity, by_behavior)
  BY <1>1 DEF GInv
<1>4. /\ scalars = ScalarCandidates
      /\ Covered(prior, probes, capacity, scalars, best_product, by_behavior, frames)
      /\ InOrder(scalars, by_behavior, frames)
  BY <1>1 DEF EInv
<1>5. /\ Covered(prior, probes, capacity, scalars, best_product', by_behavior', frames')
      /\ InOrder(scalars, by_behavior', frames')
  <2>1. CASE PassOver
    BY <1>2, <1>3, <1>4, <2>1, PassOverCovers
  <2>2. CASE Select
    BY <1>3, <1>4, <2>2, SelectCovers
  <2>3. CASE ReturnBundles
    BY <1>2, <1>3, <1>4, <2>3, ReturnCovers
  <2> QED BY <1>1, <2>1, <2>2, <2>3
<1>6. /\ ScalarCandidates' = ScalarCandidates
      /\ FittingBundles(Distinguishing)' = FittingBundles(Distinguishing)
      /\ \A v : PairOutcomes(v)' = PairOutcomes(v)
  BY <1>2, CandidatesStay
<1>7. CASE frames' # <<>>
  <2>1. phase' = "actions"
    BY <1>1, <1>7
  <2>2. scalars' = ScalarCandidates'
    BY <1>2, <1>4, <1>6
  <2>3. /\ Covered(prior, probes, capacity, scalars, best_product, by_behavior, frames)'
        /\ InOrder(scalars, by_behavior, frames)'
    BY <1>2, <1>5
  <2>4. ActionsExhaustive'
    BY <2>1 DEF ActionsExhaustive, Exhausts
  <2> QED BY <2>1, <2>2, <2>3, <2>4 DEF EInv
<1>8. CASE frames' = <<>>
  <2>1. phase' = "matrix"
    BY <1>1, <1>8
  <2>2. /\ ReturnBundles
        /\ bundles' = Ordered(Rows, LAMBDA a, b : SeqLess(a.selected, b.selected))
    BY <1>8, LastCallReturns
  <2>3. Covered(prior, probes, capacity, scalars, best_product, by_behavior, <<>>)
    BY <1>2, <1>5, <1>8, <2>2
  <2>4. \A x \in Rows : \E b \in DOMAIN bundles' : bundles'[b] = x
    <3> TAKE x \in Rows
    <3> DEFINE bs == bundles'
    <3>1. bs = Ordered(Rows, LAMBDA a, b : SeqLess(a.selected, b.selected))
      BY <2>2
    <3> HIDE DEF bs
    <3>2. \E b \in DOMAIN bs : bs[b] = x
      BY <1>3, <3>1, ActionsAreRows
    <3> QED BY <3>2 DEF bs
  <2>5. ASSUME NEW ps \in FittingBundles(Distinguishing)
        PROVE  \E b \in DOMAIN bundles' :
                 Refines(BehaviorKey(bundles'[b].outcomes),
                         BehaviorKey(PairOutcomes(BundleValues(ps))))
    <3>1. PICK x \in Rows :
            Refines(BehaviorKey(x.outcomes), BehaviorKey(PairOutcomes(BundleValues(ps))))
      BY <1>3, <1>4, <2>3, CoveredExhausts
    <3>2. PICK b \in DOMAIN bundles' : bundles'[b] = x
      BY <2>4
    <3> QED BY <3>1, <3>2
  <2>6. ActionsExhaustive'
    BY <1>6, <2>5 DEF ActionsExhaustive, Exhausts
  <2> QED BY <2>1, <2>6 DEF EInv
<1> QED BY <1>7, <1>8

\* Every step keeps it.
LEMMA ExhaustiveStep ==
  ASSUME GInv, EInv, [Next]_vars
  PROVE  EInv'
<1>1. CASE BeginActions
  BY <1>1, BeginCovers
<1>2. CASE Generate
  BY <1>2, GenerateCovers
<1>3. ASSUME phase' \notin {"cook", "actions", "matrix"}
      PROVE  EInv'
  BY <1>3 DEF EInv, ActionsExhaustive, Exhausts
<1>4. CASE CookNothing \/ NoActions \/ MixedScales \/ Tabulate
  <2>1. phase' \in {"cooked", "unseparable", "mixed_scales", "solve"}
    BY <1>4 DEF CookNothing, NoActions, MixedScales, Tabulate, Become
  <2> QED BY <1>3, <2>1
<1>5. CASE EmptyTests \/ StartSolve \/ Solve \/ Unseparable
  <2>1. phase' \in {"empty_tests", "solve", "solved", "unseparable"}
    BY <1>5 DEF EmptyTests, StartSolve, Solve, Unseparable, Become
  <2> QED BY <1>3, <2>1
<1>6. CASE BeginMaterialize \/ MaterializeNode \/ ValidateScheme
  <2>1. phase' \in {"materialize", "cooked", "invalid"}
    BY <1>6 DEF BeginMaterialize, MaterializeNode, ValidateScheme, Become
  <2> QED BY <1>3, <2>1
<1>7. CASE UNCHANGED vars
  <2>1. UNCHANGED actionVars /\ phase' = phase
    BY <1>7 DEF vars, buildVars
  <2>2. UNCHANGED <<prior, probes, capacity, scalars, best_product, by_behavior, frames, bundles>>
    BY <2>1 DEF actionVars
  <2>3. /\ ScalarCandidates' = ScalarCandidates
        /\ FittingBundles(Distinguishing)' = FittingBundles(Distinguishing)
        /\ \A v : PairOutcomes(v)' = PairOutcomes(v)
    BY <2>2, CandidatesStay
  <2>4. ActionsExhaustive'
    BY <2>1, <2>2, <2>3 DEF EInv, ActionsExhaustive, Exhausts
  <2> QED BY <2>1, <2>2, <2>3, <2>4 DEF EInv
<1> QED BY <1>1, <1>2, <1>4, <1>5, <1>6, <1>7 DEF Next

\* For every prior and all probes, generate_actions loses nothing of the probes that tell
\* the strings of some scenario apart: for whatever bundle of them fits the lexicon's
\* capacity there is an action that tells the scenarios apart at least as well.
THEOREM ActionsAreExhaustive == Spec => []ActionsExhaustive
<1>1. Init => EInv
  <2> SUFFICES ASSUME Init PROVE EInv
    OBVIOUS
  <2>1. phase \in {"cook", "solve"} /\ best_product = <<>>
    BY DEF Init, InitCook, InitSolve
  <2>2. DOMAIN best_product = {}
    BY <2>1
  <2>3. ActionsExhaustive
    BY <2>1 DEF ActionsExhaustive, Exhausts
  <2> QED BY <2>1, <2>2, <2>3 DEF EInv
<1>2. GInv /\ EInv /\ [Next]_vars => EInv'
  BY ExhaustiveStep
<1>3. EInv => ActionsExhaustive
  BY DEF EInv
<1> QED BY <1>1, <1>2, <1>3, GenerationInvariant, PTL DEF Spec
=============================================================================
