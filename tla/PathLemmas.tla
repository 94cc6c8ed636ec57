----------------------------- MODULE PathLemmas -----------------------------
(***************************************************************************)
(* Facts about least elements, prefixes of sequences, insertion into and   *)
(* removal from a sequence, and lists, that the proofs cite.               *)
(***************************************************************************)
EXTENDS Integers, SequencesExt, FiniteSetTheorems, WellFoundedInduction, TLAPS

(***************************************************************************)
(* Least and greatest elements.                                            *)
(***************************************************************************)

\* A nonempty set of naturals has a least element.
LEMMA LeastNatural ==
  ASSUME NEW T \in SUBSET Nat, T # {}
  PROVE  \E x \in T : \A y \in T : x <= y
<1> DEFINE R == OpToRel(<, Nat)
<1>1. IsWellFoundedOn(R, Nat)
  BY NatLessThanWellFounded
<1>2. \A x, y \in Nat : y < x => <<y, x>> \in R
  BY DEF OpToRel
<1> HIDE DEF R
<1>3. PICK x \in T : \A y \in T : <<y, x>> \notin R
  BY <1>1, WFMin
<1>4. \A y \in T : ~(y < x)
  BY <1>2, <1>3
<1>5. QED
  BY <1>4

\* Induction: a set that has 0, and each successor of what it has, has all naturals.
LEMMA Induction ==
  ASSUME NEW S, 0 \in S, \A n \in Nat : n \in S => n + 1 \in S
  PROVE  \A n \in Nat : n \in S
<1> SUFFICES ASSUME Nat \ S # {}
             PROVE  FALSE
  OBVIOUS
<1>1. PICK x \in Nat \ S : \A y \in Nat \ S : x <= y
  <2>1. Nat \ S \in SUBSET Nat
    OBVIOUS
  <2> QED BY <2>1, LeastNatural
<1>2. x # 0 /\ x - 1 \in Nat
  BY <1>1
<1>3. x - 1 \in S
  BY <1>1, <1>2
<1> QED BY <1>1, <1>2, <1>3

\* Min and Max of a nonempty set of positions.
LEMMA MinOfPositions ==
  ASSUME NEW n \in Nat, NEW T \in SUBSET (1..n), T # {}
  PROVE  Min(T) \in T /\ \A y \in T : Min(T) <= y
<1>1. \E x \in T : \A y \in T : x <= y
  BY LeastNatural
<1>2. QED
  BY <1>1 DEF Min

\* The maximum of a set of numbers up to a bound.
LEMMA MaxOfLevels ==
  ASSUME NEW n \in Nat, NEW T \in SUBSET (0..n), T # {}
  PROVE  Max(T) \in T /\ \A y \in T : y <= Max(T)
<1> DEFINE U == {n - x : x \in T}
<1>1. \A x \in T : x \in Nat /\ n - x \in Nat
  OBVIOUS
<1> U \in SUBSET Nat /\ U # {}
  BY <1>1
<1>2. PICK u \in U : \A v \in U : u <= v
  BY LeastNatural
<1>3. PICK x \in T : u = n - x
  OBVIOUS
<1>4. \A y \in T : x >= y
  <2> TAKE y \in T
  <2>1. n - y \in U
    OBVIOUS
  <2>2. u <= n - y
    BY <1>2, <2>1
  <2>3. QED
    BY <1>3, <2>2
<1>5. QED
  BY <1>4 DEF Max

\* The maximum of a set of positions.
LEMMA MaxOfPositions ==
  ASSUME NEW n \in Nat, NEW T \in SUBSET (1..n), T # {}
  PROVE  Max(T) \in T /\ \A y \in T : y <= Max(T)
<1>1. T \in SUBSET (0..n)
  OBVIOUS
<1> QED BY <1>1, MaxOfLevels

(***************************************************************************)
(* Prefixes.                                                               *)
(***************************************************************************)

\* The prefix relation, element by element.
LEMMA PrefixDef ==
  ASSUME NEW S, NEW p \in Seq(S), NEW q \in Seq(S)
  PROVE  IsPrefix(p, q) <=> Len(p) <= Len(q) /\ \A i \in 1..Len(p) : p[i] = q[i]
BY DEF IsPrefix

\* The first k elements of a sequence are a prefix of it.
LEMMA SubSeqIsPrefix ==
  ASSUME NEW S, NEW q \in Seq(S), NEW k \in 0..Len(q)
  PROVE  /\ SubSeq(q, 1, k) \in Seq(S)
         /\ Len(SubSeq(q, 1, k)) = k
         /\ IsPrefix(SubSeq(q, 1, k), q)
         /\ \A i \in 1..k : SubSeq(q, 1, k)[i] = q[i]
BY DEF IsPrefix

\* A prefix is the subsequence of its length.
LEMMA PrefixIsSubSeq ==
  ASSUME NEW S, NEW p \in Seq(S), NEW q \in Seq(S), IsPrefix(p, q)
  PROVE  Len(p) \in 0..Len(q) /\ p = SubSeq(q, 1, Len(p))
BY PrefixDef

\* A sequence is a prefix of itself.
LEMMA PrefixReflexive ==
  ASSUME NEW S, NEW p \in Seq(S)
  PROVE  IsPrefix(p, p)
BY PrefixDef

\* A prefix of a prefix is a prefix.
LEMMA PrefixTransitive ==
  ASSUME NEW S, NEW p \in Seq(S), NEW q \in Seq(S), NEW r \in Seq(S),
         IsPrefix(p, q), IsPrefix(q, r)
  PROVE  IsPrefix(p, r)
BY PrefixDef

\* Two prefixes of one sequence: the shorter is a prefix of the longer.
LEMMA PrefixesCompare ==
  ASSUME NEW S, NEW p \in Seq(S), NEW q \in Seq(S), NEW r \in Seq(S),
         IsPrefix(p, r), IsPrefix(q, r), Len(p) <= Len(q)
  PROVE  IsPrefix(p, q) /\ (Len(p) = Len(q) => p = q)
BY PrefixDef

(***************************************************************************)
(* Insertion and removal.                                                  *)
(***************************************************************************)

\* The elements of a concatenation.
LEMMA ConcatElements ==
  ASSUME NEW S, NEW s \in Seq(S), NEW t \in Seq(S)
  PROVE  /\ s \o t \in Seq(S)
         /\ Len(s \o t) = Len(s) + Len(t)
         /\ \A i \in 1..Len(s) : (s \o t)[i] = s[i]
         /\ \A i \in 1..Len(t) : (s \o t)[Len(s) + i] = t[i]
OBVIOUS

\* A sequence with one element replaced.
LEMMA UpdateAt ==
  ASSUME NEW S, NEW s \in Seq(S), NEW i \in 1..Len(s), NEW e \in S
  PROVE  /\ [s EXCEPT ![i] = e] \in Seq(S)
         /\ Len([s EXCEPT ![i] = e]) = Len(s)
         /\ \A k \in 1..Len(s) : [s EXCEPT ![i] = e][k] = IF k = i THEN e ELSE s[k]
OBVIOUS

\* A sequence with two more elements.
LEMMA ConcatPair ==
  ASSUME NEW S, NEW s \in Seq(S), NEW x \in S, NEW y \in S
  PROVE  /\ s \o <<x, y>> \in Seq(S)
         /\ Len(s \o <<x, y>>) = Len(s) + 2
         /\ \A i \in 1..Len(s) : (s \o <<x, y>>)[i] = s[i]
         /\ (s \o <<x, y>>)[Len(s) + 1] = x
         /\ (s \o <<x, y>>)[Len(s) + 2] = y
OBVIOUS

\* Appending an element concatenates a sequence of one (Vec::push).
LEMMA AppendIsConcatenation ==
  ASSUME NEW S, NEW s \in Seq(S), NEW e \in S
  PROVE  /\ Append(s, e) = s \o <<e>>
         /\ Append(s, e) \in Seq(S)
OBVIOUS

\* InsertAt moves the elements from pos on one place up (Vec::insert).
LEMMA InsertAtProperties ==
  ASSUME NEW S, NEW s \in Seq(S), NEW pos \in 1..(Len(s) + 1), NEW e \in S
  PROVE  /\ InsertAt(s, pos, e) \in Seq(S)
         /\ Len(InsertAt(s, pos, e)) = Len(s) + 1
         /\ InsertAt(s, pos, e)[pos] = e
         /\ \A i \in 1..Len(s) :
              InsertAt(s, pos, e)[IF i >= pos THEN i + 1 ELSE i] = s[i]
<1> DEFINE a == SubSeq(s, 1, pos - 1)
           z == SubSeq(s, pos, Len(s))
           ae == a \o <<e>>
<1>1. a \in Seq(S) /\ Len(a) = pos - 1 /\ \A i \in 1..(pos - 1) : a[i] = s[i]
  OBVIOUS
<1>2. /\ z \in Seq(S) /\ Len(z) = Len(s) + 1 - pos
      /\ \A i \in 1..(Len(s) + 1 - pos) : z[i] = s[i + pos - 1]
  OBVIOUS
<1> HIDE DEF a, z
<1>3. /\ ae \in Seq(S) /\ Len(ae) = pos /\ ae[pos] = e
      /\ \A i \in 1..(pos - 1) : ae[i] = s[i]
  BY <1>1
<1> HIDE DEF ae
<1>4. InsertAt(s, pos, e) = ae \o z
  BY DEF InsertAt, a, z, ae
<1> DEFINE r == ae \o z
<1>5. /\ r \in Seq(S)
      /\ Len(r) = Len(ae) + Len(z)
      /\ \A i \in 1..Len(ae) : r[i] = ae[i]
      /\ \A i \in 1..Len(z) : r[Len(ae) + i] = z[i]
  BY <1>2, <1>3, ConcatElements
<1> HIDE DEF r
<1>6. ASSUME NEW i \in 1..Len(s), i >= pos
      PROVE  r[i + 1] = s[i]
  <2>1. i + 1 - pos \in 1..Len(z) /\ Len(ae) + (i + 1 - pos) = i + 1
    BY <1>2, <1>3, <1>6
  <2>2. (i + 1 - pos) + pos - 1 = i
    OBVIOUS
  <2>3. z[i + 1 - pos] = s[i]
    BY <1>2, <2>1, <2>2
  <2>4. r[Len(ae) + (i + 1 - pos)] = z[i + 1 - pos]
    BY <1>5, <2>1
  <2>5. QED
    BY <2>1, <2>3, <2>4
<1>7. ASSUME NEW i \in 1..Len(s), i < pos
      PROVE  r[i] = s[i]
  BY <1>3, <1>5, <1>7
<1>8. r[pos] = e /\ Len(r) = Len(s) + 1
  BY <1>2, <1>3, <1>5
<1>9. QED
  BY <1>4, <1>5, <1>6, <1>7, <1>8 DEF r

\* The same, as one predicate of the operands.
InsertionAt(S, s, pos, e) ==
    /\ InsertAt(s, pos, e) \in Seq(S)
    /\ Len(InsertAt(s, pos, e)) = Len(s) + 1
    /\ InsertAt(s, pos, e)[pos] = e
    /\ \A i \in 1..Len(s) :
         InsertAt(s, pos, e)[IF i >= pos THEN i + 1 ELSE i] = s[i]

LEMMA InsertAtInserts ==
  ASSUME NEW S, NEW s \in Seq(S), NEW pos \in 1..(Len(s) + 1), NEW e \in S
  PROVE  InsertionAt(S, s, pos, e)
BY InsertAtProperties DEF InsertionAt

\* RemoveAt moves the elements after pos one place down (Vec::remove).
LEMMA RemoveAtProperties ==
  ASSUME NEW S, NEW s \in Seq(S), NEW pos \in 1..Len(s)
  PROVE  /\ RemoveAt(s, pos) \in Seq(S)
         /\ Len(RemoveAt(s, pos)) = Len(s) - 1
         /\ \A i \in 1..Len(s) : i # pos =>
              RemoveAt(s, pos)[IF i > pos THEN i - 1 ELSE i] = s[i]
<1> DEFINE a == SubSeq(s, 1, pos - 1)
           z == SubSeq(s, pos + 1, Len(s))
<1>1. a \in Seq(S) /\ Len(a) = pos - 1 /\ \A i \in 1..(pos - 1) : a[i] = s[i]
  OBVIOUS
<1>2. /\ z \in Seq(S) /\ Len(z) = Len(s) - pos
      /\ \A i \in 1..(Len(s) - pos) : z[i] = s[i + pos]
  OBVIOUS
<1> HIDE DEF a, z
<1> DEFINE r == a \o z
<1>3. RemoveAt(s, pos) = r
  BY DEF RemoveAt, a, z
<1> a \in Seq(S) /\ z \in Seq(S)
  BY <1>1, <1>2
<1>4. /\ r \in Seq(S)
      /\ Len(r) = Len(a) + Len(z)
      /\ \A i \in 1..Len(a) : r[i] = a[i]
      /\ \A i \in 1..Len(z) : r[Len(a) + i] = z[i]
  BY ConcatElements
<1> HIDE DEF r
<1>5. ASSUME NEW i \in 1..Len(s), i > pos
      PROVE  r[i - 1] = s[i]
  <2>1. i - pos \in 1..Len(z) /\ Len(a) + (i - pos) = i - 1
    BY <1>1, <1>2, <1>5
  <2>2. (i - pos) + pos = i
    OBVIOUS
  <2>3. z[i - pos] = s[i]
    BY <1>2, <2>1, <2>2
  <2>4. r[Len(a) + (i - pos)] = z[i - pos]
    BY <1>4, <2>1
  <2>5. QED
    BY <2>1, <2>3, <2>4
<1>6. ASSUME NEW i \in 1..Len(s), i < pos
      PROVE  r[i] = s[i]
  BY <1>1, <1>4, <1>6
<1>7. Len(r) = Len(s) - 1
  BY <1>1, <1>2, <1>4
<1>8. \A i \in 1..Len(s) : i # pos => r[IF i > pos THEN i - 1 ELSE i] = s[i]
  <2> TAKE i \in 1..Len(s)
  <2>1. CASE i > pos  BY <2>1, <1>5
  <2>2. CASE i < pos  BY <2>2, <1>6
  <2>3. QED  BY <2>1, <2>2
<1>9. QED
  BY <1>3, <1>4, <1>7, <1>8

(***************************************************************************)
(* Lists: sequences of whatever their elements are.                        *)
(***************************************************************************)

IsList(s) == s \in Seq({s[i] : i \in DOMAIN s})

\* A sequence over any set is a list, and a list is one over any set that has its elements.
LEMMA ListDef ==
  /\ \A S : \A s \in Seq(S) : IsList(s)
  /\ \A s : IsList(s) => Len(s) \in Nat /\ DOMAIN s = 1..Len(s)
  /\ \A s, S : IsList(s) /\ (\A i \in 1..Len(s) : s[i] \in S) => s \in Seq(S)
<1>1. ASSUME NEW S, NEW s \in Seq(S)
      PROVE  IsList(s)
  BY DEF IsList
<1>2. ASSUME NEW s, IsList(s)
      PROVE  Len(s) \in Nat /\ DOMAIN s = 1..Len(s)
  BY <1>2 DEF IsList
<1>3. ASSUME NEW s, NEW S, IsList(s), \A i \in 1..Len(s) : s[i] \in S
      PROVE  s \in Seq(S)
  <2>1. DOMAIN s = 1..Len(s) /\ Len(s) \in Nat
    BY <1>2, <1>3
  <2> QED BY <1>3, <2>1 DEF IsList
<1> QED BY <1>1, <1>2, <1>3

\* A list with one more element.
LEMMA ListAppend ==
  ASSUME NEW s, IsList(s), NEW x
  PROVE  LET r == Append(s, x)
         IN /\ IsList(r) /\ Len(r) = Len(s) + 1
            /\ \A i \in 1..Len(s) : r[i] = s[i]
            /\ r[Len(s) + 1] = x
<1> DEFINE S == {s[i] : i \in DOMAIN s} \cup {x}
<1>1. s \in Seq(S)
  BY ListDef
<1> HIDE DEF S
<1>2. Append(s, x) \in Seq(S)
  BY <1>1, x \in S DEF S
<1>3. IsList(Append(s, x))
  BY <1>2, ListDef
<1> QED BY <1>1, <1>3
=============================================================================
