----------------------------- MODULE CookActions ------------------------------
(***************************************************************************)
(* The candidate actions of the cooker (cook/actions.rs).  A prior is a    *)
(* list of scenarios, pairs of strings with a weight.  A scalar probe is   *)
(* the values it has on the strings, which field and point give them is of *)
(* no matter here; an action is a bundle of scalars whose values form one  *)
(* mixed-radix atom.  Actions count by their behavior alone: which         *)
(* scenarios they resolve, and how they divide the others.                 *)
(*                                                                         *)
(* enumerate_bundles calls itself; its calls are the stack `frames`.       *)
(***************************************************************************)
EXTENDS FixedPointPriors

CONSTANT Strings   \* the strings of a prior, as numbers in the order of Vec<u32>

ASSUME StringsAssumption == Strings \subseteq Nat

VARIABLES
  capacity,      \* the number of atoms of the lexicon
  prior,         \* the scenarios
  probes,        \* every scalar probe of the fields that fit, in order of scalar_key
  scalars,       \* the probes that generate_scalar_candidates keeps
  frames,        \* the calls of enumerate_bundles, the innermost last
  best_product,  \* memo: the least product seen with a start and a behavior
  by_behavior,   \* the representative of each behavior
  bundles        \* the actions, in order of bundle_key

actionVars == <<capacity, prior, probes, scalars, frames, best_product, by_behavior, bundles>>

-----------------------------------------------------------------------------
(* Outcomes and behaviors.                                                 *)

Probe(cardinality, values) == [cardinality |-> cardinality, values |-> values]

\* The values of a function on strings, scenario by scenario.
PairOutcomes(values) ==
  [s \in DOMAIN prior |-> [left |-> values[prior[s].left], right |-> values[prior[s].right]]]

Collides(outcome) == outcome.left = outcome.right

RESOLVED == 0

\* behavior_key: scenarios left together are named by the first of them.
BehaviorKey(outcomes) ==
  [s \in DOMAIN outcomes |->
     IF ~Collides(outcomes[s]) THEN RESOLVED
     ELSE CHOOSE t \in 1..s : /\ Collides(outcomes[t]) /\ outcomes[t] = outcomes[s]
                              /\ \A r \in 1..(t - 1) : outcomes[r] # outcomes[s]]

\* behavior_refines: what b resolves a resolves, and what a leaves together b does.
Refines(a, b) ==
  /\ DOMAIN a = DOMAIN b
  /\ \A s \in DOMAIN a : b[s] = RESOLVED => a[s] = RESOLVED
  /\ \A s, t \in DOMAIN a : a[s] = a[t] /\ a[s] # RESOLVED => b[s] = b[t]

\* The values of a bundle: those of its scalars, as digits of a mixed radix.
BundleValues(ps) ==
  [x \in Strings |-> FoldLeft(LAMBDA rank, p : rank * p.cardinality + p.values[x], 0, ps)]

BundleCardinality(ps) == FoldLeft(LAMBDA n, p : n * p.cardinality, 1, ps)

-----------------------------------------------------------------------------
(* generate_scalar_candidates.  Probes are known by their places in probes, *)
(* whose order is that of scalar_key.                                       *)

ProbeBehavior(i) == BehaviorKey(PairOutcomes(probes[i].values))

Distinguishing ==
  {i \in DOMAIN probes : \E s \in DOMAIN prior : ~Collides(PairOutcomes(probes[i].values)[s])}

\* Smaller in order of (cardinality, scalar_key).
IsCheaper(i, j) ==
  \/ probes[i].cardinality < probes[j].cardinality
  \/ probes[i].cardinality = probes[j].cardinality /\ i < j

\* The cheapest probe of each behavior.
Representatives ==
  {i \in Distinguishing :
     ~ \E j \in Distinguishing : IsCheaper(j, i) /\ ProbeBehavior(j) = ProbeBehavior(i)}

\* Mutant: a probe that refines another one removes it whatever it costs.
UndominatedAtAnyCost ==
  {i \in Representatives :
     ~ \E j \in Representatives \ {i} : Refines(ProbeBehavior(j), ProbeBehavior(i))}

\* The probes that no other one refines at no higher cost.
Undominated ==
  {i \in Representatives :
     ~ \E j \in Representatives \ {i} : /\ probes[j].cardinality <= probes[i].cardinality
                                        /\ Refines(ProbeBehavior(j), ProbeBehavior(i))}

ScalarCandidates == Ordered(Undominated, <)

-----------------------------------------------------------------------------
(* enumerate_bundles.                                                       *)

ProbesOf(selected) == [k \in DOMAIN selected |-> probes[selected[k]]]

Frame(start, product, selected, combined) ==
  [start |-> start, product |-> product, selected |-> selected, combined |-> combined]

\* Mutant: the digits in the wrong order.
CombineSwapped(combined, i) ==
  LET outcomes == PairOutcomes(probes[i].values)
      Digit(old, new) == new * probes[i].cardinality + old
  IN IF combined = <<>> THEN outcomes
     ELSE [s \in DOMAIN prior |-> [left  |-> Digit(combined[s].left, outcomes[s].left),
                                   right |-> Digit(combined[s].right, outcomes[s].right)]]

\* The outcomes of the selection with one more probe; combined is <<>> at first.
Combine(combined, i) ==
  LET outcomes == PairOutcomes(probes[i].values)
      Digit(old, new) == old * probes[i].cardinality + new
  IN IF combined = <<>> THEN outcomes
     ELSE [s \in DOMAIN prior |-> [left  |-> Digit(combined[s].left, outcomes[s].left),
                                   right |-> Digit(combined[s].right, outcomes[s].right)]]

\* A representative is replaced by one of a smaller product, or a smaller key
\* (bundle_key: the sequence of the places).
IsBetter(row, old) ==
  \/ row.product < old.product
  \/ row.product = old.product /\ SeqLess(row.selected, old.selected)

Put(f, x, y) == [z \in DOMAIN f \cup {x} |-> IF z = x THEN y ELSE f[z]]

\* A call returns at once if the memo has its state at no higher product, ...
IsPruned(start, behavior, product) ==
  /\ <<start, behavior>> \in DOMAIN best_product
  /\ best_product[<<start, behavior>>] <= product

\* ... or if there is nothing left to resolve.
IsResolved(behavior) == \A s \in DOMAIN behavior : behavior[s] = RESOLVED

\* The loop of the innermost call goes on to the next scalar.
Advanced(fs) == [fs EXCEPT ![Len(fs)].start = @ + 1]

StartGeneration ==
  /\ scalars' = ScalarCandidates
  /\ frames' = <<Frame(1, 1, <<>>, <<>>)>>
  /\ UNCHANGED <<capacity, prior, probes, best_product, by_behavior, bundles>>

\* The scalar does not fit, or does not refine the selection.
PassOver ==
  /\ frames # <<>>
  /\ LET f == Last(frames) IN
     /\ f.start <= Len(scalars)
     /\ LET i == scalars[f.start] IN
        \/ f.product * probes[i].cardinality > capacity
        \/ f.combined # <<>> /\ BehaviorKey(Combine(f.combined, i)) = BehaviorKey(f.combined)
  /\ frames' = Advanced(frames)
  /\ UNCHANGED <<capacity, prior, probes, scalars, best_product, by_behavior, bundles>>

\* The scalar joins the selection: a row for its behavior, and a call of
\* enumerate_bundles for the scalars after it.
Select ==
  /\ frames # <<>>
  /\ LET f == Last(frames)
         i == scalars[f.start]
         product == f.product * probes[i].cardinality
         outcomes == Combine(f.combined, i)
         behavior == BehaviorKey(outcomes)
         row == [selected |-> Append(f.selected, i), product |-> product, outcomes |-> outcomes]
         next == f.start + 1
     IN /\ f.start <= Len(scalars)
        /\ product <= capacity
        /\ f.combined = <<>> \/ behavior # BehaviorKey(f.combined)
        /\ by_behavior' =
             IF behavior \notin DOMAIN by_behavior \/ IsBetter(row, by_behavior[behavior])
             THEN Put(by_behavior, behavior, row) ELSE by_behavior
        /\ best_product' = IF IsPruned(next, behavior, product) THEN best_product
                           ELSE Put(best_product, <<next, behavior>>, product)
        /\ frames' = IF IsPruned(next, behavior, product) \/ IsResolved(behavior)
                     THEN Advanced(frames)
                     ELSE Append(Advanced(frames), Frame(next, product, row.selected, outcomes))
  /\ UNCHANGED <<capacity, prior, probes, scalars, bundles>>

\* The actions no other one refines, in order of their bundles.
Rows ==
  {by_behavior[b] : b \in {c \in DOMAIN by_behavior :
                             ~ \E d \in DOMAIN by_behavior \ {c} : Refines(d, c)}}

\* A call returns; the outermost one leaves the actions.
ReturnBundles ==
  /\ frames # <<>>
  /\ Last(frames).start > Len(scalars)
  /\ frames' = Front(frames)
  /\ bundles' = IF Len(frames) > 1 THEN bundles
                ELSE Ordered(Rows, LAMBDA a, b : SeqLess(a.selected, b.selected))
  /\ UNCHANGED <<capacity, prior, probes, scalars, best_product, by_behavior>>
=============================================================================
