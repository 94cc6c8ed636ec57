--------------------------- MODULE FixedPointPriors ---------------------------
(***************************************************************************)
(* Scenarios of a prior, and the prior made of a table of pairs            *)
(* (prior/ctm.rs).  The strings of a pair are numbers here, in the order   *)
(* of Vec<u32>.                                                            *)
(***************************************************************************)
EXTENDS Integers, Sequences, SequencesExt, FiniteSets

Scenario(left, right, units, fractional_bits) ==
  [left |-> left, right |-> right, units |-> units, fractional_bits |-> fractional_bits]

\* The order of Vec: element by element, a prefix first.
SeqLess(a, b) ==
  \/ IsStrictPrefix(a, b)
  \/ \E k \in DOMAIN a \cap DOMAIN b : a[k] < b[k] /\ \A j \in 1..(k - 1) : a[j] = b[j]

\* The elements of a finite set in a strict order: before the k-th come k - 1 others.
\* (SetToSortSeq would do, but it ends in SortSeq, which only TLC knows.)
Ordered(S, Less(_, _)) ==
  [k \in 1..Cardinality(S) |-> CHOOSE x \in S : Cardinality({y \in S : Less(y, x)}) = k - 1]

Pair(row) == IF row.right < row.left THEN <<row.right, row.left>> ELSE <<row.left, row.right>>

IsKept(row) == row.units # 0 /\ row.left # row.right

RowsOf(rows, pair) == {i \in DOMAIN rows : IsKept(rows[i]) /\ Pair(rows[i]) = pair}

\* Mutant: of rows with the same pair the last one counts.
MergedUnitsLast(rows, pair) == rows[Max(RowsOf(rows, pair))].units

MergedUnits(rows, pair) == MapThenSumSet(LAMBDA i : rows[i].units, RowsOf(rows, pair))

\* from_fixed_point_scenarios: one scenario per pair, in order.
Shaped(rows, fractional_bits) ==
  LET pairs == {Pair(rows[i]) : i \in {j \in DOMAIN rows : IsKept(rows[j])}}
      order == Ordered(pairs, SeqLess)
  IN [k \in DOMAIN order |->
        Scenario(order[k][1], order[k][2], MergedUnits(rows, order[k]), fractional_bits)]
=============================================================================
