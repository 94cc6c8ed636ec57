------------------------------- MODULE MCCooker -------------------------------
(***************************************************************************)
(* Instances of Cooker for TLC.                                            *)
(***************************************************************************)
EXTENDS CookerProperties

FiveStrings == 1..5

-----------------------------------------------------------------------------
(* Probes.                                                                 *)

\* A probe of two values, by the bits of a number: the first string has the value 0.
Binary(k) == Probe(2, [x \in Strings |-> IF x = 1 THEN 0 ELSE (k \div 2^(x - 2)) % 2])

\* Probes of the fields of four and of three elements.
Quaternary(m) == Probe(4, [x \in Strings |-> (x + x \div m) % 4])
Ternary(m) == Probe(3, [x \in Strings |-> (x \div m) % 3])

\* Probe lists by capacity: of the fields that fit it, in an order that scalar_key can
\* have, in which the field of four elements comes before that of three.  Some probes
\* come twice, or before and after one that refines them.
ProbeLists(n) ==
  CASE n = 2 -> {<<Binary(k[1]), Binary(k[2]), Binary(k[3])>> :
                           k \in {l \in [1..3 -> 1..15] : l[1] < l[2] /\ l[2] < l[3]}}
    [] n = 3 -> {<<Binary(j), Binary(k), Ternary(m)>> : j \in {1, 6, 9}, k \in 1..15, m \in 1..3}
    [] n = 4 -> {<<Binary(j), Binary(k), Quaternary(m), Ternary(l)>> :
                           j, k \in 1..7, m \in 1..3, l \in 1..3}
    [] n = 8 -> {<<Binary(j), Binary(k), Binary(l), Ternary(m)>> :
                           j, k, l \in {1, 2, 4, 9, 12}, m \in {2, 3}}

-----------------------------------------------------------------------------
(* What is cooked.                                                         *)

Row(left, right, units) == Scenario(left, right, units, 96)

\* Rows to be shaped: some repeat a pair in both orders, weigh nothing, or have one
\* string twice.
RawTables ==
  {<<Row(1, 2, 2), Row(1, 3, 3), Row(2, 3, 1), Row(3, 4, 5), Row(4, 5, 1), Row(2, 5, 2)>>,
   <<Row(2, 1, 2), Row(1, 3, 0), Row(1, 2, 3), Row(4, 4, 7), Row(2, 4, 1), Row(3, 4, 1)>>}

\* Rows that are left as they are: a pair twice, weights of zero, no row at all; rows that
\* nothing separates; two scales.
PlainTables ==
  {<<Row(5, 1, 2), Row(1, 5, 1), Row(2, 3, 0), Row(3, 4, 1)>>,
   <<>>, <<Row(1, 3, 0)>>, <<Row(1, 2, 1), Row(3, 3, 1)>>,
   <<Row(1, 2, 1), Scenario(1, 3, 1, 8)>>}

\* Rows of plain pairs, and two probes of which the first tells none of them apart, but
\* divides those that the second, which resolves one of them, leaves.
Agreeing == <<Row(1, 2, 1), Row(3, 4, 1), Row(1, 5, 1)>>
Dividing == <<Binary(6), Binary(8)>>

Cook(shape, rows, n, ps) == [shape |-> shape, rows |-> rows, capacity |-> n, probes |-> ps]

Cooks ==
  UNION {{Cook(TRUE, rows, n, ps) : rows \in RawTables, ps \in ProbeLists(n)} :
           n \in {2, 3, 4, 8}} \cup
  {Cook(FALSE, rows, 2, ps) : rows \in PlainTables,
                              ps \in {<<>>, <<Binary(1), Binary(6), Binary(12)>>}} \cup
  {Cook(FALSE, Agreeing, 4, Dividing \o ps) :
     ps \in {<<>>, <<Ternary(1)>>, <<Ternary(2), Ternary(3)>>, <<Binary(12), Quaternary(2)>>}}

\* The bundle of the two probes is one that no action makes up for.
Skipping == {Cook(FALSE, Agreeing, 4, Dividing)}

\* Outcomes of a test on a scenario: resolved, or left with one of two values.
Pairs == {[left |-> 0, right |-> 1], [left |-> 0, right |-> 0], [left |-> 1, right |-> 1]}

\* Tests that no generation has looked at: useless, dominated, and alike.
Solves ==
  {[weights |-> <<1, 2, 3>>, tests |-> ts] :
     ts \in UNION {[1..k -> [1..3 -> Pairs]] : k \in 0..2}} \cup
  {[weights |-> <<2, 0, 1, 1>>, tests |-> ts] : ts \in [1..2 -> [1..4 -> Pairs]]}
=============================================================================
