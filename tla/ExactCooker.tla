----------------------------- MODULE ExactCooker ------------------------------
(***************************************************************************)
(* The search for a decision tree of least expected depth                  *)
(* (cook/search.rs): dynamic programming over the sets of scenarios that   *)
(* can be left together.  A test divides such a state: what it resolves    *)
(* leaves, the others go on in one branch per value.  Every scenario of a  *)
(* state pays its weight once more.                                        *)
(*                                                                         *)
(* solve_state calls itself; its calls are `stack`, the innermost last.    *)
(***************************************************************************)
EXTENDS Integers, Sequences, SequencesExt, FiniteSets, FiniteSetsExt

VARIABLES
  weights,     \* the weight of each scenario
  tests,       \* per test, the pair of values it has on each scenario
  memo,        \* states solved: cost, and the node of their tree
  stack,       \* the calls of solve_state
  explored,    \* SearchStats
  solution     \* what solve returns, <<>> before

searchVars == <<weights, tests, memo, stack, explored, solution>>

-----------------------------------------------------------------------------
(* States.                                                                 *)

Weight(state) == MapThenSumSet(LAMBDA s : weights[s], state)

Collided(test, state) == {s \in state : tests[test][s].left = tests[test][s].right}

\* The branches of a state under a test: values to states.
Branches(test, state) ==
  [v \in {tests[test][s].left : s \in Collided(test, state)} |->
     {s \in Collided(test, state) : tests[test][s].left = v}]

\* Mutant: no test is passed over.
IsUselessNever(test, state) == FALSE

\* A test that leaves the whole state in one branch.
IsUseless(test, state) ==
  Collided(test, state) = state /\ Cardinality(DOMAIN Branches(test, state)) = 1

\* Mutant: what the test resolves, instead of what it leaves.
ResidualWeightSwapped(test, state) == Weight(state \ Collided(test, state))

ResidualWeight(test, state) == Weight(Collided(test, state))

MinResidualWeight(state) == Min({ResidualWeight(t, state) : t \in DOMAIN tests})

\* The scenarios of the whole problem.
Initial == {s \in DOMAIN weights : weights[s] # 0}

-----------------------------------------------------------------------------
(* Calls of solve_state.  A call looks at one test after the other; while  *)
(* it is trying one, todo is what is left of the test's branches, known by *)
(* their values, and total and children are what the others have come to.  *)

TreeNode(test, children) == [test_id |-> test, residual_branches |-> children]

Call(state) ==
  [state |-> state, test |-> 0, trying |-> FALSE, todo |-> {}, total |-> 0,
   children |-> <<>>, best |-> <<>>]

Trying(call) ==
  [call EXCEPT !.test = @ + 1, !.trying = TRUE,
               !.todo = DOMAIN Branches(call.test + 1, call.state),
               !.total = Weight(call.state), !.children = <<>>]

\* The branch whose turn it is, in ascending order of values: its value and its state.
Value(call) == Min(call.todo)
ChildState(call) == Branches(call.test, call.state)[Value(call)]

\* The call once its branch has been answered.
Answered(call, answer) ==
  [call EXCEPT !.todo = @ \ {Value(call)}, !.total = @ + answer.cost,
               !.children = [v \in DOMAIN @ \cup {Value(call)} |->
                               IF v = Value(call) THEN answer.node ELSE @[v]]]

Candidate(call) ==
  [cost |-> call.total, node |-> TreeNode(call.test, call.children)]

\* Mutant: the first test that separates the state is kept.
JudgedFirst(call) ==
  [call EXCEPT !.trying = FALSE, !.best = IF @ = <<>> THEN Candidate(call) ELSE @]

\* The call once a test has been tried: of equal costs the first stays.
Judged(call) ==
  [call EXCEPT !.trying = FALSE,
               !.best = IF @ = <<>> THEN Candidate(call)
                        ELSE IF call.total < @.cost THEN Candidate(call) ELSE @]

Replaced(calls, call) == [calls EXCEPT ![Len(calls)] = call]

Solution(cost, root, total, lower_bound, states) ==
  [cost |-> cost, root |-> root, total_weight |-> total, root_lower_bound |-> lower_bound,
   explored_states |-> explored, memoized_states |-> states]

-----------------------------------------------------------------------------
(* Steps.                                                                  *)

\* The outermost call: every scenario that weighs something.
StartSearch ==
  /\ Initial # {}
  /\ stack' = <<Call(Initial)>>
  /\ explored' = 1
  /\ UNCHANGED <<weights, tests, memo, solution>>

\* Nothing weighs anything: no tree.
SolveNothing ==
  /\ Initial = {}
  /\ solution' = Solution(0, <<>>, 0, 0, 0)
  /\ UNCHANGED <<weights, tests, memo, stack, explored>>

IsBetweenTests == stack # <<>> /\ ~Last(stack).trying

SkipTest ==
  /\ IsBetweenTests
  /\ LET call == Last(stack) IN
     /\ call.test < Len(tests)
     /\ IsUseless(call.test + 1, call.state)
     /\ stack' = Replaced(stack, [call EXCEPT !.test = @ + 1])
  /\ UNCHANGED <<weights, tests, memo, explored, solution>>

TryTest ==
  /\ IsBetweenTests
  /\ LET call == Last(stack) IN
     /\ call.test < Len(tests)
     /\ ~IsUseless(call.test + 1, call.state)
     /\ stack' = Replaced(stack, Trying(call))
  /\ UNCHANGED <<weights, tests, memo, explored, solution>>

IsAtBranch == stack # <<>> /\ Last(stack).trying /\ Last(stack).todo # {}

\* The memo has the state of the branch.
HitMemo ==
  /\ IsAtBranch
  /\ LET call == Last(stack) IN
     /\ ChildState(call) \in DOMAIN memo
     /\ stack' = Replaced(stack, Answered(call, memo[ChildState(call)]))
  /\ UNCHANGED <<weights, tests, memo, explored, solution>>

\* solve_state calls itself for the branch.
Explore ==
  /\ IsAtBranch
  /\ ChildState(Last(stack)) \notin DOMAIN memo
  /\ stack' = Append(stack, Call(ChildState(Last(stack))))
  /\ explored' = explored + 1
  /\ UNCHANGED <<weights, tests, memo, solution>>

JudgeTest ==
  /\ stack # <<>>
  /\ Last(stack).trying
  /\ Last(stack).todo = {}
  /\ stack' = Replaced(stack, Judged(Last(stack)))
  /\ UNCHANGED <<weights, tests, memo, explored, solution>>

\* Every test has been looked at.
IsExhausted == IsBetweenTests /\ Last(stack).test = Len(tests)

\* The call returns to the one that is waiting for its branch, or to solve.
ReturnBest ==
  /\ IsExhausted
  /\ Last(stack).best # <<>>
  /\ LET call == Last(stack)
         callers == Front(stack)
     IN /\ memo' = [state \in DOMAIN memo \cup {call.state} |->
                      IF state = call.state THEN call.best ELSE memo[state]]
        /\ IF callers = <<>>
           THEN /\ stack' = <<>>
                /\ solution' = Solution(call.best.cost, call.best.node, Weight(Initial),
                                        Weight(Initial) + MinResidualWeight(Initial),
                                        Cardinality(DOMAIN memo'))
           ELSE /\ stack' = Replaced(callers, Answered(Last(callers), call.best))
                /\ UNCHANGED solution
  /\ UNCHANGED <<weights, tests, explored>>

\* No test separates the state: every call returns the error.
IsUnseparable == IsExhausted /\ Last(stack).best = <<>>
=============================================================================
