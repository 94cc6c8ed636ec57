--------------------------- MODULE CookerProperties ---------------------------
(***************************************************************************)
(* What the cooker promises.                                               *)
(***************************************************************************)
EXTENDS Cooker

Phases == {"cook", "actions", "matrix", "solve", "solved", "materialize", "cooked",
           "unseparable", "mixed_scales", "empty_tests", "invalid"}

Outcome(limit) == [left : 0..(limit - 1), right : 0..(limit - 1)]

\* A table of outcomes: a pair of values per test and scenario.
TestsTyped ==
  /\ weights \in Seq(Nat)
  /\ tests \in Seq([DOMAIN weights -> [left : Nat, right : Nat]])

\* The types of the state.  Outcomes stay below the product of the bundle, and that
\* within the capacity: no atom is cut to u32, and none lies outside the lexicon.
\* What is written down is always a scheme that validates.
TypeOK ==
  /\ phase \in Phases \ {"invalid"}
  /\ \A k \in DOMAIN frames : frames[k].product \in 1..capacity
  /\ \A b \in DOMAIN by_behavior :
       /\ by_behavior[b].product \in 1..capacity
       /\ by_behavior[b].outcomes \in [DOMAIN prior -> Outcome(by_behavior[b].product)]
  /\ TestsTyped
  /\ DOMAIN memo \subseteq (SUBSET Initial) \ {{}}
  /\ \A k \in DOMAIN stack : stack[k].state \in (SUBSET Initial) \ {{}}
  /\ \A k \in DOMAIN stack : stack[k].test \in 0..Len(tests)

-----------------------------------------------------------------------------
(* Actions.                                                                *)

\* Every bundle that fits the capacity, of any of the probes.
FittingBundles(candidates) ==
  {ps \in {ProbesOf(Ordered(chosen, <)) : chosen \in (SUBSET candidates) \ {{}}} :
     BundleCardinality(ps) <= capacity}

IsDistinguishing(outcomes) == \E s \in DOMAIN outcomes : ~Collides(outcomes[s])

\* Whatever bundle of these probes somebody puts together that fits, one of the actions
\* tells the scenarios apart at least as well.  The table made from the bundles is the
\* one the enumeration worked with.
Exhausts(candidates) ==
  phase = "matrix" =>
    \A ps \in FittingBundles(candidates) :
      LET outcomes == PairOutcomes(BundleValues(ps)) IN
      IsDistinguishing(outcomes) =>
        \E b \in DOMAIN bundles : Refines(BehaviorKey(bundles[b].outcomes), BehaviorKey(outcomes))

\* generate_actions loses nothing of the probes that tell the strings of some scenario
\* apart, although most of them and most bundles are dropped on the way: by behavior, by
\* domination, and by the memo of enumerate_bundles.
ActionsExhaustive == Exhausts(Distinguishing)

\* "Bundle enumeration is exhaustive under the lexicon-capacity product bound", as the
\* comment at cook/actions.rs:7 has it, for bundles of any scalar probes.
BundlesExhaustive == Exhausts(DOMAIN probes)

-----------------------------------------------------------------------------
(* The search.                                                             *)

NoTree == -1

\* The tests that a tree of a state can begin with: they divide it, and each of their
\* branches has a tree.
Openings(cost, state) ==
  {t \in DOMAIN tests :
     \A v \in DOMAIN Branches(t, state) : /\ Branches(t, state)[v] # state
                                          /\ cost[Branches(t, state)[v]] # NoTree}

\* The least cost of a tree that begins with a test.
CostFrom(cost, test, state) ==
  LET costs == [v \in DOMAIN Branches(test, state) |-> cost[Branches(test, state)[v]]]
  IN Weight(state) + MapThenSumSet(LAMBDA v : costs[v], DOMAIN costs)

LeastCost(cost, state) ==
  IF state = {} THEN 0
  ELSE IF Openings(cost, state) = {} THEN NoTree
  ELSE Min({CostFrom(cost, t, state) : t \in Openings(cost, state)})

\* The least cost of a tree for a state, by the definition: no memo, and a test that
\* cannot separate one of its branches is no reason to give up.  A tree can do without
\* a test that leaves a state as it was.
Optimum(whole) ==
  LET cost[state \in SUBSET whole] == LeastCost(cost, state)
  IN cost[whole]

\* Each cost that the search remembers is the least one, and it gives up only if no
\* tree resolves every scenario, although it lets go as soon as one branch of one test
\* cannot be separated.
SearchExact ==
  /\ phase = "solved" => \A state \in DOMAIN memo : memo[state].cost = Optimum(state)
  /\ phase = "unseparable" /\ tests # <<>> => Optimum(Initial) = NoTree

\* A call works on fewer scenarios than its caller, and never on a state that has been
\* solved: the recursion of solve_state ends, and no state is explored twice.
StatesShrink ==
  /\ \A i, j \in DOMAIN stack : i < j => /\ stack[j].state \subseteq stack[i].state
                                         /\ stack[j].state # stack[i].state
  /\ \A i \in DOMAIN stack : stack[i].state \notin DOMAIN memo
  /\ explored = Cardinality(DOMAIN memo) + Len(stack)

\* The certificate: the lower bound of the first step lies between the total weight and
\* the cost, and the search has explored what it remembers.
CertificateSound ==
  phase = "solved" =>
    /\ solution.total_weight = Weight(Initial)
    /\ solution.total_weight <= solution.root_lower_bound
    /\ solution.root_lower_bound <= solution.cost
    /\ solution.explored_states = solution.memoized_states

-----------------------------------------------------------------------------
(* The scheme.                                                             *)

\* The atom of a string at a node.
AtomOf(id, x) == BundleValues(NodeOf(Scheme, id).action)[x]

\* The node before the k-th atom of a string; None past the graph.
Walk(x) ==
  LET node[k \in 1..(Len(nodes) + 1)] ==
        IF k = 1 THEN Scheme.root
        ELSE IF node[k - 1] = None THEN None
        ELSE ChildFor(NodeOf(Scheme, node[k - 1]), AtomOf(node[k - 1], x))
  IN node

\* The atoms at which two strings differ within the graph; they go along one path
\* until the first of them.
Differences(x, y) ==
  {k \in 1..Len(nodes) : Walk(x)[k] # None /\ AtomOf(Walk(x)[k], x) # AtomOf(Walk(x)[k], y)}

PaidRows == {i \in DOMAIN request.rows : IsKept(request.rows[i])}

\* ExpectedDistinguishingAtoms: the cost the certificate states is what the scheme does
\* at run time, row by row of the rows that were handed in: the weight times the
\* number of atoms until the two strings of the row differ.
CookedCost ==
  phase = "cooked" =>
    /\ \A i \in PaidRows : Differences(request.rows[i].left, request.rows[i].right) # {}
    /\ solution.cost =
         MapThenSumSet(LAMBDA i : request.rows[i].units
                         * Min(Differences(request.rows[i].left, request.rows[i].right)),
                       PaidRows)
=============================================================================
