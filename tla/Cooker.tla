-------------------------------- MODULE Cooker --------------------------------
(***************************************************************************)
(* Cooking a prior into a scheme (cook_prior in cook/build.rs): generate   *)
(* the actions, tabulate what they do on the scenarios (cook/matrix.rs),   *)
(* search for the best tree, write its nodes down and validate the scheme. *)
(* A caller may also hand weights and tests straight to ExactCooker.       *)
(***************************************************************************)
EXTENDS CookActions, ExactCooker, DecisionGraphs

CONSTANTS
  CookRequests,    \* what is cooked: rows, whether they are shaped first, probes, capacity
  SolveRequests    \* weights and tests for ExactCooker::new

\* Rows are pairs of the strings, a probe has a value below its cardinality for each of
\* them, and a lexicon has two atoms at least (CapacityTooSmall).
ASSUME CookAssumption ==
  \A r \in CookRequests :
    /\ r.rows \in Seq([left : Strings, right : Strings, units : Nat, fractional_bits : Nat])
    /\ r.capacity \in Nat \ {0, 1}
    /\ r.probes \in Seq(Range(r.probes))
    /\ \A k \in DOMAIN r.probes :
         /\ r.probes[k].cardinality \in Nat \ {0, 1}
         /\ r.probes[k].values \in [Strings -> 0..(r.probes[k].cardinality - 1)]

\* A test has a pair of outcomes for every scenario.
ASSUME SolveAssumption ==
  \A r \in SolveRequests :
    /\ r.weights \in Seq(Nat)
    /\ r.tests \in Seq([DOMAIN r.weights -> [left : Nat, right : Nat]])

VARIABLES
  request,     \* the call
  phase,       \* where it is
  nodes,       \* the nodes written down
  pending      \* calls of materialize_node to come: tree, parent and atom

buildVars == <<request, phase, nodes, pending>>
vars == <<actionVars, searchVars, buildVars>>

-----------------------------------------------------------------------------
(* Calls.                                                                  *)

InitCook ==
  /\ request \in CookRequests
  /\ phase = "cook"
  /\ prior = IF request.shape THEN Shaped(request.rows, 96) ELSE request.rows
  /\ probes = request.probes
  /\ capacity = request.capacity
  /\ weights = <<>> /\ tests = <<>>

InitSolve ==
  /\ request \in SolveRequests
  /\ phase = "solve"
  /\ prior = <<>> /\ probes = <<>> /\ capacity = 0
  /\ weights = request.weights /\ tests = request.tests

Init ==
  /\ InitCook \/ InitSolve
  /\ scalars = <<>> /\ frames = <<>> /\ best_product = <<>> /\ by_behavior = <<>>
  /\ bundles = <<>>
  /\ memo = <<>> /\ stack = <<>> /\ explored = 0 /\ solution = <<>>
  /\ nodes = <<>> /\ pending = <<>>

Become(p) == phase' = p /\ UNCHANGED <<request, nodes, pending>>

\* A prior without scenarios: fallback_only.
CookNothing ==
  /\ phase = "cook"
  /\ prior = <<>>
  /\ solution' = Solution(0, <<>>, 0, 0, 0)
  /\ Become("cooked")
  /\ UNCHANGED <<actionVars, weights, tests, memo, stack, explored>>

BeginActions ==
  /\ phase = "cook"
  /\ prior # <<>>
  /\ StartGeneration
  /\ Become("actions")
  /\ UNCHANGED searchVars

Generate ==
  /\ phase = "actions"
  /\ PassOver \/ Select \/ ReturnBundles
  /\ Become(IF frames' = <<>> THEN "matrix" ELSE "actions")
  /\ UNCHANGED searchVars

NoActions ==
  /\ phase = "matrix"
  /\ bundles = <<>>
  /\ Become("unseparable")
  /\ UNCHANGED <<actionVars, searchVars>>

AreMixed == \E s, t \in DOMAIN prior : prior[s].fractional_bits # prior[t].fractional_bits

MixedScales ==
  /\ phase = "matrix"
  /\ bundles # <<>>
  /\ AreMixed
  /\ Become("mixed_scales")
  /\ UNCHANGED <<actionVars, searchVars>>

\* fixed_point_matrix, and ExactCooker::new with what it gives.
Tabulate ==
  /\ phase = "matrix"
  /\ bundles # <<>>
  /\ ~AreMixed
  /\ weights' = [s \in DOMAIN prior |-> prior[s].units]
  /\ tests' = [b \in DOMAIN bundles |-> PairOutcomes(BundleValues(ProbesOf(bundles[b].selected)))]
  /\ Become("solve")
  /\ UNCHANGED <<actionVars, memo, stack, explored, solution>>

\* ExactCooker::new without tests.
EmptyTests ==
  /\ phase = "solve"
  /\ tests = <<>>
  /\ Become("empty_tests")
  /\ UNCHANGED <<actionVars, searchVars>>

StartSolve ==
  /\ phase = "solve"
  /\ tests # <<>> /\ stack = <<>>
  /\ StartSearch \/ SolveNothing
  /\ Become(IF solution' = <<>> THEN "solve" ELSE "solved")
  /\ UNCHANGED actionVars

Solve ==
  /\ phase = "solve"
  /\ SkipTest \/ TryTest \/ HitMemo \/ Explore \/ JudgeTest \/ ReturnBest
  /\ Become(IF solution' = <<>> THEN "solve" ELSE "solved")
  /\ UNCHANGED actionVars

Unseparable ==
  /\ phase = "solve"
  /\ IsUnseparable
  /\ Become("unseparable")
  /\ UNCHANGED <<actionVars, searchVars>>

-----------------------------------------------------------------------------
(* materialize_scheme.                                                     *)

Writing(tree, parent, atom) == [tree |-> tree, parent |-> parent, atom |-> atom]

BeginMaterialize ==
  /\ phase = "solved"
  /\ bundles # <<>>
  /\ phase' = "materialize"
  /\ pending' = IF solution.root = <<>> THEN <<>>
                ELSE <<Writing(solution.root, None, None)>>
  /\ UNCHANGED <<request, nodes, actionVars, searchVars>>

\* The subtrees of a node, by atom in ascending order.
Subtrees(tree, id) ==
  LET branches == tree.residual_branches
      atoms == Ordered(DOMAIN branches, <)
  IN [k \in DOMAIN atoms |-> Writing(branches[atoms[k]], id, atoms[k])]

\* A call of materialize_node pushes its node, and its id becomes a branch of its
\* caller's; the calls for its subtrees come before those that were to come.
MaterializeNode ==
  /\ phase = "materialize"
  /\ pending # <<>>
  /\ LET call == Head(pending)
         id == Len(nodes)
         node == Node(ProbesOf(bundles[call.tree.test_id].selected), <<>>, None)
         linked == IF call.parent = None THEN nodes
                   ELSE [nodes EXCEPT ![call.parent + 1].branches = Append(@, <<call.atom, id>>)]
     IN /\ nodes' = Append(linked, node)
        /\ pending' = Subtrees(call.tree, id) \o Tail(pending)
  /\ UNCHANGED <<request, phase, actionVars, searchVars>>

Scheme == [capacity |-> capacity, nodes |-> nodes, root |-> IF nodes = <<>> THEN None ELSE 0]

\* Scheme::validate of what was written.
ValidateScheme ==
  /\ phase = "materialize"
  /\ pending = <<>>
  /\ Become(IF /\ \A id \in NodeIds(Scheme) : BundleCardinality(nodes[id + 1].action) <= capacity
               /\ IsGraph(Scheme, [id \in NodeIds(Scheme) |->
                                     BundleCardinality(nodes[id + 1].action)])
            THEN "cooked" ELSE "invalid")
  /\ UNCHANGED <<actionVars, searchVars>>

Next ==
  \/ CookNothing \/ BeginActions \/ Generate
  \/ NoActions \/ MixedScales \/ Tabulate
  \/ EmptyTests \/ StartSolve \/ Solve \/ Unseparable
  \/ BeginMaterialize \/ MaterializeNode \/ ValidateScheme

Spec == Init /\ [][Next]_vars
=============================================================================
