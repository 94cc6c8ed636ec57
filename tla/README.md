# A TLA+ model of teca

teca gives byte strings ("contents") endless addresses.  A *scheme* turns a
content into an endless stream of *atoms*, numbers below a capacity.  A
*neighborhood* is a set of contents; the address of a member is the shortest
nonempty prefix of its stream that no other member's stream shares.  Schemes are
cooked offline from a prior; schemes, priors, lexicons and neighborhoods are
stored as artifacts.

All paths below are those of the repository under `src/src/`.

## Inventory

| Component | Source | State | Operations | Model |
|---|---|---|---|---|
| Neighborhood | `neighborhood.rs` | `entries` in byte order, a trie of slots with counts and markers, `free_nodes`, `entry_nodes`, `identifier_index` | insert, insert_with_identifier, set_identifier, remove_by_bytes, remove_by_identifier, from_rows, merge, rebuild, validate, resolve | modelled, proved |
| Field cache | `field/standardff.rs` 14-126 | `FIELD_CACHE`, a map behind a mutex, shared by all threads | instantiate, standard_field (recursive) | modelled, proved |
| Address iterator, scheme | `address.rs`, `scheme.rs` | `next_node`, `fallback` | next, Scheme::validate | modelled |
| Fallback | `fallback.rs` | Elias-gamma counters, block value and divisor; depth of the static stream | next_atom, validate, direct_radix_v1_finite_len | modelled |
| Field evaluation | `codec.rs`, `probe.rs`, `bundle.rs`, `field/hasse.rs`, `field/polynomial.rs` | none | codecs, Hasse derivatives, mixed radix of a bundle | modelled, over towers |
| Field towers | `field/element.rs`, `field/standardff.rs` 128-612, `field/orders.rs` | none | arithmetic, Luebeck's standard polynomials, Steinitz embeddings | modelled |
| Artifacts | `artifact.rs` | a reader's position | encode and decode of four kinds | modelled, byte by byte |
| Cooker | `cook/` | memo and representatives of the enumeration, memo of the search, nodes written | cook_prior (generate_actions, solve, materialize), cook_static | modelled, probes as functions of strings; generation, search, scheme and cost proved |
| Priors | `prior/` | none | from_fixed_point_scenarios, load_canonical_b9 | modelled |
| Lexicon, rendering | `lexicon.rs`, `render.rs` | a list of distinct strings | construction, lookup, printing | construction only |
| Defaults | `defaults.rs` | two `OnceLock`s | get_or_init | not modelled |

How they interact:

- A neighborhood asks its scheme for a fresh iterator (`Scheme::address`) whenever
  it compares two contents or follows one down its trie.  Nothing flows back.
- An iterator evaluates the probe bundle of each decision node, then hands over to
  a fallback, which reads the content itself.  Probes instantiate their fields,
  which goes through the process-wide field cache: the one place where threads
  meet.
- `validate`, `rebuild`, `merge` and `decode_neighborhood` all replay rows through
  `insert`, so the incremental state of one history is compared with, or replaced
  by, that of another.
- The cooker's output is a scheme; `materialize_scheme` and `decode_scheme` both
  end in `Scheme::validate`.
- A file of a neighborhood holds a whole scheme and the rows with their addresses;
  `decode_neighborhood` evaluates the scheme to rebuild them and compares.  A CTM table
  becomes a prior, which the cooker takes or `encode_prior` writes.

What is hard here:

- **Long sequences of legal calls.**  The neighborhood keeps five structures in
  step under splits (an insert lengthens one member's address), collapses (a
  removal shortens one), shifts of positions and reuse of slots.  An error in one
  shows many calls later, at another call.
- **Failure in the middle of a call.**  `merge` and `rebuild` promise to be
  transactional.
- **Threads.**  `standard_field` lets go of the lock between its lookup and its
  insertion and calls itself in between.
- **Boundaries of numbers.**  Block lengths, radix widths, the hand-over between
  the graph and the fallback, Hasse orders beyond the characteristic, the points
  of a pass.

- **Algebra found by search.**  The moduli of the towers are looked for, in fields that
  may have been built by different threads, and moved between fields by their digits.
- **Two sides of a format.**  Writers and readers name the same tokens in different
  functions; a file may be cut, go on, be changed or be of another kind.

There are no messages, clocks or retries, and nothing survives a crash but
artifacts, which are written whole by the caller: a write that is interrupted leaves a
file that is cut.

What makes each component correct:

- *Neighborhood*: every address is canonical; the trie is exactly the one the
  addresses span; identifiers and positions agree; slots are in use or free and
  none is lost; reported changes can be replayed; a call that fails changes
  nothing; a neighborhood built in another order is equal.
- *Field cache*: one field per descriptor, complete before it is visible, the same
  for every thread; every request ends.
- *Streams*: the walk of the graph ends; atoms are below the capacity; distinct
  contents get distinct streams; the radix continuation can be decoded and its
  length is what the helper says; a pass of the static continuation visits every
  nonzero point once.
- *Fields*: every nonzero element of a tower has an inverse; an embedding preserves
  products, and embeddings compose.
- *Artifacts*: decoding inverts encoding, each value has one encoding, a file that is cut,
  goes on or is of another kind is refused as such.
- *Cooker*: nothing that is dropped on the way is missed; the tree has the least expected
  cost over all adaptive trees; the scheme made from it validates and has that cost at run
  time.

## Modules

| Module | What it is |
|---|---|
| `Streams` | The stream of a content as a neighborhood sees it, and the definition of a canonical address |
| `AddressTrees` | Sets of addresses as trees |
| `NeighborhoodOps` | Every operation of `neighborhood.rs` as a set of outcomes of a neighborhood record |
| `Neighborhood` | The state machine: one action per call, one step per row of a row-by-row call |
| `NeighborhoodSpec` | The abstract specification: a set of rows and their canonical addresses |
| `NeighborhoodInvariant` | `Sound`, the inductive invariant |
| `NeighborhoodProperties` | Properties, and the refinement mapping to `NeighborhoodSpec` |
| `PathLemmas` | Lemmas on least elements, induction, prefixes, sequences and lists that all proofs cite |
| `NeighborhoodLemmas`, `NeighborhoodProofs` | Proofs: trees of addresses and the operations; the state machine and the arena |
| `NeighborhoodRefinement` | Proofs: the abstract specification, the identifier index, reported changes, rebuild |
| `FieldDescriptors` | Descriptors of fields, and the degrees that building one asks for |
| `Fields` | Arithmetic of prime fields and towers (`element.rs`) |
| `StandardFF` | The standard polynomials and their search, embeddings (extends `Fields`) |
| `FieldCache` | Threads, the mutex, the cache and the recursion of `standard_field` (extends `FieldDescriptors`) |
| `CachedFields` | Each cached entry as the field it stands for (composes `FieldCache` and `StandardFF`) |
| `FieldCacheProofs` | Proofs: the threads, the lock and the cache |
| `Probes` | Codecs, Hasse derivatives, probes and bundles over given fields (extends `Fields`) |
| `Fallback` | The two continuations as iterator states (extends `Probes`) |
| `DecisionGraphs` | Nodes, branches, and what `Scheme::validate` asks of them |
| `Schemes` | Schemes, one step of their iterators, `prefix` (extends `Fallback`, `DecisionGraphs`) |
| `AddressStream` | The iterators of all contents side by side, and their properties (extends `Schemes`) |
| `AddressStreamProofs` | Proofs: the walk of the graph, the points of a pass |
| `FixedPointPriors` | Scenarios, `from_fixed_point_scenarios` |
| `StaticCook` | The scheme of `cook_static` |
| `CookActions` | The candidate actions: domination of probes, `enumerate_bundles` (extends `FixedPointPriors`) |
| `ExactCooker` | The memoised search |
| `Cooker` | `cook_prior` from the rows to the scheme (extends the last two and `DecisionGraphs`) |
| `CookerProperties` | The reference definitions and properties of the cooker |
| `CookerProofs` | Proofs: the generation of actions, the search, the trees, the scheme and its cost |
| `CookActionsProofs` | Proofs: the actions are exhaustive (extends `CookerProofs`) |
| `ByteFormat` | Integers of fixed width, counts and lengths, as bytes |
| `ArtifactValues` | What the four kinds of artifacts hold, and when it is valid (extends `ByteFormat`, `FixedPointPriors`, `Schemes`) |
| `ArtifactWriter` | The `encode_` functions |
| `ArtifactReader` | The `decode_` functions and `load_canonical_b9`, as grammars and one reader of them |
| `Artifacts` | A value and its file: written, damaged, read, written again |
| `MCNeighborhood`, `MCFieldCache`, `MCAddressStream`, `MCCooker`, `MCArtifacts` | Instances for TLC |

### Neighborhood

`nb` is the `Neighborhood`: `entries`, `trie`, `free_nodes`, `entry_nodes`,
`identifier_index` as in the code.  The trie is a function from paths (sequences of
atoms) to nodes; a node has a `slot`, its index in the code's arena, so that sharing,
reuse and loss of slots remain visible while edges need no pointers.  `arena` is the
length of the code's `trie` vector.  `call` is the row-by-row call in progress with its
working copy; `result` is the last answer.

Contents are numbers in byte order; binary searches are modelled by the place they
find, and by nothing (no outcome, which `CallsFindOneAnswer` forbids) if there is no
such place.  A `.expect(...)` that fails is the outcome `Panic`, which the refinement
maps to an answer that `NeighborhoodSpec` never gives.  The stream of a content
is the constant `Code`, followed by zeros for ever: both fallbacks end so.
`MAX_DIVERGENCE_ATOMS`, 65 536 in the code, is the constant `MaxDivergence`.

`set_identifier` is modelled with the key that it leaves behind.  `Reassign` says
whether callers replace identifiers: with FALSE the runs show what holds for callers
that never do.

### Field cache

The program counter of a call of `standard_field` is `lookup` (about to lock), `get`
(holds the lock), `build` (calls itself for the next smaller field), `insert` (about to
lock) and `put` (holds the lock).  A field is its descriptor and the fields it was built
from; `Subdegrees` are the degrees that `standard_field` and
`standard_prime_degree_coefficients` ask for, in their order.  Overflow errors of the
construction are left out, since a descriptor whose order fits has none, and so is a
poisoned mutex, since nothing panics under the lock.

`CachedFields` turns an entry of the cache into the field that `standard_field` has built
from its parts, wherever those came from.  An element of a tower is the sequence of its
coefficients over the prime field; what the code keeps as a tree of coefficient vectors
are its nested blocks, and a rank has them as digits, lowest first.  `StandardFF` follows
the code branch by branch, the order of the trials of the search included, since the
fields must be those of Luebeck's tables and not just any.  `poly_gcd` is not scaled to
a monic polynomial, since only its degree is used.

### Streams of a scheme

`AddressStream` has one iterator per content.  Its actions are the two
branches of `next_checked`; `Schemes` and `Fallback`, which has those of `next_v1` and
`next_static`, give the atom and the state after it.
Probes and static continuations are evaluated in `FieldOf[d]`, a constant that stands for
what `instantiate` returns: the runs set it to the fields of `StandardFF`, prime or not, so
the modules of the streams stay free of recursive operators.  Node ids start at 0 as in
the code.  `IsValidScheme` is `Scheme::validate` without the names of its errors; `Init`
takes those schemes of `Schemes` that pass it, and `Schemes` has many that do not.
Numbers are unbounded except where the code relies on overflow: `RadixDigits` stops at
`WordLimit` (2^128 in the code).  `BLOCK_BYTES`, 15 in the code, is a constant, and so are
the field and the points of the canonical lexicon in `StaticCook`.

### Cooker

`phase` is the place in `cook_prior`.  The two recursive functions, `enumerate_bundles` and
`solve_state`, are stacks of their calls (`frames`, `stack`), one action per turn of their
loops; `materialize_node` is a list of calls to come, in the order in which they are made.
`search.rs` says of itself that it is independent of finite fields, and so is the model: a
scalar probe is its cardinality and the values it has on the strings of the prior, strings
are numbers in their order, and any list of such probes is an input.  This has more inputs
than the fields give.  The order of the list is that of `scalar_key`.  Tests are numbered
from 1, not 0.  A group of scenarios in a behavior is named by its first scenario, in the
code by a counter; what is compared is the same.  `SolveRequests` are calls of
`ExactCooker` without the generation, with tests it would have dropped.  The branches that a
call has still to answer are the set of their values, of which the least is taken: the code
goes through them in ascending order.

`Optimum` is the definition that the repository's own tests call the reference recurrence:
no memo, and no error from a branch; a state that no tree separates has the cost `NoTree`.
`ActionsExhaustive` and `SearchExact` together say that the cost is the least over all bundles
of the probes that tell the strings of some scenario apart, since a test that refines another
one costs no more.  A probe that tells none of them apart is dropped first
(`cook/actions.rs` 204), although two such probes could be of use in a bundle with others: a
digit that is the same for both strings of each scenario still divides the scenarios.  That is
finding 6 (`BundlesExhaustive`).

`Ordered` is what a sort of distinct elements gives: at the k-th place the element with
k - 1 smaller ones.  The community module's `SetToSortSeq` ends in an operator that only TLC
can evaluate, so nothing could be proved about it.

### Artifacts

`value` is what the program holds, `file` the bytes, `kind` what they are taken for.  Write
and Read are the `encode_` and `decode_` functions; between them one thing may happen to the
file.  `ArtifactWriter` follows the writers token by token.  The readers are written as
grammars, one per function, with the checks in the places where the code makes them; `Parse`
is the one reader of grammars, so that what is compared with the writers is the order of
the tokens, the tags and the checks.  A check on each row is made once the rows are read;
which of two errors is reported can differ from the code then, but not whether there is
one.  A string is its bytes.  `Text` is checked for UTF-8 with characters of one and two
bytes.

A byte is a digit in base `ByteBase`, and the widths of the integers are constants, so that
carries, numbers at the end of their width and symbols that do not fit a byte occur in small
files.  The rows of a neighborhood have the addresses that the theorem
`AddressesStayCanonical` says inserts give them; the streams are those of `Schemes`.

## Runs

| Run | Question | Bounds |
|---|---|---|
| `neighborhood_members` | Do the addresses, the trie and the slots stay right under every sequence of inserts and removals? What survives stale keys in the index? Does resolve agree with the streams? | four contents that share up to three atoms, two of which cannot be told apart; two identifiers, which may be replaced; inserts while no more than one slot is lost |
| `neighborhood_calls` | Do all calls, merges and rebuilds included, implement `NeighborhoodSpec`? | three contents, two identifiers, seven row lists; inserts and merges while no more than one slot is lost |
| `neighborhood_stale_identifier` | Violation: the index is the map of identifiers to entries | |
| `neighborhood_slot_leak` | Violation: every slot is in use or on the free list | |
| `neighborhood_divergence` | Violation: rebuild and validate accept what inserts have made, in whatever order | |
| `field_cache` | Is the cache right under every interleaving of two threads, and does every request end? Are its entries fields that lie in each other? | two threads, six and seven requests, every way to find a modulus, fields of up to 6561 elements; of larger ones the elements up to rank 80 |
| `address_streams` | Does every valid scheme end its walk and tell contents apart? Can the content be read back from DirectRadixV1? Does StaticPolynomialV2 visit every point once per pass? | 4176 schemes, 76 of them valid: graphs of up to two nodes, capacities 2 to 5000, probes over fields of 2 to 25 elements, static fields of 5 to 13, two towers among them; blocks of two bytes, contents of 0 to 3 |
| `static_points` | Violation: the same for optimized points that are not ascending | |
| `static_alias` | Violation: distinct contents get distinct streams, for CTM-B9 over seven elements | |
| `cooker` | Is anything lost when actions are dropped? Is the tree the best one, and the certificate right? Does the scheme cost at run time what it says? | five strings, up to six rows, three or four probes, rows that agree under one of them; capacities 2, 3, 4 and 8; the search alone on every pair of tests for three and four scenarios |
| `cooker_exhaustive` | Violation: the bundles enumerated are all of those that fit | |
| `artifacts` | Do readers give back what writers accept? Does every value have one file? Is a damaged file refused, and as what it is? | 163 values of four kinds, valid and not, and 20 CTM tables; bytes of 4 bits, integers of 2, 3 and 4 bytes; every cut, every byte appended, every change of one byte, every other reader |

Why the bounds are enough.  Three members are what every case of an insert and a removal
needs: the member that is touched, one that shares its path, and one beside them; the
fourth gives collapses of several levels with bystanders.  The arena grows for one reason
only, the slots lost by removals that leave one member, and `MaxLostSlots` stops inserts and
merges once more than one is lost, until the last member is removed and the arena starts
anew.  Before that every trie of the contents is reached, and inserts take recycled slots in
each order a free list can have: the mutant of `SlotsSound` is one of `new_node`, which only
such an insert can show.  In `neighborhood_calls` inserts and merges go on after a loss of
one slot; in `neighborhood_members` every such removal loses two at least, so that what
an insert does there after a loss is left to the theorems.  Three bytes and blocks
of two give an empty content, a full block, and a block and a rest.  `MaxAtoms` lies
past the end of every code, so that the tail is reached.  Five strings and capacity 2 give
trees of four nodes and calls four deep; capacity 8 gives bundles of three probes and
selections that the memo of the enumeration prunes.  The fields of the two threads take
each branch of `standard_prime_degree_coefficients`, and coefficients that are moved to a
larger base.  The values of `artifacts` have each tag, each option present and absent, lists of
zero to three rows, and for the checks of schemes, priors and lexicons a value that fails
each alone; no neighborhood is written that `validate` would refuse, and the reader's checks of
its rows are met by changed bytes only.  One changed byte is enough
to give a second encoding of anything, since tokens do not overlap.  `Terminates` is the one
liveness property; it assumes that a thread that can take a step is scheduled some time
(`WF_vars(Step(t))`), which the operating system guarantees.  Weak fairness is enough
although a lock is contended: requests are finite, so a thread that waits is alone with
the free lock in the end.  `CHECK_DEADLOCK FALSE` stands where a system does stop: all
requests answered, `MaxAtoms` atoms taken, an artifact refused.

Every property of a passing run has a mutant, a plausible bug in one definition, under
which the run finds the property violated; the mutants are marked in the modules.

## Findings

1. `set_identifier` leaves the replaced identifier in `identifier_index`
   (`neighborhood.rs` 306).  It still finds the entry, blocks the identifier, and once
   the entry has been removed it leads to another entry or out of range.
   `neighborhood_stale_identifier`.  `encode_neighborhood` refuses such a neighborhood.
2. A removal that leaves one member loses the slots of the rest of the trie
   (`neighborhood.rs` 944).  `neighborhood_slot_leak`; `SlotsLostOnlyByReseat` shows that
   nothing else does.
3. The divergence bound counts from the depth the walk has reached
   (`neighborhood.rs` 641), so that whether a set of contents is accepted depends on the
   order of the inserts.  `neighborhood_divergence`: inserts in the order 1, 3, 2 are accepted,
   the same in byte order are not, so that `validate` refuses the neighborhood, and with it
   `encode_neighborhood`, contrary to its comment (`artifact.rs` 309).
4. `next_static` skips the optimized points correctly only when they ascend
   (`fallback.rs` 240); the points of the shipped scheme do not.  `static_points`.
5. `FallbackDescriptor::validate` accepts fields too small for CTM-B9's coefficients
   (`fallback.rs` 76), over which contents get equal streams.  `static_alias`.
6. Bundles are not enumerated exhaustively under the capacity, as `cook/actions.rs` 7 has it:
   `generate_scalar_candidates` drops the probes that tell no scenario's strings apart
   (`cook/actions.rs` 204) before bundles are formed, and what such a probe adds to a bundle is
   lost.  `cooker_exhaustive`.

## What is proved

All theorems are for every set of contents, identifiers, atoms, streams, threads, requests
and bounds that satisfies the assumptions on the constants: `ContentsAssumption`,
`CodeAssumption` (streams are sequences of atoms, the tail atom is one), `BatchAssumption`,
`IdentifierAssumption` and `DivergenceAssumption` for the neighborhood, `OrderAssumption`
and `RequestsAssumption` for the field cache, `SchemeAssumption` (the nodes are a list, the
field of a valid static continuation is among those given) and `FieldOfAssumption` for the
streams, `StringsAssumption` (strings are numbers in their order), `CookAssumption` (rows are
pairs of them, a probe has a value below its cardinality for each, a lexicon has two atoms),
`SolveAssumption` (a test that is handed in has a pair of outcomes per scenario) and
`NoneAssumption` for the cooker.  Hypotheses beyond these are named below.

### Neighborhood

`NeighborhoodProofs!AddressesStayCanonical` is the core invariant in the header of
`neighborhood.rs`.  `AddressesCanonical` is not inductive: whether a removal restores the
shortest address depends on the counts and markers of the trie.  The inductive invariant
is `Sound`, for the neighborhood and for the working copy of a call in progress: entries in
byte order, addresses a *tree* (each follows its stream, none is a prefix of another, none
can be shortened), and the trie exactly the one they span, count by count and marker by
marker.  It says nothing about slots, which no operation reads to decide anything, nor
about the identifier index, so that it holds with stale keys too.

- `NeighborhoodLemmas` begins with trees alone.  `TreeIsCanonical`: addresses that form a tree
  are canonical.  `GrowLeaf`, `GrowSplit`, `ShrinkLeaf`, `ShrinkOnto`: the four ways in
  which a call changes the addresses keep them a tree.  Then it shows that the operations
  change entries and trie in these ways and in step: `ApplySound`, `InsertSound`,
  `SetIdentifierSound`, `RemoveSound`.
- `NeighborhoodProofs` has one lemma per action and the temporal theorems: `TypesHold`,
  `SoundnessHolds`, `AddressesStayCanonical`; `ResolveHolds`, for all queries and not only
  those of the run (`ResolveIsRight`); and `OneAnswer`: every walk ends at one place, so that
  no call is stuck and none has a choice.  `ResolveHolds` also shows that a branch of
  `resolve` is dead: in a sound trie a count of one with no marker above it has a marker
  below, so `sole_member_at` never has to answer for an incomplete count.

`NeighborhoodRefinement` relates histories.

- `Refinement`: `Spec => ImplementsSpec` where `Reassign = FALSE`.  `InsertEffects`,
  `SetIdentifierEffects` and `RemoveEffects` say what a call does to the rows; `OneTree` and
  `RowsDetermine` say that the rows determine entries, addresses, trie and index.  The
  invariant is `RInv`: identifiers lead back to their entries, and a row-by-row call in
  progress holds the rows it has replayed, with the rest of them still fitting.  A step of
  such a call is a stutter, its last one an abstract step.  Without the hypothesis it is
  false: `neighborhood_stale_identifier`.
- `IdentifiersLeadBack` (`IdentifierForward`) holds without that hypothesis,
  `IndexStaysExact` with it.
- `RebuildAgreesOnAddresses` and `RebuildAgreesFully` have the hypothesis `BoundReaches`:
  `MAX_DIVERGENCE_ATOMS` reaches the first difference of any two streams that differ.
  `neighborhood_divergence` shows what happens otherwise.
- `ChangesAreComplete` (`ChangesReplay`) and `OneMovesAtMost` (`CallsMoveOne`) are action
  properties.  Both rest on `OneMoves`: of two trees one of which has one member more, at
  most one other address differs, and that is longer.

The last part of `NeighborhoodProofs` is about the arena.  `SlotsStaySound` needs the invariant `SInv`, which
adds to `Sound` that slots in use and free ones are apart and within the arena, and that
`entry_nodes` has the slots of the markers; the working copy is included, since it
becomes the neighborhood.  `SlotsLostAtTheEndOnly` (`SlotsLostOnlyByReseat`) shows step by
step that the slots of the nodes that a collapse takes out are those it puts on the free
list, so finding 2 is the one leak.

### Field cache

`FieldCacheProofs!CacheInvariant` has the inductive invariant `IInv`: the lock has one holder,
who is at `get` or `put`; each call on a stack asks for a field of a smaller degree than its
caller; and what a call has got so far are the complete fields of its first subdegrees.
From it follow `TypesHold`, `CacheStaysConsistent`, `AnswersStayRight` and
`RecursionBounded`, and with one step more `CacheGrows`.  `DescriptorsShrink` is the arithmetic
behind it: the fields that the construction of a field asks for are smaller and their
descriptors valid, so none of them is refused.

### The address streams

`AddressStreamProofs!WalksEnd` (`WalkEnds`): a stream leaves the decision graph after at most as
many atoms as the scheme has nodes.  The inductive invariant `IInv` says that an iterator that
has yielded n atoms and is at a node is at one whose id is n at least; a branch leads to a
greater id, because `Scheme::validate` asks for it (`DescentGoesOn`).  What the bundles evaluate
to has no part in it.

`PassesVisitEachPointOnce` (`PassVisitsEachPointOnce`) has the hypothesis that the optimized
points of the scheme ascend, as those of every scheme in `address_streams` do; finding 4
is what happens otherwise.  `PastIs` says where the four skips end, by cases; from it each
point has exactly one slot (`PointsApart`), and the depths of a full pass are a row of as many
depths as there are points (`PassIsRow`).  `Point` has the loop over the optimized points, an
array of four, as four applications of `Skip`.

### The cooker

`CookerProofs`, and `CookActionsProofs` after it, go along `cook_prior`, one inductive invariant
per part, each resting on those before it.

*The generation.*  `GenerationInvariant` has `GInv`: the outcomes that a call of
`enumerate_bundles` carries along, those of the representatives and those of the actions are
what evaluating their bundles gives, and stay below the product, which the capacity bounds.
The code computes them incrementally, one probe more at a time; `CombineIs` and `AdvancedIs` say
that this is the mixed radix of the whole bundle.  It rests on lemmas about the folds
(`FoldedStep`, `FoldedFits`) and about sorting (`RankedIsSorted`: what `Ordered` gives is a list of
every element, each once and before the greater ones).  From it follows `TablesAreTyped`, the
hypothesis of what comes next.

*The search.*  `SearchIsExact`, `StatesAlwaysShrink` and `CertificateIsSound` are about every table
of weights and outcomes; `CookerSearchIsExact` (`SearchExact`), `CookerStatesShrink`
(`StatesShrink`) and `CookerCertificateIsSound` (`CertificateSound`) are the same without their
hypothesis `[]TestsTyped`, which `TablesAreTyped` discharges.  The
inductive invariant `SInv` (`SearchInvariant`) says of each state of the memo that its cost
is the least of weight plus costs of the branches over all tests that divide it (Bellman's
equation, all those branches being in the memo); of each call on the stack that its best is
that of the tests it has looked at, and that while it tries one, what it has spent is the
weight and the costs of the branches answered; and of two calls that the inner one works on
the branch that the outer one waits for.  From Bellman's equation to `Optimum` it is an
induction over the size of states (`MemoIsExact`), after it has been shown that the recursive
function in `Optimum` exists and that all of them agree (`OptimumExists`, `OptimaAreSame`).
Where the search gives up it has found a state that no test divides; then no test of a larger
state divides it either, and no tree resolves all scenarios (`NoneSeparates`), which justifies
the early return.  The lower bound is an induction over the branches of the best first test:
each of them costs its weight at least (`BranchesCostTheirWeight`).

*The trees.*  `TreesAreSound` has `TInv`: the tree that is remembered for a state begins with a
test that divides it, has the subtrees of its branches for just the values that leave
scenarios together, and costs what the memo says.

*The scheme.*  `WritingIsSound` has `WInv`.  It says that each node written down belongs to a
state of the memo and has the bundle of its test; that its branches lead to later nodes, for
the states of the branches, in ascending order of atoms; that every branch is there or among
the calls to come; and that these are in the order in which atoms have to be appended.  So no
call is left out, each node but the first has an earlier parent, and the scheme that
results validates (`WrittenIsGraph`): the phase "invalid" is never reached.  `CookerTypes` is the
whole of `TypeOK`.

*The cost.*  `CookedCostIsPaid` (`CookedCost`) joins the parts: what the certificate states is,
summed over the rows that were handed in, the weight times the number of atoms until the
strings differ.  A scenario goes along a *run* of nodes (`IsRun`) until one resolves it.  From
the last node to the first, the cost of a node's state is the sum of what its scenarios pay for
the rest of their runs (`NodesHaveCosts`, with `CostsAddUp` for one node).  `Walk`, which knows only
the scheme, follows the run for both strings until they differ (`WalkFollows`, `ScenarioPays`).
Where rows have been merged to pairs, the sum is taken apart again by rows (`TotalByKeys`,
`RowsOfPairsPay`).

*The actions.*  `CookActionsProofs!ActionsAreExhaustive` (`ActionsExhaustive`) has two halves.

- What domination drops: among probes of one behavior the cheapest is kept, then those that no
  other refines at no higher cost.  Both are strict orders on finite sets, so below each element
  there is a minimal one (`MinimalElement`); so for any bundle there are kept scalars of no greater
  product that refine its probes one by one (`BundleIsMadeUpFor`).  The final domination of
  actions is a third such order (`RowsRefine`).
- What the memo drops: scalars that the loop passes over because they do not refine the
  selection, calls that a memo entry with the same place and behavior cuts off, and calls with
  nothing left to resolve.  `GoodFor` is the set of behaviors at least as good as a selection with
  some later scalars added, and the invariant `EInv` (`Covered`) says for each memo entry, and for the
  empty selection: whatever fits beside it has such a behavior among the representatives,
  or a call still on the stack, at the entry's place or a later one, comes to it.  That memo entries
  are not about bundles but about what they leave to separate makes this inductive.  A call is
  cut off by an entry that promises at least as much (`CheaperCanJoin`); and since the calls on the
  stack are at ascending places (`InOrder`), all of them before that of the entry, what it
  promises is there already.  When no call is left, only representatives are
  (`CoveredExhausts`).

The product bound is met because a refining scalar costs no more: that is where the cost in
the domination rule is needed, and the mutant without it breaks the property.

Sums over finite sets are `MapThenSumSet` of the community modules, whose order is a CHOOSE;
`TotalTake` shows that any element may be taken first.

### Only model-checked

`Terminates` (liveness), the properties of `CachedFields` and `Artifacts`, and `TypeOK`, `Exact` and
`RadixDecodes` of `AddressStream`, which are about what polynomials, powers and digits evaluate
to (tlapm knows no fact about `^`).  What the recursively defined functions of
`Fields`, `Probes` and `Fallback` compute for every input would need induction over data with
operators as parameters; over natural numbers there is `PathLemmas!Induction`, in the form of
a set, but each such function first has to be shown to exist.  `StandardFF`, `CachedFields` and `ArtifactReader` use RECURSIVE operators and are out
of reach.  The invariants `RInv` and the hypotheses of the theorems on rebuild have been
checked by TLC on the instances of the runs before they were proved.

## What is not modelled, and why

- Texts of errors, formatting, and which of several errors in one file is reported first.
- That a call which fails had a reason to: `NeighborhoodSpec` lets any of them fail, and
  says that nothing has changed then.  The reasons are in `NeighborhoodOps`.
- The branch of `remove_inner` for a count of zero, which no trie has that the other calls
  make.
- Arguments that the cooker refuses before it has done anything: a codec of other symbols than
  the prior's, fewer than two atoms or symbols (`cook/build.rs` 89, `cook/actions.rs` 148), and
  tests of another length than the scenarios (`cook/search.rs` 79), which it never makes.
- `CountOverflow` (a list of 2^32 entries), `LexiconError::TooLarge`, and the memory that a
  reader asks for before it finds that a file is shorter than its count says.
- `render.rs`, `Lexicon::atom`, `TokenAddress`: lookups and printing without state.
- `defaults.rs`: two `OnceLock`s of the standard library around `decode_scheme` and
  `decode_lexicon`, applied to constants.
- `binary_hasse_zero_finite_len`, `weighted_depth_cost`, `first_step_lower_bound`: functions
  that only tests call, or nothing does.
- Numbers of 128 bits as such: where the code relies on overflow the limit is a constant.

## Plan

1. (done) `Streams`, `NeighborhoodOps`, `Neighborhood`, `NeighborhoodSpec`: the core, its
   invariant and its proofs.
2. (done) `FieldCache`; `Probes`, `Fallback`, `DecisionGraphs`, `AddressStream`.
3. (done) `CookActions`, `ExactCooker`, `Cooker`, `StaticCook`.
4. (done) `Fields`, `StandardFF`, `CachedFields`; `Schemes`; the artifacts.
5. (done) Proofs: the refinement, index, changes and slots of the neighborhood, the field
   cache, the walk and the passes of the streams, the search of the cooker.
6. (done) Proofs: the cooker around the search, from the generation of the actions to what
   the scheme costs at run time.
7. (done) A proof of `ActionsExhaustive`: that what domination, behaviors and the memo of
   `enumerate_bundles` drop has a representative at least as good.
