----------------------- MODULE NeighborhoodProperties -----------------------
(***************************************************************************)
(* What must hold of a neighborhood and of the answers of its calls.       *)
(***************************************************************************)
EXTENDS Neighborhood, NeighborhoodInvariant

Members == {e.bytes : e \in Range(nb.entries)}

\* The core invariant of the header of neighborhood.rs: every stored address is
\* the shortest nonempty prefix that no other member's stream shares, whatever
\* sequence of inserts, removals, merges and rebuilds led here.
AddressesCanonical ==
  \A e \in Range(nb.entries) : IsCanonicalAddress(Members, e.bytes, e.address)

\* Every call that starts finds exactly one answer: one place among the entries (they are in
\* strict byte order, as the binary searches need), one end of plan_insert's walk,
\* and for a removal one marker below the node it collapses onto.
CallsFindOneAnswer ==
  Idle =>
    /\ \A b \in Contents : Cardinality(InsertInner(nb, b, NoId)) = 1
    /\ \A i \in DOMAIN nb.entries : Cardinality(RemoveInner(nb, i)) = 1

\* The inductive invariant: in the neighborhood, and in the working copy of a
\* row-by-row call after each of its rows, the entries are in byte order, the
\* addresses form a tree and the trie is exactly the one they span, so that the
\* walks of insert, remove and resolve find what the entries say and no stale
\* node, count or marker outlives a split, a collapse or a shift of positions.
AllSound == Sound(nb) /\ Sound(call.working)

LiveSlots == {nb.trie[p].slot : p \in DOMAIN nb.trie}
FreeSlots == Range(nb.free_nodes)

\* The arena is never corrupted: two nodes never share a slot, a slot on the
\* free list is neither in use nor listed twice, and entry_nodes names the slot
\* of every entry's marker.
SlotsSound ==
  /\ \A p, q \in DOMAIN nb.trie : nb.trie[p].slot = nb.trie[q].slot => p = q
  /\ IsInjective(nb.free_nodes)
  /\ LiveSlots \cap FreeSlots = {}
  /\ LiveSlots \cup FreeSlots \subseteq 0..(nb.arena - 1)
  /\ nb.entry_nodes = [i \in DOMAIN nb.entries |-> nb.trie[nb.entries[i].address].slot]

LostSlots == 0..(nb.arena - 1) \ (LiveSlots \cup FreeSlots)

\* Every slot of the arena is in use or on the list of recycled slots.
NoSlotLost == LostSlots = {}

\* No call loses a slot except the removal that leaves a single member (and the
\* calls that replace the whole neighborhood by another).
SlotsLostOnlyByReseat ==
  [][LostSlots' # LostSlots =>
       \/ Len(nb'.entries) <= 1 /\ Len(nb.entries) = Len(nb'.entries) + 1
       \/ call.op \in {"from_rows", "rebuild"}]_vars

\* An identifier an entry carries leads back to that entry, so no two entries
\* carry the same one: get_by_identifier never misses the holder.
IdentifierForward ==
  \A i \in DOMAIN nb.entries :
    LET id == nb.entries[i].identifier IN
    id # NoId => /\ id \in DOMAIN nb.identifier_index
                 /\ nb.identifier_index[id] = i

\* The index is exactly the map from the entries' identifiers to the entries:
\* what validate demands of it, and what the field's comment says it is.
IdentifierIndexExact ==
  nb.identifier_index =
    [id \in {e.identifier : e \in Range(nb.entries)} \ {NoId} |->
       CHOOSE i \in DOMAIN nb.entries : nb.entries[i].identifier = id]

-----------------------------------------------------------------------------
(* Queries: every address over the atoms of the scheme up to one atom       *)
(* longer than the longest informative part, and short addresses that end   *)
(* in an atom outside the capacity.                                         *)

Queries == BoundedSeq(Atoms, 1 + Max({Len(Code[b]) : b \in Contents})) \ {<<>>}

Outside == 0..Cardinality(Atoms) \ Atoms

StrayQueries == {Append(query, a) : query \in BoundedSeq(Atoms, 2), a \in Outside}

\* The members whose streams start with the query.
Sharers(query) == {b \in Members : \A i \in DOMAIN query : Stream(b, i) = query[i]}

\* Between the calls that change it a neighborhood can be asked.  resolve answers by the
\* streams of all members: one member's stream starts with the query, or several do (and it
\* says how many), or none does.  A query with an atom outside the capacity is refused, even
\* where the walk ends before the atom.
ResolveCorrect ==
  Idle =>
    /\ \A query \in Queries :
         LET sharers == Sharers(query) IN
         Resolve(nb, query) =
           IF sharers = {} THEN NotFound
           ELSE IF Cardinality(sharers) > 1 THEN Ambiguous(Cardinality(sharers))
           ELSE Unique(CHOOSE b \in sharers : TRUE)
    /\ \A query \in StrayQueries : Resolve(nb, query).kind = "AtomOutOfCapacity"

-----------------------------------------------------------------------------
(* Answers.                                                                *)

AddressOf(n, b) == {e.address : e \in {f \in Range(n.entries) : f.bytes = b}}

\* The changes of b carry its address from one value to another, link by link.
Carries(changes, b, from, to) ==
  LET links == {i \in DOMAIN changes : changes[i].bytes = b} IN
  /\ links = {} => from = to
  /\ \A i \in links :
       /\ changes[i].old # changes[i].new
       /\ (\A k \in links : i <= k) => changes[i].old = from
       /\ (\A k \in links : k <= i) => changes[i].new = to
       /\ \A j \in links : i < j /\ (\A k \in links : k <= i \/ j <= k)
                             => changes[i].new = changes[j].old

\* Whoever mirrors the addresses by applying the reported changes in order has,
\* for every member that was there before and still is, its current address.
\* (from_rows starts a new neighborhood and reports none.)
ChangesReplay ==
  [][nb' # nb /\ result'.op # "from_rows" =>
       \A b \in {e.bytes : e \in Range(nb.entries)} \cap {e.bytes : e \in Range(nb'.entries)} :
         Carries(result'.changes, b,
                 CHOOSE a \in AddressOf(nb, b) : TRUE, CHOOSE a \in AddressOf(nb', b) : TRUE)]_vars

\* The members there were before a call and there still are, at another address.
MovedMembers == {b \in Members \cap {e.bytes : e \in Range(nb'.entries)} :
            AddressOf(nb, b) # AddressOf(nb', b)}

\* b has in n an address that the one it has in m begins with.
IsShorter(n, m, b) == \A a \in AddressOf(n, b), c \in AddressOf(m, b) : IsStrictPrefix(a, c)

\* Whatever splits and collapses a call makes, it moves one member at most besides the one
\* it is about: an insert to a longer address, a removal, which takes out one member, to a
\* shorter one.
CallsMoveOne ==
  [][nb' # nb =>
       /\ result'.op = "insert" =>
            Cardinality(MovedMembers) <= 1 /\ \A b \in MovedMembers : IsShorter(nb, nb', b)
       /\ result'.op \in {"remove_by_bytes", "remove_by_identifier"} =>
            /\ Len(nb'.entries) = Len(nb.entries) - 1
            /\ Cardinality(MovedMembers) <= 1 /\ \A b \in MovedMembers : IsShorter(nb', nb, b)]_vars

\* validate accepts, and rebuild reproduces without a change, every
\* neighborhood the other calls can produce.
RebuildAgrees ==
  result.op \in {"validate", "rebuild"} =>
    result.status = "Ok" /\ result.changes = <<>>

\* The same where callers replace identifiers: then validate may find the
\* identifier index wrong, and nothing else.
RebuildAgreesButIndex ==
  result.op \in {"validate", "rebuild"} =>
    /\ result.status \in {"Ok", "identifier index"}
    /\ result.changes = <<>>

-----------------------------------------------------------------------------
(* The neighborhood implements its abstract specification.                 *)

MemberAt(b) == CHOOSE i \in DOMAIN nb.entries : nb.entries[i].bytes = b

Abstract ==
  INSTANCE NeighborhoodSpec WITH
    rows      <- [b \in Members |-> nb.entries[MemberAt(b)].identifier],
    addresses <- [b \in Members |-> nb.entries[MemberAt(b)].address],
    answer    <- <<IF result.status = "Panic" THEN "panic" ELSE result.op,
                   result.status \in Successes>>

\* Every call acts as one step of NeighborhoodSpec, and a call that fails, and
\* each row of a row-by-row call, as none.  No call meets an index out of range or a
\* broken trie: a panic is no answer of NeighborhoodSpec.
ImplementsSpec == Abstract!Spec
=============================================================================
