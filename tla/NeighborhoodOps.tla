--------------------------- MODULE NeighborhoodOps ---------------------------
(***************************************************************************)
(* The data of a neighborhood (neighborhood.rs, struct Neighborhood) and   *)
(* its mutating operations as pure operators: each takes a neighborhood    *)
(* and returns the set of its possible answers, always a single one.  The  *)
(* state machine over them is module Neighborhood.                         *)
(*                                                                         *)
(* The trie is a function from the path of a node (the atoms on the way    *)
(* from the root) to the node, so a child of p is a path one atom longer.  *)
(* Each node keeps the arena slot the code stores it in; the free list and *)
(* the size of the arena are kept too.  Positions count from 1.            *)
(***************************************************************************)
EXTENDS AddressTrees

CONSTANTS
  Identifiers,    \* opaque downstream identifiers
  NoId,           \* Option::None for an identifier
  MaxDivergence   \* MAX_DIVERGENCE_ATOMS

ASSUME IdentifierAssumption == NoId \notin Identifiers
ASSUME DivergenceAssumption == MaxDivergence \in Nat

Vacant == 0         \* content: None
PLACEHOLDER == -1   \* content of a marker whose entry is not committed yet

Address == Seq(Atoms) \ {<<>>}

Entry == [address : Address, bytes : Contents,
          identifier : Identifiers \cup {NoId}]
AddressChange == [bytes : Contents, identifier : Identifiers \cup {NoId},
                  old : Address, new : Address]
NeighborhoodRow == [bytes : Contents, identifier : Identifiers \cup {NoId}]
TrieNode == [slot : Nat, content : Int, count : Int]

\* The type of a neighborhood.
IsNeighborhood(n) ==
  /\ n = [entries |-> n.entries, trie |-> n.trie, free_nodes |-> n.free_nodes,
          arena |-> n.arena, entry_nodes |-> n.entry_nodes,
          identifier_index |-> n.identifier_index]
  /\ n.entries \in Seq(Entry)
  /\ \A p \in DOMAIN n.trie : p \in Seq(Atoms)
  /\ n.trie \in [DOMAIN n.trie -> TrieNode]
  /\ n.free_nodes \in Seq(Nat)
  /\ n.arena \in Nat
  /\ n.entry_nodes \in Seq(Nat)
  /\ DOMAIN n.identifier_index \subseteq Identifiers
  /\ n.identifier_index \in [DOMAIN n.identifier_index -> Nat]

EmptyTrie == [p \in {<<>>} |-> [slot |-> 0, content |-> Vacant, count |-> 0]]

\* Neighborhood::new
New == [entries |-> <<>>, trie |-> EmptyTrie, free_nodes |-> <<>>, arena |-> 1,
        entry_nodes |-> <<>>, identifier_index |-> [id \in {} |-> 0]]

\* An answer of an operation: the neighborhood it leaves and what it returns.
Answer(n, status, address, changes) ==
  [nb |-> n, status |-> status, address |-> address, changes |-> changes]

Refused(n, status) == Answer(n, status, <<>>, <<>>)

Successes == {"Ok", "Inserted", "Existing", "Removed", "None"}

Failures == {"ContentNotFound", "IdentifierAlreadyAssigned",
             "ConflictingIdentifierForContent", "ContentsNotDistinguishable",
             "SchemeMismatch", "Panic"}

-----------------------------------------------------------------------------
(* Lookup.                                                                 *)

\* binary_search_by over the sorted entries: the position of b, if any ...
Find(n, b) == {i \in DOMAIN n.entries : n.entries[i].bytes = b}

\* ... or else where b belongs.
InsertPositions(n, b) ==
  {i \in 1..(Len(n.entries) + 1) :
     /\ \A j \in 1..(i - 1) : n.entries[j].bytes < b
     /\ \A j \in i..Len(n.entries) : n.entries[j].bytes > b}

Children(trie, p) ==
  {q \in DOMAIN trie : Len(q) = Len(p) + 1 /\ IsPrefix(p, q)}

\* sole_member_at: the marker that single-child nodes lead to from p, if any.
MarkersBelow(trie, p) ==
  {q \in DOMAIN trie :
     /\ IsPrefix(p, q)
     /\ trie[q].content # Vacant
     /\ \A r \in DOMAIN trie : IsPrefix(p, r) /\ IsStrictPrefix(r, q) =>
          trie[r].content = Vacant /\ Cardinality(Children(trie, r)) = 1}

-----------------------------------------------------------------------------
(* insert_inner                                                            *)

\* plan_insert's walk: the depth at which it meets a marker or a missing child.
WalkEnds(n, b) ==
  {d \in {Len(p) : p \in DOMAIN n.trie} :
     /\ \A k \in 0..d : Prefix(b, k) \in DOMAIN n.trie
     /\ \A k \in 0..(d - 1) : n.trie[Prefix(b, k)].content = Vacant
     /\ \/ n.trie[Prefix(b, d)].content # Vacant
        \/ Prefix(b, d + 1) \notin DOMAIN n.trie}

\* How many atoms b and m share from depth d on, when the bound finds out.
SharedAtoms(b, m, d) ==
  {j \in 0..(MaxDivergence - 1) :
     /\ \A i \in (d + 1)..(d + j) : Stream(b, i) = Stream(m, i)
     /\ Stream(b, d + j + 1) # Stream(m, d + j + 1)}

\* The k slots that k calls of new_node take: the free list from its end, then
\* the end of the arena.
NewSlots(n, k) ==
  LET free == Len(n.free_nodes) IN
  [i \in 1..k |-> IF i <= free THEN n.free_nodes[free + 1 - i]
                  ELSE n.arena + i - free - 1]

\* Mutant: the slots that are taken stay on the list.
FreeListKept(n, k) == n.free_nodes

FreeAfter(n, k) == SubSeq(n.free_nodes, 1, Len(n.free_nodes) - k)

ArenaAfter(n, k) ==
  n.arena + (IF k > Len(n.free_nodes) THEN k - Len(n.free_nodes) ELSE 0)

\* The paths apply_insert materializes, in the order it takes their slots: the
\* marker of a new leaf, or the shared chain, the member's and b's markers.
NewPaths(n, b, plan) ==
  LET end == plan.base + plan.shared + 1 IN
  IF plan.member = Vacant THEN <<Prefix(b, end)>>
  ELSE [i \in 1..plan.shared |-> Prefix(b, plan.base + i)]
         \o <<Prefix(n.entries[plan.member].bytes, end), Prefix(b, end)>>

NewCount(plan) == IF plan.member = Vacant THEN 1 ELSE plan.shared + 2

\* The node at the i-th of these paths.
NewNode(n, plan, i) ==
  LET k == NewCount(plan) IN
  [slot    |-> NewSlots(n, k)[i],
   content |-> IF i = k THEN PLACEHOLDER
               ELSE IF i > plan.shared THEN plan.member ELSE Vacant,
   count   |-> IF i <= plan.shared THEN 2 ELSE 1]

\* Mutant: only the node where the walk ended counts the new member.
OldNodeUncounted(n, b, plan, p) ==
  IF Len(p) > plan.base \/ p # Prefix(b, Len(p)) THEN n.trie[p]
  ELSE [slot    |-> n.trie[p].slot,
        content |-> IF Len(p) = plan.base THEN Vacant ELSE n.trie[p].content,
        count   |-> n.trie[p].count + (IF Len(p) = plan.base THEN 1 ELSE 0)]

\* The nodes of the walk count b, and the last of them gives its marker up.
OldNode(n, b, plan, p) ==
  IF Len(p) > plan.base \/ p # Prefix(b, Len(p)) THEN n.trie[p]
  ELSE [slot    |-> n.trie[p].slot,
        content |-> IF Len(p) = plan.base THEN Vacant ELSE n.trie[p].content,
        count   |-> n.trie[p].count + 1]

\* The trie with the new nodes, before the positions are shifted.
Attach(n, b, plan) ==
  LET paths == NewPaths(n, b, plan) IN
  [p \in DOMAIN n.trie \cup Range(paths) |->
     IF p \in Range(paths)
     THEN NewNode(n, plan, CHOOSE i \in DOMAIN paths : paths[i] = p)
     ELSE OldNode(n, b, plan, p)]

\* Mutant: the entry that was at pos keeps its position.
ShiftUpAfter(c, pos) ==
  IF c = PLACEHOLDER THEN pos ELSE IF c > pos THEN c + 1 ELSE c

\* Positions after an insertion at pos; the placeholder becomes pos.
ShiftUp(c, pos) ==
  IF c = PLACEHOLDER THEN pos ELSE IF c >= pos THEN c + 1 ELSE c

\* Mutant: the index is not shifted.
IndexUnshifted(n, pos, id) ==
  IF id = NoId THEN n.identifier_index ELSE Put(n.identifier_index, id, pos)

\* The identifier index after the insertion of an entry with identifier id.
IndexAfterInsert(n, pos, id) ==
  LET shifted == [x \in DOMAIN n.identifier_index |->
                    ShiftUp(n.identifier_index[x], pos)]
  IN IF id = NoId THEN shifted ELSE Put(shifted, id, pos)

\* Mutant: the split member's address is set once the new entry is in.
EntriesUpdatedLate(n, plan, moved, pos, entry) ==
  IF plan.member = Vacant THEN InsertAt(n.entries, pos, entry)
  ELSE [InsertAt(n.entries, pos, entry) EXCEPT ![plan.member].address = moved]

\* The entries with the new one at pos; a split member moves to its new address.
EntriesAfterInsert(n, plan, moved, pos, entry) ==
  InsertAt(IF plan.member = Vacant THEN n.entries
           ELSE [n.entries EXCEPT ![plan.member].address = moved], pos, entry)

\* apply_insert
ApplyInsert(n, b, id, pos, plan) ==
  LET splits == plan.member # Vacant
      end    == plan.base + plan.shared + 1
      trie   == Attach(n, b, plan)
      k      == NewCount(plan)
      slots  == NewSlots(n, k)
      member == n.entries[plan.member]
      moved  == Prefix(member.bytes, end)
      entry  == [address |-> Prefix(b, end), bytes |-> b, identifier |-> id]
  IN Answer(
       [entries |-> EntriesAfterInsert(n, plan, moved, pos, entry),
        trie |-> [p \in DOMAIN trie |->
                    [trie[p] EXCEPT !.content = ShiftUp(@, pos)]],
        free_nodes |-> FreeAfter(n, k),
        arena |-> ArenaAfter(n, k),
        entry_nodes |-> InsertAt(IF splits
                                 THEN [n.entry_nodes EXCEPT ![plan.member] = slots[k - 1]]
                                 ELSE n.entry_nodes, pos, slots[k]),
        identifier_index |-> IndexAfterInsert(n, pos, id)],
       "Inserted", entry.address,
       IF splits THEN <<[bytes |-> member.bytes, identifier |-> member.identifier,
                         old |-> member.address, new |-> moved]>>
       ELSE <<>>)

\* plan_insert and apply_insert for a content that is not a member.
InsertNew(n, b, id, pos, d) ==
  LET m == n.trie[Prefix(b, d)].content IN
  IF m = Vacant
  THEN {ApplyInsert(n, b, id, pos, [base |-> d, member |-> Vacant, shared |-> 0])}
  ELSE IF m \notin DOMAIN n.entries THEN {Refused(n, "Panic")}
  ELSE LET shared == SharedAtoms(b, n.entries[m].bytes, d) IN
       IF shared = {} THEN {Refused(n, "ContentsNotDistinguishable")}
       ELSE {ApplyInsert(n, b, id, pos, [base |-> d, member |-> m, shared |-> j]) :
               j \in shared}

\* Gives id to the entry at i.
Assign(n, i, id) ==
  [n EXCEPT !.entries = [@ EXCEPT ![i].identifier = id],
            !.identifier_index = Put(@, id, i)]

InsertExisting(n, i, id) ==
  LET entry == n.entries[i] IN
  IF id = NoId \/ id = entry.identifier THEN Answer(n, "Existing", entry.address, <<>>)
  ELSE IF entry.identifier # NoId THEN Refused(n, "ConflictingIdentifierForContent")
  ELSE IF id \in DOMAIN n.identifier_index THEN Refused(n, "IdentifierAlreadyAssigned")
  ELSE Answer(Assign(n, i, id), "Existing", entry.address, <<>>)

\* insert (id = NoId) and insert_with_identifier
InsertInner(n, b, id) ==
  IF Find(n, b) # {} THEN {InsertExisting(n, i, id) : i \in Find(n, b)}
  ELSE IF id \in DOMAIN n.identifier_index
  THEN {Refused(n, "IdentifierAlreadyAssigned")}
  ELSE UNION {InsertNew(n, b, id, pos, d) :
                pos \in InsertPositions(n, b), d \in WalkEnds(n, b)}

-----------------------------------------------------------------------------
(* set_identifier                                                          *)

\* The replaced identifier of an entry keeps its key in the index: only the
\* None branch removes one.
SetIdentifierAt(n, i, id) ==
  LET held == n.entries[i].identifier IN
  IF id # NoId
  THEN IF id \in DOMAIN n.identifier_index /\ n.identifier_index[id] # i
       THEN Refused(n, "IdentifierAlreadyAssigned")
       ELSE Answer(Assign(n, i, id), "Ok", <<>>, <<>>)
  ELSE Answer([n EXCEPT !.entries = [@ EXCEPT ![i].identifier = NoId],
                        !.identifier_index = Drop(@, held)], "Ok", <<>>, <<>>)

SetIdentifierInner(n, b, id) ==
  IF Find(n, b) = {} THEN {Refused(n, "ContentNotFound")}
  ELSE {SetIdentifierAt(n, i, id) : i \in Find(n, b)}

-----------------------------------------------------------------------------
(* remove_inner                                                            *)

\* The trie with the counts on the path decremented and the leaf unlinked.
Detach(n, address) ==
  [p \in DOMAIN n.trie \ {address} |->
     IF IsPrefix(p, address) THEN [n.trie[p] EXCEPT !.count = @ - 1]
     ELSE n.trie[p]]

\* Mutant: the loop stops after one level.
CollapseOneLevel(trie, address) ==
  {k \in 1..(Len(address) - 1) :
     /\ k = Len(address) - 1
     /\ trie[SubSeq(address, 1, k)].count = 1
     /\ trie[SubSeq(address, 1, k)].content = Vacant}

\* Mutant: the loop goes on to the root.
CollapseToRoot(trie, address) ==
  {k \in 0..(Len(address) - 1) :
     LET p == SubSeq(address, 1, k) IN
     /\ trie[p].count = 1
     /\ trie[p].content = Vacant
     /\ Cardinality(Children(trie, p)) = 1}

\* The levels of the path that the upward loop collapses.  (Its other branch,
\* for a count of 0, is for nodes that no reachable trie has: an inner node
\* below the root leads to two members at least.)
CollapseLevels(trie, address) ==
  {k \in 1..(Len(address) - 1) :
     LET p == SubSeq(address, 1, k) IN
     /\ trie[p].count = 1
     /\ trie[p].content = Vacant
     /\ Cardinality(Children(trie, p)) = 1}

\* The trie once every level from top down is collapsed onto its sole member.
Collapse(trie, address, top, member) ==
  LET p == SubSeq(address, 1, top) IN
  [q \in {q \in DOMAIN trie : ~IsStrictPrefix(p, q)} |->
     IF q = p THEN [slot |-> trie[p].slot, content |-> member, count |-> 1]
     ELSE trie[q]]

\* Mutant: only the first collapse frees its chain.
CollapsedSlotsOfChain(trie, address, top, low, marker) ==
  [i \in 1..(Len(marker) - low) |-> trie[SubSeq(marker, 1, low + i)].slot]

\* The slots the collapse frees, in order: the chain below the lowest level,
\* down to the member's marker, then the levels above it but the top one.
CollapsedSlots(trie, address, top, low, marker) ==
  LET chain == Len(marker) - low IN
  [i \in 1..(chain + low - top) |->
     IF i <= chain THEN trie[SubSeq(marker, 1, low + i)].slot
     ELSE trie[SubSeq(address, 1, low + chain + 1 - i)].slot]

\* Mutant: every change starts from the address before the removal.
CollapseChangesFromOld(member, address, top, low) ==
  [i \in 1..(low - top + 1) |->
     [bytes |-> member.bytes, identifier |-> member.identifier,
      old |-> member.address, new |-> SubSeq(address, 1, low + 1 - i)]]

\* One change for each collapsed level, from the lowest up.
CollapseChanges(member, address, top, low) ==
  [i \in 1..(low - top + 1) |->
     [bytes |-> member.bytes, identifier |-> member.identifier,
      old |-> IF i = 1 THEN member.address ELSE SubSeq(address, 1, low + 2 - i),
      new |-> SubSeq(address, 1, low + 1 - i)]]

\* Positions after the removal of the entry at idx.
ShiftDown(c, idx) == IF c > idx THEN c - 1 ELSE c

\* Mutant: the removed entry's identifier stays in the index.
IndexKept(n, idx) ==
  [x \in DOMAIN n.identifier_index |-> ShiftDown(n.identifier_index[x], idx)]

\* The identifier index after the removal of the entry at idx.
IndexAfterRemove(n, idx) ==
  LET index == Drop(n.identifier_index, n.entries[idx].identifier) IN
  [x \in DOMAIN index |-> ShiftDown(index[x], idx)]

\* The entry at idx and its identifier go; later positions move down.
Evict(n, idx) ==
  [entries |-> RemoveAt(n.entries, idx),
   trie |-> [p \in DOMAIN n.trie |->
               [n.trie[p] EXCEPT !.content = ShiftDown(@, idx)]],
   free_nodes |-> n.free_nodes,
   arena |-> n.arena,
   entry_nodes |-> RemoveAt(n.entry_nodes, idx),
   identifier_index |-> IndexAfterRemove(n, idx)]

\* The last member gets a leaf of its own below the root.  Nothing frees the
\* nodes that the root's children were, and the free list is emptied.
Reseat(n) ==
  LET first == Prefix(n.entries[1].bytes, 1)
      leaf  == NewSlots(n, 1)[1]
      root  == [n.trie[<<>>] EXCEPT !.count = 1]
  IN [entries |-> [n.entries EXCEPT ![1].address = first],
      trie |-> [p \in {<<>>, first} |->
                  IF p = <<>> THEN root
                  ELSE [slot |-> leaf, content |-> 1, count |-> 1]],
      free_nodes |-> <<>>,
      arena |-> ArenaAfter(n, 1),
      entry_nodes |-> <<leaf>>,
      identifier_index |-> n.identifier_index]

ReseatChanges(n) ==
  LET entry == n.entries[1]
      first == Prefix(entry.bytes, 1)
  IN IF entry.address = first THEN <<>>
     ELSE <<[bytes |-> entry.bytes, identifier |-> entry.identifier,
             old |-> entry.address, new |-> first]>>

\* The end of remove_inner: the cases of no member and of one member left.
Settle(n, address, changes) ==
  IF Len(n.entries) = 0
  THEN Answer([New EXCEPT !.identifier_index = n.identifier_index],
              "Removed", address, changes)
  ELSE IF Len(n.entries) = 1
  THEN Answer(Reseat(n), "Removed", address, changes \o ReseatChanges(n))
  ELSE Answer(n, "Removed", address, changes)

\* The loop's collapses, with the member that marker holds.
CollapseOnto(n, trie, freed, idx, levels, marker) ==
  LET address == n.entries[idx].address
      m   == trie[marker].content
      top == Min(levels)
      low == Max(levels)
      p   == SubSeq(address, 1, top)
      collapsed ==
        [n EXCEPT !.entries = [@ EXCEPT ![m].address = p],
                  !.trie = Collapse(trie, address, top, m),
                  !.free_nodes = freed \o CollapsedSlots(trie, address, top, low, marker),
                  !.entry_nodes = [@ EXCEPT ![m] = trie[p].slot]]
  IN IF m \notin DOMAIN n.entries THEN Refused(n, "Panic")
     ELSE Settle(Evict(collapsed, idx), address,
                 CollapseChanges(n.entries[m], address, top, low))

RemoveInner(n, idx) ==
  IF idx \notin DOMAIN n.entries THEN {Refused(n, "Panic")}
  ELSE LET address == n.entries[idx].address IN
  IF \E k \in 1..Len(address) : SubSeq(address, 1, k) \notin DOMAIN n.trie
  THEN {Refused(n, "Panic")}
  ELSE LET trie   == Detach(n, address)
           freed  == Append(n.free_nodes, n.trie[address].slot)
           levels == CollapseLevels(trie, address)
       IN IF levels = {}
          THEN {Settle(Evict([n EXCEPT !.trie = trie, !.free_nodes = freed], idx),
                       address, <<>>)}
          ELSE {CollapseOnto(n, trie, freed, idx, levels, marker) :
                  marker \in MarkersBelow(trie, SubSeq(address, 1, Max(levels)))}

-----------------------------------------------------------------------------
(* Queries.                                                                *)

\* get_by_identifier, the content it returns: the index may point past the end.
GetByIdentifier(n, id) ==
  {n.entries[i].bytes : i \in {j \in DOMAIN n.entries :
     id \in DOMAIN n.identifier_index /\ n.identifier_index[id] = j}}

NotFound == [kind |-> "NotFound"]
Unique(b) == [kind |-> "Unique", bytes |-> b]
Ambiguous(matches) == [kind |-> "Ambiguous", matches |-> matches]

\* Mutant: only the atom after the marker is compared.
ContinuesOnce(b, query, depth) ==
  depth < Len(query) => Stream(b, depth + 1) = query[depth + 1]

\* The stream of b goes on as the query does after depth atoms.
Continues(b, query, depth) ==
  \A i \in (depth + 1)..Len(query) : Stream(b, i) = query[i]

\* resolve, for a nonempty query: the walk stops at its end, before a missing child, or at
\* a marker.
Resolve(n, query) ==
  LET At(i) == SubSeq(query, 1, i)
      stop  == Min({i \in 0..Len(query) :
                     \/ i = Len(query)
                     \/ At(i + 1) \notin DOMAIN n.trie
                     \/ n.trie[At(i)].content # Vacant})
      node  == n.trie[At(stop)]
  IN IF \E i \in DOMAIN query : query[i] \notin Atoms
     THEN [kind |-> "AtomOutOfCapacity"]
     ELSE IF node.content # Vacant
     THEN LET b == n.entries[node.content].bytes IN
          IF Continues(b, query, stop) THEN Unique(b) ELSE NotFound
     ELSE IF stop < Len(query) \/ node.count = 0 THEN NotFound
     ELSE IF node.count > 1 THEN Ambiguous(node.count)
     ELSE Unique(n.entries[n.trie[CHOOSE q \in MarkersBelow(n.trie, query) : TRUE]
                             .content].bytes)
=============================================================================
