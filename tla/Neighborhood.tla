---------------------------- MODULE Neighborhood ----------------------------
(***************************************************************************)
(* One neighborhood (neighborhood.rs) under the calls its owner may make.  *)
(* The methods take &mut self, so calls never overlap: insert, set and     *)
(* remove are single steps, and the calls that insert row by row (merge,   *)
(* rebuild, validate, from_rows) take one step per row on a copy of their  *)
(* own, during which nothing else happens.                                 *)
(***************************************************************************)
EXTENDS NeighborhoodOps

CONSTANTS
  RowBatches,   \* row lists a caller may hand to from_rows or hold to merge
  Reassign,     \* whether callers replace an identifier by another one
  MaxLostSlots  \* bound: no call that takes slots once more than these are lost

ASSUME BatchAssumption ==
  /\ RowBatches \subseteq Seq(NeighborhoodRow)
  /\ Reassign \in BOOLEAN
  /\ MaxLostSlots \in Nat

VARIABLES
  nb,       \* the neighborhood
  call,     \* the row-by-row call in progress: its working copy, its rows to do
  result    \* the last answer

vars == <<nb, call, result>>

Calls == {"merge", "rebuild", "validate", "from_rows"}
Operations == Calls \cup {"new", "insert", "set_identifier", "remove_by_bytes",
                          "remove_by_identifier"}

NoCall == [op |-> "none", todo |-> <<>>, working |-> New]

Report(op, status, address, changes) ==
  [op |-> op, status |-> status, address |-> address, changes |-> changes]

\* What validate says is wrong (NeighborhoodError::Invalid).
Invalid == {"entries out of order", "identifier not unique", "empty address",
            "address not a prefix", "reference reconstruction failed", "entry count",
            "address not canonical", "identifier index", "trie"}

Statuses == Successes \cup Failures \cup Invalid

TypeOK ==
  /\ IsNeighborhood(nb)
  /\ call.op \in Calls \cup {"none"}
  /\ call.todo \in Seq(NeighborhoodRow)
  /\ IsNeighborhood(call.working)
  /\ call = [op |-> call.op, todo |-> call.todo, working |-> call.working]
  /\ call.op = "none" => call = NoCall
  /\ result \in [op : Operations, status : Statuses,
                 address : Seq(Atoms), changes : Seq(AddressChange)]

Init ==
  /\ nb = New
  /\ call = NoCall
  /\ result = Report("new", "Ok", <<>>, <<>>)

-----------------------------------------------------------------------------
(* Single-step calls.                                                      *)

Idle == call.op = "none"

\* Slots that are neither in use nor on the free list are never taken again.  The arena
\* grows only when the free list is empty, so that it has no more slots than the largest
\* trie of Contents and those lost.
HasRoom == nb.arena - Cardinality(DOMAIN nb.trie) - Len(nb.free_nodes) <= MaxLostSlots

\* The call op answers with one of the answers: it takes effect at once.
Returns(op, answers) ==
  /\ UNCHANGED call
  /\ \E a \in answers :
       /\ nb' = a.nb
       /\ result' = Report(op, a.status, a.address, a.changes)

\* insert, insert_with_identifier
Insert(b, id) ==
  /\ Idle
  /\ HasRoom
  /\ Returns("insert", InsertInner(nb, b, id))

Replaces(b, id) ==
  id # NoId /\ \E i \in Find(nb, b) : nb.entries[i].identifier \notin {NoId, id}

SetIdentifier(b, id) ==
  /\ Idle
  /\ Replaces(b, id) => Reassign
  /\ Returns("set_identifier", SetIdentifierInner(nb, b, id))

RemoveByBytes(b) ==
  /\ Idle
  /\ Returns("remove_by_bytes",
             IF Find(nb, b) = {} THEN {Refused(nb, "None")}
             ELSE UNION {RemoveInner(nb, i) : i \in Find(nb, b)})

RemoveByIdentifier(id) ==
  /\ Idle
  /\ Returns("remove_by_identifier",
             IF id \notin DOMAIN nb.identifier_index THEN {Refused(nb, "None")}
             ELSE RemoveInner(nb, nb.identifier_index[id]))

-----------------------------------------------------------------------------
(* Row-by-row calls.                                                       *)

Row(entry) == [bytes |-> entry.bytes, identifier |-> entry.identifier]

\* The authoritative rows of n, in byte order.
Rows(n) == [i \in DOMAIN n.entries |-> Row(n.entries[i])]

\* The rows of another neighborhood: its entries, sorted, and no identifier twice.
AreRows(rows) ==
  \A i, j \in DOMAIN rows : i < j =>
    /\ rows[i].bytes < rows[j].bytes
    /\ rows[i].identifier = rows[j].identifier => rows[i].identifier = NoId

Begin(op, rows, working) ==
  /\ Idle
  /\ call' = [op |-> op, todo |-> rows, working |-> working]
  /\ UNCHANGED <<nb, result>>

\* Mutant: a call that fails half-way leaves the rows it had inserted.
FailHalfway(op, status) ==
  /\ call' = NoCall
  /\ result' = Report(op, status, <<>>, <<>>)
  /\ nb' = IF call.op = "merge" THEN call.working ELSE nb

\* The call returns status and leaves the neighborhood as it was.
Fail(op, status) ==
  /\ call' = NoCall
  /\ result' = Report(op, status, <<>>, <<>>)
  /\ UNCHANGED nb

\* merge works on a clone, into which it inserts the entries of the other.
BeginMerge(rows) == AreRows(rows) /\ HasRoom /\ Begin("merge", rows, nb)

MergeOtherScheme == Idle /\ Fail("merge", "SchemeMismatch")

BeginRebuild == Begin("rebuild", Rows(nb), New)

BeginFromRows(rows) == Begin("from_rows", rows, New)

\* What validate looks at before it builds its reference.  (An atom outside the capacity,
\* which it names first, makes an address that is no prefix of a stream.)
EntriesError ==
  LET e == nb.entries IN
  CASE \E i \in 1..(Len(e) - 1) : e[i].bytes >= e[i + 1].bytes -> "entries out of order"
    [] \E i, j \in DOMAIN e : i # j /\ e[i].identifier = e[j].identifier
                                /\ e[i].identifier # NoId -> "identifier not unique"
    [] \E i \in DOMAIN e : e[i].address = <<>> -> "empty address"
    [] \E i \in DOMAIN e : e[i].address # Prefix(e[i].bytes, Len(e[i].address)) ->
         "address not a prefix"
    [] OTHER -> "Ok"

BeginValidate ==
  IF EntriesError = "Ok" THEN Begin("validate", Rows(nb), New)
  ELSE Idle /\ Fail("validate", EntriesError)

\* One insertion into the working copy; an error ends the call.
InsertRow ==
  /\ call.todo # <<>>
  /\ LET row == Head(call.todo) IN
     \E a \in InsertInner(call.working, row.bytes, row.identifier) :
       IF a.status \in Failures
       THEN Fail(call.op, IF call.op = "validate" /\ a.status # "Panic"
                          THEN "reference reconstruction failed" ELSE a.status)
       ELSE /\ call' = [call EXCEPT !.todo = Tail(@), !.working = a.nb]
            /\ UNCHANGED <<nb, result>>

Done(op) == call.op = op /\ call.todo = <<>>

\* The canonical form of a trie: its nodes, whatever slots they sit in.
Form(trie) ==
  [p \in DOMAIN trie |-> [content |-> trie[p].content, count |-> trie[p].count]]

\* What validate finds when it compares the neighborhood with the reference.
ReferenceError(reference) ==
  CASE Len(nb.entries) # Len(reference.entries) -> "entry count"
    [] \E i \in DOMAIN nb.entries :
         nb.entries[i].address # reference.entries[i].address -> "address not canonical"
    [] nb.identifier_index # reference.identifier_index -> "identifier index"
    [] Form(nb.trie) # Form(reference.trie) -> "trie"
    [] OTHER -> "Ok"

EndValidate == Done("validate") /\ Fail("validate", ReferenceError(call.working))

EndFromRows ==
  /\ Done("from_rows")
  /\ nb' = call.working
  /\ call' = NoCall
  /\ result' = Report("from_rows", "Ok", <<>>, <<>>)

\* The working entry with the bytes of the i-th entry.
Counterpart(i) ==
  {e \in Range(call.working.entries) : e.bytes = nb.entries[i].bytes}

Moved == {i \in DOMAIN nb.entries :
            \E e \in Counterpart(i) : e.address # nb.entries[i].address}

\* merge and rebuild report each entry whose address differs, in byte order,
\* and adopt the working copy.
Commit(op) ==
  /\ Done(op)
  /\ IF \E i \in DOMAIN nb.entries : Counterpart(i) = {}
     THEN Fail(op, "Panic")
     ELSE \E order \in [1..Cardinality(Moved) -> Moved],
             to \in [Moved -> UNION {Counterpart(i) : i \in Moved}] :
          /\ \A i, j \in DOMAIN order : i < j => order[i] < order[j]
          /\ \A i \in Moved : to[i] \in Counterpart(i)
          /\ nb' = call.working
          /\ call' = NoCall
          /\ result' = Report(op, "Ok", <<>>,
               [k \in 1..Cardinality(Moved) |->
                  [bytes      |-> nb.entries[order[k]].bytes,
                   identifier |-> nb.entries[order[k]].identifier,
                   old        |-> nb.entries[order[k]].address,
                   new        |-> to[order[k]].address]])

EndMerge == Commit("merge")
EndRebuild == Commit("rebuild")

-----------------------------------------------------------------------------
Next ==
  \/ \E b \in Contents, id \in Identifiers \cup {NoId} : Insert(b, id)
  \/ \E b \in Contents, id \in Identifiers \cup {NoId} : SetIdentifier(b, id)
  \/ \E b \in Contents : RemoveByBytes(b)
  \/ \E id \in Identifiers : RemoveByIdentifier(id)
  \/ \E rows \in RowBatches : BeginMerge(rows) \/ BeginFromRows(rows)
  \/ MergeOtherScheme
  \/ BeginRebuild
  \/ BeginValidate
  \/ InsertRow
  \/ EndValidate
  \/ EndFromRows
  \/ EndMerge
  \/ EndRebuild

Spec == Init /\ [][Next]_vars
=============================================================================
