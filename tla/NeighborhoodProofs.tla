------------------------- MODULE NeighborhoodProofs -------------------------
(***************************************************************************)
(* What module Neighborhood keeps true, for all contents, streams and      *)
(* calls.  The inductive invariant is AllSound, with the types of the call *)
(* and of the last answer.  The work is in NeighborhoodLemmas: whatever    *)
(* insert, set_identifier and remove answer from a sound neighborhood is a *)
(* sound neighborhood.  Here are the actions around them; and what a sound *)
(* neighborhood answers: resolve, and the choices of the other calls.  The *)
(* last part is about the arena, with an invariant of its own, SInv.       *)
(***************************************************************************)
EXTENDS NeighborhoodProperties, NeighborhoodLemmas

Inv == TypeOK /\ AllSound

\* The shape of a state: what TypeOK says beyond the two neighborhoods.
Shape(c, r) ==
  /\ c.op \in Calls \cup {"none"}
  /\ c.todo \in Seq(NeighborhoodRow)
  /\ c = [op |-> c.op, todo |-> c.todo, working |-> c.working]
  /\ c.op = "none" => c = NoCall
  /\ r \in [op : Operations, status : Statuses,
            address : Seq(Atoms), changes : Seq(AddressChange)]

\* The invariant: legal values, a sound neighborhood and a sound working copy.
LEMMA InvIsShape == Inv <=> Shape(call, result) /\ Sound(nb) /\ Sound(call.working)
BY DEF Inv, Shape, TypeOK, AllSound, Sound

\* The empty neighborhood (Neighborhood::new) is sound.
LEMMA NewSound == Sound(New)
<1> DEFINE index == New.identifier_index
<1>1. DOMAIN index = {} /\ index \in [DOMAIN index -> Nat]
  BY DEF New
<1>2. [New EXCEPT !.identifier_index = index] = New
  BY DEF New
<1> HIDE DEF index
<1>3. DOMAIN index \subseteq Identifiers
  BY <1>1
<1>4. Sound([New EXCEPT !.identifier_index = index])
  BY <1>1, <1>3, EmptySound
<1> QED BY <1>2, <1>4

\* A report of a call is a legal result.
LEMMA ReportType ==
  ASSUME NEW op \in Operations, NEW status \in Statuses,
         NEW address \in Seq(Atoms), NEW changes \in Seq(AddressChange)
  PROVE  Report(op, status, address, changes)
           \in [op : Operations, status : Statuses,
                address : Seq(Atoms), changes : Seq(AddressChange)]
BY DEF Report

\* Every neighborhood without a call is a legal state.
LEMMA IdleShape ==
  ASSUME NEW op \in Operations, NEW status \in Statuses,
         NEW address \in Seq(Atoms), NEW changes \in Seq(AddressChange)
  PROVE  Shape(NoCall, Report(op, status, address, changes)) /\ Sound(NoCall.working)
<1>1. /\ NoCall.op = "none" /\ NoCall.todo = <<>> /\ NoCall.working = New
      /\ NoCall = [op |-> NoCall.op, todo |-> NoCall.todo, working |-> NoCall.working]
  BY DEF NoCall
<1>2. <<>> \in Seq(NeighborhoodRow)
  OBVIOUS
<1> QED BY <1>1, <1>2, ReportType, NewSound DEF Shape

\* The initial state satisfies the invariant.
LEMMA InitInv == Init => Inv
<1>1. "new" \in Operations /\ "Ok" \in Statuses
  BY DEF Operations, Statuses, Successes
<1>2. <<>> \in Seq(Atoms) /\ <<>> \in Seq(AddressChange)
  OBVIOUS
<1> QED BY <1>1, <1>2, IdleShape, NewSound, InvIsShape DEF Init

-----------------------------------------------------------------------------
(* Single-step calls.                                                      *)

\* A single-step call whose answers are all sound keeps the invariant.
LEMMA ReturnsInv ==
  ASSUME Inv, NEW op \in Operations, NEW answers,
         \A a \in answers : IsAnswer(a), Returns(op, answers)
  PROVE  Inv'
<1>1. PICK a \in answers : nb' = a.nb /\ result' = Report(op, a.status, a.address, a.changes)
  BY DEF Returns
<1>2. /\ Sound(a.nb) /\ a.status \in Statuses /\ a.address \in Seq(Atoms)
      /\ a.changes \in Seq(AddressChange)
  BY DEF IsAnswer, Statuses
<1>3. call' = call /\ Shape(call, result) /\ Sound(call.working)
  BY InvIsShape DEF Returns
<1>4. Shape(call', result')
  BY <1>1, <1>2, <1>3, ReportType DEF Shape
<1>5. Sound(nb') /\ Sound(call'.working)
  BY <1>1, <1>2, <1>3
<1> QED BY <1>4, <1>5, InvIsShape DEF Inv, Shape, TypeOK, AllSound, Sound

\* insert and insert_with_identifier keep the invariant.
LEMMA InsertInv ==
  ASSUME Inv, NEW b \in Contents, NEW id \in Identifiers \cup {NoId}, Insert(b, id)
  PROVE  Inv'
<1>1. Sound(nb) /\ "insert" \in Operations
  BY InvIsShape DEF Operations
<1>2. \A a \in InsertInner(nb, b, id) : IsAnswer(a)
  BY <1>1, InsertSound
<1> QED BY <1>1, <1>2, ReturnsInv DEF Insert

\* set_identifier keeps the invariant.
LEMMA SetIdentifierInv ==
  ASSUME Inv, NEW b \in Contents, NEW id \in Identifiers \cup {NoId}, SetIdentifier(b, id)
  PROVE  Inv'
<1>1. Sound(nb) /\ "set_identifier" \in Operations
  BY InvIsShape DEF Operations
<1>2. \A a \in SetIdentifierInner(nb, b, id) : IsAnswer(a)
  BY <1>1, SetIdentifierSound
<1> QED BY <1>1, <1>2, ReturnsInv DEF SetIdentifier

\* remove_by_bytes keeps the invariant.
LEMMA RemoveByBytesInv ==
  ASSUME Inv, NEW b \in Contents, RemoveByBytes(b)
  PROVE  Inv'
<1> DEFINE answers == IF Find(nb, b) = {} THEN {Refused(nb, "None")}
                      ELSE UNION {RemoveInner(nb, i) : i \in Find(nb, b)}
<1>1. Sound(nb) /\ "remove_by_bytes" \in Operations
  BY InvIsShape DEF Operations
<1>2. IsAnswer(Refused(nb, "None"))
  BY <1>1, RefusedIsAnswer DEF Successes
<1>3. \A a \in answers : IsAnswer(a)
  BY <1>1, <1>2, RemoveSound
<1> QED BY <1>1, <1>3, ReturnsInv DEF RemoveByBytes

\* remove_by_identifier keeps the invariant, whatever position the index names.
LEMMA RemoveByIdentifierInv ==
  ASSUME Inv, NEW id \in Identifiers, RemoveByIdentifier(id)
  PROVE  Inv'
<1> DEFINE answers == IF id \notin DOMAIN nb.identifier_index THEN {Refused(nb, "None")}
                      ELSE RemoveInner(nb, nb.identifier_index[id])
<1>1. Sound(nb) /\ "remove_by_identifier" \in Operations
  BY InvIsShape DEF Operations
<1>2. IsAnswer(Refused(nb, "None"))
  BY <1>1, RefusedIsAnswer DEF Successes
<1>3. \A a \in answers : IsAnswer(a)
  BY <1>1, <1>2, RemoveSound
<1> QED BY <1>1, <1>3, ReturnsInv DEF RemoveByIdentifier

-----------------------------------------------------------------------------
(* Row-by-row calls.                                                       *)

\* A call that fails keeps the invariant.
LEMMA FailInv ==
  ASSUME Inv, NEW op \in Operations, NEW status \in Statuses, Fail(op, status)
  PROVE  Inv'
<1>1. <<>> \in Seq(Atoms) /\ <<>> \in Seq(AddressChange)
  OBVIOUS
<1>2. Shape(call', result') /\ Sound(call'.working)
  BY <1>1, IdleShape DEF Fail
<1>3. Sound(nb')
  BY InvIsShape DEF Fail
<1> QED BY <1>2, <1>3 DEF Inv, Shape, TypeOK, AllSound, Sound

\* A call that has done its rows adopts the working copy.
LEMMA AdoptInv ==
  ASSUME Inv, NEW op \in Operations, NEW changes \in Seq(AddressChange),
         nb' = call.working, call' = NoCall, result' = Report(op, "Ok", <<>>, changes)
  PROVE  Inv'
<1>1. <<>> \in Seq(Atoms) /\ "Ok" \in Statuses
  BY DEF Statuses, Successes
<1>2. Shape(call', result') /\ Sound(call'.working)
  BY <1>1, IdleShape
<1>3. Sound(nb')
  BY InvIsShape
<1> QED BY <1>2, <1>3 DEF Inv, Shape, TypeOK, AllSound, Sound

\* Beginning a row-by-row call with a sound working copy keeps the invariant.
LEMMA BeginInv ==
  ASSUME Inv, NEW op \in Calls, NEW rows \in Seq(NeighborhoodRow),
         NEW working, Sound(working), Begin(op, rows, working)
  PROVE  Inv'
<1>1. /\ call' = [op |-> op, todo |-> rows, working |-> working]
      /\ nb' = nb /\ result' = result
  BY DEF Begin
<1>2. Shape(call, result) /\ Sound(nb)
  BY InvIsShape
<1>3. op # "none"
  BY DEF Calls
<1>4. /\ call'.op = op /\ call'.todo = rows /\ call'.working = working
      /\ call' = [op |-> call'.op, todo |-> call'.todo, working |-> call'.working]
  BY <1>1
<1>5. Shape(call', result') /\ Sound(call'.working) /\ Sound(nb')
  BY <1>1, <1>2, <1>3, <1>4 DEF Shape
<1> QED BY <1>5 DEF Inv, Shape, TypeOK, AllSound, Sound

\* The rows of a neighborhood are rows.
LEMMA RowsType ==
  ASSUME NEW n, Sound(n)
  PROVE  Rows(n) \in Seq(NeighborhoodRow)
<1> DEFINE es == n.entries
<1>1. es \in Seq(Entry) /\ DOMAIN es = 1..Len(es) /\ Len(es) \in Nat
  BY SoundFacts
<1> HIDE DEF es
<1>2. \A i \in 1..Len(es) : Row(es[i]) \in NeighborhoodRow
  <2> TAKE i \in 1..Len(es)
  <2>1. es[i] \in Entry
    BY <1>1
  <2>2. es[i].bytes \in Contents /\ es[i].identifier \in Identifiers \cup {NoId}
    BY <2>1 DEF Entry
  <2> QED BY <2>2 DEF Row, NeighborhoodRow
<1>3. [i \in 1..Len(es) |-> Row(es[i])] \in Seq(NeighborhoodRow)
  BY <1>1, <1>2
<1>4. Rows(n) = [i \in 1..Len(es) |-> Row(es[i])]
  BY <1>1 DEF Rows, es
<1> QED BY <1>3, <1>4

\* Each row of merge, rebuild, validate and from_rows keeps the invariant.
LEMMA InsertRowInv ==
  ASSUME Inv, InsertRow
  PROVE  Inv'
<1> DEFINE row == Head(call.todo)
<1>1. /\ Shape(call, result) /\ Sound(nb) /\ Sound(call.working) /\ call.todo # <<>>
  BY InvIsShape DEF InsertRow
<1>2. /\ call.todo \in Seq(NeighborhoodRow) /\ call.op \in Calls \cup {"none"}
  BY <1>1 DEF Shape
<1>3. row \in NeighborhoodRow /\ Tail(call.todo) \in Seq(NeighborhoodRow)
  BY <1>1, <1>2
<1>4. row.bytes \in Contents /\ row.identifier \in Identifiers \cup {NoId}
  BY <1>3 DEF NeighborhoodRow
<1>5. PICK a \in InsertInner(call.working, row.bytes, row.identifier) :
        IF a.status \in Failures
        THEN Fail(call.op, IF call.op = "validate" /\ a.status # "Panic"
                           THEN "reference reconstruction failed" ELSE a.status)
        ELSE /\ call' = [call EXCEPT !.todo = Tail(@), !.working = a.nb]
             /\ UNCHANGED <<nb, result>>
  BY DEF InsertRow
<1> HIDE DEF row
<1>6. IsAnswer(a)
  BY <1>1, <1>4, InsertSound
<1>7. CASE a.status \in Failures
  <2>1. call.op \in Operations
    <3>1. call.op # "none"
      BY <1>1 DEF Shape, NoCall
    <3> QED BY <1>2, <3>1 DEF Operations
  <2>2. a.status \in Statuses /\ "reference reconstruction failed" \in Statuses
    BY <1>7 DEF Statuses, Invalid
  <2> QED BY <1>5, <1>7, <2>1, <2>2, FailInv
<1>8. CASE a.status \notin Failures
  <2>1. /\ call'.op = call.op /\ call'.todo = Tail(call.todo) /\ call'.working = a.nb
        /\ call' = [op |-> call'.op, todo |-> call'.todo, working |-> call'.working]
        /\ nb' = nb /\ result' = result
    <3>1. call' = [call EXCEPT !.todo = Tail(@), !.working = a.nb] /\ nb' = nb /\ result' = result
      BY <1>5, <1>8
    <3>2. call = [op |-> call.op, todo |-> call.todo, working |-> call.working]
      BY <1>1 DEF Shape
    <3> QED BY <3>1, <3>2
  <2>2. call.op # "none"
    BY <1>1 DEF Shape, NoCall
  <2>3. Shape(call', result')
    BY <1>1, <1>3, <2>1, <2>2 DEF Shape
  <2>4. Sound(call'.working) /\ Sound(nb')
    BY <1>1, <1>6, <2>1 DEF IsAnswer
  <2> QED BY <2>3, <2>4 DEF Inv, Shape, TypeOK, AllSound, Sound
<1> QED BY <1>7, <1>8

\* Beginning a merge keeps the invariant.
LEMMA BeginMergeInv ==
  ASSUME Inv, NEW rows \in RowBatches, BeginMerge(rows)
  PROVE  Inv'
<1>1. rows \in Seq(NeighborhoodRow) /\ Sound(nb) /\ "merge" \in Calls
  BY BatchAssumption, InvIsShape DEF Calls
<1> QED BY <1>1, BeginInv DEF BeginMerge

\* Beginning from_rows keeps the invariant.
LEMMA BeginFromRowsInv ==
  ASSUME Inv, NEW rows \in RowBatches, BeginFromRows(rows)
  PROVE  Inv'
<1>1. rows \in Seq(NeighborhoodRow) /\ "from_rows" \in Calls
  BY BatchAssumption DEF Calls
<1> QED BY <1>1, NewSound, BeginInv DEF BeginFromRows

\* Beginning a rebuild keeps the invariant.
LEMMA BeginRebuildInv ==
  ASSUME Inv, BeginRebuild
  PROVE  Inv'
<1>1. Rows(nb) \in Seq(NeighborhoodRow) /\ "rebuild" \in Calls
  BY InvIsShape, RowsType DEF Calls
<1> QED BY <1>1, NewSound, BeginInv DEF BeginRebuild

\* validate, which may end at once, keeps the invariant.
LEMMA BeginValidateInv ==
  ASSUME Inv, BeginValidate
  PROVE  Inv'
<1>1. Rows(nb) \in Seq(NeighborhoodRow) /\ "validate" \in Calls /\ "validate" \in Operations
  BY InvIsShape, RowsType DEF Calls, Operations
<1>2. CASE EntriesError = "Ok"
  BY <1>1, <1>2, NewSound, BeginInv DEF BeginValidate
<1>3. CASE EntriesError # "Ok"
  <2>1. EntriesError \in Statuses
    BY DEF EntriesError, Statuses, Invalid, Successes
  <2> QED BY <1>1, <1>3, <2>1, FailInv DEF BeginValidate
<1> QED BY <1>2, <1>3

\* A merge refused for its scheme keeps the invariant.
LEMMA MergeOtherSchemeInv ==
  ASSUME Inv, MergeOtherScheme
  PROVE  Inv'
<1>1. "merge" \in Operations /\ "SchemeMismatch" \in Statuses
  BY DEF Operations, Calls, Statuses, Failures
<1> QED BY <1>1, FailInv DEF MergeOtherScheme

\* The end of validate keeps the invariant.
LEMMA EndValidateInv ==
  ASSUME Inv, EndValidate
  PROVE  Inv'
<1>1. "validate" \in Operations
  BY DEF Operations, Calls
<1>2. ReferenceError(call.working) \in Statuses
  BY DEF ReferenceError, Statuses, Invalid, Successes
<1> QED BY <1>1, <1>2, FailInv DEF EndValidate

\* The end of from_rows keeps the invariant.
LEMMA EndFromRowsInv ==
  ASSUME Inv, EndFromRows
  PROVE  Inv'
<1>1. "from_rows" \in Operations /\ <<>> \in Seq(AddressChange)
  BY DEF Operations, Calls
<1> QED BY <1>1, AdoptInv DEF EndFromRows

\* The end of merge or rebuild keeps the invariant.
LEMMA CommitInv ==
  ASSUME Inv, NEW op \in Calls, Commit(op)
  PROVE  Inv'
<1>1. op \in Operations /\ "Panic" \in Statuses
  BY DEF Operations, Statuses, Failures
<1>2. CASE \E i \in DOMAIN nb.entries : Counterpart(i) = {}
  BY <1>1, <1>2, FailInv DEF Commit
<1>3. CASE ~ \E i \in DOMAIN nb.entries : Counterpart(i) = {}
  <2> DEFINE Targets == UNION {Counterpart(i) : i \in Moved}
             size == Cardinality(Moved)
  <2>1. PICK order \in [1..size -> Moved], to \in [Moved -> Targets] :
          /\ nb' = call.working
          /\ call' = NoCall
          /\ result' = Report(op, "Ok", <<>>,
               [k \in 1..size |->
                  [bytes      |-> nb.entries[order[k]].bytes,
                   identifier |-> nb.entries[order[k]].identifier,
                   old        |-> nb.entries[order[k]].address,
                   new        |-> to[order[k]].address]])
    BY <1>3 DEF Commit
  <2> DEFINE change(k) == [bytes      |-> nb.entries[order[k]].bytes,
                           identifier |-> nb.entries[order[k]].identifier,
                           old        |-> nb.entries[order[k]].address,
                           new        |-> to[order[k]].address]
             changes == [k \in 1..size |-> change(k)]
  <2>2. /\ nb.entries \in Seq(Entry) /\ DOMAIN nb.entries = 1..Len(nb.entries)
        /\ Len(nb.entries) \in Nat /\ call.working.entries \in Seq(Entry)
    BY InvIsShape, SoundFacts
  <2>3. Moved \subseteq 1..Len(nb.entries)
    BY <2>2 DEF Moved
  <2>4. size \in Nat
    <3>0. 1 \in Int /\ Len(nb.entries) \in Int
      BY <2>2
    <3>1. IsFiniteSet(1..Len(nb.entries))
      BY <3>0, FS_Interval
    <3>2. IsFiniteSet(Moved)
      BY <2>3, <3>1, FS_Subset
    <3> QED BY <3>2, FS_CardinalityType
  <2>5. \A e \in Targets : e.address \in Address
    <3>1. \A e \in Range(call.working.entries) : e \in Entry
      BY <2>2 DEF Range
    <3> QED BY <3>1 DEF Counterpart, Entry
  <2>6. \A i \in Moved : nb.entries[i] \in Entry
    BY <2>2, <2>3
  <2> HIDE DEF Targets, size
  <2>7. \A k \in 1..size : change(k) \in AddressChange
    <3> TAKE k \in 1..size
    <3>1. order[k] \in Moved
      BY <2>1
    <3>2. nb.entries[order[k]] \in Entry /\ to[order[k]].address \in Address
      BY <2>1, <2>5, <2>6, <3>1
    <3> QED BY <3>2 DEF Entry, AddressChange
  <2>8. result' = Report(op, "Ok", <<>>, changes)
    BY <2>1
  <2> HIDE DEF change
  <2>9. changes \in Seq(AddressChange)
    <3>1. changes \in [1..size -> AddressChange]
      BY <2>7
    <3> QED BY <2>4, <3>1
  <2> HIDE DEF changes
  <2> QED BY <1>1, <2>1, <2>8, <2>9, AdoptInv
<1> QED BY <1>2, <1>3

-----------------------------------------------------------------------------
(* The theorems.                                                           *)

\* Every step keeps the invariant.
LEMMA NextInv == Inv /\ [Next]_vars => Inv'
<1> SUFFICES ASSUME Inv, [Next]_vars PROVE Inv'
  OBVIOUS
<1>1. CASE \E b \in Contents, id \in Identifiers \cup {NoId} : Insert(b, id)
  BY <1>1, InsertInv
<1>2. CASE \E b \in Contents, id \in Identifiers \cup {NoId} : SetIdentifier(b, id)
  BY <1>2, SetIdentifierInv
<1>3. CASE \E b \in Contents : RemoveByBytes(b)
  BY <1>3, RemoveByBytesInv
<1>4. CASE \E id \in Identifiers : RemoveByIdentifier(id)
  BY <1>4, RemoveByIdentifierInv
<1>5. CASE \E rows \in RowBatches : BeginMerge(rows) \/ BeginFromRows(rows)
  BY <1>5, BeginMergeInv, BeginFromRowsInv
<1>6. CASE MergeOtherScheme
  BY <1>6, MergeOtherSchemeInv
<1>7. CASE BeginRebuild
  BY <1>7, BeginRebuildInv
<1>8. CASE BeginValidate
  BY <1>8, BeginValidateInv
<1>9. CASE InsertRow
  BY <1>9, InsertRowInv
<1>10. CASE EndValidate
  BY <1>10, EndValidateInv
<1>11. CASE EndFromRows
  BY <1>11, EndFromRowsInv
<1>12. CASE EndMerge \/ EndRebuild
  <2>1. "merge" \in Calls /\ "rebuild" \in Calls
    BY DEF Calls
  <2> QED BY <1>12, <2>1, CommitInv DEF EndMerge, EndRebuild
<1>13. CASE UNCHANGED vars
  BY <1>13 DEF vars, Inv, TypeOK, AllSound
<1> QED
  BY <1>1, <1>2, <1>3, <1>4, <1>5, <1>6, <1>7, <1>8, <1>9, <1>10, <1>11, <1>12, <1>13
     DEF Next

\* The invariant is inductive.
THEOREM Invariant == Spec => []Inv
BY InitInv, NextInv, PTL DEF Spec

\* Type correctness.
THEOREM TypesHold == Spec => []TypeOK
BY Invariant, PTL DEF Inv

\* Whatever the calls, the neighborhood and the working copy of a row-by-row call
\* are sound after every step.
THEOREM SoundnessHolds == Spec => []AllSound
BY Invariant, PTL DEF Inv

\* A sound neighborhood stores for each member its canonical address: the
\* shortest prefix of its stream that no other member's stream shares.
LEMMA SoundIsCanonical == Sound(nb) => AddressesCanonical
<1> SUFFICES ASSUME Sound(nb), NEW e \in Range(nb.entries)
             PROVE  IsCanonicalAddress(Members, e.bytes, e.address)
  BY DEF AddressesCanonical
<1> DEFINE es == nb.entries
           A == AddressesOf(es)
<1>1. /\ es \in Seq(Entry) /\ InByteOrder(es) /\ IsTree(A) /\ DOMAIN es = 1..Len(es)
  BY SoundFacts DEF Sound
<1>2. /\ \A b : b \in DOMAIN A <=> \E i \in 1..Len(es) : es[i].bytes = b
      /\ \A i \in 1..Len(es) : es[i].bytes \in DOMAIN A /\ A[es[i].bytes] = es[i].address
  BY <1>1, EntriesFacts
<1>3. PICK i \in 1..Len(es) : e = es[i]
  BY <1>1 DEF Range
<1>4. Members = DOMAIN A
  <2>1. \A b : b \in Members <=> \E k \in 1..Len(es) : es[k].bytes = b
    BY <1>1 DEF Members, Range
  <2> HIDE DEF A
  <2> QED BY <1>2, <2>1
<1> HIDE DEF A, es
<1>5. IsCanonicalAddress(DOMAIN A, e.bytes, A[e.bytes])
  BY <1>1, <1>2, <1>3, TreeIsCanonical
<1> QED BY <1>2, <1>3, <1>4, <1>5

\* The core invariant of the crate: every stored address is canonical among the
\* members of the moment, whatever calls led there.
THEOREM AddressesStayCanonical == Spec => []AddressesCanonical
<1>1. Inv => AddressesCanonical
  BY SoundIsCanonical DEF Inv, AllSound
<1> QED BY <1>1, Invariant, PTL

-----------------------------------------------------------------------------
(* What a sound neighborhood answers: resolve says what the members'       *)
(* streams say of every query, and every call finds exactly one place, one *)
(* end of its walk, one split and one marker.                              *)

\* The members are those the addresses are of.
LEMMA MembersAreDomain ==
  ASSUME Sound(nb)
  PROVE  Members = DOMAIN AddressesOf(nb.entries)
<1> DEFINE es == nb.entries
<1>1. es \in Seq(Entry) /\ InByteOrder(es) /\ DOMAIN es = 1..Len(es)
  BY SoundFacts DEF Sound
<1>2. \A b : b \in DOMAIN AddressesOf(es) <=> \E i \in 1..Len(es) : es[i].bytes = b
  BY <1>1, EntriesFacts
<1>3. \A b : b \in Members <=> \E k \in 1..Len(es) : es[k].bytes = b
  BY <1>1 DEF Members, Range
<1> QED BY <1>2, <1>3

-----------------------------------------------------------------------------
(* resolve.                                                                *)

\* The members whose stream starts with a query, and what they say of it.
SharersOf(M, query) == {b \in M : Prefix(b, Len(query)) = query}

StreamsSay(M, query) ==
  IF SharersOf(M, query) = {} THEN NotFound
  ELSE IF Cardinality(SharersOf(M, query)) > 1
  THEN Ambiguous(Cardinality(SharersOf(M, query)))
  ELSE Unique(CHOOSE b \in SharersOf(M, query) : TRUE)

\* What is at the start of a query is at the start of its sharers' streams.
LEMMA StartOfQuery ==
  ASSUME NEW query \in Seq(Atoms), NEW c \in Contents, Prefix(c, Len(query)) = query,
         NEW k \in 0..Len(query)
  PROVE  SubSeq(query, 1, k) = Prefix(c, k)
<1>1. /\ Prefix(c, k) \in Seq(Atoms) /\ Len(Prefix(c, k)) = k
      /\ \A i \in 1..k : Prefix(c, k)[i] = Stream(c, i)
      /\ \A i \in 1..Len(query) : query[i] = Stream(c, i)
  BY PrefixProperties
<1>2. /\ SubSeq(query, 1, k) \in Seq(Atoms) /\ Len(SubSeq(query, 1, k)) = k
      /\ \A i \in 1..k : SubSeq(query, 1, k)[i] = query[i]
  BY SubSeqIsPrefix
<1>3. \A i \in 1..k : SubSeq(query, 1, k)[i] = Prefix(c, k)[i]
  BY <1>1, <1>2
<1> QED BY <1>1, <1>2, <1>3

\* A member's stream goes on as the query does from its address exactly if it starts with
\* the query.
LEMMA ContinuesIsSharing ==
  ASSUME NEW query \in Seq(Atoms), NEW c \in Contents, NEW k \in 0..Len(query),
         SubSeq(query, 1, k) = Prefix(c, k)
  PROVE  Continues(c, query, k) <=> Prefix(c, Len(query)) = query
<1>1. /\ Prefix(c, Len(query)) \in Seq(Atoms) /\ Len(Prefix(c, Len(query))) = Len(query)
      /\ \A i \in 1..Len(query) : Prefix(c, Len(query))[i] = Stream(c, i)
      /\ \A i \in 1..k : Prefix(c, k)[i] = Stream(c, i)
  BY PrefixProperties
<1>2. \A i \in 1..k : query[i] = Stream(c, i)
  BY <1>1, SubSeqIsPrefix
<1>3. Prefix(c, Len(query)) = query <=> \A i \in 1..Len(query) : Stream(c, i) = query[i]
  BY <1>1
<1>4. ASSUME Continues(c, query, k), NEW i \in 1..Len(query)
      PROVE  Stream(c, i) = query[i]
  <2>1. CASE i <= k
    BY <1>2, <2>1
  <2>2. CASE i > k
    <3>1. i \in (k + 1)..Len(query)
      BY <2>2
    <3> QED BY <1>4, <3>1 DEF Continues
  <2> QED BY <2>1, <2>2
<1>5. ASSUME \A i \in 1..Len(query) : Stream(c, i) = query[i]
      PROVE  Continues(c, query, k)
  <2>1. \A i \in (k + 1)..Len(query) : i \in 1..Len(query)
    OBVIOUS
  <2> QED BY <1>5, <2>1 DEF Continues
<1> QED BY <1>3, <1>4, <1>5

\* Where resolve may stop: at the end of the query, before a missing child, at a marker.
Stops(n, query) ==
  {i \in 0..Len(query) :
     \/ i = Len(query)
     \/ SubSeq(query, 1, i + 1) \notin DOMAIN n.trie
     \/ n.trie[SubSeq(query, 1, i)].content # Vacant}

\* It stops at a node, the first for which one of these holds.
LEMMA StopFacts ==
  ASSUME NEW n, Sound(n), NEW query \in Seq(Atoms), NEW stop, stop = Min(Stops(n, query))
  PROVE  /\ stop \in 0..Len(query)
         /\ SubSeq(query, 1, stop) \in DOMAIN n.trie
         /\ \A j \in 0..(stop - 1) : n.trie[SubSeq(query, 1, j)].content = Vacant
         /\ n.trie[SubSeq(query, 1, stop)].content = Vacant /\ stop < Len(query)
              => SubSeq(query, 1, stop + 1) \notin DOMAIN n.trie
<1> DEFINE S == Stops(n, query)
<1>0. Len(query) \in Nat
  OBVIOUS
<1>1. S \in SUBSET Nat /\ S # {}
  BY <1>0 DEF Stops
<1>2. stop \in S /\ \A y \in S : stop <= y
  BY <1>1, LeastNatural DEF Min
<1>3. stop \in 0..Len(query)
  BY <1>2 DEF Stops
<1>4. \A j \in 0..(stop - 1) : /\ SubSeq(query, 1, j + 1) \in DOMAIN n.trie
                               /\ n.trie[SubSeq(query, 1, j)].content = Vacant
  <2> SUFFICES ASSUME NEW j \in 0..(stop - 1), j \notin S
               PROVE  /\ SubSeq(query, 1, j + 1) \in DOMAIN n.trie
                      /\ n.trie[SubSeq(query, 1, j)].content = Vacant
    <3>1. \A j \in 0..(stop - 1) : ~(stop <= j)
      BY <1>3
    <3> QED BY <1>2, <3>1
  <2>1. j \in 0..Len(query)
    BY <1>0, <1>3
  <2> QED BY <2>1 DEF Stops
<1>5. SubSeq(query, 1, stop) \in DOMAIN n.trie
  <2>1. CASE stop = 0
    <3>1. SubSeq(query, 1, 0) = <<>>
      OBVIOUS
    <3>2. <<>> \in DOMAIN n.trie
      BY SoundFacts DEF Sound, IsTree, TrieSpans, Nodes
    <3> QED BY <2>1, <3>1, <3>2
  <2>2. CASE stop # 0
    <3>1. stop - 1 \in 0..(stop - 1) /\ (stop - 1) + 1 = stop
      BY <1>0, <1>3, <2>2
    <3> QED BY <1>4, <3>1
  <2> QED BY <2>1, <2>2
<1>6. ASSUME n.trie[SubSeq(query, 1, stop)].content = Vacant, stop < Len(query)
      PROVE  SubSeq(query, 1, stop + 1) \notin DOMAIN n.trie
  <2>1. stop # Len(query)
    BY <1>0, <1>3, <1>6
  <2> QED BY <1>2, <1>6, <2>1 DEF Stops
<1> QED BY <1>3, <1>4, <1>5, <1>6

\* A sharer of a query whose start of k atoms leads to a marker is the marker's member.
LEMMA SharerAtMarker ==
  ASSUME NEW A, IsTree(A), NEW query \in Seq(Atoms), NEW k \in 0..Len(query),
         NEW b \in DOMAIN A, A[b] = SubSeq(query, 1, k),
         NEW c \in SharersOf(DOMAIN A, query)
  PROVE  c = b
<1>1. /\ c \in DOMAIN A /\ c \in Contents /\ Prefix(c, Len(query)) = query
      /\ b \in Contents /\ IsAddressMap(A)
      /\ A[b] \in Seq(Atoms) /\ A[c] \in Seq(Atoms)
      /\ A[c] = Prefix(c, Len(A[c]))
  BY DEF SharersOf, IsTree, IsAddressMap, Follows
<1>2. A[b] = Prefix(c, k)
  BY <1>1, StartOfQuery
<1>3. Len(A[c]) \in Nat /\ k \in Nat
  BY <1>1
<1> DEFINE l == Len(A[c])
<1>4. CASE k <= l
  <2>1. k = Len(A[b])
    BY <1>1, <1>2, <1>3, PrefixProperties
  <2>2. IsPrefix(A[b], Prefix(c, l))
    BY <1>1, <1>2, <1>3, <1>4, <2>1, PrefixOfPrefix
  <2> QED BY <1>1, <2>2 DEF IsTree, Separate
<1>5. CASE l <= k
  <2>1. IsPrefix(A[c], Prefix(c, k))
    BY <1>1, <1>3, <1>5, PrefixOfPrefix
  <2> QED BY <1>1, <1>2, <2>1 DEF IsTree, Separate
<1> QED BY <1>3, <1>4, <1>5

\* Where no start of the query is a member's address, the members below the query are its
\* sharers, all of them further down.
LEMMA SharersAreBelow ==
  ASSUME NEW A, IsTree(A), NEW query \in Seq(Atoms),
         \A c \in DOMAIN A, k \in 0..Len(query) : A[c] # SubSeq(query, 1, k)
  PROVE  /\ SharersOf(DOMAIN A, query) = Under(A, query)
         /\ \A c \in Under(A, query) : Len(A[c]) > Len(query)
<1>1. ASSUME NEW c \in DOMAIN A
      PROVE  /\ IsPrefix(query, A[c]) <=> Prefix(c, Len(query)) = query
             /\ IsPrefix(query, A[c]) => Len(A[c]) > Len(query)
  <2> DEFINE l == Len(A[c])
             h == Len(query)
  <2>1. /\ c \in Contents /\ A[c] \in Seq(Atoms) /\ A[c] = Prefix(c, l)
        /\ l \in Nat /\ h \in Nat
    BY DEF IsTree, IsAddressMap, Follows
  <2>2. IsPrefix(query, A[c]) <=> h <= l /\ query = Prefix(c, h)
    <3>1. IsPrefix(query, Prefix(c, l)) <=> h <= l /\ query = Prefix(c, h)
      BY <2>1, PrefixOfPrefix
    <3> QED BY <2>1, <3>1
  <2>3. ASSUME Prefix(c, h) = query PROVE l > h
    <3> SUFFICES ASSUME l <= h PROVE FALSE
      BY <2>1
    <3>1. SubSeq(query, 1, l) = Prefix(c, l)
      BY <2>1, <2>3, StartOfQuery
    <3> QED BY <2>1, <3>1
  <2> QED BY <2>1, <2>2, <2>3
<1>2. \A c : c \in SharersOf(DOMAIN A, query) <=> c \in Under(A, query)
  BY <1>1 DEF SharersOf, Under
<1>3. \A c \in Under(A, query) : Len(A[c]) > Len(query)
  BY <1>1 DEF Under
<1> QED BY <1>2, <1>3

\* An inner node below the root leads to two members: no address can be shortened.
LEMMA InnerNodeIsShared ==
  ASSUME NEW A, IsTree(A), NEW p \in Seq(Atoms), p # <<>>,
         \A c \in Under(A, p) : Len(A[c]) > Len(p)
  PROVE  Cardinality(Under(A, p)) # 1
<1> SUFFICES ASSUME Cardinality(Under(A, p)) = 1 PROVE FALSE
  OBVIOUS
<1>1. PICK c : Under(A, p) = {c}
  BY UnderFinite, FS_Singleton DEF IsTree
<1>2. /\ c \in DOMAIN A /\ A[c] \in Seq(Atoms) /\ IsPrefix(p, A[c])
      /\ Len(p) \in Nat /\ Len(p) > 0 /\ Len(A[c]) \in Nat /\ Len(A[c]) > Len(p)
  <2>1. c \in Under(A, p)
    BY <1>1
  <2> QED BY <2>1 DEF Under, IsTree, IsAddressMap
<1>3. PICK d \in DOMAIN A \ {c} : IsPrefix(Parent(A[c]), A[d])
  BY <1>2 DEF IsTree, Tight
<1>4. /\ Parent(A[c]) \in Seq(Atoms) /\ Len(Parent(A[c])) = Len(A[c]) - 1
      /\ IsPrefix(Parent(A[c]), A[c])
  <2>1. Len(A[c]) - 1 \in 0..Len(A[c])
    BY <1>2
  <2> QED BY <1>2, <2>1, SubSeqIsPrefix DEF Parent
<1>5. IsPrefix(p, Parent(A[c]))
  BY <1>2, <1>4, PrefixesCompare
<1>6. A[d] \in Seq(Atoms)
  BY DEF IsTree, IsAddressMap
<1>7. IsPrefix(p, A[d])
  BY <1>3, <1>4, <1>5, <1>6, PrefixTransitive
<1>8. d \in Under(A, p)
  BY <1>7 DEF Under
<1> QED BY <1>1, <1>8

\* resolve answers as the streams of all members do, for a query of any length (resolve and
\* sole_member_at: its last branch, one member below an inner node, is never taken).
THEOREM ResolveIsRight ==
  ASSUME NEW n, Sound(n), NEW query \in Seq(Atoms), query # <<>>
  PROVE  Resolve(n, query) = StreamsSay(DOMAIN AddressesOf(n.entries), query)
<1> DEFINE es   == n.entries
           A    == AddressesOf(es)
           stop == Min(Stops(n, query))
           p    == SubSeq(query, 1, stop)
           node == n.trie[p]
           H    == SharersOf(DOMAIN A, query)
           h    == Len(query)
           m    == node.content
           b    == es[m].bytes
           say  == StreamsSay(DOMAIN A, query)
<1>0. SUFFICES Resolve(n, query) = say
  OBVIOUS
<1>1. /\ es \in Seq(Entry) /\ InByteOrder(es) /\ IsTree(A) /\ DOMAIN n.trie = Nodes(A)
      /\ \A q \in Nodes(A) :
           /\ n.trie[q].count = Cardinality(Under(A, q))
           /\ n.trie[q].content \in 1..Len(es) \cup {Vacant}
           /\ n.trie[q].content # Vacant => es[n.trie[q].content].address = q
           /\ \A i \in 1..Len(es) : es[i].address = q => n.trie[q].content = i
  BY SoundFacts DEF Sound
<1>2. /\ \A c : c \in DOMAIN A <=> \E i \in 1..Len(es) : es[i].bytes = c
      /\ \A i \in 1..Len(es) : es[i].bytes \in DOMAIN A /\ A[es[i].bytes] = es[i].address
  BY <1>1, EntriesFacts
<1>3. h \in Nat /\ h > 0 /\ \A i \in DOMAIN query : query[i] \in Atoms
  OBVIOUS
<1> HIDE DEF A
<1>a. /\ H = {} => say = NotFound
      /\ H # {} /\ Cardinality(H) > 1 => say = Ambiguous(Cardinality(H))
      /\ H # {} /\ ~(Cardinality(H) > 1) => say = Unique(CHOOSE c \in H : TRUE)
  BY DEF StreamsSay
<1> HIDE DEF H, say
<1>4. /\ stop \in 0..h
      /\ p \in Nodes(A)
      /\ \A j \in 0..(stop - 1) : n.trie[SubSeq(query, 1, j)].content = Vacant
      /\ m = Vacant /\ stop < h => SubSeq(query, 1, stop + 1) \notin Nodes(A)
  BY <1>1, StopFacts
<1>5. Resolve(n, query) =
        IF m # Vacant
        THEN IF Continues(b, query, stop) THEN Unique(b) ELSE NotFound
        ELSE IF stop < h \/ node.count = 0 THEN NotFound
        ELSE IF node.count > 1 THEN Ambiguous(node.count)
        ELSE Unique(es[n.trie[CHOOSE q \in MarkersBelow(n.trie, query) : TRUE].content].bytes)
  <2>1. (\E i \in DOMAIN query : query[i] \notin Atoms) = FALSE
    BY <1>3
  <2> QED BY <2>1 DEF Resolve, Stops
<1> HIDE DEF stop
<1>6. CASE m # Vacant
  <2>1. /\ m \in 1..Len(es) /\ b \in DOMAIN A /\ A[b] = p
    BY <1>1, <1>2, <1>4, <1>6
  <2>2. b \in Contents /\ p = Prefix(b, stop)
    <3>1. b \in Contents /\ A[b] = Prefix(b, Len(A[b]))
      BY <1>1, <2>1 DEF IsTree, IsAddressMap, Follows
    <3>2. Len(p) = stop
      BY <1>4, SubSeqIsPrefix
    <3> QED BY <2>1, <3>1, <3>2
  <2>3. \A c \in H : c = b
    <3> SUFFICES ASSUME NEW c \in SharersOf(DOMAIN A, query) PROVE c = b
      BY DEF H
    <3>1. IsTree(A) /\ b \in DOMAIN A /\ A[b] = SubSeq(query, 1, stop) /\ stop \in 0..Len(query)
      BY <1>1, <1>4, <2>1
    <3> HIDE DEF b, p
    <3> QED BY <3>1, SharerAtMarker, ZenonT(30)
  <2>4. Continues(b, query, stop) <=> b \in H
    <3>1. Continues(b, query, stop) <=> Prefix(b, h) = query
      BY <1>4, <2>2, ContinuesIsSharing
    <3> QED BY <2>1, <3>1 DEF H, SharersOf
  <2>5. CASE b \in H
    <3>1. H = {b}
      BY <2>3, <2>5
    <3>2. Cardinality(H) = 1 /\ (CHOOSE c \in H : TRUE) = b
      BY <3>1, FS_Singleton
    <3>3. H # {} /\ ~(Cardinality(H) > 1)
      BY <2>5, <3>2
    <3>4. say = Unique(CHOOSE c \in H : TRUE)
      BY <1>a, <3>3
    <3>5. say = Unique(b)
      BY <3>2, <3>4
    <3> QED BY <1>5, <1>6, <2>4, <2>5, <3>5
  <2>6. CASE b \notin H
    <3>1. H = {}
      BY <2>3, <2>6
    <3> QED BY <1>5, <1>6, <1>a, <2>4, <2>6, <3>1
  <2> QED BY <2>5, <2>6
<1>7. CASE m = Vacant /\ stop < h
  <2>1. ASSUME NEW c \in H PROVE FALSE
    <3>1. c \in DOMAIN A /\ c \in Contents /\ Prefix(c, h) = query
      BY <1>1 DEF H, SharersOf, IsTree, IsAddressMap
    <3>2. PICK i \in 1..Len(es) : es[i].bytes = c /\ es[i].address = A[c]
      BY <1>2, <3>1
    <3> DEFINE l == Len(A[c])
    <3>3. A[c] = Prefix(c, l) /\ l \in Nat /\ A[c] \in Seq(Atoms)
      BY <1>1, <3>1 DEF IsTree, IsAddressMap, Follows
    <3> HIDE DEF l
    <3>4. CASE l <= stop
      <4>1. l \in 0..h /\ l \in 0..stop
        BY <1>3, <1>4, <3>3, <3>4
      <4>2. SubSeq(query, 1, l) = A[c]
        BY <3>1, <3>3, <4>1, StartOfQuery
      <4>3. n.trie[SubSeq(query, 1, l)].content = Vacant
        <5>1. l \in 0..(stop - 1) \/ l = stop
          BY <1>4, <4>1
        <5> QED BY <1>4, <1>7, <5>1
      <4>4. A[c] \in Nodes(A)
        BY <1>1, <3>1, <3>3, PrefixReflexive, NodesDef DEF IsTree
      <4>5. n.trie[A[c]].content = i
        BY <1>1, <3>2, <4>4
      <4>6. i # 0 /\ Vacant = 0
        BY <3>2 DEF Vacant
      <4>7. n.trie[A[c]].content = Vacant
        BY <4>2, <4>3
      <4> QED BY <4>5, <4>6, <4>7
    <3>5. CASE l > stop
      <4>1. stop + 1 \in 0..h /\ stop + 1 \in Nat /\ stop + 1 <= l
        BY <1>3, <1>4, <1>7, <3>3, <3>5
      <4> DEFINE q == SubSeq(query, 1, stop + 1)
      <4>2. q = Prefix(c, stop + 1) /\ q \in Seq(Atoms) /\ Len(q) = stop + 1
        BY <3>1, <4>1, StartOfQuery, PrefixProperties
      <4>3. IsPrefix(q, Prefix(c, l))
        BY <3>1, <3>3, <4>1, <4>2, PrefixOfPrefix
      <4>4. q \in Nodes(A)
        BY <1>1, <3>1, <3>3, <4>2, <4>3, NodesDef DEF IsTree
      <4> QED BY <1>4, <1>7, <4>4
    <3> QED BY <1>4, <3>3, <3>4, <3>5
  <2>2. H = {}
    BY <2>1
  <2> QED BY <1>5, <1>7, <1>a, <2>2
<1>8. CASE m = Vacant /\ stop = h
  <2>1. p = query
    BY <1>3, <1>8
  <2>2. \A c \in DOMAIN A, k \in 0..h : A[c] # SubSeq(query, 1, k)
    <3> SUFFICES ASSUME NEW c \in DOMAIN A, NEW k \in 0..h, A[c] = SubSeq(query, 1, k)
                 PROVE  FALSE
      OBVIOUS
    <3>1. PICK i \in 1..Len(es) : es[i].bytes = c /\ es[i].address = A[c]
      BY <1>2
    <3>2. A[c] \in Nodes(A)
      <4>1. A[c] \in Seq(Atoms)
        BY <1>1 DEF IsTree, IsAddressMap
      <4> QED BY <1>1, <4>1, PrefixReflexive, NodesDef DEF IsTree
    <3>3. n.trie[A[c]].content = i
      BY <1>1, <3>1, <3>2
    <3>4. k \in 0..(stop - 1) \/ k = stop
      BY <1>3, <1>8
    <3>5. n.trie[SubSeq(query, 1, k)].content = Vacant
      BY <1>4, <1>8, <3>4
    <3> QED BY <3>3, <3>5 DEF Vacant
  <2>3. /\ H = Under(A, query)
        /\ \A c \in Under(A, query) : Len(A[c]) > h
    BY <1>1, <2>2, SharersAreBelow DEF H
  <2>4. node.count = Cardinality(H) /\ node.count # 1
    BY <1>1, <1>4, <2>1, <2>3, InnerNodeIsShared
  <2>5. IsFiniteSet(H) /\ Cardinality(H) \in Nat
    BY <1>1, <2>3, UnderFinite DEF IsTree
  <2>6. Cardinality(H) = 0 <=> H = {}
    BY <2>5, FS_EmptySet
  <2>7. CASE H = {}
    <3>1. Resolve(n, query) = NotFound
      BY <1>5, <1>8, <2>4, <2>6, <2>7
    <3> QED BY <1>a, <2>7, <3>1
  <2>8. CASE H # {}
    <3>1. node.count # 0 /\ node.count > 1 /\ Cardinality(H) > 1
      BY <2>4, <2>5, <2>6, <2>8
    <3>2. Resolve(n, query) = Ambiguous(Cardinality(H))
      BY <1>3, <1>5, <1>8, <2>4, <3>1
    <3> QED BY <1>a, <2>8, <3>1, <3>2
  <2> QED BY <2>7, <2>8
<1> QED BY <1>3, <1>4, <1>6, <1>7, <1>8

\* resolve is right of every query, in every state of a neighborhood (resolve and the
\* header of neighborhood.rs).
THEOREM ResolveHolds == Spec => []ResolveCorrect
<1>1. ASSUME Inv, NEW query \in Queries
      PROVE  Resolve(nb, query) =
               IF Sharers(query) = {} THEN NotFound
               ELSE IF Cardinality(Sharers(query)) > 1
               THEN Ambiguous(Cardinality(Sharers(query)))
               ELSE Unique(CHOOSE b \in Sharers(query) : TRUE)
  <2>1. query \in Seq(Atoms) /\ query # <<>>
    <3> DEFINE longest == 1 + Max({Len(Code[b]) : b \in Contents})
    <3>1. query \in UNION {[1..m -> Atoms] : m \in 0..longest} /\ query # <<>>
      BY <1>1 DEF Queries, BoundedSeq, SeqOf
    <3> HIDE DEF longest
    <3>2. PICK m \in 0..longest : query \in [1..m -> Atoms]
      BY <3>1
    <3>3. m \in Nat
      OBVIOUS
    <3>4. query \in Seq(Atoms)
      BY <3>2, <3>3
    <3> QED BY <3>1, <3>4
  <2>2. Sound(nb)
    BY <1>1 DEF Inv, AllSound
  <2>3. Members = DOMAIN AddressesOf(nb.entries)
    BY <2>2, MembersAreDomain
  <2>4. Sharers(query) = SharersOf(DOMAIN AddressesOf(nb.entries), query)
    <3>1. \A b \in Members :
            (\A i \in DOMAIN query : Stream(b, i) = query[i]) <=> Prefix(b, Len(query)) = query
      <4> SUFFICES ASSUME NEW b \in Members
                   PROVE  (\A i \in DOMAIN query : Stream(b, i) = query[i])
                            <=> Prefix(b, Len(query)) = query
        OBVIOUS
      <4>1. /\ DOMAIN query = 1..Len(query) /\ query = [i \in 1..Len(query) |-> query[i]]
        BY <2>1
      <4> QED BY <4>1 DEF Prefix
    <3> QED BY <2>3, <3>1 DEF Sharers, SharersOf
  <2> QED BY <2>1, <2>2, <2>4, ResolveIsRight DEF StreamsSay
<1>2. ASSUME NEW query \in StrayQueries
      PROVE  Resolve(nb, query).kind = "AtomOutOfCapacity"
  <2>1. PICK q, a : q \in BoundedSeq(Atoms, 2) /\ a \in Outside /\ query = Append(q, a)
    BY DEF StrayQueries
  <2>2. q \in Seq(Atoms)
    BY <2>1 DEF BoundedSeq, SeqOf
  <2>3. /\ Len(q) + 1 \in DOMAIN query
        /\ query[Len(q) + 1] \notin Atoms
    BY <2>1, <2>2 DEF Outside
  <2>4. (\E i \in DOMAIN query : query[i] \notin Atoms) = TRUE
    BY <2>3
  <2>5. Resolve(nb, query) = [kind |-> "AtomOutOfCapacity"]
    BY <2>4 DEF Resolve
  <2> QED BY <2>5
<1>3. Inv => ResolveCorrect
  BY <1>1, <1>2 DEF ResolveCorrect
<1> QED BY <1>3, Invariant, PTL

-----------------------------------------------------------------------------
(* One answer.                                                             *)

IsSingleton(S) == \E x : S = {x}

\* A content that is not a member belongs at exactly one place among the entries.
LEMMA OnePlace ==
  ASSUME NEW n, Sound(n), NEW b \in Contents, Find(n, b) = {}
  PROVE  \E pos : InsertPositions(n, b) = {pos}
<1> DEFINE es == n.entries
           S  == {i \in 1..(Len(es) + 1) : i \in 1..Len(es) => es[i].bytes > b}
<1>1. /\ es \in Seq(Entry) /\ InByteOrder(es) /\ DOMAIN es = 1..Len(es) /\ Len(es) \in Nat
  BY SoundFacts DEF Sound
<1>2. /\ b \in Nat
      /\ \A i \in 1..Len(es) : es[i].bytes \in Nat /\ es[i].bytes # b
  BY <1>1, EntriesFacts, ContentsAssumption DEF Find
<1>3. \A i, j \in 1..Len(es) : i < j => es[i].bytes < es[j].bytes
  BY <1>1 DEF InByteOrder
<1> HIDE DEF es
<1>4. Len(es) + 1 \in S /\ S \in SUBSET Nat
  BY <1>1
<1>5. PICK pos \in S : \A y \in S : pos <= y
  BY <1>4, LeastNatural
<1>6. pos \in 1..(Len(es) + 1) /\ (pos \in 1..Len(es) => es[pos].bytes > b)
  BY <1>5
<1>7. \A j \in 1..(pos - 1) : es[j].bytes < b
  <2> SUFFICES ASSUME NEW j \in 1..(pos - 1) PROVE es[j].bytes < b
    OBVIOUS
  <2>1. j \in 1..Len(es) /\ j \in 1..(Len(es) + 1) /\ j < pos
    BY <1>1, <1>6
  <2>2. j \notin S
    BY <1>5, <2>1
  <2> QED BY <1>2, <2>1, <2>2
<1>8. \A j \in pos..Len(es) : es[j].bytes > b
  <2> SUFFICES ASSUME NEW j \in pos..Len(es) PROVE es[j].bytes > b
    OBVIOUS
  <2>1. j \in 1..Len(es) /\ pos \in 1..Len(es) /\ (j = pos \/ pos < j)
    BY <1>1, <1>6
  <2> QED BY <1>2, <1>3, <1>6, <2>1
<1>9. \A i : i \in InsertPositions(n, b) <=> i = pos
  <2>1. \A i : i \in InsertPositions(n, b) <=>
                 /\ i \in 1..(Len(es) + 1)
                 /\ \A j \in 1..(i - 1) : es[j].bytes < b
                 /\ \A j \in i..Len(es) : es[j].bytes > b
    BY DEF InsertPositions, es
  <2>2. pos \in InsertPositions(n, b)
    BY <1>6, <1>7, <1>8, <2>1
  <2>3. ASSUME NEW i \in InsertPositions(n, b), i # pos PROVE FALSE
    <3>1. /\ i \in 1..(Len(es) + 1)
          /\ \A j \in 1..(i - 1) : es[j].bytes < b
          /\ \A j \in i..Len(es) : es[j].bytes > b
      BY <2>1
    <3>2. CASE i < pos
      <4>1. i \in 1..(pos - 1) /\ i \in i..Len(es) /\ i \in 1..Len(es)
        BY <1>1, <1>6, <3>1, <3>2
      <4> QED BY <1>2, <1>7, <3>1, <4>1
    <3>3. CASE pos < i
      <4>1. pos \in 1..(i - 1) /\ pos \in 1..Len(es)
        BY <1>1, <1>6, <3>1, <3>3
      <4> QED BY <1>2, <1>6, <3>1, <4>1
    <3> QED BY <1>1, <1>6, <2>3, <3>1, <3>2, <3>3
  <2> QED BY <2>2, <2>3
<1>10. InsertPositions(n, b) = {pos}
  BY <1>9
<1> QED BY <1>10

\* No address is longer than some bound.
LEMMA AddressesEnd ==
  ASSUME NEW n, Sound(n)
  PROVE  \E bound \in Nat :
           \A i \in 1..Len(n.entries) : Len(n.entries[i].address) <= bound
<1> DEFINE es == n.entries
           S  == {k \in Nat : \E bound \in Nat :
                    \A i \in 1..Len(es) : i <= k => Len(es[i].address) <= bound}
<1>1. Len(es) \in Nat /\ \A i \in 1..Len(es) : Len(es[i].address) \in Nat
  BY SoundFacts, EntriesFacts DEF Sound
<1> HIDE DEF es
<1>2. 0 \in S
  OBVIOUS
<1>3. ASSUME NEW k \in Nat, k \in S PROVE k + 1 \in S
  <2>1. PICK bound \in Nat : \A i \in 1..Len(es) : i <= k => Len(es[i].address) <= bound
    BY <1>3
  <2>2. CASE k + 1 \in 1..Len(es)
    <3> DEFINE l == Len(es[k + 1].address)
               more == IF l > bound THEN l ELSE bound
    <3>1. l \in Nat
      BY <1>1, <2>2
    <3> HIDE DEF l
    <3>2. more \in Nat /\ l <= more /\ bound <= more
      BY <3>1
    <3> HIDE DEF more
    <3>3. ASSUME NEW i \in 1..Len(es), i <= k + 1 PROVE Len(es[i].address) <= more
      <4>1. CASE i = k + 1
        BY <3>2, <4>1 DEF l
      <4>2. CASE i <= k
        BY <1>1, <2>1, <3>2, <4>2
      <4> QED BY <3>3, <4>1, <4>2
    <3> QED BY <1>3, <3>2, <3>3
  <2>3. CASE k + 1 \notin 1..Len(es)
    <3>1. \A i \in 1..Len(es) : i <= k + 1 => i <= k
      BY <1>1, <2>3
    <3>2. \A i \in 1..Len(es) : i <= k + 1 => Len(es[i].address) <= bound
      BY <2>1, <3>1
    <3>3. k + 1 \in Nat
      OBVIOUS
    <3> QED BY <3>2, <3>3
  <2> QED BY <2>2, <2>3
<1>4. \A k \in Nat : k \in S
  <2> HIDE DEF S
  <2> QED BY <1>2, <1>3, Induction
<1>5. Len(es) \in S
  BY <1>1, <1>4
<1>6. PICK bound \in Nat : \A i \in 1..Len(es) : i <= Len(es) => Len(es[i].address) <= bound
  BY <1>5
<1>7. \A i \in 1..Len(es) : Len(es[i].address) <= bound
  BY <1>1, <1>6
<1> QED BY <1>7 DEF es

\* plan_insert's walk ends at exactly one depth.
LEMMA OneEnd ==
  ASSUME NEW n, Sound(n), NEW b \in Contents
  PROVE  \E d : WalkEnds(n, b) = {d}
<1> DEFINE A == AddressesOf(n.entries)
           S == {d \in Nat : \/ Prefix(b, d + 1) \notin Nodes(A)
                             \/ n.trie[Prefix(b, d)].content # Vacant}
<1>1. /\ n.entries \in Seq(Entry) /\ InByteOrder(n.entries) /\ IsAddressMap(A)
      /\ DOMAIN n.trie = Nodes(A)
  BY SoundFacts DEF Sound, IsTree
<1>2. PICK bound \in Nat : \A i \in 1..Len(n.entries) : Len(n.entries[i].address) <= bound
  BY AddressesEnd
<1>3. /\ \A c : c \in DOMAIN A <=> \E i \in 1..Len(n.entries) : n.entries[i].bytes = c
      /\ \A i \in 1..Len(n.entries) : A[n.entries[i].bytes] = n.entries[i].address
  BY <1>1, EntriesFacts
<1> HIDE DEF A
<1>4. bound \in S
  <2> DEFINE p == Prefix(b, bound + 1)
  <2>1. p \in Seq(Atoms) /\ Len(p) = bound + 1
    BY PrefixProperties
  <2> SUFFICES ASSUME p \in Nodes(A) PROVE FALSE
    OBVIOUS
  <2>2. p # <<>>
    BY <2>1
  <2> HIDE DEF p
  <2>3. PICK c \in DOMAIN A : IsPrefix(p, A[c])
    BY <1>1, <2>2, NodesDef
  <2>4. A[c] \in Seq(Atoms) /\ Len(A[c]) <= bound
    BY <1>1, <1>2, <1>3 DEF IsAddressMap
  <2>5. Len(p) <= Len(A[c])
    BY <2>1, <2>3, <2>4, PrefixDef
  <2> QED BY <2>1, <2>4, <2>5
<1>5. S \in SUBSET Nat /\ S # {}
  BY <1>4
<1>6. PICK d \in S : \A y \in S : d <= y
  BY <1>5, LeastNatural
<1>7. \A k \in 0..(d - 1) : Prefix(b, k + 1) \in Nodes(A) /\ n.trie[Prefix(b, k)].content = Vacant
  <2> SUFFICES ASSUME NEW k \in 0..(d - 1)
               PROVE  Prefix(b, k + 1) \in Nodes(A) /\ n.trie[Prefix(b, k)].content = Vacant
    OBVIOUS
  <2>1. k \in Nat /\ ~(d <= k)
    BY <1>6
  <2>2. k \notin S
    BY <1>6, <2>1
  <2> QED BY <2>1, <2>2
<1>8. d \in Nat /\ \A k \in 0..d : Prefix(b, k) \in Nodes(A)
  <2>1. Prefix(b, 0) \in Nodes(A)
    <3>1. Prefix(b, 0) = <<>>
      BY DEF Prefix
    <3> QED BY <1>1, <3>1, NodesDef
  <2>2. ASSUME NEW k \in 1..d PROVE Prefix(b, k) \in Nodes(A)
    <3>1. k - 1 \in 0..(d - 1) /\ (k - 1) + 1 = k
      BY <1>6
    <3> QED BY <1>7, <3>1
  <2> QED BY <1>6, <2>1, <2>2
<1>9. d \in {Len(p) : p \in DOMAIN n.trie}
  <2>1. Prefix(b, d) \in DOMAIN n.trie /\ Len(Prefix(b, d)) = d
    BY <1>1, <1>8, PrefixProperties
  <2> QED BY <2>1
<1>10. d \in WalkEnds(n, b)
  <2>1. Prefix(b, d + 1) \notin Nodes(A) \/ n.trie[Prefix(b, d)].content # Vacant
    BY <1>6
  <2> QED BY <1>1, <1>7, <1>8, <1>9, <2>1 DEF WalkEnds
<1>11. ASSUME NEW e \in WalkEnds(n, b) PROVE e = d
  <2>1. /\ e \in Nat
        /\ \A k \in 0..e : Prefix(b, k) \in Nodes(A)
        /\ \A k \in 0..(e - 1) : n.trie[Prefix(b, k)].content = Vacant
        /\ n.trie[Prefix(b, e)].content # Vacant \/ Prefix(b, e + 1) \notin Nodes(A)
    <3>1. e \in Nat
      BY <1>1, NodesType DEF WalkEnds
    <3> QED BY <1>1, <3>1 DEF WalkEnds
  <2>2. e \in S
    BY <2>1
  <2>3. ~(d < e)
    <3> SUFFICES ASSUME d < e PROVE FALSE
      OBVIOUS
    <3>1. d \in 0..(e - 1) /\ d + 1 \in 0..e
      BY <1>8, <2>1
    <3> QED BY <1>6, <2>1, <3>1
  <2> QED BY <1>6, <1>8, <2>1, <2>2, <2>3
<1> QED BY <1>10, <1>11

\* Two contents part after exactly one number of shared atoms, if the bound finds it.
LEMMA OnePart ==
  ASSUME NEW b, NEW c, NEW d \in Nat, NEW j \in SharedAtoms(b, c, d),
         NEW k \in SharedAtoms(b, c, d)
  PROVE  j = k
<1>1. j \in Nat /\ k \in Nat
  BY DivergenceAssumption DEF SharedAtoms
<1>2. /\ \A i \in (d + 1)..(d + j) : Stream(b, i) = Stream(c, i)
      /\ Stream(b, d + j + 1) # Stream(c, d + j + 1)
      /\ \A i \in (d + 1)..(d + k) : Stream(b, i) = Stream(c, i)
      /\ Stream(b, d + k + 1) # Stream(c, d + k + 1)
  BY DEF SharedAtoms
<1>3. ~(j < k)
  <2> SUFFICES ASSUME j < k PROVE FALSE
    OBVIOUS
  <2>1. d + j + 1 \in (d + 1)..(d + k)
    BY <1>1
  <2> QED BY <1>2, <2>1
<1>4. ~(k < j)
  <2> SUFFICES ASSUME k < j PROVE FALSE
    OBVIOUS
  <2>1. d + k + 1 \in (d + 1)..(d + j)
    BY <1>1
  <2> QED BY <1>2, <2>1
<1> QED BY <1>1, <1>3, <1>4

\* A content is at one position at most.
LEMMA OnePosition ==
  ASSUME NEW n, Sound(n), NEW b, Find(n, b) # {}
  PROVE  \E i \in 1..Len(n.entries) : Find(n, b) = {i} /\ n.entries[i].bytes = b
<1>1. /\ n.entries \in Seq(Entry) /\ InByteOrder(n.entries)
      /\ DOMAIN n.entries = 1..Len(n.entries)
  BY SoundFacts DEF Sound
<1>2. PICK i \in 1..Len(n.entries) : n.entries[i].bytes = b
  BY <1>1 DEF Find
<1>3. \A j \in 1..Len(n.entries) : n.entries[j].bytes = b => j = i
  BY <1>1, <1>2, EntriesFacts
<1>4. \A j : j \in Find(n, b) <=> j = i
  BY <1>1, <1>2, <1>3 DEF Find
<1>5. Find(n, b) = {i}
  BY <1>4
<1> QED BY <1>2, <1>5

\* insert answers in exactly one way, whatever the content and the identifier.
THEOREM InsertFindsOne ==
  ASSUME NEW n, Sound(n), NEW b \in Contents, NEW id \in Identifiers \cup {NoId}
  PROVE  \E a : InsertInner(n, b, id) = {a}
<1>1. CASE Find(n, b) # {}
  <2>1. PICK i : Find(n, b) = {i}
    BY <1>1, OnePosition
  <2>2. InsertInner(n, b, id) = {InsertExisting(n, i, id)}
    BY <1>1, <2>1 DEF InsertInner
  <2> QED BY <2>2
<1>2. CASE Find(n, b) = {} /\ id \in DOMAIN n.identifier_index
  BY <1>2 DEF InsertInner
<1>3. CASE Find(n, b) = {} /\ id \notin DOMAIN n.identifier_index
  <2>1. PICK pos : InsertPositions(n, b) = {pos}
    BY <1>3, OnePlace
  <2>2. PICK d : WalkEnds(n, b) = {d}
    BY OneEnd
  <2>3. InsertInner(n, b, id) = InsertNew(n, b, id, pos, d)
    BY <1>3, <2>1, <2>2 DEF InsertInner
  <2> DEFINE m == n.trie[Prefix(b, d)].content
             c == n.entries[m].bytes
             shared == SharedAtoms(b, c, d)
  <2>4. CASE m = Vacant
    BY <2>3, <2>4 DEF InsertNew
  <2>5. CASE m # Vacant /\ (m \notin DOMAIN n.entries \/ shared = {})
    BY <2>3, <2>5 DEF InsertNew
  <2>6. CASE m # Vacant /\ m \in DOMAIN n.entries /\ shared # {}
    <3>1. d \in WalkEnds(n, b)
      BY <2>2
    <3>2. d \in Nat
      BY <3>1, WalkFacts
    <3>3. PICK j : j \in shared
      BY <2>6
    <3>4. \A k \in shared : k = j
      BY <3>2, <3>3, OnePart
    <3>5. shared = {j}
      BY <3>3, <3>4
    <3>6. InsertInner(n, b, id)
            = {ApplyInsert(n, b, id, pos, [base |-> d, member |-> m, shared |-> k]) : k \in shared}
      BY <2>3, <2>6 DEF InsertNew
    <3>7. InsertInner(n, b, id)
            = {ApplyInsert(n, b, id, pos, [base |-> d, member |-> m, shared |-> j])}
      BY <3>5, <3>6
    <3> QED BY <3>7
  <2> QED BY <2>4, <2>5, <2>6
<1> QED BY <1>1, <1>2, <1>3

\* child is the only node of A but b's leaf that is one atom longer than r.
IsOnlyChild(A, b, r, child) ==
  \A q : q \in Nodes(A) /\ q # A[b] /\ Len(q) = Len(r) + 1 /\ IsPrefix(r, q) <=> q = child

\* Below a level of b's address that leads to a single other member c, the tree without b's
\* leaf is a chain down to c's address.
LEMMA SoleChain ==
  ASSUME NEW A, IsTree(A), NEW b \in DOMAIN A, NEW c,
         NEW f \in Seq(Atoms), f # <<>>,
         Under(Drop(A, b), f) = {c},
         NEW r \in Seq(Atoms), IsPrefix(f, r), IsPrefix(r, A[c]), r # A[c],
         NEW child \in Seq(Atoms), Len(child) = Len(r) + 1, IsPrefix(child, A[c])
  PROVE  IsOnlyChild(A, b, r, child)
<1>0. \A x : x \in DOMAIN A /\ x # b /\ IsPrefix(f, A[x]) <=> x = c
  <2>1. \A x : x \in Under(Drop(A, b), f) <=> x \in DOMAIN A /\ x # b /\ IsPrefix(f, A[x])
    BY DropFacts
  <2> QED BY <2>1
<1>b. c \in DOMAIN A \ {b} /\ IsPrefix(f, A[c])
  BY <1>0
<1>1. /\ A[b] \in Seq(Atoms) /\ Len(A[b]) \in Nat
      /\ A[c] \in Seq(Atoms) /\ Len(A[c]) \in Nat
      /\ ~IsPrefix(A[c], A[b]) /\ ~IsPrefix(A[b], A[c])
  BY <1>b, DropFacts
<1>2. IsAddressMap(A) /\ Tight(A)
  BY DEF IsTree
<1>3. Len(r) \in Nat /\ Len(r) < Len(A[c])
  <2>1. Len(r) <= Len(A[c]) /\ Len(r) \in Nat
    BY <1>1, PrefixDef
  <2>2. Len(r) = Len(A[c]) => r = A[c]
    BY <1>1, PrefixesCompare, PrefixReflexive
  <2> QED BY <1>1, <2>1, <2>2
<1>c. Len(f) \in Nat /\ Len(f) > 0 /\ Len(f) <= Len(r)
  BY <1>3, PrefixDef
<1>4. child \in Seq(Atoms) /\ Len(child) = Len(r) + 1 /\ IsPrefix(child, A[c])
  OBVIOUS
<1>5. IsPrefix(r, child)
  BY <1>1, <1>3, <1>4, PrefixesCompare
<1>6. child \in Nodes(A) /\ child # A[b]
  BY <1>1, <1>2, <1>4, <1>b, NodesDef
<1>7. ASSUME NEW q \in Nodes(A), q # A[b], Len(q) = Len(r) + 1, IsPrefix(r, q)
      PROVE  q = child
  <2>1. q \in Seq(Atoms) /\ q # <<>>
    BY <1>2, <1>3, <1>7, NodesType
  <2>2. PICK x \in DOMAIN A : IsPrefix(q, A[x])
    BY <1>2, <2>1, NodesDef
  <2>3. A[x] \in Seq(Atoms) /\ IsPrefix(f, q)
    BY <1>7, <1>c, <2>1, DropFacts, PrefixTransitive
  <2>4. IsPrefix(f, A[x])
    BY <1>c, <2>1, <2>2, <2>3, PrefixTransitive
  <2>5. ASSUME IsPrefix(q, A[c]) PROVE q = child
    BY <1>1, <1>4, <1>7, <2>1, <2>5, PrefixesCompare
  <2>6. CASE x # b
    <3>1. x = c
      BY <1>0, <2>4, <2>6
    <3> QED BY <2>2, <2>5, <3>1
  <2>7. CASE x = b
    <3>1. Len(q) < Len(A[b]) /\ Len(q) \in Nat
      <4>1. Len(q) <= Len(A[b]) /\ Len(q) \in Nat
        BY <1>1, <2>1, <2>2, <2>7, PrefixDef
      <4>2. Len(q) = Len(A[b]) => q = A[b]
        BY <1>1, <2>1, <2>2, <2>7, PrefixesCompare, PrefixReflexive
      <4> QED BY <1>1, <1>7, <4>1, <4>2
    <3>2. Len(A[b]) > 1
      BY <1>1, <1>3, <1>7, <3>1
    <3>3. PICK y \in DOMAIN A \ {b} : IsPrefix(Parent(A[b]), A[y])
      BY <1>2, <3>2 DEF Tight
    <3>4. /\ Parent(A[b]) \in Seq(Atoms) /\ Len(Parent(A[b])) = Len(A[b]) - 1
          /\ IsPrefix(Parent(A[b]), A[b])
      <4>1. Len(A[b]) - 1 \in 0..Len(A[b])
        BY <1>1, <3>2
      <4> QED BY <1>1, <4>1, SubSeqIsPrefix, ZenonT(30) DEF Parent
    <3>5. IsPrefix(q, Parent(A[b]))
      BY <1>1, <2>1, <2>2, <2>7, <3>1, <3>4, PrefixesCompare
    <3>6. A[y] \in Seq(Atoms)
      BY DropFacts
    <3>7. IsPrefix(q, A[y])
      BY <2>1, <3>3, <3>4, <3>5, <3>6, PrefixTransitive
    <3>8. IsPrefix(f, A[y])
      BY <1>c, <2>1, <2>3, <3>6, <3>7, PrefixTransitive
    <3>9. y = c
      BY <1>0, <3>8
    <3> QED BY <2>5, <3>7, <3>9
  <2> QED BY <2>6, <2>7
<1> QED BY <1>4, <1>5, <1>6, <1>7 DEF IsOnlyChild

\* A removal that collapses levels finds exactly one marker below the lowest of them.
LEMMA OneMarker ==
  ASSUME NEW n, Sound(n), NEW idx \in 1..Len(n.entries),
         NEW levels, levels = Lonely(AddressesOf(n.entries), n.entries[idx].bytes),
         levels # {},
         NEW T, T = Detach(n, n.entries[idx].address),
         NEW l \in Seq(Atoms), IsPrefix(l, n.entries[idx].address), Len(l) = Max(levels)
  PROVE  IsSingleton(MarkersBelow(T, l))
<1> DEFINE es  == n.entries
           A   == AddressesOf(es)
           b   == es[idx].bytes
           a   == es[idx].address
           low == Max(levels)
<1>1. IsDetached(n, idx, A, b, a, T)
  BY DetachFacts
<1>l. l = SubSeq(a, 1, low)
  <2>1. a \in Seq(Atoms)
    BY SoundFacts, EntriesFacts DEF Sound
  <2> QED BY <2>1, PrefixIsSubSeq
<1>2. IsTree(A) /\ InByteOrder(es) /\ es \in Seq(Entry)
  BY SoundFacts DEF Sound
<1>3. levels = Lonely(A, b) /\ n.entries = es /\ idx \in 1..Len(es)
  OBVIOUS
<1>4. /\ \A x : x \in DOMAIN A <=> \E i \in 1..Len(es) : es[i].bytes = x
      /\ \A i \in 1..Len(es) : es[i].bytes \in DOMAIN A /\ A[es[i].bytes] = es[i].address
      /\ \A i, j \in 1..Len(es) : es[i].bytes = es[j].bytes => i = j
  BY <1>2, EntriesFacts
<1>5. b = es[idx].bytes /\ a = es[idx].address
  OBVIOUS
<1>6. \A marker \in MarkersBelow(T, l) :
        /\ T[marker].content \in 1..Len(es)
        /\ A[es[T[marker].content].bytes] = marker
        /\ Under(Drop(A, b), l) = {es[T[marker].content].bytes}
  <2> TAKE marker \in MarkersBelow(T, l)
  <2>1. IsCollapse(n, idx, A, b, a, T, marker, T[marker].content, Min(levels), low,
                   SubSeq(a, 1, Min(levels)), l)
    <3>1. marker \in MarkersBelow(Detach(n, n.entries[idx].address),
                                  SubSeq(n.entries[idx].address, 1, Max(levels)))
      BY <1>l
    <3> QED BY <1>l, <3>1, CollapseFacts
  <2> QED BY <2>1 DEF IsCollapse
<1> HIDE DEF A, b, a, es
<1>7. /\ b \in DOMAIN A /\ A[b] = a /\ a \in Nodes(A)
      /\ DOMAIN T = Nodes(A) \ {a}
      /\ \A p \in Nodes(A) \ {a} :
           /\ p \in Seq(Atoms)
           /\ T[p].content \in 1..Len(es) \cup {Vacant}
           /\ T[p].content # idx
           /\ \A i \in 1..Len(es) :
                i # idx => (T[p].content = i <=> es[i].address = p)
  BY <1>1, <1>3 DEF IsDetached
<1>8. low \in levels /\ low \in 1..(Len(a) - 1)
  <2>0. a \in Seq(Atoms) /\ Len(a) \in Nat /\ Len(a) > 0
    BY <1>2, <1>7, DropFacts
  <2>1. levels \subseteq 1..(Len(a) - 1) /\ Len(a) - 1 \in Nat
    <3>1. Len(A[b]) = Len(a)
      BY <1>7
    <3>2. Lonely(A, b) \subseteq 1..(Len(A[b]) - 1)
      BY DEF Lonely
    <3> QED BY <1>3, <2>0, <3>1, <3>2
  <2>2. low \in levels
    BY <2>1, MaxOfPositions
  <2> QED BY <2>1, <2>2
<1> HIDE DEF low
<1>9. PICK c : Under(Drop(A, b), SubSeq(A[b], 1, low)) = {c}
  BY <1>3, <1>7, <1>8 DEF Lonely
<1>m. l = SubSeq(A[b], 1, low) /\ low \in 1..(Len(A[b]) - 1)
  BY <1>l, <1>7, <1>8
<1>10. c \in DOMAIN A \ {b} /\ IsPrefix(l, A[c])
  <2>1. IsTree(A) /\ b \in DOMAIN A /\ low \in 1..(Len(A[b]) - 1)
    BY <1>2, <1>7, <1>m
  <2>2. /\ c \in DOMAIN A \ {b} /\ IsPrefix(SubSeq(A[b], 1, low), A[c]) /\ low < Len(A[c])
        /\ {q \in Nodes(A) \ {A[b]} : Len(q) = low + 1 /\ IsPrefix(SubSeq(A[b], 1, low), q)}
             = {SubSeq(A[c], 1, low + 1)}
    BY <1>9, <2>1, LonelyChild
  <2> QED BY <1>m, <2>2
<1>11. l \in Seq(Atoms) /\ A[c] \in Seq(Atoms) /\ A[c] # a /\ ~IsPrefix(A[c], a)
  <2>1. SubSeq(A[b], 1, low) \in Seq(Atoms)
    BY <1>2, <1>7, <1>m, AboveLeaf
  <2> QED BY <1>2, <1>7, <1>10, <1>m, <2>1, DropFacts, PrefixReflexive
<1>12. A[c] \in Nodes(A) \ {a}
  BY <1>2, <1>10, <1>11, PrefixReflexive, NodesDef DEF IsTree
<1>13. PICK i \in 1..Len(es) : es[i].bytes = c /\ es[i].address = A[c]
  <2>1. c \in DOMAIN A
    BY <1>10
  <2>2. PICK i \in 1..Len(es) : es[i].bytes = c
    BY <1>4, <2>1
  <2>3. es[i].address = A[c]
    BY <1>4, <2>2
  <2> QED BY <2>2, <2>3
<1>14. i # idx /\ T[A[c]].content = i /\ i # Vacant
  BY <1>5, <1>7, <1>10, <1>12, <1>13 DEF Vacant
<1>15. ASSUME NEW r \in DOMAIN T, IsPrefix(l, r), IsStrictPrefix(r, A[c])
       PROVE  T[r].content = Vacant /\ Cardinality(Children(T, r)) = 1
  <2>1. r \in Nodes(A) \ {a} /\ r \in Seq(Atoms) /\ IsPrefix(r, A[c]) /\ r # A[c]
    BY <1>7, <1>15 DEF IsStrictPrefix
  <2>2. T[r].content = Vacant
    <3> SUFFICES ASSUME T[r].content # Vacant PROVE FALSE
      OBVIOUS
    <3>1. T[r].content \in 1..Len(es) /\ es[T[r].content].address = r
      BY <1>7, <2>1
    <3>2. es[T[r].content].bytes \in DOMAIN A /\ A[es[T[r].content].bytes] = r
      BY <1>4, <3>1
    <3>3. es[T[r].content].bytes = c
      BY <1>2, <1>10, <2>1, <3>2 DEF IsTree, Separate
    <3> QED BY <2>1, <3>2, <3>3
  <2> DEFINE child == SubSeq(A[c], 1, Len(r) + 1)
  <2>3. IsOnlyChild(A, b, r, child)
    <3>1. Under(Drop(A, b), l) = {c}
      BY <1>9, <1>m
    <3>2. child \in Seq(Atoms) /\ Len(child) = Len(r) + 1 /\ IsPrefix(child, A[c])
      <4>1. Len(r) + 1 \in 0..Len(A[c])
        <5>1. Len(r) <= Len(A[c]) /\ Len(r) \in Nat /\ Len(A[c]) \in Nat
          BY <1>11, <2>1, PrefixDef
        <5>2. Len(r) = Len(A[c]) => r = A[c]
          BY <1>11, <2>1, PrefixesCompare, PrefixReflexive
        <5> QED BY <2>1, <5>1, <5>2
      <4> QED BY <1>11, <4>1, SubSeqIsPrefix
    <3>3. l # <<>>
      <4>1. SubSeq(A[b], 1, low) \in Address
        BY <1>2, <1>7, <1>m, AboveLeaf
      <4> QED BY <1>m, <4>1 DEF Address
    <3> HIDE DEF child
    <3>4. /\ IsTree(A) /\ b \in DOMAIN A /\ A[b] = a
          /\ l \in Seq(Atoms) /\ IsPrefix(l, r)
      BY <1>2, <1>7, <1>11, <1>15
    <3> QED BY <2>1, <3>1, <3>2, <3>3, <3>4, SoleChain
  <2> HIDE DEF child
  <2>4. Children(T, r) = {child}
    <3>1. \A q : q \in Children(T, r) <=> q = child
      BY <1>7, <2>3 DEF Children, IsOnlyChild
    <3> QED BY <3>1
  <2> QED BY <2>2, <2>4, FS_Singleton
<1>16. A[c] \in MarkersBelow(T, l)
  BY <1>7, <1>10, <1>12, <1>14, <1>15 DEF MarkersBelow
<1>17. ASSUME NEW marker \in MarkersBelow(T, l) PROVE marker = A[c]
  <2>1. Under(Drop(A, b), l) = {c}
    BY <1>9, <1>m
  <2>2. A[es[T[marker].content].bytes] = marker /\ {c} = {es[T[marker].content].bytes}
    BY <1>6, <1>17, <2>1
  <2> QED BY <2>2
<1>18. MarkersBelow(T, l) = {A[c]}
  BY <1>16, <1>17
<1> QED BY <1>18 DEF IsSingleton

\* A removal answers in exactly one way.
THEOREM RemoveFindsOne ==
  ASSUME NEW n, Sound(n), NEW idx
  PROVE  \E a : RemoveInner(n, idx) = {a}
<1> DEFINE address == n.entries[idx].address
           trie    == Detach(n, address)
           freed   == Append(n.free_nodes, n.trie[address].slot)
           levels  == CollapseLevels(trie, address)
           low     == SubSeq(address, 1, Max(levels))
<1>1. CASE idx \notin DOMAIN n.entries
  BY <1>1 DEF RemoveInner
<1>2. CASE idx \in DOMAIN n.entries /\ \E k \in 1..Len(address) :
             SubSeq(address, 1, k) \notin DOMAIN n.trie
  BY <1>2 DEF RemoveInner
<1>3. CASE idx \in DOMAIN n.entries /\ ~\E k \in 1..Len(address) :
             SubSeq(address, 1, k) \notin DOMAIN n.trie
  <2>1. RemoveInner(n, idx) =
          IF levels = {}
          THEN {Settle(Evict([n EXCEPT !.trie = trie, !.free_nodes = freed], idx),
                       address, <<>>)}
          ELSE {CollapseOnto(n, trie, freed, idx, levels, marker) :
                  marker \in MarkersBelow(trie, low)}
    BY <1>3 DEF RemoveInner
  <2>2. idx \in 1..Len(n.entries)
    BY <1>3, SoundFacts
  <2>3. levels = Lonely(AddressesOf(n.entries), n.entries[idx].bytes)
    BY <2>2, LevelsAreLonely
  <2>4. levels # {} => IsSingleton(MarkersBelow(trie, low))
    <3> HIDE DEF levels, trie, low
    <3>1. trie = Detach(n, n.entries[idx].address)
      BY DEF trie
    <3>2. ASSUME levels # {}
          PROVE  low \in Seq(Atoms) /\ IsPrefix(low, address) /\ Len(low) = Max(levels)
      <4>1. address \in Seq(Atoms) /\ Len(address) \in Nat
        BY <2>2, SoundFacts, EntriesFacts DEF Sound
      <4>2. levels \subseteq 1..(Len(address) - 1)
        BY DEF levels, CollapseLevels
      <4>3. Max(levels) \in 0..Len(address)
        <5>1. Len(address) - 1 \in Nat
          <6>1. PICK k \in levels : k \in 1..(Len(address) - 1)
            BY <3>2, <4>2
          <6> QED BY <4>1, <6>1
        <5>2. Max(levels) \in levels
          BY <3>2, <4>2, <5>1, MaxOfPositions
        <5>3. Max(levels) \in 1..(Len(address) - 1)
          BY <4>2, <5>2
        <5> QED BY <4>1, <5>3
      <4> QED BY <4>1, <4>3, SubSeqIsPrefix DEF low
    <3> QED BY <2>2, <2>3, <3>1, <3>2, OneMarker
  <2> HIDE DEF address, trie, freed, levels, low
  <2>5. CASE levels = {}
    BY <2>1, <2>5
  <2>6. CASE levels # {}
    <3>1. PICK marker : MarkersBelow(trie, low) = {marker}
      BY <2>4, <2>6 DEF IsSingleton
    <3>2. RemoveInner(n, idx) = {CollapseOnto(n, trie, freed, idx, levels, marker)}
      BY <2>1, <2>6, <3>1
    <3> QED BY <3>2
  <2> QED BY <2>5, <2>6
<1> QED BY <1>1, <1>2, <1>3

\* Every call finds exactly one answer, in every state of a neighborhood (plan_insert, the
\* binary searches, and remove_inner with sole_member_at).
THEOREM OneAnswer == Spec => []CallsFindOneAnswer
<1>1. ASSUME Sound(nb) PROVE CallsFindOneAnswer
  <2>1. ASSUME NEW b \in Contents PROVE Cardinality(InsertInner(nb, b, NoId)) = 1
    <3>1. PICK a : InsertInner(nb, b, NoId) = {a}
      BY <1>1, InsertFindsOne
    <3> QED BY <3>1, FS_Singleton
  <2>2. ASSUME NEW i \in DOMAIN nb.entries PROVE Cardinality(RemoveInner(nb, i)) = 1
    <3>1. PICK a : RemoveInner(nb, i) = {a}
      BY <1>1, RemoveFindsOne
    <3> QED BY <3>1, FS_Singleton
  <2> QED BY <2>1, <2>2 DEF CallsFindOneAnswer
<1>2. Inv => CallsFindOneAnswer
  BY <1>1 DEF Inv, AllSound
<1> QED BY <1>2, Invariant, PTL

-----------------------------------------------------------------------------
(* The bookkeeping of Neighborhood::nodes, free_nodes and entry_nodes: the *)
(* slots of the trie's nodes and the free slots stay apart and within the  *)
(* arena, and entry_nodes names the slot of each entry's marker.           *)
(* The inductive invariant is SInv.  Each change of the trie is a set of   *)
(* paths that lose their nodes (Releases, ArenaShrinks) or that gain them  *)
(* (SlotsAreFresh, ArenaGrows).  The last part shows that no such change   *)
(* loses a slot: every path that loses its node is on the list that frees  *)
(* the slots (CollapseReleasesAll), and every slot taken is given to one   *)
(* (NoneLostGrowing); only the reseating of the last entry loses any.      *)

\* An arena of size slots is intact: no slot is given to two nodes or free
\* twice, none is both, and all lie within the arena.
Arena(T, free, size) ==
  /\ \A p, q \in DOMAIN T : T[p].slot = T[q].slot => p = q
  /\ \A i, j \in 1..Len(free) : free[i] = free[j] => i = j
  /\ \A p \in DOMAIN T, i \in 1..Len(free) : T[p].slot # free[i]
  /\ \A p \in DOMAIN T : T[p].slot < size
  /\ \A i \in 1..Len(free) : free[i] < size

\* entry_nodes names the slot of each entry's marker.
MarkersKnown(es, nodes, T) == \A i \in 1..Len(es) : nodes[i] = T[es[i].address].slot

Slots(n) ==
  /\ Arena(n.trie, n.free_nodes, n.arena)
  /\ MarkersKnown(n.entries, n.entry_nodes, n.trie)

\* The slots that new_node hands out are new: no node has one, none stays free,
\* no two are equal, and the arena grows to hold them.
LEMMA SlotsAreFresh ==
  ASSUME NEW n, n.free_nodes \in Seq(Nat), n.arena \in Nat,
         \A p \in DOMAIN n.trie : n.trie[p].slot \in Nat,
         Arena(n.trie, n.free_nodes, n.arena), NEW k \in Nat
  PROVE  LET s == NewSlots(n, k)
             f == FreeAfter(n, k)
         IN /\ \A i \in 1..k : s[i] < ArenaAfter(n, k)
            /\ \A i, j \in 1..k : s[i] = s[j] => i = j
            /\ \A i \in 1..k, p \in DOMAIN n.trie : n.trie[p].slot # s[i]
            /\ \A i \in 1..k, j \in 1..Len(f) : f[j] # s[i]
            /\ \A i \in 1..Len(f) : i \in 1..Len(n.free_nodes) /\ f[i] = n.free_nodes[i]
            /\ ArenaAfter(n, k) \in Nat /\ ArenaAfter(n, k) >= n.arena
<1> DEFINE free == n.free_nodes
           x == Len(free)
           s == NewSlots(n, k)
           f == FreeAfter(n, k)
           size == ArenaAfter(n, k)
<1>1. x \in Nat /\ \A i \in 1..x : free[i] \in Nat
  OBVIOUS
<1>2. \A i \in 1..k : s[i] = IF i <= x THEN free[x + 1 - i] ELSE n.arena + i - x - 1
  BY DEF NewSlots
<1>3. size = n.arena + (IF k > x THEN k - x ELSE 0)
  BY DEF ArenaAfter
<1>4. \A i \in 1..Len(f) : i \in 1..x /\ i <= x - k /\ f[i] = free[i]
  <2>1. f = SubSeq(free, 1, x - k)
    BY DEF FreeAfter
  <2> HIDE DEF f
  <2> QED BY <1>1, <2>1
<1>5. /\ \A i, j \in 1..x : free[i] = free[j] => i = j
      /\ \A p \in DOMAIN n.trie, i \in 1..x : n.trie[p].slot # free[i]
      /\ \A p \in DOMAIN n.trie : n.trie[p].slot < n.arena
      /\ \A i \in 1..x : free[i] < n.arena
  BY DEF Arena
<1> HIDE DEF free, x, s, f, size
<1>6. ASSUME NEW i \in 1..k
      PROVE  \/ i <= x /\ x + 1 - i \in 1..x /\ s[i] = free[x + 1 - i] /\ x + 1 - i > x - k
             \/ i > x /\ s[i] = n.arena + (i - x - 1) /\ i - x - 1 \in Nat
  BY <1>1, <1>2
<1>7. size \in Nat /\ size >= n.arena /\ (k > x => size = n.arena + (k - x))
  BY <1>1, <1>3
<1>8. \A i \in 1..k : s[i] < size
  <2> TAKE i \in 1..k
  <2>1. CASE i <= x /\ x + 1 - i \in 1..x /\ s[i] = free[x + 1 - i]
    BY <1>1, <1>5, <1>7, <2>1
  <2>2. CASE i > x /\ s[i] = n.arena + (i - x - 1)
    BY <1>1, <1>7, <2>2
  <2> QED BY <1>6, <2>1, <2>2
<1>9. \A i, j \in 1..k : s[i] = s[j] => i = j
  <2> TAKE i, j \in 1..k
  <2>1. CASE i <= x /\ j <= x
    BY <1>1, <1>5, <1>6, <2>1
  <2>2. CASE i > x /\ j > x
    BY <1>1, <1>6, <2>2
  <2>3. CASE i <= x /\ j > x
    <3> DEFINE y == x + 1 - i
    <3>0. y \in 1..x /\ s[i] = free[y]
      BY <1>1, <1>6, <2>3, SMTT(30)
    <3> HIDE DEF y
    <3>1. s[i] < n.arena /\ s[i] \in Nat
      BY <1>1, <1>5, <3>0
    <3>2. s[j] >= n.arena
      BY <1>1, <1>6, <2>3
    <3> QED BY <3>1, <3>2, <1>1, <1>6, <2>3
  <2>4. CASE i > x /\ j <= x
    <3> DEFINE y == x + 1 - j
    <3>0. y \in 1..x /\ s[j] = free[y]
      BY <1>1, <1>6, <2>4, SMTT(30)
    <3> HIDE DEF y
    <3>1. s[j] < n.arena /\ s[j] \in Nat
      BY <1>1, <1>5, <3>0
    <3>2. s[i] >= n.arena
      BY <1>1, <1>6, <2>4
    <3> QED BY <3>1, <3>2, <1>1, <1>6, <2>4
  <2> QED BY <1>1, <2>1, <2>2, <2>3, <2>4
<1>10. \A i \in 1..k, p \in DOMAIN n.trie : n.trie[p].slot # s[i]
  <2> TAKE i \in 1..k, p \in DOMAIN n.trie
  <2>1. CASE i <= x
    BY <1>1, <1>5, <1>6, <2>1
  <2>2. CASE i > x
    BY <1>1, <1>5, <1>6, <2>2
  <2> QED BY <1>1, <2>1, <2>2
<1>11. \A i \in 1..k, j \in 1..Len(f) : f[j] # s[i]
  <2> TAKE i \in 1..k, j \in 1..Len(f)
  <2>1. j \in 1..x /\ j <= x - k /\ f[j] = free[j] /\ free[j] < n.arena /\ free[j] \in Nat
    BY <1>1, <1>4, <1>5
  <2>2. CASE i <= x
    BY <1>1, <1>5, <1>6, <2>1, <2>2
  <2>3. CASE i > x
    BY <1>1, <1>6, <2>1, <2>3
  <2> QED BY <1>1, <2>2, <2>3
<1>12. \A i \in 1..Len(f) : i \in 1..x /\ f[i] = free[i]
  BY <1>4
<1> QED BY <1>7, <1>8, <1>9, <1>10, <1>11, <1>12 DEF free, x, s, f, size

\* An arena stays intact when every node of the new trie is an old one, in its
\* slot, or is made in one of the k new slots, each slot for one path.
LEMMA ArenaGrows ==
  ASSUME NEW n, n.free_nodes \in Seq(Nat), n.arena \in Nat,
         \A p \in DOMAIN n.trie : n.trie[p].slot \in Nat,
         Arena(n.trie, n.free_nodes, n.arena), NEW k \in Nat, NEW paths, NEW T,
         \A p \in DOMAIN T :
           \/ p \in DOMAIN n.trie /\ T[p].slot = n.trie[p].slot
           \/ \E c \in 1..k : paths[c] = p /\ T[p].slot = NewSlots(n, k)[c]
  PROVE  Arena(T, FreeAfter(n, k), ArenaAfter(n, k)) /\ Arena(T, <<>>, ArenaAfter(n, k))
<1> DEFINE s == NewSlots(n, k)
           f == FreeAfter(n, k)
           size == ArenaAfter(n, k)
           Old(p) == p \in DOMAIN n.trie /\ T[p].slot = n.trie[p].slot
           Made(p) == \E c \in 1..k : paths[c] = p /\ T[p].slot = s[c]
<1>1. /\ \A i \in 1..k : s[i] < size
      /\ \A i, j \in 1..k : s[i] = s[j] => i = j
      /\ \A i \in 1..k, p \in DOMAIN n.trie : n.trie[p].slot # s[i]
      /\ \A i \in 1..k, j \in 1..Len(f) : f[j] # s[i]
      /\ \A i \in 1..Len(f) : i \in 1..Len(n.free_nodes) /\ f[i] = n.free_nodes[i]
      /\ size \in Nat /\ size >= n.arena
  BY SlotsAreFresh
<1>2. /\ \A p, q \in DOMAIN n.trie : n.trie[p].slot = n.trie[q].slot => p = q
      /\ \A i, j \in 1..Len(n.free_nodes) : n.free_nodes[i] = n.free_nodes[j] => i = j
      /\ \A p \in DOMAIN n.trie, i \in 1..Len(n.free_nodes) :
           n.trie[p].slot # n.free_nodes[i]
      /\ \A p \in DOMAIN n.trie : n.trie[p].slot < n.arena
      /\ \A i \in 1..Len(n.free_nodes) : n.free_nodes[i] < n.arena /\ n.free_nodes[i] \in Nat
  BY DEF Arena
<1>3. \A p \in DOMAIN T : Old(p) \/ Made(p)
  OBVIOUS
<1> HIDE DEF s, f, size
<1>4. ASSUME NEW p \in DOMAIN T, NEW q \in DOMAIN T, T[p].slot = T[q].slot
      PROVE  p = q
  <2>1. CASE Old(p) /\ Old(q)
    BY <1>2, <1>4, <2>1
  <2>2. CASE Made(p) /\ Made(q)
    <3>1. PICK c \in 1..k : paths[c] = p /\ T[p].slot = s[c]
      BY <2>2
    <3>2. PICK e \in 1..k : paths[e] = q /\ T[q].slot = s[e]
      BY <2>2
    <3>3. s[c] = s[e]
      BY <1>4, <3>1, <3>2
    <3>4. \A i, j \in 1..k : s[i] = s[j] => i = j
      BY <1>1
    <3>5. c = e
      BY <3>3, <3>4
    <3> QED BY <3>1, <3>2, <3>5
  <2>3. CASE Old(p) /\ Made(q)
    BY <1>1, <1>4, <2>3
  <2>4. CASE Made(p) /\ Old(q)
    BY <1>1, <1>4, <2>4, ZenonT(30)
  <2> QED BY <1>3, <2>1, <2>2, <2>3, <2>4
<1>5. \A i, j \in 1..Len(f) : f[i] = f[j] => i = j
  BY <1>1, <1>2
<1>6. \A p \in DOMAIN T, i \in 1..Len(f) : T[p].slot # f[i]
  BY <1>1, <1>2, <1>3
<1>7. \A p \in DOMAIN T : T[p].slot < size
  <2> TAKE p \in DOMAIN T
  <2>1. CASE Old(p)
    <3>1. n.trie[p].slot \in Nat /\ n.trie[p].slot < n.arena /\ n.arena \in Nat
      BY <1>2, <2>1
    <3> QED BY <1>1, <2>1, <3>1
  <2>2. CASE Made(p)
    BY <1>1, <2>2
  <2> QED BY <1>3, <2>1, <2>2
<1>8. \A i \in 1..Len(f) : f[i] < size
  <2> TAKE i \in 1..Len(f)
  <2>1. f[i] \in Nat /\ f[i] < n.arena /\ n.arena \in Nat
    BY <1>1, <1>2
  <2> QED BY <1>1, <2>1
<1>9. Arena(T, f, size) /\ Arena(T, <<>>, size)
  BY <1>4, <1>5, <1>6, <1>7, <1>8 DEF Arena
<1> QED BY <1>9 DEF f, size

\* The trie T2 is T without some nodes, and f lists slots of nodes that are gone,
\* each of them once; gone[i] is the path of the i-th of them.
Releases(T, T2, f, gone) ==
  /\ DOMAIN T2 \subseteq DOMAIN T
  /\ \A p \in DOMAIN T2 : T2[p].slot = T[p].slot
  /\ f \in Seq(Nat)
  /\ \A i \in 1..Len(f) : /\ gone[i] \in DOMAIN T /\ gone[i] \notin DOMAIN T2
                          /\ f[i] = T[gone[i]].slot
  /\ \A i, j \in 1..Len(f) : gone[i] = gone[j] => i = j

\* An arena stays intact when nodes leave the trie and their slots go to the end
\* of the free list.
LEMMA ArenaShrinks ==
  ASSUME NEW T, NEW free \in Seq(Nat), NEW size, Arena(T, free, size),
         NEW T2, NEW f, NEW gone, Releases(T, T2, f, gone)
  PROVE  Arena(T2, free \o f, size)
<1> DEFINE all == free \o f
           x == Len(free)
           y == Len(f)
<1>0. /\ DOMAIN T2 \subseteq DOMAIN T
      /\ \A p \in DOMAIN T2 : T2[p].slot = T[p].slot
      /\ f \in Seq(Nat)
      /\ \A i \in 1..y : gone[i] \in DOMAIN T /\ gone[i] \notin DOMAIN T2
                          /\ f[i] = T[gone[i]].slot
      /\ \A i, j \in 1..y : gone[i] = gone[j] => i = j
  BY DEF Releases
<1>1. /\ x \in Nat /\ y \in Nat /\ Len(all) = x + y
      /\ \A i \in 1..x : all[i] = free[i]
      /\ \A i \in 1..y : all[x + i] = f[i]
  BY <1>0, ConcatElements
<1>2. /\ \A p, q \in DOMAIN T : T[p].slot = T[q].slot => p = q
      /\ \A i, j \in 1..x : free[i] = free[j] => i = j
      /\ \A p \in DOMAIN T, i \in 1..x : T[p].slot # free[i]
      /\ \A p \in DOMAIN T : T[p].slot < size
      /\ \A i \in 1..x : free[i] < size
  BY DEF Arena
<1> HIDE DEF all, x
<1>3. \A i, j \in 1..y : f[i] = f[j] => i = j
  <2> TAKE i, j \in 1..y
  <2> HAVE f[i] = f[j]
  <2>1. gone[i] \in DOMAIN T /\ gone[j] \in DOMAIN T /\ T[gone[i]].slot = T[gone[j]].slot
    BY <1>0
  <2>2. gone[i] = gone[j]
    BY <1>2, <2>1
  <2> QED BY <1>0, <2>2
<1>4. \A i \in 1..y, j \in 1..x : f[i] # free[j]
  BY <1>0, <1>2
<1>5. ASSUME NEW i \in 1..Len(all)
      PROVE  \/ i \in 1..x /\ all[i] = free[i]
             \/ i - x \in 1..y /\ all[i] = f[i - x] /\ i > x
  <2>1. CASE i <= x
    BY <1>1, <2>1
  <2>2. CASE i > x
    <3>1. i - x \in 1..y /\ x + (i - x) = i
      BY <1>1, <2>2
    <3> QED BY <1>1, <2>2, <3>1
  <2> QED BY <1>1, <2>1, <2>2
<1>6. \A i, j \in 1..Len(all) : all[i] = all[j] => i = j
  <2> TAKE i, j \in 1..Len(all)
  <2>1. i \in Nat /\ j \in Nat
    BY <1>1
  <2>2. CASE i \in 1..x /\ all[i] = free[i] /\ j \in 1..x /\ all[j] = free[j]
    BY <1>0, <1>2, <2>2
  <2>3. CASE i - x \in 1..y /\ all[i] = f[i - x] /\ j - x \in 1..y /\ all[j] = f[j - x]
    <3>1. all[i] = all[j] => i - x = j - x
      BY <1>3, <2>3
    <3> QED BY <1>1, <2>1, <3>1
  <2>4. CASE i \in 1..x /\ all[i] = free[i] /\ j - x \in 1..y /\ all[j] = f[j - x]
    BY <1>4, <2>4
  <2>5. CASE i - x \in 1..y /\ all[i] = f[i - x] /\ j \in 1..x /\ all[j] = free[j]
    BY <1>4, <2>5
  <2> QED BY <1>5, <2>2, <2>3, <2>4, <2>5
<1>7. \A p \in DOMAIN T2, i \in 1..Len(all) : T2[p].slot # all[i]
  <2> TAKE p \in DOMAIN T2, i \in 1..Len(all)
  <2>1. CASE i \in 1..x /\ all[i] = free[i]
    BY <1>0, <1>2, <2>1
  <2>2. CASE i - x \in 1..y /\ all[i] = f[i - x]
    BY <1>0, <1>2, <2>2
  <2> QED BY <1>5, <2>1, <2>2
<1>8. \A i \in 1..Len(all) : all[i] < size
  <2> TAKE i \in 1..Len(all)
  <2>1. CASE i \in 1..x /\ all[i] = free[i]
    BY <1>2, <2>1
  <2>2. CASE i - x \in 1..y /\ all[i] = f[i - x]
    <3> DEFINE j == i - x
    <3>1. j \in 1..y /\ all[i] = f[j]
      BY <2>2
    <3> HIDE DEF j
    <3>2. gone[j] \in DOMAIN T /\ f[j] = T[gone[j]].slot
      BY <1>0, <3>1
    <3> QED BY <1>2, <3>1, <3>2
  <2> QED BY <1>5, <2>1, <2>2
<1>9. /\ \A p, q \in DOMAIN T2 : T2[p].slot = T2[q].slot => p = q
      /\ \A p \in DOMAIN T2 : T2[p].slot < size
  BY <1>0, <1>2
<1> QED BY <1>6, <1>7, <1>8, <1>9 DEF Arena, all

-----------------------------------------------------------------------------
(* The slots in an insertion.                                              *)

\* The new paths of a plan are the marker of b, that of the split member and
\* nodes above both, all different; no other entry is at any of them.
LEMMA PathsApart ==
  ASSUME NEW n, Sound(n), NEW b \in Contents, b \notin DOMAIN AddressesOf(n.entries),
         NEW plan, PlanFits(n, b, plan), NEW c \in 1..NewCount(plan)
  PROVE  LET paths == NewPaths(n, b, plan)
             k     == NewCount(plan)
         IN /\ paths[c] = paths[k] => c = k
            /\ plan.member # Vacant /\ paths[c] = paths[k - 1] => c = k - 1
            /\ \A i \in 1..Len(n.entries) :
                 i # plan.member => n.entries[i].address # paths[c]
<1> DEFINE es == n.entries
           m  == plan.member
           j  == plan.shared
           k  == NewCount(plan)
           A  == AddressesOf(es)
           G  == Grown(n, b, plan)
           paths == NewPaths(n, b, plan)
<1>1. /\ j \in Nat /\ m \in 1..Len(es) \cup {Vacant} /\ (m = Vacant => j = 0)
      /\ \A i \in 1..j : Under(G, paths[i]) = {b, es[m].bytes}
      /\ m # Vacant => Under(G, paths[k - 1]) = {es[m].bytes}
      /\ Under(G, paths[k]) = {b}
  BY DEF PlanFits
<1>2. k = IF m = Vacant THEN 1 ELSE j + 2
  BY DEF NewCount
<1>3. /\ es \in Seq(Entry) /\ InByteOrder(es)
      /\ \A i \in 1..Len(es) : /\ es[i].bytes \in DOMAIN A /\ A[es[i].bytes] = es[i].address
                               /\ es[i].address \in Seq(Atoms)
      /\ \A i, q \in 1..Len(es) : es[i].bytes = es[q].bytes => i = q
  BY SoundFacts, EntriesFacts DEF Sound
<1>4. \A i \in 1..Len(es) : es[i].bytes # b
  BY <1>3
<1>5. G = Put(IF m = Vacant THEN A ELSE Put(A, es[m].bytes, Prefix(es[m].bytes, plan.base + j + 1)),
              b, Prefix(b, plan.base + j + 1))
  BY DEF Grown
<1>6. ASSUME NEW i \in 1..Len(es), i # m
      PROVE  es[i].bytes \in Under(G, es[i].address)
  <2>1. es[i].bytes # b /\ (m # Vacant => es[i].bytes # es[m].bytes)
    BY <1>1, <1>3, <1>4, <1>6
  <2>2. es[i].bytes \in DOMAIN G /\ G[es[i].bytes] = A[es[i].bytes]
    <3> HIDE DEF G, A, es, m
    <3> QED BY <1>3, <1>5, <2>1 DEF Put
  <2>3. IsPrefix(es[i].address, es[i].address)
    BY <1>3, PrefixReflexive
  <2> HIDE DEF G, A, es
  <2> QED BY <1>3, <2>2, <2>3 DEF Under
<1> HIDE DEF es, m, j, k, G, paths, A
<1>7. \/ c = k
      \/ c = k - 1 /\ m # Vacant /\ c # k
      \/ c \in 1..j /\ m # Vacant /\ c # k /\ c # k - 1
  BY <1>1, <1>2 DEF k
<1>8. \/ Under(G, paths[c]) = {b} /\ c = k
      \/ Under(G, paths[c]) = {es[m].bytes} /\ c = k - 1 /\ m # Vacant
      \/ Under(G, paths[c]) = {b, es[m].bytes} /\ m # Vacant
  BY <1>1, <1>7
<1>9. m # Vacant => m \in 1..Len(es) /\ es[m].bytes # b
  BY <1>1, <1>4
<1>10. paths[c] = paths[k] => c = k
  <2> SUFFICES ASSUME paths[c] = paths[k] PROVE c = k
    OBVIOUS
  <2>1. Under(G, paths[c]) = {b}
    BY <1>1
  <2> QED BY <1>8, <1>9, <2>1
<1>11. m # Vacant /\ paths[c] = paths[k - 1] => c = k - 1
  <2> SUFFICES ASSUME m # Vacant, paths[c] = paths[k - 1] PROVE c = k - 1
    OBVIOUS
  <2>1. Under(G, paths[c]) = {es[m].bytes}
    BY <1>1
  <2> QED BY <1>8, <1>9, <2>1
<1>12. ASSUME NEW i \in 1..Len(es), i # m, es[i].address = paths[c]
       PROVE  FALSE
  <2>1. es[i].bytes \in Under(G, paths[c])
    BY <1>6, <1>12
  <2>2. es[i].bytes = b \/ (m # Vacant /\ es[i].bytes = es[m].bytes)
    BY <1>8, <2>1
  <2> QED BY <1>3, <1>4, <1>9, <1>12, <2>2
<1> QED BY <1>10, <1>11, <1>12 DEF es, m, k, paths

\* apply_insert keeps the arena intact, and entry_nodes names the new markers.
LEMMA ApplySlots ==
  ASSUME NEW n, Sound(n), Slots(n), NEW b \in Contents,
         b \notin DOMAIN AddressesOf(n.entries),
         NEW id \in Identifiers \cup {NoId}, NEW pos \in InsertPositions(n, b),
         NEW plan, PlanFits(n, b, plan)
  PROVE  Slots(ApplyInsert(n, b, id, pos, plan).nb)
<1> DEFINE es    == n.entries
           m     == plan.member
           end   == plan.base + plan.shared + 1
           k     == NewCount(plan)
           slots == NewSlots(n, k)
           paths == NewPaths(n, b, plan)
           moved == Prefix(es[m].bytes, end)
           entry == [address |-> Prefix(b, end), bytes |-> b, identifier |-> id]
           new   == EntriesAfterInsert(n, plan, moved, pos, entry)
           nodes == IF m # Vacant THEN [n.entry_nodes EXCEPT ![m] = slots[k - 1]]
                    ELSE n.entry_nodes
           T     == Attach(n, b, plan)
           r     == ApplyInsert(n, b, id, pos, plan).nb
           Up(i) == IF i >= pos THEN i + 1 ELSE i
<1>1. /\ r.entries = new
      /\ r.trie = [p \in DOMAIN T |-> [T[p] EXCEPT !.content = ShiftUp(@, pos)]]
      /\ r.free_nodes = FreeAfter(n, k)
      /\ r.arena = ArenaAfter(n, k)
      /\ r.entry_nodes = InsertAt(nodes, pos, slots[k])
  BY DEF ApplyInsert, Answer
<1>2. /\ n.free_nodes \in Seq(Nat) /\ n.arena \in Nat
      /\ n.entry_nodes \in Seq(Nat) /\ Len(n.entry_nodes) = Len(es) /\ Len(es) \in Nat
      /\ \A p \in DOMAIN n.trie : n.trie[p] \in TrieNode
      /\ \A i \in 1..Len(es) : es[i].address \in DOMAIN n.trie
      /\ IsNeighborhood(n)
  BY SoundFacts DEF Sound, IsNeighborhood
<1>3. /\ plan.shared \in Nat /\ m \in 1..Len(es) \cup {Vacant}
      /\ DOMAIN paths = 1..k
      /\ paths[k] = Prefix(b, end)
      /\ m # Vacant => paths[k - 1] = moved
  BY DEF PlanFits
<1>4. k \in Nat /\ k > 0 /\ (m # Vacant => k > 1)
  BY <1>3 DEF NewCount
<1>5. /\ pos \in 1..(Len(es) + 1) /\ Len(new) = Len(es) + 1
      /\ new[pos].address = Prefix(b, end)
      /\ \A i \in 1..Len(es) :
           new[Up(i)].address = IF i = m THEN moved ELSE es[i].address
  BY EntriesGrow, SMTT(40)
<1>6. DOMAIN T = DOMAIN n.trie \cup Range(paths)
  BY DEF Attach
<1>7. ASSUME NEW p \in DOMAIN T
      PROVE  \/ /\ p \in DOMAIN n.trie /\ p \notin Range(paths)
                /\ r.trie[p].slot = n.trie[p].slot
             \/ \E c \in 1..k : paths[c] = p /\ r.trie[p].slot = slots[c]
  <2>1. CASE p \in Range(paths)
    <3> DEFINE c == CHOOSE i \in DOMAIN paths : paths[i] = p
    <3>1. \E i \in DOMAIN paths : paths[i] = p
      BY <2>1 DEF Range
    <3>2. c \in 1..k /\ paths[c] = p
      BY <1>3, <3>1
    <3>3. T[p] = NewNode(n, plan, c)
      BY <2>1 DEF Attach
    <3> HIDE DEF c, T, r, paths, slots, k
    <3>4. [NewNode(n, plan, c) EXCEPT !.content = ShiftUp(@, pos)].slot = slots[c]
      BY DEF NewNode, slots, k
    <3> QED BY <1>1, <3>2, <3>3, <3>4, ZenonT(30)
  <2>2. CASE p \notin Range(paths)
    <3>1. p \in DOMAIN n.trie
      BY <1>6, <2>2
    <3>2. T[p] = OldNode(n, b, plan, p)
      BY <2>2, <3>1 DEF Attach
    <3>3. n.trie[p] \in TrieNode
      BY <1>2, <3>1
    <3>4. [OldNode(n, b, plan, p) EXCEPT !.content = ShiftUp(@, pos)].slot = n.trie[p].slot
      BY <3>3 DEF OldNode, TrieNode
    <3> HIDE DEF T, r, paths
    <3> QED BY <1>1, <2>2, <3>1, <3>2, <3>4
  <2> QED BY <2>1, <2>2
<1>8. DOMAIN r.trie = DOMAIN T
  BY <1>1
<1> HIDE DEF T, r, slots, new, nodes, entry, moved, end, paths, k, es, m, Up
<1>9. Arena(r.trie, r.free_nodes, r.arena)
  <2>1. \A p \in DOMAIN n.trie : n.trie[p].slot \in Nat
    BY <1>2 DEF TrieNode
  <2>2. Arena(n.trie, n.free_nodes, n.arena)
    BY DEF Slots
  <2>3. \A p \in DOMAIN r.trie :
           \/ p \in DOMAIN n.trie /\ r.trie[p].slot = n.trie[p].slot
           \/ \E c \in 1..k : paths[c] = p /\ r.trie[p].slot = NewSlots(n, k)[c]
    BY <1>7, <1>8 DEF slots
  <2> DEFINE X == r.trie
  <2>4. \A p \in DOMAIN X :
           \/ p \in DOMAIN n.trie /\ X[p].slot = n.trie[p].slot
           \/ \E c \in 1..k : paths[c] = p /\ X[p].slot = NewSlots(n, k)[c]
    BY <2>3
  <2> HIDE DEF X
  <2>5. Arena(X, FreeAfter(n, k), ArenaAfter(n, k))
    BY <1>2, <1>4, <2>1, <2>2, <2>4, ArenaGrows, ZenonT(30)
  <2> QED BY <1>1, <2>5 DEF X
<1>10. \A i \in 1..k : slots[i] \in Nat
  BY <1>2, <1>4, SlotTypes DEF slots
<1>11. /\ nodes \in Seq(Nat) /\ Len(nodes) = Len(es)
       /\ \A i \in 1..Len(es) :
            nodes[i] = IF i = m THEN slots[k - 1] ELSE n.entry_nodes[i]
  <2>1. CASE m = Vacant
    BY <1>2, <2>1 DEF nodes, Vacant
  <2>2. CASE m # Vacant
    <3> DEFINE s == slots[k - 1]
               N == Nat
    <3>1. k - 1 \in 1..k
      BY <1>4, <2>2
    <3>2. nodes = [n.entry_nodes EXCEPT ![m] = s]
      BY <2>2 DEF nodes
    <3>3. m \in 1..Len(n.entry_nodes) /\ n.entry_nodes \in Seq(N) /\ s \in N
      BY <1>2, <1>3, <1>10, <2>2, <3>1
    <3> HIDE DEF s, N
    <3>4. /\ nodes \in Seq(N) /\ Len(nodes) = Len(n.entry_nodes)
          /\ \A i \in 1..Len(n.entry_nodes) :
               nodes[i] = IF i = m THEN s ELSE n.entry_nodes[i]
      BY <3>2, <3>3, UpdateAt
    <3> QED BY <1>2, <3>4 DEF s, N
  <2> QED BY <2>1, <2>2
<1>12. /\ r.entry_nodes[pos] = slots[k]
       /\ \A i \in 1..Len(es) : r.entry_nodes[Up(i)] = nodes[i]
  <2> DEFINE s == slots[k]
             N == Nat
  <2>1. nodes \in Seq(N) /\ s \in N /\ pos \in 1..(Len(nodes) + 1)
    BY <1>4, <1>5, <1>10, <1>11
  <2> HIDE DEF s, N
  <2>2. /\ InsertAt(nodes, pos, s) \in Seq(N)
        /\ Len(InsertAt(nodes, pos, s)) = Len(nodes) + 1
        /\ InsertAt(nodes, pos, s)[pos] = s
        /\ \A i \in 1..Len(nodes) :
             InsertAt(nodes, pos, s)[IF i >= pos THEN i + 1 ELSE i] = nodes[i]
    <3>1. InsertionAt(N, nodes, pos, s)
      BY <2>1, InsertAtInserts
    <3> QED BY <3>1 DEF InsertionAt
  <2> QED BY <1>1, <1>11, <2>2 DEF s, Up
<1>13. /\ r.trie[Prefix(b, end)].slot = slots[k]
       /\ m # Vacant => r.trie[moved].slot = slots[k - 1]
       /\ \A i \in 1..Len(es) :
            i # m => r.trie[es[i].address].slot = n.trie[es[i].address].slot
  <2>1. \A c \in 1..k : /\ paths[c] \in Range(paths)
                        /\ paths[c] = paths[k] => c = k
                        /\ m # Vacant /\ paths[c] = paths[k - 1] => c = k - 1
                        /\ \A i \in 1..Len(es) : i # m => es[i].address # paths[c]
    <3> TAKE c \in 1..k
    <3>1. paths[c] \in Range(paths)
      BY <1>3 DEF Range
    <3>2. c \in 1..NewCount(plan)
      BY DEF k
    <3>3. /\ paths[c] = paths[k] => c = k
          /\ m # Vacant /\ paths[c] = paths[k - 1] => c = k - 1
          /\ \A i \in 1..Len(es) : i # m => es[i].address # paths[c]
      BY <3>2, PathsApart DEF paths, k, es, m
    <3> QED BY <3>1, <3>3
  <2>2. k \in 1..k /\ (m # Vacant => k - 1 \in 1..k)
    BY <1>4
  <2>3. r.trie[paths[k]].slot = slots[k]
    BY <1>6, <1>7, <2>1, <2>2
  <2>4. m # Vacant => r.trie[paths[k - 1]].slot = slots[k - 1]
    BY <1>6, <1>7, <2>1, <2>2
  <2>5. ASSUME NEW i \in 1..Len(es), i # m
        PROVE  r.trie[es[i].address].slot = n.trie[es[i].address].slot
    BY <1>2, <1>6, <1>7, <2>1, <2>5
  <2> QED BY <1>3, <2>3, <2>4, <2>5
<1>14. ASSUME NEW x \in 1..Len(new)
       PROVE  r.entry_nodes[x] = r.trie[new[x].address].slot
  <2>1. CASE x = pos
    BY <1>5, <1>12, <1>13, <2>1
  <2>2. CASE x # pos
    <3> DEFINE i == IF x > pos THEN x - 1 ELSE x
    <3>1. i \in 1..Len(es) /\ Up(i) = x
      BY <1>2, <1>5, <2>2 DEF Up
    <3> HIDE DEF i
    <3>2. /\ new[x].address = IF i = m THEN moved ELSE es[i].address
          /\ r.entry_nodes[x] = IF i = m THEN slots[k - 1] ELSE n.entry_nodes[i]
      BY <1>5, <1>11, <1>12, <3>1
    <3>3. CASE i = m
      BY <1>13, <3>1, <3>2, <3>3 DEF Vacant
    <3>4. CASE i # m
      <4>1. n.entry_nodes[i] = n.trie[es[i].address].slot
        BY <3>1 DEF Slots, MarkersKnown, es
      <4> QED BY <1>13, <3>1, <3>2, <3>4, <4>1
    <3> QED BY <3>3, <3>4
  <2> QED BY <2>1, <2>2
<1>15. Slots(r)
  BY <1>1, <1>9, <1>14 DEF Slots, MarkersKnown
<1> QED BY <1>15 DEF r

\* One entry with another identifier: the arena and the markers are as they were.
LEMMA RenameSlots ==
  ASSUME NEW n, Sound(n), Slots(n), NEW i \in 1..Len(n.entries), NEW id, NEW index
  PROVE  Slots([n EXCEPT !.entries = [@ EXCEPT ![i].identifier = id],
                         !.identifier_index = index])
<1> DEFINE es == n.entries
           r  == [n EXCEPT !.entries = [@ EXCEPT ![i].identifier = id],
                           !.identifier_index = index]
<1>1. es \in Seq(Entry) /\ DOMAIN es = 1..Len(es) /\ Len(es) \in Nat
  BY SoundFacts
<1>2. n = [entries |-> n.entries, trie |-> n.trie, free_nodes |-> n.free_nodes,
           arena |-> n.arena, entry_nodes |-> n.entry_nodes,
           identifier_index |-> n.identifier_index]
  BY DEF Sound, IsNeighborhood
<1>3. /\ r.entries = [es EXCEPT ![i].identifier = id]
      /\ r.trie = n.trie /\ r.free_nodes = n.free_nodes
      /\ r.arena = n.arena /\ r.entry_nodes = n.entry_nodes
  BY <1>2
<1>4. /\ Len([es EXCEPT ![i].identifier = id]) = Len(es)
      /\ \A k \in 1..Len(es) : [es EXCEPT ![i].identifier = id][k].address = es[k].address
  <2>1. es[i] \in Entry
    BY <1>1
  <2>2. [es[i] EXCEPT !.identifier = id].address = es[i].address
    BY <2>1 DEF Entry
  <2>3. [es EXCEPT ![i].identifier = id] = [es EXCEPT ![i] = [es[i] EXCEPT !.identifier = id]]
    BY <1>1
  <2> DEFINE e == [es[i] EXCEPT !.identifier = id]
             e2 == [es EXCEPT ![i] = e]
  <2>4. /\ DOMAIN e2 = 1..Len(es) /\ e2 \in Seq(Entry \cup {e})
        /\ \A k \in 1..Len(es) : e2[k] = IF k = i THEN e ELSE es[k]
    BY <1>1
  <2> HIDE DEF e
  <2>5. Len(e2) = Len(es)
    BY <1>1, <2>4
  <2> HIDE DEF e2
  <2>6. \A k \in 1..Len(es) : e2[k].address = es[k].address
    BY <2>2, <2>4 DEF e
  <2> QED BY <2>3, <2>5, <2>6 DEF e2, e
<1> HIDE DEF r
<1>5. Slots(r)
  BY <1>3, <1>4 DEF Slots, MarkersKnown
<1> QED BY <1>5 DEF r

\* A refused call leaves the slots as they were.
LEMMA RefusedSlots ==
  ASSUME NEW n, Slots(n), NEW status
  PROVE  Slots(Refused(n, status).nb)
BY DEF Refused, Answer

\* Every answer of insert leaves the slots in order.
LEMMA InsertSlots ==
  ASSUME NEW n, Sound(n), Slots(n), NEW b \in Contents, NEW id \in Identifiers \cup {NoId},
         NEW a \in InsertInner(n, b, id)
  PROVE  Slots(a.nb)
<1>1. /\ n.entries \in Seq(Entry) /\ InByteOrder(n.entries)
      /\ DOMAIN n.entries = 1..Len(n.entries)
  BY SoundFacts DEF Sound
<1>2. CASE Find(n, b) # {}
  <2>1. PICK i \in Find(n, b) : a = InsertExisting(n, i, id)
    BY <1>2 DEF InsertInner
  <2>2. i \in 1..Len(n.entries)
    BY <1>1 DEF Find
  <2>3. a.nb = n \/ a.nb = Assign(n, i, id)
    BY <2>1 DEF InsertExisting, Refused, Answer
  <2>4. Slots(Assign(n, i, id))
    BY <2>2, RenameSlots DEF Assign
  <2> QED BY <2>3, <2>4
<1>3. CASE Find(n, b) = {} /\ id \in DOMAIN n.identifier_index
  <2>1. a = Refused(n, "IdentifierAlreadyAssigned")
    BY <1>3 DEF InsertInner
  <2> QED BY <2>1, RefusedSlots
<1>4. CASE Find(n, b) = {} /\ id \notin DOMAIN n.identifier_index
  <2>1. PICK pos \in InsertPositions(n, b), d \in WalkEnds(n, b) :
          a \in InsertNew(n, b, id, pos, d)
    BY <1>4 DEF InsertInner
  <2>2. b \notin DOMAIN AddressesOf(n.entries)
    <3> SUFFICES ASSUME b \in DOMAIN AddressesOf(n.entries) PROVE FALSE
      OBVIOUS
    <3>1. PICK i \in 1..Len(n.entries) : n.entries[i].bytes = b
      BY <1>1, EntriesFacts
    <3>2. i \in Find(n, b)
      BY <1>1, <3>1 DEF Find
    <3> QED BY <1>4, <3>2
  <2> DEFINE m == n.trie[Prefix(b, d)].content
             shared == SharedAtoms(b, n.entries[m].bytes, d)
             leaf == [base |-> d, member |-> Vacant, shared |-> 0]
             split(j) == [base |-> d, member |-> m, shared |-> j]
  <2>3. CASE m = Vacant
    <3>1. a = ApplyInsert(n, b, id, pos, leaf)
      BY <2>1, <2>3 DEF InsertNew
    <3>2. PlanFits(n, b, leaf)
      BY <2>2, <2>3, LeafFits
    <3> HIDE DEF leaf
    <3> QED BY <2>2, <3>1, <3>2, ApplySlots
  <2>4. CASE m # Vacant
    <3>1. \/ a = Refused(n, "Panic")
          \/ a = Refused(n, "ContentsNotDistinguishable")
          \/ \E j \in shared : a = ApplyInsert(n, b, id, pos, split(j))
      BY <2>1, <2>4 DEF InsertNew
    <3>2. ASSUME NEW j \in shared, a = ApplyInsert(n, b, id, pos, split(j))
          PROVE  Slots(a.nb)
      <4>1. PlanFits(n, b, split(j))
        BY <2>2, <2>4, SplitFits
      <4> HIDE DEF split
      <4> QED BY <2>2, <3>2, <4>1, ApplySlots
    <3>3. CASE \/ a = Refused(n, "Panic")
               \/ a = Refused(n, "ContentsNotDistinguishable")
      BY <3>3, RefusedSlots
    <3> QED BY <3>1, <3>2, <3>3
  <2> QED BY <2>3, <2>4
<1> QED BY <1>2, <1>3, <1>4

\* The same for set_identifier.
LEMMA SetIdentifierSlots ==
  ASSUME NEW n, Sound(n), Slots(n), NEW b, NEW id, NEW a \in SetIdentifierInner(n, b, id)
  PROVE  Slots(a.nb)
<1>1. DOMAIN n.entries = 1..Len(n.entries)
  BY SoundFacts
<1>2. \/ a = Refused(n, "ContentNotFound")
      \/ \E i \in Find(n, b) : a = SetIdentifierAt(n, i, id)
  BY DEF SetIdentifierInner
<1>3. CASE a = Refused(n, "ContentNotFound")
  BY <1>3, RefusedSlots
<1>4. ASSUME NEW i \in Find(n, b), a = SetIdentifierAt(n, i, id)
      PROVE  Slots(a.nb)
  <2>1. i \in 1..Len(n.entries)
    BY <1>1 DEF Find
  <2> DEFINE index == IF id # NoId THEN Put(n.identifier_index, id, i)
                      ELSE Drop(n.identifier_index, n.entries[i].identifier)
             r == [n EXCEPT !.entries = [@ EXCEPT ![i].identifier = id],
                            !.identifier_index = index]
  <2>2. a.nb = n \/ a.nb = r
    BY <1>4 DEF SetIdentifierAt, Assign, Refused, Answer
  <2> HIDE DEF index
  <2>3. Slots(r)
    BY <2>1, RenameSlots
  <2> QED BY <2>2, <2>3
<1> QED BY <1>2, <1>3, <1>4

-----------------------------------------------------------------------------
(* The slots in a removal.                                                 *)

\* The data of a neighborhood on which a removal ends, before it is known sound.
IsTrimmed(n) ==
  /\ n.entries \in Seq(Entry) /\ n.free_nodes \in Seq(Nat) /\ n.arena \in Nat
  /\ <<>> \in DOMAIN n.trie
  /\ \A p \in DOMAIN n.trie : n.trie[p] \in TrieNode

\* The entry at idx goes, and the slots of the others are still their markers'.
LEMMA EvictSlots ==
  ASSUME NEW n, IsTrimmed(n), NEW idx \in 1..Len(n.entries),
         n.entry_nodes \in Seq(Nat), Len(n.entry_nodes) = Len(n.entries),
         Arena(n.trie, n.free_nodes, n.arena),
         \A i \in 1..Len(n.entries) :
           i # idx => /\ n.entries[i].address \in DOMAIN n.trie
                      /\ n.entry_nodes[i] = n.trie[n.entries[i].address].slot
  PROVE  IsTrimmed(Evict(n, idx)) /\ Slots(Evict(n, idx))
<1> DEFINE es   == n.entries
           new  == RemoveAt(es, idx)
           nodes == RemoveAt(n.entry_nodes, idx)
           trie == [p \in DOMAIN n.trie |-> [n.trie[p] EXCEPT !.content = ShiftDown(@, idx)]]
           r    == Evict(n, idx)
           Down(i) == IF i > idx THEN i - 1 ELSE i
<1>1. /\ r.entries = new /\ r.trie = trie /\ r.free_nodes = n.free_nodes
      /\ r.arena = n.arena /\ r.entry_nodes = nodes
  BY DEF Evict
<1>2. /\ es \in Seq(Entry) /\ Len(es) \in Nat /\ idx \in Nat
      /\ n.free_nodes \in Seq(Nat) /\ n.arena \in Nat /\ <<>> \in DOMAIN n.trie
      /\ \A p \in DOMAIN n.trie : n.trie[p] \in TrieNode
  BY DEF IsTrimmed
<1>3. ASSUME NEW p \in DOMAIN n.trie
      PROVE  trie[p] \in TrieNode /\ trie[p].slot = n.trie[p].slot
  <2>1. n.trie[p] \in TrieNode
    BY <1>2
  <2>2. ShiftDown(n.trie[p].content, idx) \in Int
    BY <1>2, <2>1 DEF TrieNode, ShiftDown
  <2>3. trie[p] = [n.trie[p] EXCEPT !.content = ShiftDown(n.trie[p].content, idx)]
    OBVIOUS
  <2> HIDE DEF trie
  <2> QED BY <2>1, <2>2, <2>3 DEF TrieNode
<1>d. DOMAIN trie = DOMAIN n.trie
  OBVIOUS
<1> HIDE DEF r, trie
<1>4. /\ new \in Seq(Entry) /\ Len(new) = Len(es) - 1
      /\ \A i \in 1..Len(es) : i # idx => new[Down(i)] = es[i]
  BY <1>2, RemoveAtProperties
<1>5. \A i \in 1..Len(es) : i # idx => nodes[Down(i)] = n.entry_nodes[i]
  <2> DEFINE N == Nat
             old == n.entry_nodes
  <2>1. old \in Seq(N) /\ idx \in 1..Len(old) /\ Len(old) = Len(es)
    OBVIOUS
  <2> HIDE DEF N, old
  <2>2. /\ RemoveAt(old, idx) \in Seq(N)
        /\ Len(RemoveAt(old, idx)) = Len(old) - 1
        /\ \A i \in 1..Len(old) : i # idx =>
             RemoveAt(old, idx)[IF i > idx THEN i - 1 ELSE i] = old[i]
    BY <2>1, RemoveAtProperties
  <2> QED BY <2>1, <2>2 DEF old
<1> HIDE DEF new, nodes, Down
<1>6. Arena(trie, n.free_nodes, n.arena)
  BY <1>3, <1>d DEF Arena
<1>7. ASSUME NEW x \in 1..Len(new)
      PROVE  nodes[x] = trie[new[x].address].slot
  <2> DEFINE i == IF x >= idx THEN x + 1 ELSE x
  <2>1. i \in 1..Len(es) /\ i # idx /\ Down(i) = x
    BY <1>2, <1>4 DEF Down
  <2> HIDE DEF i
  <2>2. new[x] = es[i] /\ nodes[x] = n.entry_nodes[i]
    BY <1>4, <1>5, <2>1
  <2>3. es[i].address \in DOMAIN n.trie /\ n.entry_nodes[i] = n.trie[es[i].address].slot
    BY <2>1
  <2> QED BY <1>3, <2>2, <2>3
<1>8. Slots(r)
  BY <1>1, <1>6, <1>7 DEF Slots, MarkersKnown
<1>9. IsTrimmed(r)
  BY <1>1, <1>2, <1>3, <1>4, <1>d DEF IsTrimmed
<1> QED BY <1>8, <1>9 DEF r

\* The slots of the empty neighborhood are in order: the root has slot 0.
LEMMA NewSlotsInOrder ==
  ASSUME NEW n, n.entries = <<>>, n.trie = EmptyTrie, n.free_nodes = <<>>, n.arena = 1
  PROVE  Slots(n)
<1>1. /\ DOMAIN EmptyTrie = {<<>>} /\ EmptyTrie[<<>>].slot = 0
  BY DEF EmptyTrie
<1>2. Len(n.free_nodes) = 0 /\ Len(n.entries) = 0
  OBVIOUS
<1> QED BY <1>1, <1>2 DEF Slots, Arena, MarkersKnown

\* The end of remove_inner leaves the slots in order: the leaf that the last
\* member gets has a slot of its own, and no free slot is left to be wrong.
LEMMA SettleSlots ==
  ASSUME NEW n, IsTrimmed(n), Slots(n), NEW address, NEW changes
  PROVE  Slots(Settle(n, address, changes).nb)
<1>1. CASE Len(n.entries) = 0
  <2> DEFINE r == [New EXCEPT !.identifier_index = n.identifier_index]
  <2>1. r.entries = <<>> /\ r.trie = EmptyTrie /\ r.free_nodes = <<>> /\ r.arena = 1
    BY DEF New
  <2>2. Settle(n, address, changes).nb = r
    BY <1>1 DEF Settle, Answer
  <2> HIDE DEF r
  <2> QED BY <2>1, <2>2, NewSlotsInOrder
<1>2. CASE Len(n.entries) = 1
  <2> DEFINE first == Prefix(n.entries[1].bytes, 1)
             leaf == NewSlots(n, 1)[1]
             root == [n.trie[<<>>] EXCEPT !.count = 1]
             trie == [p \in {<<>>, first} |->
                        IF p = <<>> THEN root
                        ELSE [slot |-> leaf, content |-> 1, count |-> 1]]
             r == Reseat(n)
  <2>1. Settle(n, address, changes).nb = r
    BY <1>2 DEF Settle, Answer
  <2>2. /\ r.entries = [n.entries EXCEPT ![1].address = first] /\ r.trie = trie
        /\ r.free_nodes = <<>> /\ r.arena = ArenaAfter(n, 1) /\ r.entry_nodes = <<leaf>>
    BY DEF Reseat
  <2>3. /\ n.entries \in Seq(Entry) /\ n.free_nodes \in Seq(Nat) /\ n.arena \in Nat
        /\ <<>> \in DOMAIN n.trie /\ n.trie[<<>>] \in TrieNode
        /\ \A p \in DOMAIN n.trie : n.trie[p].slot \in Nat
    BY DEF IsTrimmed, TrieNode
  <2>4. n.entries[1] \in Entry
    BY <1>2, <2>3
  <2>5. first # <<>>
    <3>1. n.entries[1].bytes \in Contents
      BY <2>4 DEF Entry
    <3>2. first \in Seq(Atoms) /\ Len(first) = 1
      BY <3>1, PrefixProperties
    <3> QED BY <3>2
  <2>6. root.slot = n.trie[<<>>].slot
    BY <2>3 DEF TrieNode
  <2> HIDE DEF r, leaf, first, root
  <2>7. trie[<<>>].slot = n.trie[<<>>].slot /\ trie[first].slot = leaf
    BY <2>5, <2>6
  <2>8. Arena(r.trie, <<>>, ArenaAfter(n, 1))
    <3> DEFINE paths == <<first>>
               k == 1
    <3>1. \A p \in DOMAIN trie :
            \/ p \in DOMAIN n.trie /\ trie[p].slot = n.trie[p].slot
            \/ \E c \in 1..k : paths[c] = p /\ trie[p].slot = NewSlots(n, k)[c]
      BY <2>3, <2>7 DEF leaf
    <3>2. Arena(n.trie, n.free_nodes, n.arena) /\ k \in Nat
      BY DEF Slots
    <3> HIDE DEF paths, trie, k
    <3>3. Arena(trie, FreeAfter(n, k), ArenaAfter(n, k)) /\ Arena(trie, <<>>, ArenaAfter(n, k))
      BY <2>3, <3>1, <3>2, ArenaGrows, ZenonT(30)
    <3> QED BY <2>2, <3>3 DEF k
  <2>9. Len(r.entries) = 1 /\ r.entries[1].address = first
    <3>1. [n.entries EXCEPT ![1].address = first]
            = [n.entries EXCEPT ![1] = [n.entries[1] EXCEPT !.address = first]]
      BY <1>2, <2>3
    <3> DEFINE e == [n.entries[1] EXCEPT !.address = first]
               e2 == [n.entries EXCEPT ![1] = e]
    <3>2. e.address = first
      BY <2>4 DEF Entry
    <3> HIDE DEF e
    <3>3. DOMAIN e2 = 1..1 /\ e2 \in Seq(Entry \cup {e}) /\ e2[1] = e
      <4>1. DOMAIN n.entries = 1..1 /\ n.entries \in Seq(Entry \cup {e}) /\ Len(n.entries) = 1
        BY <1>2, <2>3
      <4> DEFINE E == Entry \cup {e}
                 old == n.entries
      <4>2. old \in Seq(E) /\ 1 \in 1..Len(old) /\ e \in E /\ DOMAIN old = 1..1
        BY <4>1
      <4> HIDE DEF E, old
      <4>3. /\ [old EXCEPT ![1] = e] \in Seq(E)
            /\ Len([old EXCEPT ![1] = e]) = Len(old)
            /\ \A k \in 1..Len(old) : [old EXCEPT ![1] = e][k] = IF k = 1 THEN e ELSE old[k]
        BY <4>2, UpdateAt
      <4> QED BY <4>2, <4>3 DEF E, old
    <3> HIDE DEF e2
    <3>4. Len(e2) = 1
      BY <3>3
    <3>5. r.entries = e2
      BY <2>2, <3>1 DEF e2, e
    <3> QED BY <3>2, <3>3, <3>4, <3>5
  <2> HIDE DEF trie
  <2>10. MarkersKnown(r.entries, r.entry_nodes, r.trie)
    BY <2>2, <2>7, <2>9 DEF MarkersKnown
  <2> QED BY <2>1, <2>2, <2>8, <2>10 DEF Slots
<1>3. CASE Len(n.entries) # 0 /\ Len(n.entries) # 1
  BY <1>3 DEF Settle, Answer
<1> QED BY <1>1, <1>2, <1>3

\* Unlinking a leaf frees its slot, and the other entries' markers stay where they
\* were.
LEMMA DetachSlots ==
  ASSUME NEW n, Sound(n), Slots(n), NEW idx \in 1..Len(n.entries)
  PROVE  LET a == n.entries[idx].address
             T == Detach(n, a)
         IN /\ Arena(T, Append(n.free_nodes, n.trie[a].slot), n.arena)
            /\ Append(n.free_nodes, n.trie[a].slot) \in Seq(Nat)
            /\ <<>> \in DOMAIN T /\ \A p \in DOMAIN T : T[p] \in TrieNode
            /\ \A i \in 1..Len(n.entries) :
                 i # idx => /\ n.entries[i].address \in DOMAIN T
                            /\ n.entry_nodes[i] = T[n.entries[i].address].slot
<1> DEFINE es == n.entries
           a == es[idx].address
           T == Detach(n, a)
           A == AddressesOf(es)
           s == n.trie[a].slot
           free == n.free_nodes
<1>1. IsDetached(n, idx, A, es[idx].bytes, a, T)
  BY DetachFacts
<1>2. /\ es \in Seq(Entry) /\ InByteOrder(es) /\ IsTree(A) /\ IsAddressMap(A)
      /\ DOMAIN n.trie = Nodes(A)
      /\ \A i \in 1..Len(es) : es[i].address \in Nodes(A) /\ es[i].address \in Seq(Atoms)
      /\ a # <<>>
      /\ s \in Nat /\ free \in Seq(Nat)
  BY SoundFacts, EntriesFacts DEF Sound, IsNeighborhood, IsTree
<1>3. /\ DOMAIN T = Nodes(A) \ {a} /\ a \in Nodes(A)
      /\ \A p \in Nodes(A) \ {a} : T[p] \in TrieNode /\ T[p].slot = n.trie[p].slot
  BY <1>1 DEF IsDetached
<1>4. ASSUME NEW i \in 1..Len(es), i # idx
      PROVE  es[i].address # a
  <2> SUFFICES ASSUME es[i].address = a PROVE FALSE
    OBVIOUS
  <2>1. IsPrefix(es[i].address, es[idx].address)
    BY <1>2, PrefixReflexive
  <2> QED BY <1>2, <1>4, <2>1, AddressIsOwn
<1>5. <<>> \in Nodes(A)
  BY <1>2, NodesDef
<1>6. /\ Arena(n.trie, free, n.arena)
      /\ \A i \in 1..Len(es) : n.entry_nodes[i] = n.trie[es[i].address].slot
  BY DEF Slots, MarkersKnown
<1> DEFINE f == <<s>>
           gone == <<a>>
<1>7. /\ f \in Seq(Nat) /\ Len(f) = 1 /\ Append(free, s) = free \o f
      /\ Append(free, s) \in Seq(Nat)
  <2>1. f \in Seq(Nat) /\ Len(f) = 1
    BY <1>2
  <2> HIDE DEF s, free
  <2>2. Append(free, s) = free \o f /\ Append(free, s) \in Seq(Nat)
    BY <1>2, AppendIsConcatenation
  <2> QED BY <2>1, <2>2
<1>8. /\ \A i \in 1..Len(f) : gone[i] \in DOMAIN n.trie /\ gone[i] \notin DOMAIN T
                              /\ f[i] = n.trie[gone[i]].slot
      /\ \A i, j \in 1..Len(f) : gone[i] = gone[j] => i = j
  BY <1>2, <1>3
<1> HIDE DEF f, gone, T, a, s, A, es, free
<1>9. Arena(T, free \o f, n.arena)
  <2>1. DOMAIN T \subseteq DOMAIN n.trie /\ \A p \in DOMAIN T : T[p].slot = n.trie[p].slot
    BY <1>2, <1>3
  <2>2. Releases(n.trie, T, f, gone)
    BY <1>7, <1>8, <2>1 DEF Releases
  <2> DEFINE old == n.trie
             size == n.arena
  <2>3. Arena(old, free, size) /\ free \in Seq(Nat) /\ Releases(old, T, f, gone)
    BY <1>2, <1>6, <2>2
  <2> HIDE DEF old, size
  <2>4. Arena(T, free \o f, size)
    BY <2>3, ArenaShrinks
  <2> QED BY <2>4 DEF size
<1>10. <<>> \in DOMAIN T /\ \A p \in DOMAIN T : T[p] \in TrieNode
  BY <1>2, <1>3, <1>5
<1>11. \A i \in 1..Len(es) :
         i # idx => es[i].address \in DOMAIN T /\ n.entry_nodes[i] = T[es[i].address].slot
  BY <1>2, <1>3, <1>4, <1>6
<1> QED BY <1>7, <1>9, <1>10, <1>11 DEF T, a, s, es, free

\* The paths whose slots a collapse frees, in the order of CollapsedSlots.
CollapsedPaths(address, top, low, marker) ==
  LET chain == Len(marker) - low IN
  [i \in 1..(chain + low - top) |->
     IF i <= chain THEN SubSeq(marker, 1, low + i)
     ELSE SubSeq(address, 1, low + chain + 1 - i)]

\* A collapse frees the slots of the nodes it takes out of the trie, each once:
\* the chain down to the marker and the levels above are of different lengths.
LEMMA CollapseReleases ==
  ASSUME NEW n, Sound(n), NEW idx \in 1..Len(n.entries), NEW A, A = AddressesOf(n.entries),
         NEW b, b = n.entries[idx].bytes,
         NEW a, NEW T, IsDetached(n, idx, A, b, a, T),
         NEW marker, NEW m, NEW top, NEW low, NEW t, NEW l, Len(t) = top,
         IsCollapse(n, idx, A, b, a, T, marker, m, top, low, t, l)
  PROVE  Releases(T, Collapse(T, a, top, m), CollapsedSlots(T, a, top, low, marker),
                  CollapsedPaths(a, top, low, marker))
<1> DEFINE c == n.entries[m].bytes
           chain == Len(marker) - low
           size == chain + low - top
           T2 == Collapse(T, a, top, m)
           f == CollapsedSlots(T, a, top, low, marker)
           gone == CollapsedPaths(a, top, low, marker)
           Level(i) == IF i <= chain THEN low + i ELSE low + chain + 1 - i
<1>1. IsTree(A) /\ IsAddressMap(A)
  BY DEF Sound, IsTree
<1>2. /\ b \in DOMAIN A /\ A[b] = a /\ DOMAIN T = Nodes(A) \ {a}
      /\ \A p \in Nodes(A) \ {a} : T[p].slot \in Nat
  BY DEF IsDetached, TrieNode
<1>3. /\ top \in Nat /\ low \in Nat /\ 1 <= top /\ top <= low /\ low <= Len(a) - 1
      /\ c \in DOMAIN A /\ c # b /\ A[c] = marker
      /\ l \in Seq(Atoms) /\ IsPrefix(l, marker) /\ Len(l) = low
      /\ t \in Seq(Atoms) /\ IsPrefix(t, a) /\ IsPrefix(t, marker)
  BY DEF IsCollapse, Address
<1> HIDE DEF c
<1>4. a \in Seq(Atoms) /\ Len(a) \in Nat /\ marker \in Seq(Atoms) /\ Len(marker) \in Nat
  <2>1. A[b] \in Seq(Atoms) /\ A[c] \in Seq(Atoms)
    BY <1>1, <1>2, <1>3 DEF IsAddressMap
  <2> QED BY <1>2, <1>3, <2>1
<1>5. chain \in Nat
  BY <1>3, <1>4, PrefixDef
<1>6. t = SubSeq(a, 1, top)
  BY <1>3, <1>4, PrefixIsSubSeq
<1>7. \A k \in 0..Len(marker) :
        /\ SubSeq(marker, 1, k) \in Nodes(A) \ {a} /\ SubSeq(marker, 1, k) \in Seq(Atoms)
        /\ Len(SubSeq(marker, 1, k)) = k /\ IsPrefix(SubSeq(marker, 1, k), marker)
  BY <1>1, <1>2, <1>3, PathOfOther, SMTT(30)
<1>8. \A k \in 1..(Len(a) - 1) :
        /\ SubSeq(a, 1, k) \in Nodes(A) \ {a} /\ SubSeq(a, 1, k) \in Seq(Atoms)
        /\ Len(SubSeq(a, 1, k)) = k /\ IsPrefix(SubSeq(a, 1, k), a)
  BY <1>1, <1>2, AboveLeaf
<1>9. /\ DOMAIN T2 = {q \in Nodes(A) \ {a} : ~IsStrictPrefix(t, q)}
      /\ \A p \in DOMAIN T2 : T2[p].slot = T[p].slot
  BY <1>2, <1>6 DEF Collapse
<1>10. f = [i \in 1..size |-> IF i <= chain THEN T[SubSeq(marker, 1, low + i)].slot
                              ELSE T[SubSeq(a, 1, low + chain + 1 - i)].slot]
  BY DEF CollapsedSlots
<1>11. gone = [i \in 1..size |-> IF i <= chain THEN SubSeq(marker, 1, low + i)
                                 ELSE SubSeq(a, 1, low + chain + 1 - i)]
  BY DEF CollapsedPaths
<1> HIDE DEF T2, f, gone
<1>12. chain = Len(marker) - low /\ size = chain + low - top /\ size \in Nat
  BY <1>3, <1>5
<1> HIDE DEF chain, size
<1>13. ASSUME NEW i \in 1..size
       PROVE  /\ gone[i] \in Nodes(A) \ {a} /\ gone[i] \in Seq(Atoms)
              /\ Len(gone[i]) = Level(i) /\ Level(i) > top
              /\ IsPrefix(t, gone[i]) /\ f[i] = T[gone[i]].slot
  <2>1. CASE i <= chain
    <3> DEFINE k == low + i
               q == SubSeq(marker, 1, k)
    <3>1. k \in 0..Len(marker) /\ k > top
      BY <1>3, <1>4, <1>5, <1>12, <2>1
    <3>2. gone[i] = q /\ f[i] = T[q].slot /\ Level(i) = k
      BY <1>10, <1>11, <2>1
    <3> HIDE DEF k
    <3>3. q \in Nodes(A) \ {a} /\ q \in Seq(Atoms) /\ Len(q) = k /\ IsPrefix(q, marker)
      BY <1>7, <3>1
    <3> HIDE DEF q
    <3>4. Len(t) <= Len(q)
      BY <1>3, <1>4, <3>1, <3>3
    <3>5. IsPrefix(t, q)
      BY <1>3, <1>4, <3>3, <3>4, PrefixesCompare
    <3> QED BY <3>1, <3>2, <3>3, <3>5
  <2>2. CASE ~(i <= chain)
    <3> DEFINE k == low + chain + 1 - i
               q == SubSeq(a, 1, k)
    <3>1. k \in 1..(Len(a) - 1) /\ k > top
      BY <1>3, <1>4, <1>5, <1>12, <2>2
    <3>2. gone[i] = q /\ f[i] = T[q].slot /\ Level(i) = k
      BY <1>10, <1>11, <2>2
    <3> HIDE DEF k
    <3>3. q \in Nodes(A) \ {a} /\ q \in Seq(Atoms) /\ Len(q) = k /\ IsPrefix(q, a)
      BY <1>8, <3>1
    <3> HIDE DEF q
    <3>4. Len(t) <= Len(q)
      BY <1>3, <1>4, <3>1, <3>3
    <3>5. IsPrefix(t, q)
      BY <1>3, <1>4, <3>3, <3>4, PrefixesCompare
    <3> QED BY <3>1, <3>2, <3>3, <3>5
  <2> QED BY <2>1, <2>2
<1>14. \A i \in 1..size : gone[i] \in DOMAIN T /\ gone[i] \notin DOMAIN T2
                          /\ f[i] = T[gone[i]].slot
  <2> TAKE i \in 1..size
  <2>1. gone[i] # t
    BY <1>3, <1>13
  <2> QED BY <1>2, <1>9, <1>13, <2>1 DEF IsStrictPrefix
<1>15. ASSUME NEW i \in 1..size, NEW j \in 1..size, gone[i] = gone[j]
       PROVE  i = j
  <2>1. Level(i) = Level(j)
    BY <1>13, <1>15
  <2> QED BY <1>3, <1>5, <1>12, <2>1
<1>16. f \in [1..size -> Nat]
  BY <1>2, <1>10, <1>13
<1>17. f \in Seq(Nat) /\ Len(f) = size
  BY <1>12, <1>16
<1>18. DOMAIN T2 \subseteq DOMAIN T
  BY <1>2, <1>9
<1>19. Releases(T, T2, f, gone)
  BY <1>9, <1>14, <1>15, <1>17, <1>18 DEF Releases
<1> QED BY <1>19 DEF T2, f, gone

\* Above the collapse only one member is left, so no other entry loses its marker.
LEMMA OthersStay ==
  ASSUME NEW n, Sound(n), NEW idx \in 1..Len(n.entries),
         NEW top \in Lonely(AddressesOf(n.entries), n.entries[idx].bytes),
         NEW m \in 1..Len(n.entries), m # idx,
         IsPrefix(SubSeq(n.entries[idx].address, 1, top), n.entries[m].address),
         NEW i \in 1..Len(n.entries), i # idx, i # m
  PROVE  ~IsPrefix(SubSeq(n.entries[idx].address, 1, top), n.entries[i].address)
<1> DEFINE es == n.entries
           A == AddressesOf(es)
           b == es[idx].bytes
           t == SubSeq(es[idx].address, 1, top)
<1>1. /\ es \in Seq(Entry) /\ InByteOrder(es) /\ IsTree(A)
  BY SoundFacts DEF Sound
<1>2. /\ \A k \in 1..Len(es) : es[k].bytes \in DOMAIN A /\ A[es[k].bytes] = es[k].address
      /\ \A k, q \in 1..Len(es) : es[k].bytes = es[q].bytes => k = q
  BY <1>1, EntriesFacts
<1>3. PICK d : Under(Drop(A, b), t) = {d}
  <2>1. A[b] = es[idx].address
    BY <1>2
  <2> QED BY <2>1 DEF Lonely
<1>4. \A p, x : x \in Under(Drop(A, b), p) <=> x \in DOMAIN A /\ x # b /\ IsPrefix(p, A[x])
  <2>1. b \in DOMAIN A
    BY <1>2
  <2> HIDE DEF A, b
  <2> QED BY ONLY <1>1, <2>1, DropFacts
<1> SUFFICES ASSUME IsPrefix(t, es[i].address) PROVE FALSE
  OBVIOUS
<1>5. IsPrefix(t, es[m].address)
  OBVIOUS
<1> HIDE DEF A, t
<1>6. es[i].bytes \in Under(Drop(A, b), t) /\ es[m].bytes \in Under(Drop(A, b), t)
  BY <1>2, <1>4, <1>5
<1> QED BY <1>2, <1>3, <1>6

\* The removal of a leaf that collapses the levels above it onto another member.
LEMMA CollapseSlots ==
  ASSUME NEW n, Sound(n), Slots(n), NEW idx \in 1..Len(n.entries),
         NEW levels, levels = Lonely(AddressesOf(n.entries), n.entries[idx].bytes),
         levels # {},
         NEW marker \in MarkersBelow(Detach(n, n.entries[idx].address),
                                     SubSeq(n.entries[idx].address, 1, Max(levels)))
  PROVE  Slots(CollapseOnto(n, Detach(n, n.entries[idx].address),
                            Append(n.free_nodes, n.trie[n.entries[idx].address].slot),
                            idx, levels, marker).nb)
<1> DEFINE es  == n.entries
           A   == AddressesOf(es)
           b   == es[idx].bytes
           a   == es[idx].address
           T   == Detach(n, a)
           freed == Append(n.free_nodes, n.trie[a].slot)
           top == Min(levels)
           low == Max(levels)
           t   == SubSeq(a, 1, top)
           l   == SubSeq(a, 1, low)
           m   == T[marker].content
           e2  == [es EXCEPT ![m].address = t]
           trie  == Collapse(T, a, top, m)
           slots == CollapsedSlots(T, a, top, low, marker)
           nodes == [n.entry_nodes EXCEPT ![m] = T[t].slot]
           r   == [n EXCEPT !.entries = [@ EXCEPT ![m].address = t], !.trie = trie,
                            !.free_nodes = freed \o slots,
                            !.entry_nodes = [@ EXCEPT ![m] = T[t].slot]]
           changes == CollapseChanges(es[m], a, top, low)
<1>1. IsDetached(n, idx, A, b, a, T)
  BY DetachFacts
<1>2. IsCollapse(n, idx, A, b, a, T, marker, m, top, low, t, l)
  BY CollapseFacts
<1>3. /\ IsTree(A) /\ InByteOrder(es) /\ es \in Seq(Entry) /\ DOMAIN es = 1..Len(es)
      /\ n.entry_nodes \in Seq(Nat) /\ Len(n.entry_nodes) = Len(es)
      /\ n.free_nodes \in Seq(Nat) /\ n.arena \in Nat
      /\ n = [entries |-> n.entries, trie |-> n.trie, free_nodes |-> n.free_nodes,
              arena |-> n.arena, entry_nodes |-> n.entry_nodes,
              identifier_index |-> n.identifier_index]
  BY SoundFacts DEF Sound, IsNeighborhood
<1>4. /\ Arena(T, freed, n.arena) /\ freed \in Seq(Nat)
      /\ <<>> \in DOMAIN T /\ \A p \in DOMAIN T : T[p] \in TrieNode
      /\ \A i \in 1..Len(es) :
           i # idx => es[i].address \in DOMAIN T /\ n.entry_nodes[i] = T[es[i].address].slot
  BY DetachSlots
<1>5. top \in levels /\ top \in Lonely(A, b) /\ top \in 1..(Len(a) - 1)
  <2>1. b \in DOMAIN A /\ A[b] = a
    BY <1>1 DEF IsDetached
  <2> HIDE DEF A, b, a
  <2>2. a \in Seq(Atoms) /\ Len(a) \in Nat /\ Len(a) > 0
    BY <1>3, <2>1, DropFacts
  <2>3. Lonely(A, b) \subseteq 1..(Len(a) - 1) /\ Len(a) - 1 \in Nat
    BY <2>1, <2>2 DEF Lonely
  <2>4. levels \in SUBSET (1..(Len(a) - 1)) /\ levels = Lonely(A, b)
    BY <2>3 DEF A, b
  <2>5. top \in levels
    BY <2>3, <2>4, MinOfPositions
  <2> QED BY <2>3, <2>4, <2>5
<1>6. Len(t) = top /\ t \in Nodes(A) \ {a} /\ t \in Address
  <2>1. b \in DOMAIN A /\ A[b] = a
    BY <1>1 DEF IsDetached
  <2> HIDE DEF A, b, a, top
  <2> QED BY <1>3, <1>5, <2>1, AboveLeaf
<1>7. /\ m \in 1..Len(es) /\ m # idx /\ es[m].address = marker /\ IsPrefix(t, marker)
      /\ DOMAIN T = Nodes(A) \ {a}
  BY <1>1, <1>2 DEF IsCollapse, IsDetached
<1>8. CollapseOnto(n, T, freed, idx, levels, marker)
        = IF m \notin DOMAIN es THEN Refused(n, "Panic")
          ELSE Settle(Evict(r, idx), a, changes)
  BY DEF CollapseOnto
<1>9. Releases(T, trie, slots, CollapsedPaths(a, top, low, marker))
  <2>1. A = AddressesOf(n.entries) /\ b = n.entries[idx].bytes
    OBVIOUS
  <2> HIDE DEF A, b, a, T, top, low, t, l, m
  <2> QED BY <1>1, <1>2, <1>6, <2>1, CollapseReleases
<1>10. /\ DOMAIN trie = {q \in DOMAIN T : ~IsStrictPrefix(t, q)}
       /\ trie[t] = [slot |-> T[t].slot, content |-> m, count |-> 1]
       /\ \A q \in DOMAIN trie : q # t => trie[q] = T[q]
       /\ t \in DOMAIN trie
  <2>1. t \in DOMAIN T /\ ~IsStrictPrefix(t, t)
    BY <1>6, <1>7 DEF IsStrictPrefix
  <2> HIDE DEF T, m, a, top
  <2> QED BY <2>1 DEF Collapse
<1>11. \A i \in 1..Len(es) : i # idx /\ i # m => ~IsPrefix(t, es[i].address)
  <2>1. IsPrefix(t, es[m].address)
    BY <1>7
  <2> HIDE DEF m
  <2> QED BY <1>5, <1>7, <2>1, OthersStay
<1>12. /\ r.entries = e2 /\ r.trie = trie /\ r.free_nodes = freed \o slots
       /\ r.arena = n.arena /\ r.entry_nodes = nodes
  <2> HIDE DEF trie, freed, slots, m, t, T
  <2> QED BY <1>3
<1> HIDE DEF r, trie, freed, slots, T, top, low, l, A, b, changes
<1>13. Arena(trie, freed \o slots, n.arena) /\ slots \in Seq(Nat)
  <2> DEFINE gone == CollapsedPaths(a, top, low, marker)
             size == n.arena
  <2>1. Arena(T, freed, size) /\ freed \in Seq(Nat) /\ Releases(T, trie, slots, gone)
    BY <1>4, <1>9
  <2>2. slots \in Seq(Nat)
    BY <1>9 DEF Releases
  <2> HIDE DEF gone, size
  <2>3. Arena(trie, freed \o slots, size)
    BY <2>1, ArenaShrinks
  <2> QED BY <2>2, <2>3 DEF size
<1>14. /\ e2 \in Seq(Entry) /\ Len(e2) = Len(es)
       /\ \A i \in 1..Len(es) : e2[i].address = IF i = m THEN t ELSE es[i].address
  <2>1. es \in Seq(Entry) /\ InByteOrder(es) /\ m \in 1..Len(es) /\ t \in Address
    BY <1>3, <1>6, <1>7
  <2> HIDE DEF m, t, es
  <2>2. LET new == [es EXCEPT ![m].address = t] IN
        /\ new \in Seq(Entry) /\ Len(new) = Len(es)
        /\ \A i \in 1..Len(es) : /\ new[i].bytes = es[i].bytes
                                 /\ new[i].identifier = es[i].identifier
                                 /\ new[i].address = IF i = m THEN t ELSE es[i].address
        /\ InByteOrder(new)
        /\ AddressesOf(new) = Put(AddressesOf(es), es[m].bytes, t)
    BY <2>1, AddressesOfMove
  <2> QED BY <2>2
<1>15. /\ nodes \in Seq(Nat) /\ Len(nodes) = Len(es)
       /\ \A i \in 1..Len(es) : nodes[i] = IF i = m THEN T[t].slot ELSE n.entry_nodes[i]
  <2> DEFINE N == Nat
             old == n.entry_nodes
             s   == T[t].slot
  <2>1. old \in Seq(N) /\ m \in 1..Len(old) /\ s \in N /\ Len(old) = Len(es)
    BY <1>3, <1>4, <1>6, <1>7 DEF TrieNode
  <2>2. nodes = [old EXCEPT ![m] = s]
    OBVIOUS
  <2> HIDE DEF N, old, s, m
  <2>3. /\ [old EXCEPT ![m] = s] \in Seq(N) /\ Len([old EXCEPT ![m] = s]) = Len(old)
        /\ \A i \in 1..Len(old) : [old EXCEPT ![m] = s][i] = IF i = m THEN s ELSE old[i]
    BY <2>1, UpdateAt
  <2> QED BY <2>1, <2>2, <2>3 DEF N, old, s
<1> HIDE DEF e2, nodes
<1>16. IsTrimmed(r)
  <2>1. freed \o slots \in Seq(Nat)
    BY <1>4, <1>13
  <2>2. \A p \in DOMAIN trie : trie[p] \in TrieNode
    <3> TAKE p \in DOMAIN trie
    <3>1. CASE p = t
      <4>1. T[t].slot \in Nat /\ m \in Int
        BY <1>3, <1>4, <1>6, <1>7 DEF TrieNode
      <4> HIDE DEF m
      <4> QED BY <1>10, <3>1, <4>1 DEF TrieNode
    <3>2. CASE p # t
      BY <1>4, <1>10, <3>2
    <3> QED BY <3>1, <3>2
  <2>3. <<>> \in DOMAIN trie
    <3>1. t \in Seq(Atoms) /\ t # <<>> /\ Len(t) > 0
      BY <1>5, <1>6 DEF Address
    <3>2. ~IsPrefix(t, <<>>)
      <4>1. <<>> \in Seq(Atoms) /\ Len(<<>>) = 0
        OBVIOUS
      <4> HIDE DEF t
      <4>2. ASSUME IsPrefix(t, <<>>) PROVE Len(t) <= Len(<<>>)
        BY <3>1, <4>1, <4>2, PrefixDef
      <4> QED BY <3>1, <4>1, <4>2
    <3> QED BY <1>4, <1>10, <3>2 DEF IsStrictPrefix
  <2> QED BY <1>3, <1>12, <1>14, <2>1, <2>2, <2>3 DEF IsTrimmed
<1>17. ASSUME NEW i \in 1..Len(r.entries), i # idx
       PROVE  /\ r.entries[i].address \in DOMAIN r.trie
              /\ r.entry_nodes[i] = r.trie[r.entries[i].address].slot
  <2>1. i \in 1..Len(es)
    BY <1>12, <1>14
  <2>2. CASE i = m
    BY <1>10, <1>12, <1>14, <1>15, <2>1, <2>2
  <2>3. CASE i # m
    <3> DEFINE q == es[i].address
    <3>1. ~IsPrefix(t, q) /\ q \in DOMAIN T /\ n.entry_nodes[i] = T[q].slot
      BY <1>4, <1>11, <1>17, <2>1, <2>3
    <3>2. q # t
      <4>1. IsPrefix(t, t)
        BY <1>6, PrefixReflexive DEF Address
      <4> QED BY <3>1, <4>1
    <3>3. q \in DOMAIN trie
      BY <1>10, <3>1 DEF IsStrictPrefix
    <3>4. r.entries[i].address = q /\ r.entry_nodes[i] = n.entry_nodes[i]
      BY <1>12, <1>14, <1>15, <2>1, <2>3
    <3> HIDE DEF q
    <3> QED BY <1>10, <1>12, <3>1, <3>2, <3>3, <3>4
  <2> QED BY <2>2, <2>3
<1>18. IsTrimmed(Evict(r, idx)) /\ Slots(Evict(r, idx))
  <2>1. Arena(r.trie, r.free_nodes, r.arena)
    BY <1>12, <1>13
  <2>2. idx \in 1..Len(r.entries) /\ r.entry_nodes \in Seq(Nat)
        /\ Len(r.entry_nodes) = Len(r.entries)
    BY <1>12, <1>14, <1>15
  <2> QED BY <1>16, <1>17, <2>1, <2>2, EvictSlots
<1>19. Slots(Settle(Evict(r, idx), a, changes).nb)
  BY <1>18, SettleSlots
<1>20. Slots(CollapseOnto(n, T, freed, idx, levels, marker).nb)
  BY <1>3, <1>7, <1>8, <1>19
<1> QED BY <1>20 DEF T, freed

\* The removal of a leaf whose neighbors keep their addresses.
LEMMA LeafRemovalSlots ==
  ASSUME NEW n, Sound(n), Slots(n), NEW idx \in 1..Len(n.entries)
  PROVE  LET a == n.entries[idx].address IN
         Slots(Settle(Evict([n EXCEPT !.trie = Detach(n, a),
                                      !.free_nodes = Append(n.free_nodes, n.trie[a].slot)],
                            idx), a, <<>>).nb)
<1> DEFINE a == n.entries[idx].address
           T == Detach(n, a)
           freed == Append(n.free_nodes, n.trie[a].slot)
           r == [n EXCEPT !.trie = T, !.free_nodes = freed]
<1>1. /\ Arena(T, freed, n.arena) /\ freed \in Seq(Nat)
      /\ <<>> \in DOMAIN T /\ \A p \in DOMAIN T : T[p] \in TrieNode
      /\ \A i \in 1..Len(n.entries) :
           i # idx => /\ n.entries[i].address \in DOMAIN T
                      /\ n.entry_nodes[i] = T[n.entries[i].address].slot
  BY DetachSlots
<1>2. /\ n.entries \in Seq(Entry)
      /\ n.entry_nodes \in Seq(Nat) /\ Len(n.entry_nodes) = Len(n.entries)
      /\ n.arena \in Nat
      /\ n = [entries |-> n.entries, trie |-> n.trie, free_nodes |-> n.free_nodes,
              arena |-> n.arena, entry_nodes |-> n.entry_nodes,
              identifier_index |-> n.identifier_index]
  BY DEF Sound, IsNeighborhood
<1> HIDE DEF T, freed
<1>3. /\ r.entries = n.entries /\ r.trie = T /\ r.free_nodes = freed /\ r.arena = n.arena
      /\ r.entry_nodes = n.entry_nodes
  BY <1>2
<1> HIDE DEF r
<1>4. IsTrimmed(r)
  BY <1>1, <1>2, <1>3 DEF IsTrimmed
<1>5. IsTrimmed(Evict(r, idx)) /\ Slots(Evict(r, idx))
  BY <1>1, <1>2, <1>3, <1>4, EvictSlots
<1>6. Slots(Settle(Evict(r, idx), a, <<>>).nb)
  BY <1>5, SettleSlots
<1> QED BY <1>6 DEF r, T, freed

\* Every removal leaves the slots in order.
LEMMA RemoveSlots ==
  ASSUME NEW n, Sound(n), Slots(n), NEW idx, NEW answer \in RemoveInner(n, idx)
  PROVE  Slots(answer.nb)
<1> DEFINE a == n.entries[idx].address
           T == Detach(n, a)
           freed  == Append(n.free_nodes, n.trie[a].slot)
           levels == CollapseLevels(T, a)
<1>1. \/ answer = Refused(n, "Panic")
      \/ /\ idx \in DOMAIN n.entries /\ levels = {}
         /\ answer = Settle(Evict([n EXCEPT !.trie = T, !.free_nodes = freed], idx), a, <<>>)
      \/ /\ idx \in DOMAIN n.entries /\ levels # {}
         /\ \E marker \in MarkersBelow(T, SubSeq(a, 1, Max(levels))) :
              answer = CollapseOnto(n, T, freed, idx, levels, marker)
  <2> HIDE DEF T, a, freed, levels
  <2> QED BY DEF RemoveInner, T, a, freed, levels
<1>2. DOMAIN n.entries = 1..Len(n.entries)
  BY SoundFacts
<1>3. CASE answer = Refused(n, "Panic")
  BY <1>3, RefusedSlots
<1>4. CASE /\ idx \in DOMAIN n.entries /\ levels = {}
           /\ answer = Settle(Evict([n EXCEPT !.trie = T, !.free_nodes = freed], idx), a, <<>>)
  BY <1>2, <1>4, LeafRemovalSlots
<1>5. CASE /\ idx \in DOMAIN n.entries /\ levels # {}
           /\ \E marker \in MarkersBelow(T, SubSeq(a, 1, Max(levels))) :
                answer = CollapseOnto(n, T, freed, idx, levels, marker)
  <2>1. PICK marker \in MarkersBelow(T, SubSeq(a, 1, Max(levels))) :
               answer = CollapseOnto(n, T, freed, idx, levels, marker)
    BY <1>5
  <2>2. /\ idx \in 1..Len(n.entries) /\ levels # {}
        /\ levels = Lonely(AddressesOf(n.entries), n.entries[idx].bytes)
    BY <1>2, <1>5, LevelsAreLonely
  <2> HIDE DEF levels
  <2> QED BY <2>1, <2>2, CollapseSlots
<1> QED BY <1>1, <1>3, <1>4, <1>5

-----------------------------------------------------------------------------
(* The slots stay sound.                                                   *)

\* The neighborhood and the working copy of a call keep their slots in order.
SInv == Inv /\ Slots(nb) /\ Slots(call.working)

\* The empty neighborhood has its slots in order.
LEMMA SlotsOfNew == Slots(New)
<1>1. New.entries = <<>> /\ New.trie = EmptyTrie /\ New.free_nodes = <<>> /\ New.arena = 1
  BY DEF New
<1> QED BY <1>1, NewSlotsInOrder

\* A single-step call whose answers all keep the slots in order keeps them so.
LEMMA ReturnsSlots ==
  ASSUME SInv, NEW op, NEW answers, \A a \in answers : Slots(a.nb), Returns(op, answers)
  PROVE  Slots(nb') /\ Slots(call'.working)
BY DEF Returns, SInv

\* A call that fails, or adopts its working copy, keeps them so.
LEMMA EndSlots ==
  ASSUME SInv, call' = NoCall, nb' = nb \/ nb' = call.working
  PROVE  Slots(nb') /\ Slots(call'.working)
<1>1. NoCall.working = New
  BY DEF NoCall
<1> QED BY <1>1, SlotsOfNew DEF SInv

\* Each row of a row-by-row call keeps them so.
LEMMA InsertRowSlots ==
  ASSUME SInv, InsertRow
  PROVE  Slots(nb') /\ Slots(call'.working)
<1> DEFINE row == Head(call.todo)
<1>1. /\ Shape(call, result) /\ Sound(call.working) /\ Slots(call.working) /\ Slots(nb)
      /\ call.todo # <<>>
  BY InvIsShape DEF InsertRow, SInv
<1>2. row.bytes \in Contents /\ row.identifier \in Identifiers \cup {NoId}
  <2>1. call.todo \in Seq(NeighborhoodRow)
    BY <1>1 DEF Shape
  <2>2. row \in NeighborhoodRow
    BY <1>1, <2>1
  <2> QED BY <2>2 DEF NeighborhoodRow
<1>3. PICK a \in InsertInner(call.working, row.bytes, row.identifier) :
        IF a.status \in Failures
        THEN Fail(call.op, IF call.op = "validate" /\ a.status # "Panic"
                           THEN "reference reconstruction failed" ELSE a.status)
        ELSE /\ call' = [call EXCEPT !.todo = Tail(@), !.working = a.nb]
             /\ UNCHANGED <<nb, result>>
  BY DEF InsertRow
<1> HIDE DEF row
<1>4. Slots(a.nb)
  BY <1>1, <1>2, InsertSlots
<1>5. CASE a.status \in Failures
  <2>1. call' = NoCall /\ nb' = nb
    BY <1>3, <1>5 DEF Fail
  <2> QED BY <2>1, EndSlots
<1>6. CASE a.status \notin Failures
  <2>1. call' = [call EXCEPT !.todo = Tail(@), !.working = a.nb] /\ nb' = nb
    BY <1>3, <1>6
  <2>2. call = [op |-> call.op, todo |-> call.todo, working |-> call.working]
    BY <1>1 DEF Shape
  <2>3. call'.working = a.nb
    BY <2>1, <2>2
  <2> QED BY <1>1, <1>4, <2>1, <2>3
<1> QED BY <1>5, <1>6

\* Every step keeps the slots in order.
LEMMA NextSlots == SInv /\ [Next]_vars => SInv'
<1> SUFFICES ASSUME SInv, [Next]_vars PROVE Slots(nb') /\ Slots(call'.working)
  BY NextInv DEF SInv
<1>1. Sound(nb) /\ Slots(nb) /\ Slots(call.working)
  BY InvIsShape DEF SInv
<1>2. ASSUME NEW b \in Contents, NEW id \in Identifiers \cup {NoId}, Insert(b, id)
      PROVE  Slots(nb') /\ Slots(call'.working)
  <2>1. \A a \in InsertInner(nb, b, id) : Slots(a.nb)
    BY <1>1, InsertSlots
  <2> QED BY <1>2, <2>1, ReturnsSlots DEF Insert
<1>3. ASSUME NEW b \in Contents, NEW id \in Identifiers \cup {NoId}, SetIdentifier(b, id)
      PROVE  Slots(nb') /\ Slots(call'.working)
  <2>1. \A a \in SetIdentifierInner(nb, b, id) : Slots(a.nb)
    BY <1>1, SetIdentifierSlots
  <2> QED BY <1>3, <2>1, ReturnsSlots DEF SetIdentifier
<1>4. ASSUME NEW b \in Contents, RemoveByBytes(b)
      PROVE  Slots(nb') /\ Slots(call'.working)
  <2> DEFINE answers == IF Find(nb, b) = {} THEN {Refused(nb, "None")}
                        ELSE UNION {RemoveInner(nb, i) : i \in Find(nb, b)}
  <2>1. \A a \in answers : Slots(a.nb)
    BY <1>1, RefusedSlots, RemoveSlots
  <2> QED BY <1>4, <2>1, ReturnsSlots DEF RemoveByBytes
<1>5. ASSUME NEW id \in Identifiers, RemoveByIdentifier(id)
      PROVE  Slots(nb') /\ Slots(call'.working)
  <2> DEFINE answers == IF id \notin DOMAIN nb.identifier_index THEN {Refused(nb, "None")}
                        ELSE RemoveInner(nb, nb.identifier_index[id])
  <2>1. \A a \in answers : Slots(a.nb)
    BY <1>1, RefusedSlots, RemoveSlots
  <2> QED BY <1>5, <2>1, ReturnsSlots DEF RemoveByIdentifier
<1>6. ASSUME NEW op, NEW rows, NEW working, Slots(working), Begin(op, rows, working)
      PROVE  Slots(nb') /\ Slots(call'.working)
  BY <1>1, <1>6 DEF Begin
<1>7. ASSUME NEW op, NEW status, Fail(op, status)
      PROVE  Slots(nb') /\ Slots(call'.working)
  BY <1>7, EndSlots DEF Fail
<1>8. CASE \E rows \in RowBatches : BeginMerge(rows) \/ BeginFromRows(rows)
  BY <1>1, <1>6, <1>8, SlotsOfNew DEF BeginMerge, BeginFromRows
<1>9. CASE MergeOtherScheme
  BY <1>7, <1>9 DEF MergeOtherScheme
<1>10. CASE BeginRebuild
  BY <1>6, <1>10, SlotsOfNew DEF BeginRebuild
<1>11. CASE BeginValidate
  BY <1>6, <1>7, <1>11, SlotsOfNew DEF BeginValidate
<1>12. CASE InsertRow
  BY <1>12, InsertRowSlots
<1>13. CASE EndValidate
  BY <1>7, <1>13 DEF EndValidate
<1>14. CASE EndFromRows
  BY <1>14, EndSlots DEF EndFromRows
<1>15. ASSUME NEW op, Commit(op)
       PROVE  Slots(nb') /\ Slots(call'.working)
  <2>1. \/ Fail(op, "Panic")
        \/ nb' = call.working /\ call' = NoCall
    BY <1>15 DEF Commit
  <2> QED BY <1>7, <2>1, EndSlots
<1>16. CASE EndMerge \/ EndRebuild
  BY <1>15, <1>16 DEF EndMerge, EndRebuild
<1>17. CASE UNCHANGED vars
  BY <1>1, <1>17 DEF vars
<1> QED
  BY <1>2, <1>3, <1>4, <1>5, <1>8, <1>9, <1>10, <1>11, <1>12, <1>13, <1>14, <1>16, <1>17
     DEF Next

\* The slots in order, as the runs check it.
LEMMA SlotsAreSound ==
  ASSUME Inv, Slots(nb)
  PROVE  SlotsSound
<1>1. /\ DOMAIN nb.entries = 1..Len(nb.entries)
      /\ \A p \in DOMAIN nb.trie : nb.trie[p].slot \in Nat
      /\ nb.free_nodes \in Seq(Nat) /\ nb.arena \in Nat
      /\ nb.entry_nodes \in Seq(Nat) /\ Len(nb.entry_nodes) = Len(nb.entries)
  BY InvIsShape, SoundFacts DEF Sound, IsNeighborhood
<1>2. /\ DOMAIN nb.free_nodes = 1..Len(nb.free_nodes)
      /\ \A i \in 1..Len(nb.free_nodes) : nb.free_nodes[i] \in Nat
  BY <1>1
<1>3. Arena(nb.trie, nb.free_nodes, nb.arena) /\ MarkersKnown(nb.entries, nb.entry_nodes, nb.trie)
  BY DEF Slots
<1>4. \A p, q \in DOMAIN nb.trie : nb.trie[p].slot = nb.trie[q].slot => p = q
  BY <1>3 DEF Arena
<1>5. IsInjective(nb.free_nodes)
  BY <1>2, <1>3 DEF Arena, IsInjective
<1>6. LiveSlots \cap FreeSlots = {}
  BY <1>2, <1>3 DEF Arena, LiveSlots, FreeSlots, Range
<1>7. LiveSlots \cup FreeSlots \subseteq 0..(nb.arena - 1)
  <2>1. \A p \in DOMAIN nb.trie : nb.trie[p].slot \in 0..(nb.arena - 1)
    BY <1>1, <1>3 DEF Arena
  <2>2. \A i \in 1..Len(nb.free_nodes) : nb.free_nodes[i] \in 0..(nb.arena - 1)
    BY <1>1, <1>2, <1>3 DEF Arena
  <2> QED BY <1>2, <2>1, <2>2 DEF LiveSlots, FreeSlots, Range
<1>8. nb.entry_nodes = [i \in DOMAIN nb.entries |-> nb.trie[nb.entries[i].address].slot]
  <2> DEFINE s == nb.entry_nodes
             x == Len(nb.entries)
  <2>1. s = [i \in 1..x |-> s[i]]
    BY <1>1
  <2>2. \A i \in 1..x : s[i] = nb.trie[nb.entries[i].address].slot
    BY <1>3 DEF MarkersKnown
  <2>3. DOMAIN nb.entries = 1..x
    BY <1>1
  <2> HIDE DEF s, x
  <2>4. s = [i \in 1..x |-> nb.trie[nb.entries[i].address].slot]
    BY <2>1, <2>2
  <2> QED BY <2>3, <2>4 DEF s
<1> QED BY <1>4, <1>5, <1>6, <1>7, <1>8 DEF SlotsSound

\* The slots of the working copy and of the neighborhood stay in order.
THEOREM SlotsInvariant == Spec => []SInv
<1>1. Init => SInv
  <2>1. Init => nb = New /\ call.working = New
    BY DEF Init, NoCall
  <2> QED BY <2>1, InitInv, SlotsOfNew DEF SInv
<1> QED BY <1>1, NextSlots, PTL DEF Spec

\* The arena is never corrupted, whatever the calls: no two nodes share a slot, a
\* free slot is neither in use nor free twice, and entry_nodes names every marker.
THEOREM SlotsStaySound == Spec => []SlotsSound
<1>1. SInv => SlotsSound
  BY SlotsAreSound DEF SInv
<1> QED BY <1>1, SlotsInvariant, PTL

-----------------------------------------------------------------------------
(* Lost slots.                                                             *)

\* The slots of an arena that no node has and that are not free.
Lost(T, free, size) ==
  {s \in 0..(size - 1) : /\ \A p \in DOMAIN T : T[p].slot # s
                         /\ \A i \in 1..Len(free) : free[i] # s}

LostOf(n) == Lost(n.trie, n.free_nodes, n.arena)

\* The trie T is that of n with a node at each of the k paths, in new_node's slots.
Gains(n, k, paths, T) ==
  /\ \A p \in DOMAIN T :
       \/ p \in DOMAIN n.trie /\ T[p].slot = n.trie[p].slot
       \/ \E c \in 1..k : paths[c] = p /\ T[p].slot = NewSlots(n, k)[c]
  /\ \A p \in DOMAIN n.trie : p \in DOMAIN T /\ T[p].slot = n.trie[p].slot
  /\ \A c \in 1..k : paths[c] \in DOMAIN T /\ T[paths[c]].slot = NewSlots(n, k)[c]

\* No slot is lost where every node stays and each of the k slots that new_node hands
\* out is given to a node.
LEMMA NoneLostGrowing ==
  ASSUME NEW n, n.free_nodes \in Seq(Nat), n.arena \in Nat,
         \A p \in DOMAIN n.trie : n.trie[p].slot \in Nat,
         NEW k \in Nat, NEW paths, NEW T,
         Gains(n, k, paths, T)
  PROVE  Lost(T, FreeAfter(n, k), ArenaAfter(n, k)) = LostOf(n)
<1> DEFINE free == n.free_nodes
           x == Len(free)
           s == NewSlots(n, k)
           f == FreeAfter(n, k)
           size == ArenaAfter(n, k)
           old == n.arena
<1>1. x \in Nat /\ \A i \in 1..x : free[i] \in Nat
  OBVIOUS
<1>2. \A i \in 1..k : s[i] = IF i <= x THEN free[x + 1 - i] ELSE old + i - x - 1
  BY DEF NewSlots
<1>3. size = old + (IF k > x THEN k - x ELSE 0)
  BY DEF ArenaAfter
<1>4. /\ \A i \in 1..Len(f) : i \in 1..x /\ f[i] = free[i]
      /\ \A i \in 1..x : i <= x - k => i \in 1..Len(f) /\ f[i] = free[i]
  <2>1. f = SubSeq(free, 1, x - k)
    BY DEF FreeAfter
  <2> HIDE DEF f
  <2> QED BY <1>1, <2>1, SMTT(30)
<1>5. old \in Nat
  OBVIOUS
<1>6. /\ \A p \in DOMAIN T :
           \/ p \in DOMAIN n.trie /\ T[p].slot = n.trie[p].slot
           \/ \E c \in 1..k : T[p].slot = s[c]
      /\ \A p \in DOMAIN n.trie : p \in DOMAIN T /\ T[p].slot = n.trie[p].slot
      /\ \A c \in 1..k : \E p \in DOMAIN T : T[p].slot = s[c]
  BY DEF Gains
<1> HIDE DEF s, f, size, free, x, old
<1>7. ASSUME NEW y, y \in 0..(old - 1), \A p \in DOMAIN n.trie : n.trie[p].slot # y,
             \A i \in 1..x : free[i] # y
      PROVE  /\ y \in 0..(size - 1)
             /\ \A p \in DOMAIN T : T[p].slot # y
             /\ \A i \in 1..Len(f) : f[i] # y
  <2>1. \A c \in 1..k : s[c] # y
    <3> SUFFICES ASSUME NEW c \in 1..k PROVE s[c] # y
      OBVIOUS
    <3>1. CASE c <= x
      <4> DEFINE i == x + 1 - c
      <4>1. i \in 1..x /\ s[c] = free[i]
        BY <1>1, <1>2, <3>1
      <4> HIDE DEF i
      <4> QED BY <1>7, <4>1
    <3>2. CASE c > x
      <4>1. s[c] = old + c - x - 1
        BY <1>1, <1>2, <3>2
      <4>2. s[c] >= old
        BY <1>1, <1>5, <3>2, <4>1
      <4> QED BY <1>5, <1>7, <4>2
    <3> QED BY <1>1, <3>1, <3>2
  <2>2. size \in Nat /\ size >= old
    BY <1>1, <1>3, <1>5
  <2> QED BY <1>4, <1>5, <1>6, <1>7, <2>1, <2>2
<1>8. ASSUME NEW y, y \in 0..(size - 1), \A p \in DOMAIN T : T[p].slot # y,
             \A i \in 1..Len(f) : f[i] # y
      PROVE  /\ y \in 0..(old - 1)
             /\ \A p \in DOMAIN n.trie : n.trie[p].slot # y
             /\ \A i \in 1..x : free[i] # y
  <2>1. \A c \in 1..k : s[c] # y
    BY <1>6, <1>8
  <2>2. \A p \in DOMAIN n.trie : n.trie[p].slot # y
    BY <1>6, <1>8
  <2>3. ASSUME NEW i \in 1..x, free[i] = y
        PROVE  FALSE
    <3>1. CASE i <= x - k
      BY <1>4, <1>8, <2>3, <3>1
    <3>2. CASE ~(i <= x - k)
      <4> DEFINE c == x + 1 - i
      <4>1. c \in 1..k /\ c <= x /\ x + 1 - c = i
        BY <1>1, <3>2
      <4> HIDE DEF c
      <4>2. s[c] = free[i]
        BY <1>2, <4>1
      <4> QED BY <2>1, <2>3, <4>1, <4>2
    <3> QED BY <3>1, <3>2
  <2>4. y < old
    <3> SUFFICES ASSUME y >= old PROVE FALSE
      BY <1>3, <1>5, <1>8
    <3> DEFINE c == y - old + x + 1
    <3>1. k > x /\ y < old + (k - x) /\ y \in Nat
      BY <1>1, <1>3, <1>5, <1>8
    <3>2. c \in 1..k /\ c > x /\ old + c - x - 1 = y
      BY <1>1, <1>5, <3>1
    <3> HIDE DEF c
    <3>3. s[c] = y
      BY <1>1, <1>2, <3>2
    <3> QED BY <2>1, <3>2, <3>3
  <2> QED BY <1>5, <1>8, <2>2, <2>3, <2>4
<1>9. \A y : y \in Lost(T, f, size) <=> y \in Lost(n.trie, free, old)
  BY <1>7, <1>8 DEF Lost, x
<1>10. Lost(T, f, size) = Lost(n.trie, free, old)
  BY <1>9
<1> QED BY <1>10 DEF LostOf, f, size, free, old

\* No slot is lost where nodes leave the trie and the slots of all of them go to the end
\* of the free list.
LEMMA NoneLostShrinking ==
  ASSUME NEW T, NEW free \in Seq(Nat), NEW size,
         NEW T2, NEW f, NEW gone, Releases(T, T2, f, gone),
         \A p \in DOMAIN T \ DOMAIN T2 : \E i \in 1..Len(f) : gone[i] = p
  PROVE  Lost(T2, free \o f, size) = Lost(T, free, size)
<1> DEFINE all == free \o f
           x == Len(free)
           y == Len(f)
<1>1. /\ DOMAIN T2 \subseteq DOMAIN T
      /\ \A p \in DOMAIN T2 : T2[p].slot = T[p].slot
      /\ f \in Seq(Nat)
      /\ \A i \in 1..y : gone[i] \in DOMAIN T /\ f[i] = T[gone[i]].slot
      /\ \A p \in DOMAIN T \ DOMAIN T2 : \E i \in 1..y : gone[i] = p
  BY DEF Releases
<1>2. /\ x \in Nat /\ y \in Nat /\ Len(all) = x + y
      /\ \A i \in 1..x : all[i] = free[i]
      /\ \A i \in 1..y : all[x + i] = f[i]
  BY <1>1, ConcatElements
<1> HIDE DEF all, x, y
<1>3. ASSUME NEW s, \A p \in DOMAIN T : T[p].slot # s, \A i \in 1..x : free[i] # s
      PROVE  /\ \A p \in DOMAIN T2 : T2[p].slot # s
             /\ \A i \in 1..Len(all) : all[i] # s
  <2>1. \A i \in 1..y : f[i] # s
    BY <1>1, <1>3
  <2>2. ASSUME NEW i \in 1..Len(all)
        PROVE  all[i] # s
    <3>1. CASE i <= x
      BY <1>2, <1>3, <3>1
    <3>2. CASE i > x
      <4> DEFINE j == i - x
      <4>1. j \in 1..y /\ x + j = i
        BY <1>2, <3>2
      <4> HIDE DEF j
      <4>2. all[i] = f[j]
        BY <1>2, <4>1
      <4> QED BY <2>1, <4>1, <4>2
    <3> QED BY <1>2, <3>1, <3>2
  <2> QED BY <1>1, <1>3, <2>2
<1>4. ASSUME NEW s, \A p \in DOMAIN T2 : T2[p].slot # s, \A i \in 1..Len(all) : all[i] # s
      PROVE  /\ \A p \in DOMAIN T : T[p].slot # s
             /\ \A i \in 1..x : free[i] # s
  <2>1. \A i \in 1..x : i \in 1..Len(all)
    BY <1>2
  <2>2. \A i \in 1..y : (x + i) \in 1..Len(all)
    BY <1>2
  <2>3. \A i \in 1..y : f[i] # s
    BY <1>2, <1>4, <2>2
  <2>4. ASSUME NEW p \in DOMAIN T
        PROVE  T[p].slot # s
    <3>1. CASE p \in DOMAIN T2
      BY <1>1, <1>4, <3>1
    <3>2. CASE p \notin DOMAIN T2
      <4>1. PICK i \in 1..y : gone[i] = p
        BY <1>1, <3>2
      <4>2. f[i] = T[p].slot
        BY <1>1, <4>1
      <4> QED BY <2>3, <4>2
    <3> QED BY <3>1, <3>2
  <2> QED BY <1>2, <1>4, <2>1, <2>4
<1>5. \A s : s \in Lost(T2, all, size) <=> s \in Lost(T, free, size)
  BY <1>3, <1>4 DEF Lost, x
<1>6. Lost(T2, all, size) = Lost(T, free, size)
  BY <1>5
<1> QED BY <1>6 DEF all

\* The paths that a plan makes nodes of are all different, and none has a node before.
LEMMA PathsAreNew ==
  ASSUME NEW n, Sound(n), NEW b \in Contents, b \notin DOMAIN AddressesOf(n.entries),
         NEW plan, PlanFits(n, b, plan)
  PROVE  LET paths == NewPaths(n, b, plan)
             k     == NewCount(plan)
         IN /\ \A c \in 1..k : paths[c] \notin DOMAIN n.trie
            /\ \A c, d \in 1..k : paths[c] = paths[d] => c = d
<1> DEFINE es == n.entries
           m  == plan.member
           j  == plan.shared
           end == plan.base + j + 1
           k  == NewCount(plan)
           A  == AddressesOf(es)
           G  == Grown(n, b, plan)
           paths == NewPaths(n, b, plan)
<1>1. /\ plan.base \in Nat /\ j \in Nat /\ m \in 1..Len(es) \cup {Vacant} /\ (m = Vacant => j = 0)
      /\ \A i \in 1..Len(es) : es[i].address = Prefix(b, plan.base) <=> i = m
      /\ \A i \in 1..k : paths[i] \in Seq(Atoms) /\ paths[i] # <<>>
      /\ paths[k] = Prefix(b, end)
      /\ m # Vacant => paths[k - 1] = Prefix(es[m].bytes, end)
      /\ \A i \in 1..j : Len(paths[i]) = plan.base + i
      /\ \A p \in Nodes(A) : Under(A, p) \subseteq Under(G, p)
      /\ \A i \in 1..j : Under(G, paths[i]) = {b, es[m].bytes}
      /\ m # Vacant => Under(G, paths[k - 1]) = {es[m].bytes}
      /\ Under(G, paths[k]) = {b}
  BY DEF PlanFits
<1>2. k = IF m = Vacant THEN 1 ELSE j + 2
  BY DEF NewCount
<1>3. /\ es \in Seq(Entry) /\ InByteOrder(es) /\ IsTree(A) /\ DOMAIN n.trie = Nodes(A)
      /\ \A i \in 1..Len(es) : /\ es[i].bytes \in DOMAIN A /\ A[es[i].bytes] = es[i].address
                               /\ es[i].bytes \in Contents
  BY SoundFacts, EntriesFacts, SMTT(30) DEF Sound
<1>4. IsAddressMap(A) /\ \A d \in DOMAIN A : A[d] \in Seq(Atoms)
  BY <1>3 DEF IsTree, IsAddressMap
<1>5. b \notin DOMAIN A
  OBVIOUS
<1>6. \A c \in 1..k : /\ paths[c] = paths[k] => c = k
                      /\ m # Vacant /\ paths[c] = paths[k - 1] => c = k - 1
  BY PathsApart
<1> HIDE DEF es, m, j, k, G, paths, A
<1>7. ASSUME NEW c \in 1..k
      PROVE  \/ c = k
             \/ c = k - 1 /\ m # Vacant
             \/ c \in 1..j /\ m # Vacant
  BY <1>1, <1>2 DEF k
<1>8. ASSUME NEW c \in 1..k
      PROVE  /\ Len(paths[c]) > plan.base
             /\ \A d \in Under(G, paths[c]) : d = b \/ (m # Vacant /\ d = es[m].bytes)
  <2>1. end \in Nat /\ end > plan.base
    BY <1>1
  <2> HIDE DEF end
  <2>2. CASE c = k
    BY <1>1, <2>1, <2>2, PrefixProperties
  <2>3. CASE c = k - 1 /\ m # Vacant
    <3>1. es[m].bytes \in Contents
      BY <1>1, <1>3, <2>3
    <3>2. Len(Prefix(es[m].bytes, end)) = end
      BY <2>1, <3>1, PrefixProperties
    <3>3. Len(paths[c]) > plan.base
      BY <1>1, <2>1, <2>3, <3>2
    <3>4. \A d \in Under(G, paths[c]) : d = es[m].bytes
      BY <1>1, <2>3
    <3> QED BY <2>3, <3>3, <3>4
  <2>4. CASE c \in 1..j /\ m # Vacant
    <3>1. Len(paths[c]) = plan.base + c
      BY <1>1, <2>4
    <3>2. Len(paths[c]) > plan.base
      BY <1>1, <2>4, <3>1
    <3>3. Under(G, paths[c]) = {b, es[m].bytes}
      BY <1>1, <2>4
    <3> QED BY <2>4, <3>2, <3>3
  <2> QED BY <1>7, <2>2, <2>3, <2>4
<1>9. ASSUME NEW c \in 1..k, paths[c] \in Nodes(A)
      PROVE  FALSE
  <2>1. PICK d \in DOMAIN A : IsPrefix(paths[c], A[d])
    BY <1>1, <1>4, <1>9, NodesDef
  <2>2. d \in Under(G, paths[c])
    BY <1>1, <1>9, <2>1 DEF Under
  <2>3. m # Vacant /\ d = es[m].bytes
    BY <1>5, <1>8, <2>1, <2>2
  <2>4. A[d] = Prefix(b, plan.base)
    BY <1>1, <1>3, <2>3
  <2>5. Len(A[d]) = plan.base
    BY <1>1, <2>4, PrefixProperties
  <2>6. Len(paths[c]) <= Len(A[d])
    BY <1>1, <1>4, <2>1, PrefixDef
  <2>7. Len(paths[c]) > plan.base /\ Len(paths[c]) \in Nat
    BY <1>1, <1>8
  <2> QED BY <1>1, <2>5, <2>6, <2>7
<1>10. ASSUME NEW c \in 1..k, NEW d \in 1..k, paths[c] = paths[d]
       PROVE  c = d
  <2>1. CASE c = k \/ d = k
    BY <1>6, <1>10, <2>1
  <2>2. CASE m # Vacant /\ (c = k - 1 \/ d = k - 1)
    BY <1>6, <1>10, <2>2
  <2>3. CASE c \in 1..j /\ d \in 1..j
    <3>1. plan.base + c = plan.base + d
      BY <1>1, <1>10, <2>3
    <3> QED BY <1>1, <2>3, <3>1
  <2> QED BY <1>7, <2>1, <2>2, <2>3
<1> QED BY <1>3, <1>9, <1>10 DEF es, k, paths, A

\* apply_insert loses no slot.
LEMMA ApplyLosesNone ==
  ASSUME NEW n, Sound(n), NEW b \in Contents, b \notin DOMAIN AddressesOf(n.entries),
         NEW id \in Identifiers \cup {NoId}, NEW pos \in InsertPositions(n, b),
         NEW plan, PlanFits(n, b, plan)
  PROVE  LostOf(ApplyInsert(n, b, id, pos, plan).nb) = LostOf(n)
<1> DEFINE k     == NewCount(plan)
           slots == NewSlots(n, k)
           paths == NewPaths(n, b, plan)
           T     == Attach(n, b, plan)
           r     == ApplyInsert(n, b, id, pos, plan).nb
           R     == r.trie
<1>1. /\ R = [p \in DOMAIN T |-> [T[p] EXCEPT !.content = ShiftUp(@, pos)]]
      /\ r.free_nodes = FreeAfter(n, k)
      /\ r.arena = ArenaAfter(n, k)
  BY DEF ApplyInsert, Answer
<1>2. /\ n.free_nodes \in Seq(Nat) /\ n.arena \in Nat
      /\ \A p \in DOMAIN n.trie : n.trie[p] \in TrieNode
  BY DEF Sound, IsNeighborhood
<1>3. DOMAIN paths = 1..k /\ plan.shared \in Nat
  BY DEF PlanFits
<1>4. k \in Nat
  BY <1>3 DEF NewCount
<1>5. /\ \A c \in 1..k : paths[c] \notin DOMAIN n.trie
      /\ \A c, d \in 1..k : paths[c] = paths[d] => c = d
  BY PathsAreNew
<1>6. DOMAIN R = DOMAIN n.trie \cup Range(paths)
  BY <1>1 DEF Attach
<1> HIDE DEF k, r, R
<1>7. ASSUME NEW c \in 1..k
      PROVE  paths[c] \in DOMAIN R /\ R[paths[c]].slot = slots[c]
  <2> DEFINE p == paths[c]
             d == CHOOSE i \in DOMAIN paths : paths[i] = p
  <2>1. p \in Range(paths)
    BY <1>3 DEF Range
  <2>2. d \in 1..k /\ paths[d] = p
    BY <1>3
  <2>3. d = c
    BY <1>5, <2>2
  <2>4. T[p] = NewNode(n, plan, d)
    BY <2>1 DEF Attach
  <2> HIDE DEF d, T, paths, slots
  <2>5. [NewNode(n, plan, c) EXCEPT !.content = ShiftUp(@, pos)].slot = slots[c]
    BY DEF NewNode, slots, k
  <2>6. p \in DOMAIN R /\ R[p] = [NewNode(n, plan, c) EXCEPT !.content = ShiftUp(@, pos)]
    BY <1>1, <1>6, <2>1, <2>3, <2>4
  <2> QED BY <2>5, <2>6
<1>8. ASSUME NEW p \in DOMAIN n.trie
      PROVE  p \in DOMAIN R /\ R[p].slot = n.trie[p].slot
  <2>1. p \notin Range(paths)
    BY <1>3, <1>5 DEF Range
  <2>2. T[p] = OldNode(n, b, plan, p)
    BY <2>1 DEF Attach
  <2>3. n.trie[p] \in TrieNode
    BY <1>2
  <2>4. [OldNode(n, b, plan, p) EXCEPT !.content = ShiftUp(@, pos)].slot = n.trie[p].slot
    BY <2>3 DEF OldNode, TrieNode
  <2> HIDE DEF T, paths
  <2> QED BY <1>1, <1>6, <2>2, <2>4
<1>9. \A p \in DOMAIN R :
         \/ p \in DOMAIN n.trie /\ R[p].slot = n.trie[p].slot
         \/ \E c \in 1..k : paths[c] = p /\ R[p].slot = NewSlots(n, k)[c]
  <2> SUFFICES ASSUME NEW p \in DOMAIN R, p \notin DOMAIN n.trie
               PROVE  \E c \in 1..k : paths[c] = p /\ R[p].slot = NewSlots(n, k)[c]
    BY <1>8
  <2>1. PICK c \in 1..k : paths[c] = p
    BY <1>3, <1>6 DEF Range
  <2> QED BY <1>7, <2>1
<1>10. \A p \in DOMAIN n.trie : n.trie[p].slot \in Nat
  BY <1>2 DEF TrieNode
<1>11. \A p \in DOMAIN n.trie : p \in DOMAIN R /\ R[p].slot = n.trie[p].slot
  BY <1>8
<1>13. \A c \in 1..k : paths[c] \in DOMAIN R /\ R[paths[c]].slot = NewSlots(n, k)[c]
  BY <1>7
<1> HIDE DEF paths, slots
<1>14. n.free_nodes \in Seq(Nat) /\ n.arena \in Nat
  BY <1>2
<1>12. Lost(R, FreeAfter(n, k), ArenaAfter(n, k)) = LostOf(n)
  <2>1. Gains(n, k, paths, R)
    BY ONLY <1>9, <1>11, <1>13 DEF Gains
  <2> QED BY ONLY <1>4, <1>10, <1>14, <2>1, NoneLostGrowing
<1> QED BY <1>1, <1>12 DEF LostOf, r, R

\* Nor does any answer of insert.
LEMMA InsertLosesNone ==
  ASSUME NEW n, Sound(n), NEW b \in Contents, NEW id \in Identifiers \cup {NoId},
         NEW a \in InsertInner(n, b, id)
  PROVE  LostOf(a.nb) = LostOf(n)
<1>1. /\ n.entries \in Seq(Entry) /\ InByteOrder(n.entries)
      /\ DOMAIN n.entries = 1..Len(n.entries)
      /\ IsNeighborhood(n)
  BY SoundFacts DEF Sound
<1>2. CASE Find(n, b) # {}
  <2>1. PICK i \in Find(n, b) : a = InsertExisting(n, i, id)
    BY <1>2 DEF InsertInner
  <2>2. a.nb = n \/ a.nb = Assign(n, i, id)
    BY <2>1 DEF InsertExisting, Refused, Answer
  <2>3. LostOf(Assign(n, i, id)) = LostOf(n)
    BY <1>1 DEF Assign, LostOf, IsNeighborhood
  <2> QED BY <2>2, <2>3
<1>3. CASE Find(n, b) = {} /\ id \in DOMAIN n.identifier_index
  <2>1. a = Refused(n, "IdentifierAlreadyAssigned")
    BY <1>3 DEF InsertInner
  <2> QED BY <2>1 DEF Refused, Answer
<1>4. CASE Find(n, b) = {} /\ id \notin DOMAIN n.identifier_index
  <2>1. PICK pos \in InsertPositions(n, b), d \in WalkEnds(n, b) :
          a \in InsertNew(n, b, id, pos, d)
    BY <1>4 DEF InsertInner
  <2>2. b \notin DOMAIN AddressesOf(n.entries)
    <3> SUFFICES ASSUME b \in DOMAIN AddressesOf(n.entries) PROVE FALSE
      OBVIOUS
    <3>1. PICK i \in 1..Len(n.entries) : n.entries[i].bytes = b
      BY <1>1, EntriesFacts
    <3>2. i \in Find(n, b)
      BY <1>1, <3>1 DEF Find
    <3> QED BY <1>4, <3>2
  <2> DEFINE m == n.trie[Prefix(b, d)].content
             shared == SharedAtoms(b, n.entries[m].bytes, d)
             leaf == [base |-> d, member |-> Vacant, shared |-> 0]
             split(j) == [base |-> d, member |-> m, shared |-> j]
  <2>3. CASE m = Vacant
    <3>1. a = ApplyInsert(n, b, id, pos, leaf)
      BY <2>1, <2>3 DEF InsertNew
    <3>2. PlanFits(n, b, leaf)
      BY <2>2, <2>3, LeafFits
    <3> HIDE DEF leaf
    <3> QED BY <2>2, <3>1, <3>2, ApplyLosesNone
  <2>4. CASE m # Vacant
    <3>1. \/ a = Refused(n, "Panic")
          \/ a = Refused(n, "ContentsNotDistinguishable")
          \/ \E j \in shared : a = ApplyInsert(n, b, id, pos, split(j))
      BY <2>1, <2>4 DEF InsertNew
    <3>2. ASSUME NEW j \in shared, a = ApplyInsert(n, b, id, pos, split(j))
          PROVE  LostOf(a.nb) = LostOf(n)
      <4>1. PlanFits(n, b, split(j))
        BY <2>2, <2>4, SplitFits
      <4> HIDE DEF split
      <4> QED BY <2>2, <3>2, <4>1, ApplyLosesNone
    <3>3. CASE \/ a = Refused(n, "Panic")
               \/ a = Refused(n, "ContentsNotDistinguishable")
      BY <3>3 DEF Refused, Answer
    <3> QED BY <3>1, <3>2, <3>3
  <2> QED BY <2>3, <2>4
<1> QED BY <1>2, <1>3, <1>4

\* set_identifier leaves the arena alone.
LEMMA SetIdentifierLosesNone ==
  ASSUME NEW n, Sound(n), NEW b, NEW id, NEW a \in SetIdentifierInner(n, b, id)
  PROVE  LostOf(a.nb) = LostOf(n)
<1>1. IsNeighborhood(n)
  BY DEF Sound
<1>2. \/ a = Refused(n, "ContentNotFound")
      \/ \E i \in Find(n, b) : a = SetIdentifierAt(n, i, id)
  BY DEF SetIdentifierInner
<1>3. CASE a = Refused(n, "ContentNotFound")
  BY <1>3 DEF Refused, Answer
<1>4. ASSUME NEW i, a = SetIdentifierAt(n, i, id)
      PROVE  LostOf(a.nb) = LostOf(n)
  <2> DEFINE index == IF id # NoId THEN Put(n.identifier_index, id, i)
                      ELSE Drop(n.identifier_index, n.entries[i].identifier)
             r == [n EXCEPT !.entries = [@ EXCEPT ![i].identifier = id],
                            !.identifier_index = index]
  <2>1. a.nb = n \/ a.nb = r
    BY <1>4 DEF SetIdentifierAt, Assign, Refused, Answer
  <2> HIDE DEF index
  <2>2. LostOf(r) = LostOf(n)
    BY <1>1 DEF LostOf, IsNeighborhood
  <2> QED BY <2>1, <2>2
<1> QED BY <1>2, <1>3, <1>4

\* Unlinking a leaf frees the slot of the one node that goes.
LEMMA DetachLosesNone ==
  ASSUME NEW n, Sound(n), NEW idx \in 1..Len(n.entries)
  PROVE  LET a == n.entries[idx].address IN
         Lost(Detach(n, a), Append(n.free_nodes, n.trie[a].slot), n.arena) = LostOf(n)
<1> DEFINE es == n.entries
           a == es[idx].address
           T == Detach(n, a)
           A == AddressesOf(es)
           s == n.trie[a].slot
           free == n.free_nodes
           f == <<s>>
           gone == <<a>>
           old == n.trie
           size == n.arena
<1>1. IsDetached(n, idx, A, es[idx].bytes, a, T)
  BY DetachFacts
<1>2. DOMAIN old = Nodes(A) /\ s \in Nat /\ free \in Seq(Nat)
  <2>1. DOMAIN old = Nodes(A) /\ free \in Seq(Nat) /\ a \in Nodes(A)
    BY <1>1, SoundFacts DEF Sound, IsNeighborhood, IsDetached
  <2>2. \A p \in DOMAIN old : old[p] \in TrieNode
    BY DEF Sound, IsNeighborhood
  <2> QED BY <2>1, <2>2 DEF TrieNode
<1>3. /\ DOMAIN T = Nodes(A) \ {a} /\ a \in Nodes(A)
      /\ \A p \in Nodes(A) \ {a} : T[p].slot = old[p].slot
  BY <1>1 DEF IsDetached
<1>a. gone[1] = a /\ f[1] = s
  OBVIOUS
<1> HIDE DEF gone, T, a, s, A, es, free, old, size
<1>b. f \in Seq(Nat) /\ Len(f) = 1 /\ Append(free, s) = free \o f
  BY <1>2
<1>4. f \in Seq(Nat) /\ Len(f) = 1 /\ Append(free, s) = free \o f /\ f[1] = s /\ gone[1] = a
  BY <1>a, <1>b
<1> HIDE DEF f
<1>5. Releases(old, T, f, gone)
  <2>1. \A i \in 1..Len(f) : gone[i] \in DOMAIN old /\ gone[i] \notin DOMAIN T
                             /\ f[i] = old[gone[i]].slot
    BY <1>2, <1>3, <1>4 DEF s, old, a, es
  <2>2. \A i, j \in 1..Len(f) : gone[i] = gone[j] => i = j
    BY <1>4
  <2> QED BY <1>2, <1>3, <1>4, <2>1, <2>2 DEF Releases
<1>6. \A p \in DOMAIN old \ DOMAIN T : \E i \in 1..Len(f) : gone[i] = p
  BY <1>2, <1>3, <1>4
<1>7. Lost(T, free \o f, size) = Lost(old, free, size)
  BY <1>2, <1>5, <1>6, NoneLostShrinking
<1> QED BY <1>4, <1>7 DEF LostOf, T, a, s, es, free, old, size

\* A collapse frees the slot of every node it takes out: below the top of the collapse
\* the trie has only the way to the sole member and what is left of the leaf's way.
LEMMA CollapseReleasesAll ==
  ASSUME NEW n, Sound(n), NEW idx \in 1..Len(n.entries), NEW A, A = AddressesOf(n.entries),
         NEW b, b = n.entries[idx].bytes,
         NEW a, NEW T, IsDetached(n, idx, A, b, a, T),
         NEW marker, NEW m, NEW top, NEW low, NEW t, NEW l, Len(t) = top, IsPrefix(l, a),
         IsCollapse(n, idx, A, b, a, T, marker, m, top, low, t, l),
         top \in Lonely(A, b),
         NEW p \in DOMAIN T \ DOMAIN Collapse(T, a, top, m)
  PROVE  \E i \in 1..Len(CollapsedSlots(T, a, top, low, marker)) :
           CollapsedPaths(a, top, low, marker)[i] = p
<1> DEFINE c == n.entries[m].bytes
           chain == Len(marker) - low
           size == chain + low - top
           f == CollapsedSlots(T, a, top, low, marker)
           gone == CollapsedPaths(a, top, low, marker)
<1>1. IsTree(A) /\ IsAddressMap(A) /\ Tight(A)
  BY DEF Sound, IsTree
<1>2. b \in DOMAIN A /\ A[b] = a /\ DOMAIN T = Nodes(A) \ {a}
  BY DEF IsDetached
<1>3. /\ top \in Nat /\ low \in Nat /\ 1 <= top /\ top <= low /\ low <= Len(a) - 1
      /\ c \in DOMAIN A /\ c # b /\ A[c] = marker
      /\ l \in Seq(Atoms) /\ IsPrefix(l, marker) /\ Len(l) = low
      /\ t \in Seq(Atoms) /\ IsPrefix(t, a) /\ IsPrefix(t, marker)
  BY DEF IsCollapse, Address
<1> HIDE DEF c
<1>4. /\ a \in Seq(Atoms) /\ Len(a) \in Nat /\ marker \in Seq(Atoms) /\ Len(marker) \in Nat
      /\ \A d \in DOMAIN A : A[d] \in Seq(Atoms)
  <2>1. A[b] \in Seq(Atoms) /\ A[c] \in Seq(Atoms) /\ \A d \in DOMAIN A : A[d] \in Seq(Atoms)
    BY <1>1, <1>2, <1>3 DEF IsAddressMap
  <2> QED BY <1>2, <1>3, <2>1
<1>5. chain \in Nat
  BY <1>3, <1>4, PrefixDef
<1>6. t = SubSeq(a, 1, top)
  BY <1>3, <1>4, PrefixIsSubSeq
<1>7. p \in Nodes(A) /\ p # a /\ IsStrictPrefix(t, p)
  BY <1>2, <1>6 DEF Collapse
<1>8. \A q, x : x \in Under(Drop(A, b), q) <=> x \in DOMAIN A /\ x # b /\ IsPrefix(q, A[x])
  BY ONLY <1>1, <1>2, DropFacts
<1>9. \A x \in DOMAIN A : x # b /\ IsPrefix(t, A[x]) => x = c
  <2>1. PICK d : Under(Drop(A, b), t) = {d}
    BY <1>2, <1>6 DEF Lonely
  <2>2. c \in Under(Drop(A, b), t)
    BY <1>3, <1>8
  <2> QED BY <1>8, <2>1, <2>2
<1>10. f = [i \in 1..size |-> IF i <= chain THEN T[SubSeq(marker, 1, low + i)].slot
                              ELSE T[SubSeq(a, 1, low + chain + 1 - i)].slot]
  BY DEF CollapsedSlots
<1>11. gone = [i \in 1..size |-> IF i <= chain THEN SubSeq(marker, 1, low + i)
                                 ELSE SubSeq(a, 1, low + chain + 1 - i)]
  BY DEF CollapsedPaths
<1> HIDE DEF f, gone
<1>12. chain = Len(marker) - low /\ size = chain + low - top /\ size \in Nat
  BY <1>3, <1>5
<1> HIDE DEF chain, size
<1>13. Len(f) = size
  <2>1. DOMAIN f = 1..size
    BY <1>10
  <2> DEFINE S == {f[i] : i \in 1..size}
  <2>2. f \in [1..size -> S]
    BY <1>10
  <2> HIDE DEF S
  <2> QED BY <1>12, <2>2
<1>14. p \in Seq(Atoms) /\ Len(p) \in Nat /\ Len(p) > top /\ IsPrefix(t, p)
  <2>1. p \in Seq(Atoms)
    BY <1>1, <1>7, NodesType
  <2>2. IsPrefix(t, p) /\ t # p
    BY <1>7 DEF IsStrictPrefix
  <2>3. Len(t) <= Len(p) /\ t = SubSeq(p, 1, Len(t))
    BY <1>3, <2>1, <2>2, PrefixIsSubSeq
  <2>4. Len(t) # Len(p)
    <3> SUFFICES ASSUME Len(t) = Len(p) PROVE FALSE
      OBVIOUS
    <3>1. SubSeq(p, 1, Len(p)) = p
      BY <2>1
    <3> QED BY <2>2, <2>3, <3>1
  <2> QED BY <1>3, <2>1, <2>2, <2>3, <2>4
<1>15. PICK d \in DOMAIN A : IsPrefix(p, A[d])
  <2>1. p # <<>>
    <3>1. Len(p) # 0
      BY <1>3, <1>14
    <3> QED BY <3>1
  <2> QED BY <1>1, <1>7, <2>1, NodesDef
<1>16. \A x \in DOMAIN A : IsPrefix(p, A[x]) => IsPrefix(t, A[x])
  BY <1>3, <1>4, <1>14, PrefixTransitive
<1>17. IsPrefix(p, marker)
  <2>1. CASE d # b
    BY <1>3, <1>9, <1>15, <1>16, <2>1
  <2>2. CASE d = b
    <3> DEFINE up == Parent(a)
    <3>1. PICK e \in DOMAIN A \ {b} : IsPrefix(up, A[e])
      BY <1>1, <1>2, <1>3, <1>4 DEF Tight
    <3>2. IsPrefix(p, a) /\ Len(p) <= Len(a) - 1
      <4>1. IsPrefix(p, a)
        BY <1>2, <1>15, <2>2
      <4>2. Len(p) \in 0..Len(a) /\ p = SubSeq(a, 1, Len(p))
        BY <1>4, <1>14, <4>1, PrefixIsSubSeq
      <4>3. Len(p) # Len(a)
        <5>1. SubSeq(a, 1, Len(a)) = a
          BY <1>4
        <5> QED BY <1>7, <4>2, <5>1
      <4> QED BY <1>4, <4>1, <4>2, <4>3
    <3>3. up \in Seq(Atoms) /\ Len(up) = Len(a) - 1 /\ IsPrefix(up, a)
      <4> DEFINE k == Len(a) - 1
      <4>1. k \in 0..Len(a) /\ up = SubSeq(a, 1, k)
        BY <1>3, <1>4 DEF Parent
      <4> HIDE DEF up, k
      <4>2. SubSeq(a, 1, k) \in Seq(Atoms) /\ Len(SubSeq(a, 1, k)) = k
            /\ IsPrefix(SubSeq(a, 1, k), a)
        BY <1>4, <4>1, SubSeqIsPrefix
      <4> QED BY <4>1, <4>2 DEF k
    <3> HIDE DEF up
    <3>4. Len(p) <= Len(up)
      BY <3>2, <3>3
    <3>5. IsPrefix(p, up)
      BY <1>4, <1>14, <3>2, <3>3, <3>4, PrefixesCompare
    <3>6. IsPrefix(p, A[e])
      BY <1>4, <1>14, <3>1, <3>3, <3>5, PrefixTransitive
    <3>7. e = c
      BY <1>9, <1>16, <3>1, <3>6
    <3> QED BY <1>3, <3>6, <3>7
  <2> QED BY <2>1, <2>2
<1>18. Len(p) <= Len(marker) /\ p = SubSeq(marker, 1, Len(p))
  BY <1>4, <1>14, <1>17, PrefixIsSubSeq
<1>19. CASE Len(p) > low
  <2> DEFINE i == Len(p) - low
  <2>1. i \in 1..size /\ i <= chain /\ low + i = Len(p)
    BY <1>3, <1>4, <1>12, <1>14, <1>18, <1>19
  <2> HIDE DEF i
  <2>2. gone[i] = SubSeq(marker, 1, low + i)
    BY <1>11, <2>1
  <2>3. gone[i] = p
    BY <1>18, <2>1, <2>2
  <2> QED BY <1>13, <2>1, <2>3 DEF f, gone
<1>20. CASE ~(Len(p) > low)
  <2>1. Len(p) <= Len(l)
    BY <1>3, <1>14, <1>20
  <2>2. IsPrefix(p, l)
    BY <1>3, <1>4, <1>14, <1>17, <2>1, PrefixesCompare
  <2>3. IsPrefix(p, a)
    BY <1>3, <1>4, <1>14, <2>2, PrefixTransitive
  <2>4. p = SubSeq(a, 1, Len(p))
    BY <1>4, <1>14, <2>3, PrefixIsSubSeq
  <2> DEFINE i == low + chain + 1 - Len(p)
  <2>5. i \in 1..size /\ ~(i <= chain) /\ low + chain + 1 - i = Len(p)
    BY <1>3, <1>5, <1>12, <1>14, <1>20
  <2> HIDE DEF i
  <2>6. gone[i] = SubSeq(a, 1, low + chain + 1 - i)
    BY <1>11, <2>5
  <2>7. gone[i] = p
    BY <2>4, <2>5, <2>6
  <2> QED BY <1>13, <2>5, <2>7 DEF f, gone
<1> QED BY <1>19, <1>20

\* Taking an entry out changes no slot.
LEMMA EvictLosesNone ==
  ASSUME NEW n, \A p \in DOMAIN n.trie : n.trie[p] \in TrieNode, NEW idx
  PROVE  LostOf(Evict(n, idx)) = LostOf(n)
<1> DEFINE trie == [p \in DOMAIN n.trie |-> [n.trie[p] EXCEPT !.content = ShiftDown(@, idx)]]
           r == Evict(n, idx)
<1>1. r.trie = trie /\ r.free_nodes = n.free_nodes /\ r.arena = n.arena
  BY DEF Evict
<1>2. DOMAIN trie = DOMAIN n.trie /\ \A p \in DOMAIN n.trie : trie[p].slot = n.trie[p].slot
  BY DEF TrieNode
<1> HIDE DEF r, trie
<1>3. LostOf(r) = LostOf(n)
  BY <1>1, <1>2 DEF LostOf, Lost
<1> QED BY <1>3 DEF r

\* The end of remove_inner changes the arena only where at most one entry is left.
LEMMA SettleKeeps ==
  ASSUME NEW n, n.entries \in Seq(Entry), NEW address, NEW changes,
         NEW r, r = Settle(n, address, changes).nb
  PROVE  r = n \/ (Len(n.entries) <= 1 /\ Len(r.entries) = Len(n.entries))
<1>1. CASE Len(n.entries) = 0
  <2>1. r = [New EXCEPT !.identifier_index = n.identifier_index]
    BY <1>1 DEF Settle, Answer
  <2>2. r.entries = <<>>
    BY <2>1 DEF New
  <2> QED BY <1>1, <2>2
<1>2. CASE Len(n.entries) = 1
  <2> DEFINE first == Prefix(n.entries[1].bytes, 1)
  <2>1. r = Reseat(n)
    BY <1>2 DEF Settle, Answer
  <2>2. r.entries = [n.entries EXCEPT ![1].address = first]
    BY <2>1 DEF Reseat
  <2> HIDE DEF first
  <2>3. Len(r.entries) = Len(n.entries)
    BY <1>2, <2>2
  <2> QED BY <1>2, <2>3
<1>3. CASE Len(n.entries) # 0 /\ Len(n.entries) # 1
  BY <1>3 DEF Settle, Answer
<1> QED BY <1>1, <1>2, <1>3

\* The slots of n are kept, or a removal from n has left one entry or none.
Spares(n, r) ==
  LostOf(r) = LostOf(n) \/ (Len(r.entries) <= 1 /\ Len(n.entries) = Len(r.entries) + 1)

\* From the trie without the leaf on, a removal ends as the entries say.
LEMMA EndOfRemoval ==
  ASSUME NEW n, NEW r, \A p \in DOMAIN r.trie : r.trie[p] \in TrieNode,
         r.entries \in Seq(Entry), Len(r.entries) = Len(n.entries),
         LostOf(r) = LostOf(n), NEW idx \in 1..Len(n.entries), NEW address, NEW changes
  PROVE  Spares(n, Settle(Evict(r, idx), address, changes).nb)
<1> DEFINE x == Evict(r, idx)
           end == Settle(x, address, changes).nb
           es == r.entries
<1>1. LostOf(x) = LostOf(n)
  BY EvictLosesNone
<1>2. x.entries \in Seq(Entry) /\ Len(x.entries) = Len(n.entries) - 1
  <2>1. x.entries = RemoveAt(es, idx)
    BY DEF Evict
  <2>2. RemoveAt(es, idx) \in Seq(Entry) /\ Len(RemoveAt(es, idx)) = Len(es) - 1
    <3>1. es \in Seq(Entry) /\ idx \in 1..Len(es)
      OBVIOUS
    <3> HIDE DEF es
    <3> QED BY <3>1, RemoveAtProperties
  <2> QED BY <2>1, <2>2
<1> HIDE DEF x
<1>3. end = x \/ (Len(x.entries) <= 1 /\ Len(end.entries) = Len(x.entries))
  BY <1>2, SettleKeeps, SMTT(30)
<1>4. Len(n.entries) \in Nat
  BY <1>2
<1> HIDE DEF end
<1>5. Spares(n, end)
  BY <1>1, <1>2, <1>3, <1>4 DEF Spares
<1> QED BY <1>5 DEF end, x

\* The removal of a leaf whose neighbors keep their addresses loses no other slot.
LEMMA LeafRemovalLosesNone ==
  ASSUME NEW n, Sound(n), NEW idx \in 1..Len(n.entries)
  PROVE  LET a == n.entries[idx].address IN
         Spares(n, Settle(Evict([n EXCEPT !.trie = Detach(n, a),
                                          !.free_nodes = Append(n.free_nodes, n.trie[a].slot)],
                                idx), a, <<>>).nb)
<1> DEFINE a == n.entries[idx].address
           T == Detach(n, a)
           freed == Append(n.free_nodes, n.trie[a].slot)
           r == [n EXCEPT !.trie = T, !.free_nodes = freed]
           A == AddressesOf(n.entries)
<1>1. Lost(T, freed, n.arena) = LostOf(n)
  BY DetachLosesNone
<1>2. \A p \in DOMAIN T : T[p] \in TrieNode
  <2>1. IsDetached(n, idx, A, n.entries[idx].bytes, a, T)
    BY DetachFacts
  <2> HIDE DEF T, a, A
  <2> QED BY <2>1 DEF IsDetached
<1>3. /\ n.entries \in Seq(Entry)
      /\ n = [entries |-> n.entries, trie |-> n.trie, free_nodes |-> n.free_nodes,
              arena |-> n.arena, entry_nodes |-> n.entry_nodes,
              identifier_index |-> n.identifier_index]
  BY DEF Sound, IsNeighborhood
<1> HIDE DEF T, freed
<1>4. r.entries = n.entries /\ r.trie = T /\ r.free_nodes = freed /\ r.arena = n.arena
  BY <1>3
<1> HIDE DEF r, a
<1>5. LostOf(r) = LostOf(n)
  BY <1>1, <1>4 DEF LostOf
<1>6. Spares(n, Settle(Evict(r, idx), a, <<>>).nb)
  <2> DEFINE changes == <<>>
  <2>1. /\ \A p \in DOMAIN r.trie : r.trie[p] \in TrieNode
        /\ r.entries \in Seq(Entry) /\ Len(r.entries) = Len(n.entries)
    BY <1>2, <1>3, <1>4
  <2> HIDE DEF changes
  <2>2. Spares(n, Settle(Evict(r, idx), a, changes).nb)
    BY <1>5, <2>1, EndOfRemoval
  <2> QED BY <2>2 DEF changes
<1> QED BY <1>6 DEF r, T, freed, a

\* Nor does one that collapses the levels above the leaf.
LEMMA CollapseLosesNone ==
  ASSUME NEW n, Sound(n), NEW idx \in 1..Len(n.entries),
         NEW levels, levels = Lonely(AddressesOf(n.entries), n.entries[idx].bytes),
         levels # {},
         NEW marker \in MarkersBelow(Detach(n, n.entries[idx].address),
                                     SubSeq(n.entries[idx].address, 1, Max(levels)))
  PROVE  Spares(n, CollapseOnto(n, Detach(n, n.entries[idx].address),
                                Append(n.free_nodes, n.trie[n.entries[idx].address].slot),
                                idx, levels, marker).nb)
<1> DEFINE es  == n.entries
           A   == AddressesOf(es)
           b   == es[idx].bytes
           a   == es[idx].address
           T   == Detach(n, a)
           freed == Append(n.free_nodes, n.trie[a].slot)
           top == Min(levels)
           low == Max(levels)
           t   == SubSeq(a, 1, top)
           l   == SubSeq(a, 1, low)
           m   == T[marker].content
           e2  == [es EXCEPT ![m].address = t]
           trie  == Collapse(T, a, top, m)
           slots == CollapsedSlots(T, a, top, low, marker)
           gone  == CollapsedPaths(a, top, low, marker)
           r   == [n EXCEPT !.entries = [@ EXCEPT ![m].address = t], !.trie = trie,
                            !.free_nodes = freed \o slots,
                            !.entry_nodes = [@ EXCEPT ![m] = T[t].slot]]
           changes == CollapseChanges(es[m], a, top, low)
<1>1. IsDetached(n, idx, A, b, a, T)
  BY DetachFacts
<1>2. IsCollapse(n, idx, A, b, a, T, marker, m, top, low, t, l)
  BY CollapseFacts
<1>3. /\ IsTree(A) /\ InByteOrder(es) /\ es \in Seq(Entry) /\ DOMAIN es = 1..Len(es)
      /\ n.free_nodes \in Seq(Nat)
      /\ n = [entries |-> n.entries, trie |-> n.trie, free_nodes |-> n.free_nodes,
              arena |-> n.arena, entry_nodes |-> n.entry_nodes,
              identifier_index |-> n.identifier_index]
  BY SoundFacts DEF Sound, IsNeighborhood
<1>4. /\ Lost(T, freed, n.arena) = LostOf(n)
      /\ b \in DOMAIN A /\ A[b] = a /\ a \in Nodes(A) /\ DOMAIN T = Nodes(A) \ {a}
      /\ \A p \in DOMAIN T : T[p] \in TrieNode
      /\ a \in DOMAIN n.trie
  <2>1. Lost(T, freed, n.arena) = LostOf(n)
    BY DetachLosesNone
  <2>2. DOMAIN n.trie = Nodes(A)
    BY SoundFacts DEF Sound
  <2> HIDE DEF T, A, a, freed
  <2> QED BY <1>1, <2>1, <2>2 DEF IsDetached
<1>5. freed \in Seq(Nat)
  <2>1. n.trie[a].slot \in Nat
    BY <1>4 DEF Sound, IsNeighborhood, TrieNode
  <2> QED BY <1>3, <2>1
<1>6. top \in levels /\ top \in Lonely(A, b) /\ top \in 1..(Len(a) - 1)
      /\ low \in 1..(Len(a) - 1)
  <2>1. b \in DOMAIN A /\ A[b] = a
    BY <1>4
  <2> HIDE DEF A, b, a
  <2>2. a \in Seq(Atoms) /\ Len(a) \in Nat /\ Len(a) > 0
    BY <1>3, <2>1, DropFacts
  <2>3. Lonely(A, b) \subseteq 1..(Len(a) - 1) /\ Len(a) - 1 \in Nat
    BY <2>1, <2>2 DEF Lonely
  <2>4. levels \in SUBSET (1..(Len(a) - 1)) /\ levels = Lonely(A, b)
    BY <2>3 DEF A, b
  <2>5. top \in levels /\ low \in levels
    BY <2>3, <2>4, MinOfPositions, MaxOfPositions
  <2> QED BY <2>3, <2>4, <2>5
<1>7. /\ Len(t) = top /\ t \in Nodes(A) \ {a} /\ t \in Address /\ IsPrefix(l, a)
  <2> HIDE DEF A, b, a, top, low
  <2> QED BY <1>3, <1>4, <1>6, AboveLeaf
<1>8. m \in 1..Len(es) /\ m # idx
  BY <1>2 DEF IsCollapse
<1>9. CollapseOnto(n, T, freed, idx, levels, marker)
        = IF m \notin DOMAIN es THEN Refused(n, "Panic")
          ELSE Settle(Evict(r, idx), a, changes)
  BY DEF CollapseOnto
<1>10. /\ Releases(T, trie, slots, gone)
       /\ \A p \in DOMAIN T \ DOMAIN trie : \E i \in 1..Len(slots) : gone[i] = p
  <2>1. A = AddressesOf(n.entries) /\ b = n.entries[idx].bytes
    OBVIOUS
  <2> HIDE DEF A, b, a, T, top, low, t, l, m
  <2>2. Releases(T, trie, slots, gone)
    BY <1>1, <1>2, <1>7, <2>1, CollapseReleases
  <2>3. \A p \in DOMAIN T \ DOMAIN trie : \E i \in 1..Len(slots) : gone[i] = p
    BY <1>1, <1>2, <1>6, <1>7, <2>1, CollapseReleasesAll, SMTT(30)
  <2> QED BY <2>2, <2>3
<1>11. \A q \in DOMAIN trie : trie[q] \in TrieNode
  <2>1. m \in Int
    BY <1>3, <1>8
  <2> HIDE DEF T, m, a, top
  <2>2. t \in DOMAIN T /\ T[t] \in TrieNode
    BY <1>4, <1>7
  <2>3. T[t].slot \in Nat
    BY <2>2 DEF TrieNode
  <2> QED BY <1>4, <2>1, <2>3 DEF Collapse, TrieNode
<1>12. /\ r.entries = e2 /\ r.trie = trie /\ r.free_nodes = freed \o slots
       /\ r.arena = n.arena
  <2> HIDE DEF trie, freed, slots, m, t, T
  <2> QED BY <1>3
<1> HIDE DEF r, trie, freed, slots, gone, T, top, low, l, A, b, changes
<1>13. Lost(trie, freed \o slots, n.arena) = LostOf(n)
  <2> DEFINE size == n.arena
  <2>1. Lost(T, freed, size) = LostOf(n)
    BY <1>4
  <2> HIDE DEF size
  <2>2. Lost(trie, freed \o slots, size) = Lost(T, freed, size)
    BY <1>5, <1>10, NoneLostShrinking
  <2> QED BY <2>1, <2>2 DEF size
<1>14. e2 \in Seq(Entry) /\ Len(e2) = Len(es)
  <2>1. es \in Seq(Entry) /\ InByteOrder(es) /\ m \in 1..Len(es) /\ t \in Address
    BY <1>3, <1>7, <1>8
  <2> HIDE DEF m, t, es
  <2>2. LET new == [es EXCEPT ![m].address = t] IN
        /\ new \in Seq(Entry) /\ Len(new) = Len(es)
        /\ \A i \in 1..Len(es) : /\ new[i].bytes = es[i].bytes
                                 /\ new[i].identifier = es[i].identifier
                                 /\ new[i].address = IF i = m THEN t ELSE es[i].address
        /\ InByteOrder(new)
        /\ AddressesOf(new) = Put(AddressesOf(es), es[m].bytes, t)
    BY <2>1, AddressesOfMove
  <2> QED BY <2>2
<1> HIDE DEF e2
<1>15. LostOf(r) = LostOf(n)
  BY <1>12, <1>13 DEF LostOf
<1>16. Spares(n, Settle(Evict(r, idx), a, changes).nb)
  <2>1. /\ \A p \in DOMAIN r.trie : r.trie[p] \in TrieNode
        /\ r.entries \in Seq(Entry) /\ Len(r.entries) = Len(n.entries)
    BY <1>11, <1>12, <1>14
  <2> HIDE DEF a
  <2> QED BY <1>15, <2>1, EndOfRemoval
<1>17. Spares(n, CollapseOnto(n, T, freed, idx, levels, marker).nb)
  BY <1>3, <1>8, <1>9, <1>16
<1> QED BY <1>17 DEF T, freed

\* Every removal keeps the slots, unless it leaves one entry or none.
LEMMA RemoveLosesNone ==
  ASSUME NEW n, Sound(n), NEW idx, NEW answer \in RemoveInner(n, idx)
  PROVE  Spares(n, answer.nb)
<1> DEFINE a == n.entries[idx].address
           T == Detach(n, a)
           freed  == Append(n.free_nodes, n.trie[a].slot)
           levels == CollapseLevels(T, a)
<1>1. \/ answer = Refused(n, "Panic")
      \/ /\ idx \in DOMAIN n.entries /\ levels = {}
         /\ answer = Settle(Evict([n EXCEPT !.trie = T, !.free_nodes = freed], idx), a, <<>>)
      \/ /\ idx \in DOMAIN n.entries /\ levels # {}
         /\ \E marker \in MarkersBelow(T, SubSeq(a, 1, Max(levels))) :
              answer = CollapseOnto(n, T, freed, idx, levels, marker)
  <2> HIDE DEF T, a, freed, levels
  <2> QED BY DEF RemoveInner, T, a, freed, levels
<1>2. DOMAIN n.entries = 1..Len(n.entries)
  BY SoundFacts
<1>3. CASE answer = Refused(n, "Panic")
  BY <1>3 DEF Refused, Answer, Spares
<1>4. CASE /\ idx \in DOMAIN n.entries /\ levels = {}
           /\ answer = Settle(Evict([n EXCEPT !.trie = T, !.free_nodes = freed], idx), a, <<>>)
  BY <1>2, <1>4, LeafRemovalLosesNone
<1>5. CASE /\ idx \in DOMAIN n.entries /\ levels # {}
           /\ \E marker \in MarkersBelow(T, SubSeq(a, 1, Max(levels))) :
                answer = CollapseOnto(n, T, freed, idx, levels, marker)
  <2>1. PICK marker \in MarkersBelow(T, SubSeq(a, 1, Max(levels))) :
               answer = CollapseOnto(n, T, freed, idx, levels, marker)
    BY <1>5
  <2>2. /\ idx \in 1..Len(n.entries) /\ levels # {}
        /\ levels = Lonely(AddressesOf(n.entries), n.entries[idx].bytes)
    BY <1>2, <1>5, LevelsAreLonely
  <2> HIDE DEF levels
  <2> QED BY <2>1, <2>2, CollapseLosesNone
<1> QED BY <1>1, <1>3, <1>4, <1>5

-----------------------------------------------------------------------------
(* The calls and the slots they lose.                                       *)

\* The working copy c of a merge into n has lost no slot that n has not.
SparesWorking(c, n) == c.op = "merge" => LostOf(c.working) = LostOf(n)

LInv == Inv /\ SparesWorking(call, nb)

\* What one call may do to the slots: from n to r, while c is in progress.
MayLose(c, n, r) ==
  \/ LostOf(r) = LostOf(n)
  \/ Len(r.entries) <= 1 /\ Len(n.entries) = Len(r.entries) + 1
  \/ c.op \in {"from_rows", "rebuild"}

\* A single-step call: no call is in progress before or after it.
LEMMA ReturnsLose ==
  ASSUME Idle, NEW op, NEW answers, \A a \in answers : Spares(nb, a.nb), Returns(op, answers)
  PROVE  MayLose(call, nb, nb') /\ SparesWorking(call', nb')
<1>1. call'.op = "none" /\ Spares(nb, nb')
  BY DEF Returns, Idle
<1> QED BY <1>1 DEF MayLose, SparesWorking, Spares

\* A call that leaves the neighborhood as it was, with no merge in progress after it.
LEMMA NothingLost ==
  ASSUME nb' = nb, call'.op # "merge"
  PROVE  MayLose(call, nb, nb') /\ SparesWorking(call', nb')
BY DEF MayLose, SparesWorking

\* A call that fails is one of those.
LEMMA FailLosesNone ==
  ASSUME NEW op, NEW status, Fail(op, status)
  PROVE  MayLose(call, nb, nb') /\ SparesWorking(call', nb')
<1>1. nb' = nb /\ call'.op = "none"
  BY DEF Fail, NoCall
<1> QED BY <1>1, NothingLost

\* The end of a call: from_rows and rebuild build an arena of their own, and the one
\* of a merge's copy has lost what the neighborhood's has.
LEMMA CommitLosesNone ==
  ASSUME LInv, NEW op \in {"merge", "rebuild"}, Commit(op)
  PROVE  MayLose(call, nb, nb') /\ SparesWorking(call', nb')
<1>1. \/ Fail(op, "Panic")
      \/ nb' = call.working /\ call' = NoCall /\ call.op = op
  BY DEF Commit, Done
<1>2. CASE nb' = call.working /\ call' = NoCall /\ call.op = op
  <2>1. call'.op = "none"
    BY <1>2 DEF NoCall
  <2>2. LostOf(call.working) = LostOf(nb) \/ call.op \in {"from_rows", "rebuild"}
    BY <1>2 DEF LInv, SparesWorking
  <2> QED BY <1>2, <2>1, <2>2 DEF MayLose, SparesWorking
<1> QED BY <1>1, <1>2, FailLosesNone

\* One row of a row-by-row call.
LEMMA InsertRowLosesNone ==
  ASSUME LInv, InsertRow
  PROVE  MayLose(call, nb, nb') /\ SparesWorking(call', nb')
<1> DEFINE row == Head(call.todo)
<1>1. /\ Shape(call, result) /\ Sound(call.working) /\ call.todo # <<>>
  BY InvIsShape DEF InsertRow, LInv
<1>2. row.bytes \in Contents /\ row.identifier \in Identifiers \cup {NoId}
  <2>1. call.todo \in Seq(NeighborhoodRow)
    BY <1>1 DEF Shape
  <2>2. row \in NeighborhoodRow
    BY <1>1, <2>1
  <2> QED BY <2>2 DEF NeighborhoodRow
<1>3. PICK a \in InsertInner(call.working, row.bytes, row.identifier) :
        IF a.status \in Failures
        THEN Fail(call.op, IF call.op = "validate" /\ a.status # "Panic"
                           THEN "reference reconstruction failed" ELSE a.status)
        ELSE /\ call' = [call EXCEPT !.todo = Tail(@), !.working = a.nb]
             /\ UNCHANGED <<nb, result>>
  BY DEF InsertRow
<1> HIDE DEF row
<1>4. LostOf(a.nb) = LostOf(call.working)
  BY <1>1, <1>2, InsertLosesNone
<1>5. CASE a.status \in Failures
  BY <1>3, <1>5, FailLosesNone
<1>6. CASE a.status \notin Failures
  <2>1. call' = [call EXCEPT !.todo = Tail(@), !.working = a.nb] /\ nb' = nb
    BY <1>3, <1>6
  <2>2. call = [op |-> call.op, todo |-> call.todo, working |-> call.working]
    BY <1>1 DEF Shape
  <2>3. call'.working = a.nb /\ call'.op = call.op
    BY <2>1, <2>2
  <2>4. SparesWorking(call', nb')
    BY <1>4, <2>1, <2>3 DEF LInv, SparesWorking
  <2> QED BY <2>1, <2>4 DEF MayLose
<1> QED BY <1>5, <1>6

\* What any step does.
LEMMA StepLosesNone ==
  ASSUME LInv, [Next]_vars
  PROVE  MayLose(call, nb, nb') /\ SparesWorking(call', nb')
<1>1. Sound(nb)
  BY InvIsShape DEF LInv
<1>2. ASSUME NEW b \in Contents, NEW id \in Identifiers \cup {NoId}, Insert(b, id)
      PROVE  MayLose(call, nb, nb') /\ SparesWorking(call', nb')
  <2>1. \A a \in InsertInner(nb, b, id) : Spares(nb, a.nb)
    BY <1>1, InsertLosesNone DEF Spares
  <2> QED BY <1>2, <2>1, ReturnsLose DEF Insert
<1>3. ASSUME NEW b \in Contents, NEW id \in Identifiers \cup {NoId}, SetIdentifier(b, id)
      PROVE  MayLose(call, nb, nb') /\ SparesWorking(call', nb')
  <2>1. \A a \in SetIdentifierInner(nb, b, id) : Spares(nb, a.nb)
    BY <1>1, SetIdentifierLosesNone DEF Spares
  <2> QED BY <1>3, <2>1, ReturnsLose DEF SetIdentifier
<1>4. ASSUME NEW b \in Contents, RemoveByBytes(b)
      PROVE  MayLose(call, nb, nb') /\ SparesWorking(call', nb')
  <2> DEFINE answers == IF Find(nb, b) = {} THEN {Refused(nb, "None")}
                        ELSE UNION {RemoveInner(nb, i) : i \in Find(nb, b)}
  <2>1. Spares(nb, Refused(nb, "None").nb)
    BY DEF Refused, Answer, Spares
  <2>2. \A a \in answers : Spares(nb, a.nb)
    BY <1>1, <2>1, RemoveLosesNone
  <2> QED BY <1>4, <2>2, ReturnsLose DEF RemoveByBytes
<1>5. ASSUME NEW id \in Identifiers, RemoveByIdentifier(id)
      PROVE  MayLose(call, nb, nb') /\ SparesWorking(call', nb')
  <2> DEFINE answers == IF id \notin DOMAIN nb.identifier_index THEN {Refused(nb, "None")}
                        ELSE RemoveInner(nb, nb.identifier_index[id])
  <2>1. Spares(nb, Refused(nb, "None").nb)
    BY DEF Refused, Answer, Spares
  <2>2. \A a \in answers : Spares(nb, a.nb)
    BY <1>1, <2>1, RemoveLosesNone
  <2> QED BY <1>5, <2>2, ReturnsLose DEF RemoveByIdentifier
<1>6. ASSUME NEW op, op # "merge", NEW rows, NEW working, Begin(op, rows, working)
      PROVE  MayLose(call, nb, nb') /\ SparesWorking(call', nb')
  <2>1. nb' = nb /\ call'.op = op
    BY <1>6 DEF Begin
  <2> QED BY <1>6, <2>1, NothingLost
<1>7. ASSUME NEW rows, BeginMerge(rows)
      PROVE  MayLose(call, nb, nb') /\ SparesWorking(call', nb')
  <2>1. nb' = nb /\ call'.working = nb
    BY <1>7 DEF BeginMerge, Begin
  <2> QED BY <2>1 DEF MayLose, SparesWorking
<1>8. CASE \E rows \in RowBatches : BeginMerge(rows) \/ BeginFromRows(rows)
  BY <1>6, <1>7, <1>8 DEF BeginFromRows
<1>9. CASE MergeOtherScheme
  BY <1>9, FailLosesNone DEF MergeOtherScheme
<1>10. CASE BeginRebuild
  BY <1>6, <1>10 DEF BeginRebuild
<1>11. CASE BeginValidate
  BY <1>6, <1>11, FailLosesNone DEF BeginValidate
<1>12. CASE InsertRow
  BY <1>12, InsertRowLosesNone
<1>13. CASE EndValidate
  BY <1>13, FailLosesNone DEF EndValidate
<1>14. CASE EndFromRows
  <2>1. call.op = "from_rows" /\ call'.op = "none"
    BY <1>14 DEF EndFromRows, Done, NoCall
  <2> QED BY <2>1 DEF MayLose, SparesWorking
<1>15. CASE EndMerge \/ EndRebuild
  BY <1>15, CommitLosesNone DEF EndMerge, EndRebuild
<1>16. CASE UNCHANGED vars
  BY <1>16 DEF vars, MayLose, SparesWorking, LInv
<1> QED
  BY <1>2, <1>3, <1>4, <1>5, <1>8, <1>9, <1>10, <1>11, <1>12, <1>13, <1>14, <1>15, <1>16
     DEF Next

\* The lost slots, as the runs see them, are those that neither a node nor the free
\* list has.
LEMMA LostSlotsAre ==
  ASSUME NEW n, Sound(n)
  PROVE  0..(n.arena - 1) \ ({n.trie[p].slot : p \in DOMAIN n.trie} \cup Range(n.free_nodes))
           = LostOf(n)
<1> DEFINE S == 0..(n.arena - 1) \ ({n.trie[p].slot : p \in DOMAIN n.trie} \cup Range(n.free_nodes))
<1>1. n.free_nodes \in Seq(Nat)
  BY DEF Sound, IsNeighborhood
<1>2. DOMAIN n.free_nodes = 1..Len(n.free_nodes)
  BY <1>1
<1>3. \A s : s \in S <=> s \in LostOf(n)
  BY <1>2 DEF LostOf, Lost, Range
<1> QED BY <1>3

\* A slot of the arena is lost only where the last entry is reseated: every other call
\* reuses or frees the slots of the nodes it takes out.
THEOREM SlotsLostAtTheEndOnly == Spec => SlotsLostOnlyByReseat
<1>1. Init => LInv
  <2>1. Init => call.op = "none"
    BY DEF Init, NoCall
  <2> QED BY <2>1, InitInv DEF LInv, SparesWorking
<1>2. LInv /\ [Next]_vars => LInv'
  <2>1. LInv /\ [Next]_vars => Inv'
    BY NextInv DEF LInv
  <2>2. LInv /\ [Next]_vars => SparesWorking(call', nb')
    BY StepLosesNone
  <2> QED BY <2>1, <2>2 DEF LInv
<1>3. LInv /\ LInv' /\ [Next]_vars =>
        [LostSlots' # LostSlots =>
           \/ Len(nb'.entries) <= 1 /\ Len(nb.entries) = Len(nb'.entries) + 1
           \/ call.op \in {"from_rows", "rebuild"}]_vars
  <2> SUFFICES ASSUME LInv, LInv', [Next]_vars, LostSlots' # LostSlots
               PROVE  \/ Len(nb'.entries) <= 1 /\ Len(nb.entries) = Len(nb'.entries) + 1
                      \/ call.op \in {"from_rows", "rebuild"}
    OBVIOUS
  <2>1. Sound(nb) /\ Sound(nb')
    BY DEF LInv, Inv, AllSound
  <2>2. LostSlots = LostOf(nb) /\ LostSlots' = LostOf(nb')
    BY <2>1, LostSlotsAre DEF LostSlots, LiveSlots, FreeSlots
  <2>3. MayLose(call, nb, nb')
    BY StepLosesNone
  <2> QED BY <2>1, <2>2, <2>3 DEF MayLose
<1> QED BY <1>1, <1>2, <1>3, PTL DEF Spec, SlotsLostOnlyByReseat
=============================================================================
