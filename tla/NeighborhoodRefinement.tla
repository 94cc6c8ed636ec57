------------------------ MODULE NeighborhoodRefinement ------------------------
(***************************************************************************)
(* Every behaviour of a neighborhood is one of NeighborhoodSpec, what      *)
(* rebuild gives is the neighborhood itself, and the changes a call        *)
(* reports are all there are; and what these need of the working copies    *)
(* of the row-by-row calls and of the identifier index.                    *)
(* In five parts: what insert, set_identifier and remove do to the rows    *)
(* (the contents and their identifiers; the addresses follow from the      *)
(* members) and to the identifier index; the abstraction of a state; what  *)
(* each step does to the rows; the theorems about them; and what moves and *)
(* what is reported of it.                                                 *)
(***************************************************************************)
EXTENDS NeighborhoodProofs

\* The identifier of each member.
IdsOf(es) ==
  [b \in {es[i].bytes : i \in DOMAIN es} |->
     es[CHOOSE i \in DOMAIN es : es[i].bytes = b].identifier]

SameRow(e, f) == e.bytes = f.bytes /\ e.identifier = f.identifier

\* new has the rows of es and one more, of b with id, at pos.
GrowsBy(es, new, pos, b, id) ==
  /\ pos \in 1..(Len(es) + 1)
  /\ Len(new) = Len(es) + 1
  /\ new[pos].bytes = b /\ new[pos].identifier = id
  /\ \A i \in 1..Len(es) : SameRow(new[IF i >= pos THEN i + 1 ELSE i], es[i])
  /\ \A i \in 1..(pos - 1) : es[i].bytes < b
  /\ \A i \in pos..Len(es) : es[i].bytes > b

\* new has the rows of es but the one at pos.
ShrinksBy(es, new, pos) ==
  /\ Len(new) = Len(es) - 1
  /\ \A i \in 1..Len(es) : i # pos => SameRow(new[ShiftDown(i, pos)], es[i])

\* new has the rows of es, with the identifier id at pos.
Renames(es, new, pos, id) ==
  /\ Len(new) = Len(es)
  /\ \A i \in 1..Len(es) : /\ new[i].bytes = es[i].bytes
                           /\ new[i].identifier = IF i = pos THEN id ELSE es[i].identifier

\* Every identifier that an entry carries leads back to it through the index.
Leads(n) ==
  \A i \in 1..Len(n.entries) :
    LET id == n.entries[i].identifier IN
    id # NoId => id \in DOMAIN n.identifier_index /\ n.identifier_index[id] = i

\* And the index has no other identifiers.
Exact(n) ==
  /\ Leads(n)
  /\ \A id \in DOMAIN n.identifier_index :
       id # NoId /\ \E i \in 1..Len(n.entries) : n.entries[i].identifier = id

-----------------------------------------------------------------------------
(* Sequences of entries.                                                   *)

\* The identifiers, by position.
LEMMA IdsFacts ==
  ASSUME NEW es \in Seq(Entry), InByteOrder(es)
  PROVE  LET I == IdsOf(es) IN
         /\ I = [b \in DOMAIN I |-> I[b]]
         /\ \A b : b \in DOMAIN I <=> \E i \in 1..Len(es) : es[i].bytes = b
         /\ \A i \in 1..Len(es) : es[i].bytes \in DOMAIN I /\ I[es[i].bytes] = es[i].identifier
         /\ DOMAIN I = DOMAIN AddressesOf(es)
         /\ DOMAIN I \subseteq Contents
         /\ \A b \in DOMAIN I : I[b] \in Identifiers \cup {NoId}
<1> DEFINE I == IdsOf(es)
           D == {es[i].bytes : i \in DOMAIN es}
<1>1. DOMAIN es = 1..Len(es) /\ \A i \in 1..Len(es) : es[i] \in Entry
  OBVIOUS
<1>2. I = [b \in D |-> es[CHOOSE i \in DOMAIN es : es[i].bytes = b].identifier]
  BY DEF IdsOf
<1>3. DOMAIN I = D /\ DOMAIN AddressesOf(es) = D
  BY <1>2 DEF AddressesOf
<1>4. \A i, j \in 1..Len(es) : es[i].bytes = es[j].bytes => i = j
  BY EntriesFacts
<1>5. ASSUME NEW i \in 1..Len(es)
      PROVE  es[i].bytes \in D /\ I[es[i].bytes] = es[i].identifier
  <2>1. es[i].bytes \in D
    BY <1>1
  <2>2. (CHOOSE k \in DOMAIN es : es[k].bytes = es[i].bytes) = i
    BY <1>1, <1>4
  <2> QED BY <1>2, <2>1, <2>2, ZenonT(30)
<1>6. \A b : b \in D <=> \E i \in 1..Len(es) : es[i].bytes = b
  BY <1>1
<1>7. I = [b \in DOMAIN I |-> I[b]]
  BY <1>2
<1>8. ASSUME NEW b \in DOMAIN I
      PROVE  b \in Contents /\ I[b] \in Identifiers \cup {NoId}
  <2>1. PICK i \in 1..Len(es) : es[i].bytes = b
    BY <1>3, <1>6
  <2>2. es[i] \in Entry
    BY <1>1
  <2> QED BY <1>5, <2>1, <2>2 DEF Entry
<1> HIDE DEF I, D
<1> QED BY <1>3, <1>5, <1>6, <1>7, <1>8 DEF I

\* A function with the identifier of each entry is that of IdsOf.
LEMMA IdsAre ==
  ASSUME NEW es \in Seq(Entry), InByteOrder(es), NEW F, F = [b \in DOMAIN F |-> F[b]],
         \A b \in DOMAIN F : \E i \in 1..Len(es) : es[i].bytes = b,
         \A i \in 1..Len(es) : es[i].bytes \in DOMAIN F /\ F[es[i].bytes] = es[i].identifier
  PROVE  IdsOf(es) = F
<1> DEFINE I == IdsOf(es)
<1>1. /\ I = [b \in DOMAIN I |-> I[b]]
      /\ \A b : b \in DOMAIN I <=> \E i \in 1..Len(es) : es[i].bytes = b
      /\ \A i \in 1..Len(es) : es[i].bytes \in DOMAIN I /\ I[es[i].bytes] = es[i].identifier
  BY IdsFacts
<1> HIDE DEF I
<1>2. DOMAIN I = DOMAIN F
  <2>1. ASSUME NEW b \in DOMAIN I PROVE b \in DOMAIN F
    <3>1. PICK i \in 1..Len(es) : es[i].bytes = b
      BY <1>1
    <3> QED BY <3>1
  <2>2. ASSUME NEW b \in DOMAIN F PROVE b \in DOMAIN I
    <3>1. PICK i \in 1..Len(es) : es[i].bytes = b
      OBVIOUS
    <3> QED BY <1>1, <3>1
  <2> QED BY <2>1, <2>2
<1>3. \A b \in DOMAIN I : I[b] = F[b]
  BY <1>1
<1>4. I = F
  BY <1>1, <1>2, <1>3
<1> QED BY <1>4 DEF I

\* The identifiers after an insertion, a removal and a renaming.
LEMMA IdsAfter ==
  ASSUME NEW es \in Seq(Entry), InByteOrder(es), NEW new \in Seq(Entry), InByteOrder(new)
  PROVE  /\ \A pos, b, id : GrowsBy(es, new, pos, b, id) => IdsOf(new) = Put(IdsOf(es), b, id)
         /\ \A pos \in 1..Len(es) :
              ShrinksBy(es, new, pos) => IdsOf(new) = Drop(IdsOf(es), es[pos].bytes)
         /\ \A pos \in 1..Len(es) : \A id :
              Renames(es, new, pos, id) => IdsOf(new) = Put(IdsOf(es), es[pos].bytes, id)
<1> DEFINE I == IdsOf(es)
<1>1. /\ \A b : b \in DOMAIN I <=> \E i \in 1..Len(es) : es[i].bytes = b
      /\ \A i \in 1..Len(es) : es[i].bytes \in DOMAIN I /\ I[es[i].bytes] = es[i].identifier
  BY IdsFacts
<1>2. \A i, j \in 1..Len(es) : es[i].bytes = es[j].bytes => i = j
  BY EntriesFacts
<1>3. Len(es) \in Nat /\ Len(new) \in Nat
  OBVIOUS
<1> HIDE DEF I
<1>4. ASSUME NEW pos, NEW b, NEW id, GrowsBy(es, new, pos, b, id)
      PROVE  IdsOf(new) = Put(I, b, id)
  <2> DEFINE F == Put(I, b, id)
  <2>1. F = [x \in DOMAIN F |-> F[x]] /\ DOMAIN F = DOMAIN I \cup {b}
        /\ F[b] = id /\ \A x \in DOMAIN I : x # b => F[x] = I[x]
    BY DEF Put
  <2> HIDE DEF F
  <2>2. pos \in 1..Len(new)
    BY <1>3, <1>4 DEF GrowsBy
  <2>3. ASSUME NEW i \in 1..Len(es)
        PROVE  es[i].bytes # b
    <3>1. i \in 1..(pos - 1) \/ i \in pos..Len(es)
      BY <1>3, <1>4 DEF GrowsBy
    <3>2. es[i].bytes < b \/ es[i].bytes > b
      BY <1>4, <3>1 DEF GrowsBy
    <3>3. es[i].bytes \in Nat
      BY EntriesFacts
    <3> QED BY <3>2, <3>3
  <2>4. ASSUME NEW x \in DOMAIN F
        PROVE  \E i \in 1..Len(new) : new[i].bytes = x
    <3>1. CASE x = b
      BY <1>4, <2>2, <3>1 DEF GrowsBy
    <3>2. CASE x # b
      <4>1. PICK i \in 1..Len(es) : es[i].bytes = x
        BY <1>1, <2>1, <3>2
      <4> DEFINE k == IF i >= pos THEN i + 1 ELSE i
      <4>2. k \in 1..Len(new) /\ SameRow(new[k], es[i])
        BY <1>3, <1>4 DEF GrowsBy
      <4> QED BY <4>1, <4>2 DEF SameRow
    <3> QED BY <3>1, <3>2
  <2>5. ASSUME NEW k \in 1..Len(new)
        PROVE  new[k].bytes \in DOMAIN F /\ F[new[k].bytes] = new[k].identifier
    <3>1. CASE k = pos
      BY <1>4, <2>1, <3>1 DEF GrowsBy
    <3>2. CASE k # pos
      <4> DEFINE i == IF k > pos THEN k - 1 ELSE k
      <4>1. i \in 1..Len(es) /\ k = IF i >= pos THEN i + 1 ELSE i
        BY <1>3, <1>4, <3>2 DEF GrowsBy
      <4>2. SameRow(new[k], es[i])
        BY <1>4, <4>1 DEF GrowsBy
      <4> HIDE DEF i
      <4> QED BY <1>1, <2>1, <2>3, <4>1, <4>2 DEF SameRow
    <3> QED BY <3>1, <3>2
  <2>6. IdsOf(new) = F
    <3>1. F = [x \in DOMAIN F |-> F[x]]
      BY <2>1
    <3>2. \A x \in DOMAIN F : \E i \in 1..Len(new) : new[i].bytes = x
      BY <2>4
    <3>3. \A k \in 1..Len(new) : new[k].bytes \in DOMAIN F /\ F[new[k].bytes] = new[k].identifier
      BY <2>5
    <3> QED BY <3>1, <3>2, <3>3, IdsAre
  <2> QED BY <2>6 DEF F
<1>5. ASSUME NEW pos \in 1..Len(es), ShrinksBy(es, new, pos)
      PROVE  IdsOf(new) = Drop(I, es[pos].bytes)
  <2> DEFINE b == es[pos].bytes
             F == Drop(I, b)
  <2>1. F = [x \in DOMAIN F |-> F[x]] /\ DOMAIN F = DOMAIN I \ {b}
        /\ \A x \in DOMAIN I : x # b => F[x] = I[x]
    BY DEF Drop
  <2> HIDE DEF F
  <2>2. ASSUME NEW x \in DOMAIN F
        PROVE  \E i \in 1..Len(new) : new[i].bytes = x
    <3>1. PICK i \in 1..Len(es) : es[i].bytes = x
      BY <1>1, <2>1
    <3>2. i # pos
      BY <2>1, <3>1
    <3>3. ShiftDown(i, pos) \in 1..Len(new) /\ SameRow(new[ShiftDown(i, pos)], es[i])
      BY <1>3, <1>5, <3>2 DEF ShrinksBy, ShiftDown
    <3> QED BY <3>1, <3>3 DEF SameRow
  <2>3. ASSUME NEW k \in 1..Len(new)
        PROVE  new[k].bytes \in DOMAIN F /\ F[new[k].bytes] = new[k].identifier
    <3> DEFINE i == IF k >= pos THEN k + 1 ELSE k
    <3>1. i \in 1..Len(es) /\ i # pos /\ k = ShiftDown(i, pos)
      BY <1>3, <1>5 DEF ShrinksBy, ShiftDown
    <3>2. SameRow(new[k], es[i])
      BY <1>5, <3>1 DEF ShrinksBy
    <3> HIDE DEF i
    <3>3. es[i].bytes # b
      BY <1>2, <3>1
    <3> QED BY <1>1, <2>1, <3>1, <3>2, <3>3 DEF SameRow
  <2>4. IdsOf(new) = F
    <3>1. F = [x \in DOMAIN F |-> F[x]]
      BY <2>1
    <3>2. \A x \in DOMAIN F : \E i \in 1..Len(new) : new[i].bytes = x
      BY <2>2
    <3>3. \A k \in 1..Len(new) : new[k].bytes \in DOMAIN F /\ F[new[k].bytes] = new[k].identifier
      BY <2>3
    <3> QED BY <3>1, <3>2, <3>3, IdsAre
  <2> QED BY <2>4 DEF F
<1>6. ASSUME NEW pos \in 1..Len(es), NEW id, Renames(es, new, pos, id)
      PROVE  IdsOf(new) = Put(I, es[pos].bytes, id)
  <2> DEFINE b == es[pos].bytes
             F == Put(I, b, id)
  <2>1. F = [x \in DOMAIN F |-> F[x]] /\ DOMAIN F = DOMAIN I \cup {b}
        /\ F[b] = id /\ \A x \in DOMAIN I : x # b => F[x] = I[x]
    BY DEF Put
  <2> HIDE DEF F
  <2>2. ASSUME NEW x \in DOMAIN F
        PROVE  \E i \in 1..Len(new) : new[i].bytes = x
    BY <1>1, <1>6, <2>1 DEF Renames
  <2>3. ASSUME NEW k \in 1..Len(new)
        PROVE  new[k].bytes \in DOMAIN F /\ F[new[k].bytes] = new[k].identifier
    BY <1>1, <1>2, <1>6, <2>1 DEF Renames
  <2>4. IdsOf(new) = F
    <3>1. F = [x \in DOMAIN F |-> F[x]]
      BY <2>1
    <3>2. \A x \in DOMAIN F : \E i \in 1..Len(new) : new[i].bytes = x
      BY <2>2
    <3>3. \A k \in 1..Len(new) : new[k].bytes \in DOMAIN F /\ F[new[k].bytes] = new[k].identifier
      BY <2>3
    <3> QED BY <3>1, <3>2, <3>3, IdsAre
  <2> QED BY <2>4 DEF F
<1> QED BY <1>4, <1>5, <1>6 DEF I

-----------------------------------------------------------------------------
(* What the operations do.                                                 *)

\* r is n with a new member b.
IsInsertion(n, r, b, id) ==
  /\ \A i \in 1..Len(n.entries) : n.entries[i].bytes # b
  /\ id \notin DOMAIN n.identifier_index
  /\ \E pos : /\ GrowsBy(n.entries, r.entries, pos, b, id)
              /\ r.identifier_index = IndexAfterInsert(n, pos, id)

\* r is n with the identifier id # NoId, which is free or its own already, at the i-th entry.
IsNaming(n, r, i, id) ==
  /\ i \in 1..Len(n.entries)
  /\ id \in Identifiers
  /\ id \in DOMAIN n.identifier_index => n.identifier_index[id] = i
  /\ Renames(n.entries, r.entries, i, id)
  /\ r.identifier_index = Put(n.identifier_index, id, i)

\* r is n with no identifier at the i-th entry.
IsUnnaming(n, r, i) ==
  /\ i \in 1..Len(n.entries)
  /\ Renames(n.entries, r.entries, i, NoId)
  /\ r.identifier_index = Drop(n.identifier_index, n.entries[i].identifier)

\* r is n without the entry at idx.
IsRemoval(n, r, idx) ==
  /\ idx \in 1..Len(n.entries)
  /\ ShrinksBy(n.entries, r.entries, idx)
  /\ r.identifier_index = IndexAfterRemove(n, idx)

\* The failures an operation on a sound neighborhood may answer with.
Refusals == Failures \ {"Panic"}

\* The types of a sound neighborhood's entries and index.
LEMMA SoundTypes ==
  ASSUME NEW n, Sound(n)
  PROVE  /\ n.entries \in Seq(Entry) /\ InByteOrder(n.entries)
         /\ DOMAIN n.entries = 1..Len(n.entries) /\ Len(n.entries) \in Nat
         /\ \A i \in 1..Len(n.entries) : n.entries[i] \in Entry
         /\ DOMAIN n.identifier_index \subseteq Identifiers
         /\ n.identifier_index \in [DOMAIN n.identifier_index -> Nat]
         /\ NoId \notin DOMAIN n.identifier_index
BY SoundFacts, IdentifierAssumption DEF Sound, IsNeighborhood

\* apply_insert inserts one row and changes no other.
LEMMA ApplyInserts ==
  ASSUME NEW n, Sound(n), NEW b \in Contents, b \notin DOMAIN AddressesOf(n.entries),
         NEW id \in Identifiers \cup {NoId}, id \notin DOMAIN n.identifier_index,
         NEW pos \in InsertPositions(n, b), NEW plan, PlanFits(n, b, plan)
  PROVE  /\ ApplyInsert(n, b, id, pos, plan).status = "Inserted"
         /\ IsInsertion(n, ApplyInsert(n, b, id, pos, plan).nb, b, id)
<1> DEFINE es    == n.entries
           m     == plan.member
           end   == plan.base + plan.shared + 1
           moved == Prefix(es[m].bytes, end)
           entry == [address |-> Prefix(b, end), bytes |-> b, identifier |-> id]
           old   == IF m = Vacant THEN es ELSE [es EXCEPT ![m].address = moved]
           new   == InsertAt(old, pos, entry)
           answer == ApplyInsert(n, b, id, pos, plan)
<1>1. /\ answer.status = "Inserted"
      /\ answer.nb.entries = new
      /\ answer.nb.identifier_index = IndexAfterInsert(n, pos, id)
  BY DEF ApplyInsert, Answer, EntriesAfterInsert
<1>2. /\ pos \in 1..(Len(es) + 1) /\ Prefix(b, end) \in Address
      /\ m # Vacant => moved \in Address
  <2> DEFINE grown == EntriesAfterInsert(n, plan, moved, pos, entry)
  <2>1. /\ pos \in 1..(Len(n.entries) + 1)
        /\ Prefix(b, end) \in Address
        /\ m # Vacant => moved \in Address
        /\ grown \in Seq(Entry) /\ Len(grown) = Len(n.entries) + 1
        /\ InByteOrder(grown)
        /\ AddressesOf(grown) = Grown(n, b, plan)
    BY EntriesGrow, SMTT(40)
  <2> QED BY <2>1
<1>3. /\ es \in Seq(Entry) /\ InByteOrder(es) /\ Len(es) \in Nat
  BY SoundTypes
<1>4. m \in 1..Len(es) \cup {Vacant}
  BY DEF PlanFits
<1>5. entry \in Entry /\ entry.bytes = b /\ entry.identifier = id
  BY <1>2 DEF Entry
<1>6. \A i \in 1..Len(es) : es[i].bytes # b
  BY <1>3, EntriesFacts
<1>7. /\ \A i \in 1..(pos - 1) : es[i].bytes < b
      /\ \A i \in pos..Len(es) : es[i].bytes > b
  BY DEF InsertPositions
<1> HIDE DEF es, m, moved, end, entry
<1>8. /\ old \in Seq(Entry) /\ Len(old) = Len(es)
      /\ \A i \in 1..Len(es) : SameRow(old[i], es[i])
  <2>1. CASE m = Vacant
    BY <1>3, <2>1 DEF SameRow
  <2>2. CASE m # Vacant
    <3> DEFINE e2 == [es EXCEPT ![m].address = moved]
    <3>1. old = e2 /\ m \in 1..Len(es) /\ moved \in Address
      BY <1>2, <1>4, <2>2
    <3>2. /\ e2 \in Seq(Entry) /\ Len(e2) = Len(es)
          /\ \A i \in 1..Len(es) : e2[i].bytes = es[i].bytes /\ e2[i].identifier = es[i].identifier
      BY <1>3, <3>1, AddressesOfMove, SMTT(30)
    <3> HIDE DEF e2, old
    <3> QED BY <3>1, <3>2 DEF SameRow
  <2> QED BY <2>1, <2>2
<1> HIDE DEF old
<1>9. /\ Len(new) = Len(old) + 1 /\ new[pos] = entry
      /\ \A i \in 1..Len(old) : new[IF i >= pos THEN i + 1 ELSE i] = old[i]
  <2>1. pos \in 1..(Len(old) + 1)
    BY <1>2, <1>8
  <2> QED BY <1>5, <1>8, <2>1, InsertAtProperties
<1> HIDE DEF new
<1>10. GrowsBy(es, new, pos, b, id)
  <2>1. \A i \in 1..Len(es) : SameRow(new[IF i >= pos THEN i + 1 ELSE i], es[i])
    BY <1>8, <1>9
  <2> QED BY <1>2, <1>5, <1>7, <1>8, <1>9, <2>1 DEF GrowsBy
<1> HIDE DEF answer
<1>11. IsInsertion(n, answer.nb, b, id)
  BY <1>1, <1>6, <1>10 DEF IsInsertion, es
<1> QED BY <1>1, <1>11 DEF answer

\* insert refuses, or inserts a row, or finds the member there and names it at most.
THEOREM InsertEffects ==
  ASSUME NEW n, Sound(n), NEW b \in Contents, NEW id \in Identifiers \cup {NoId},
         NEW a \in InsertInner(n, b, id)
  PROVE  \/ a.status \in Refusals /\ a.nb = n /\ a.changes = <<>>
         \/ a.status = "Inserted" /\ IsInsertion(n, a.nb, b, id)
         \/ /\ a.status = "Existing" /\ a.changes = <<>>
            /\ \E i \in 1..Len(n.entries) :
                 /\ n.entries[i].bytes = b
                 /\ \/ a.nb = n /\ id \in {NoId, n.entries[i].identifier}
                    \/ /\ n.entries[i].identifier = NoId /\ id \notin DOMAIN n.identifier_index
                       /\ IsNaming(n, a.nb, i, id)
<1> DEFINE A == AddressesOf(n.entries)
<1>1. /\ n.entries \in Seq(Entry) /\ InByteOrder(n.entries)
      /\ DOMAIN n.entries = 1..Len(n.entries) /\ Len(n.entries) \in Nat
  BY SoundTypes
<1>2. CASE Find(n, b) # {}
  <2>1. PICK i \in Find(n, b) : a = InsertExisting(n, i, id)
    BY <1>2 DEF InsertInner
  <2>2. i \in 1..Len(n.entries) /\ n.entries[i].bytes = b
    BY <1>1 DEF Find
  <2>3. CASE id = NoId \/ id = n.entries[i].identifier
    <3>1. a = Answer(n, "Existing", n.entries[i].address, <<>>)
      BY <2>1, <2>3 DEF InsertExisting
    <3>2. a.nb = n /\ a.status = "Existing" /\ a.changes = <<>>
      BY <3>1 DEF Answer
    <3> QED BY <2>2, <2>3, <3>2
  <2>4. CASE ~(id = NoId \/ id = n.entries[i].identifier)
    <3>1. \/ a = Refused(n, "ConflictingIdentifierForContent")
          \/ a = Refused(n, "IdentifierAlreadyAssigned")
          \/ /\ n.entries[i].identifier = NoId /\ id \notin DOMAIN n.identifier_index
             /\ a = Answer(Assign(n, i, id), "Existing", n.entries[i].address, <<>>)
      BY <2>1, <2>4 DEF InsertExisting
    <3>2. CASE \/ a = Refused(n, "ConflictingIdentifierForContent")
               \/ a = Refused(n, "IdentifierAlreadyAssigned")
      BY <3>2 DEF Refused, Answer, Refusals, Failures
    <3>3. CASE /\ n.entries[i].identifier = NoId /\ id \notin DOMAIN n.identifier_index
               /\ a = Answer(Assign(n, i, id), "Existing", n.entries[i].address, <<>>)
      <4> DEFINE r == Assign(n, i, id)
      <4>1. a.nb = r /\ a.status = "Existing" /\ a.changes = <<>>
        BY <3>3 DEF Answer
      <4>2. r.entries = [n.entries EXCEPT ![i].identifier = id]
            /\ r.identifier_index = Put(n.identifier_index, id, i)
        BY DEF Assign, Sound, IsNeighborhood
      <4>3. Renames(n.entries, r.entries, i, id)
        BY <1>1, <2>2, <4>2 DEF Renames
      <4>4. IsNaming(n, r, i, id)
        BY <2>2, <2>4, <3>3, <4>2, <4>3 DEF IsNaming
      <4> HIDE DEF r
      <4> QED BY <2>2, <3>3, <4>1, <4>4
    <3> QED BY <3>1, <3>2, <3>3
  <2> QED BY <2>3, <2>4
<1>3. CASE Find(n, b) = {} /\ id \in DOMAIN n.identifier_index
  <2>1. a = Refused(n, "IdentifierAlreadyAssigned")
    BY <1>3 DEF InsertInner
  <2> QED BY <2>1 DEF Refused, Answer, Refusals, Failures
<1>4. CASE Find(n, b) = {} /\ id \notin DOMAIN n.identifier_index
  <2>1. PICK pos \in InsertPositions(n, b), d \in WalkEnds(n, b) :
          a \in InsertNew(n, b, id, pos, d)
    BY <1>4 DEF InsertInner
  <2>2. b \notin DOMAIN A
    <3> SUFFICES ASSUME b \in DOMAIN A PROVE FALSE
      OBVIOUS
    <3>1. PICK i \in 1..Len(n.entries) : n.entries[i].bytes = b
      BY <1>1, EntriesFacts
    <3>2. i \in Find(n, b)
      BY <1>1, <3>1 DEF Find
    <3> QED BY <1>4, <3>2
  <2> DEFINE m == n.trie[Prefix(b, d)].content
             shared == SharedAtoms(b, n.entries[m].bytes, d)
             leaf == [base |-> d, member |-> Vacant, shared |-> 0]
             split(j) == [base |-> d, member |-> m, shared |-> j]
  <2> HIDE DEF A
  <2>3. CASE m = Vacant
    <3>1. a = ApplyInsert(n, b, id, pos, leaf)
      BY <2>1, <2>3 DEF InsertNew
    <3>2. PlanFits(n, b, leaf)
      BY <2>2, <2>3, LeafFits DEF A
    <3> HIDE DEF leaf
    <3> QED BY <1>4, <2>2, <3>1, <3>2, ApplyInserts DEF A
  <2>4. CASE m # Vacant
    <3>1. m \in DOMAIN n.entries
      BY <1>1, <2>4, WalkFacts
    <3>2. \/ a = Refused(n, "ContentsNotDistinguishable")
          \/ \E j \in shared : a = ApplyInsert(n, b, id, pos, split(j))
      BY <2>1, <2>4, <3>1 DEF InsertNew
    <3>3. CASE a = Refused(n, "ContentsNotDistinguishable")
      BY <3>3 DEF Refused, Answer, Refusals, Failures
    <3>4. ASSUME NEW j \in shared, a = ApplyInsert(n, b, id, pos, split(j))
          PROVE  a.status = "Inserted" /\ IsInsertion(n, a.nb, b, id)
      <4>1. PlanFits(n, b, split(j))
        BY <2>2, <2>4, SplitFits DEF A
      <4> HIDE DEF split
      <4> QED BY <1>4, <2>2, <3>4, <4>1, ApplyInserts DEF A
    <3> QED BY <3>2, <3>3, <3>4
  <2> QED BY <2>3, <2>4
<1> QED BY <1>2, <1>3, <1>4

\* set_identifier refuses, or gives or takes the identifier of one member.
THEOREM SetIdentifierEffects ==
  ASSUME NEW n, Sound(n), NEW b \in Contents, NEW id \in Identifiers \cup {NoId},
         NEW a \in SetIdentifierInner(n, b, id)
  PROVE  /\ a.changes = <<>>
         /\ \/ a.status \in Refusals /\ a.nb = n
            \/ /\ a.status = "Ok"
               /\ \E i \in 1..Len(n.entries) :
                    /\ n.entries[i].bytes = b
                    /\ IF id = NoId THEN IsUnnaming(n, a.nb, i) ELSE IsNaming(n, a.nb, i, id)
<1>1. /\ n.entries \in Seq(Entry) /\ DOMAIN n.entries = 1..Len(n.entries)
  BY SoundTypes
<1>2. CASE Find(n, b) = {}
  <2>1. a = Refused(n, "ContentNotFound")
    BY <1>2 DEF SetIdentifierInner
  <2> QED BY <2>1 DEF Refused, Answer, Refusals, Failures
<1>3. CASE Find(n, b) # {}
  <2>1. PICK i \in Find(n, b) : a = SetIdentifierAt(n, i, id)
    BY <1>3 DEF SetIdentifierInner
  <2>2. i \in 1..Len(n.entries) /\ n.entries[i].bytes = b
    BY <1>1 DEF Find
  <2>3. CASE id # NoId
    <3>1. CASE id \in DOMAIN n.identifier_index /\ n.identifier_index[id] # i
      <4>1. a = Refused(n, "IdentifierAlreadyAssigned")
        BY <2>1, <2>3, <3>1 DEF SetIdentifierAt
      <4> QED BY <4>1 DEF Refused, Answer, Refusals, Failures
    <3>2. CASE ~(id \in DOMAIN n.identifier_index /\ n.identifier_index[id] # i)
      <4> DEFINE r == Assign(n, i, id)
      <4>1. a.nb = r /\ a.status = "Ok" /\ a.changes = <<>>
        BY <2>1, <2>3, <3>2 DEF Answer, SetIdentifierAt
      <4>2. r.entries = [n.entries EXCEPT ![i].identifier = id]
            /\ r.identifier_index = Put(n.identifier_index, id, i)
        BY DEF Assign, Sound, IsNeighborhood
      <4>3. Renames(n.entries, r.entries, i, id)
        BY <1>1, <2>2, <4>2 DEF Renames
      <4>4. IsNaming(n, r, i, id)
        BY <2>2, <2>3, <3>2, <4>2, <4>3 DEF IsNaming
      <4> HIDE DEF r
      <4> QED BY <2>2, <2>3, <4>1, <4>4
    <3> QED BY <3>1, <3>2
  <2>4. CASE id = NoId
    <3> DEFINE held == n.entries[i].identifier
               r == [n EXCEPT !.entries = [@ EXCEPT ![i].identifier = NoId],
                              !.identifier_index = Drop(@, held)]
    <3>1. a.nb = r /\ a.status = "Ok" /\ a.changes = <<>>
      BY <2>1, <2>4 DEF Answer, SetIdentifierAt
    <3>2. r.entries = [n.entries EXCEPT ![i].identifier = NoId]
          /\ r.identifier_index = Drop(n.identifier_index, held)
      BY DEF Sound, IsNeighborhood
    <3>3. Renames(n.entries, r.entries, i, NoId)
      BY <1>1, <2>2, <3>2 DEF Renames
    <3>4. IsUnnaming(n, r, i)
      BY <2>2, <3>2, <3>3 DEF IsUnnaming
    <3> HIDE DEF r
    <3> QED BY <2>2, <2>4, <3>1, <3>4
  <2> QED BY <2>3, <2>4
<1> QED BY <1>2, <1>3

\* The rows and the index after remove_inner's eviction of the entry at idx, from a
\* neighborhood with the same rows and index.
LEMMA EvictRemoves ==
  ASSUME NEW n, Sound(n), NEW idx \in 1..Len(n.entries), NEW m, m.entries \in Seq(Entry),
         Len(m.entries) = Len(n.entries), m.identifier_index = n.identifier_index,
         \A i \in 1..Len(n.entries) : SameRow(m.entries[i], n.entries[i])
  PROVE  IsRemoval(n, Evict(m, idx), idx)
<1> DEFINE es == n.entries
           new == RemoveAt(m.entries, idx)
<1>1. Evict(m, idx).entries = new /\ Evict(m, idx).identifier_index = IndexAfterRemove(m, idx)
  BY DEF Evict
<1>2. IndexAfterRemove(m, idx) = IndexAfterRemove(n, idx)
  BY DEF IndexAfterRemove, SameRow
<1>3. /\ Len(new) = Len(m.entries) - 1
      /\ \A i \in 1..Len(m.entries) : i # idx =>
           new[IF i > idx THEN i - 1 ELSE i] = m.entries[i]
  BY RemoveAtProperties
<1> HIDE DEF new
<1>4. ShrinksBy(es, new, idx)
  BY <1>3 DEF ShrinksBy, ShiftDown
<1> HIDE DEF es
<1> QED BY <1>1, <1>2, <1>4 DEF IsRemoval, es

\* The end of remove_inner changes addresses only.
LEMMA SettleKeepsRows ==
  ASSUME NEW n, n.entries \in Seq(Entry), NEW address, NEW changes,
         NEW a, a = Settle(n, address, changes)
  PROVE  /\ a.status = "Removed"
         /\ a.nb.identifier_index = n.identifier_index
         /\ Len(a.nb.entries) = Len(n.entries)
         /\ \A i \in 1..Len(n.entries) : SameRow(a.nb.entries[i], n.entries[i])
<1> DEFINE es == n.entries
<1>0. Len(es) \in Nat
  OBVIOUS
<1>1. CASE Len(es) = 0
  <2>1. a.status = "Removed" /\ a.nb = [New EXCEPT !.identifier_index = n.identifier_index]
    BY <1>1 DEF Settle, Answer
  <2>2. a.nb.entries = <<>> /\ a.nb.identifier_index = n.identifier_index
    BY <2>1 DEF New
  <2> QED BY <1>1, <2>1, <2>2
<1>2. CASE Len(es) = 1
  <2> DEFINE first == Prefix(es[1].bytes, 1)
  <2>1. a.status = "Removed" /\ a.nb = Reseat(n)
    BY <1>2 DEF Settle, Answer
  <2>2. a.nb.entries = [es EXCEPT ![1].address = first]
        /\ a.nb.identifier_index = n.identifier_index
    BY <2>1 DEF Reseat
  <2>3. es[1] \in Entry
    BY <1>2
  <2> HIDE DEF first
  <2> QED BY <1>2, <2>1, <2>2, <2>3 DEF SameRow, Entry
<1>3. CASE Len(es) # 0 /\ Len(es) # 1
  <2>1. a.status = "Removed" /\ a.nb = n
    BY <1>3 DEF Settle, Answer
  <2> QED BY <2>1 DEF SameRow
<1> QED BY <1>1, <1>2, <1>3

\* remove_inner takes out the entry it is asked to, and never panics.
THEOREM RemoveEffects ==
  ASSUME NEW n, Sound(n), NEW idx \in 1..Len(n.entries), NEW answer \in RemoveInner(n, idx)
  PROVE  answer.status = "Removed" /\ IsRemoval(n, answer.nb, idx)
<1> DEFINE es == n.entries
           a == es[idx].address
           T == Detach(n, a)
           freed  == Append(n.free_nodes, n.trie[a].slot)
           levels == CollapseLevels(T, a)
<1>1. /\ es \in Seq(Entry) /\ InByteOrder(es) /\ DOMAIN es = 1..Len(es)
      /\ es[idx] \in Entry
  BY SoundTypes
<1>2. \A k \in 1..Len(a) : SubSeq(a, 1, k) \in DOMAIN n.trie
  <2> DEFINE A == AddressesOf(es)
  <2>1. /\ DOMAIN n.trie = Nodes(A) /\ a \in Nodes(A) /\ IsAddressMap(A) /\ a \in Seq(Atoms)
    BY <1>1, SoundFacts DEF Sound, IsTree, Entry, Address
  <2> HIDE DEF A, a
  <2>2. ASSUME NEW k \in 1..Len(a) PROVE SubSeq(a, 1, k) \in DOMAIN n.trie
    <3>1. SubSeq(a, 1, k) \in Seq(Atoms) /\ IsPrefix(SubSeq(a, 1, k), a)
      BY <2>1, SubSeqIsPrefix
    <3> QED BY <2>1, <3>1, NodesBelow
  <2> QED BY <2>2
<1>3. \/ /\ levels = {}
         /\ answer = Settle(Evict([n EXCEPT !.trie = T, !.free_nodes = freed], idx), a, <<>>)
      \/ /\ levels # {}
         /\ \E marker \in MarkersBelow(T, SubSeq(a, 1, Max(levels))) :
              answer = CollapseOnto(n, T, freed, idx, levels, marker)
  <2>1. idx \in DOMAIN n.entries
    BY <1>1
  <2> HIDE DEF T, a, freed, levels
  <2>2. ~ \E k \in 1..Len(n.entries[idx].address) :
            SubSeq(n.entries[idx].address, 1, k) \notin DOMAIN n.trie
    BY <1>2 DEF a
  <2> QED BY <2>1, <2>2 DEF RemoveInner, T, a, freed, levels
<1>4. ASSUME NEW m, m.entries \in Seq(Entry),
             Len(m.entries) = Len(es), m.identifier_index = n.identifier_index,
             \A i \in 1..Len(es) : SameRow(m.entries[i], es[i]),
             NEW address, NEW changes, answer = Settle(Evict(m, idx), address, changes)
      PROVE  answer.status = "Removed" /\ IsRemoval(n, answer.nb, idx)
  <2> DEFINE e == Evict(m, idx)
  <2>1. IsRemoval(n, e, idx)
    BY <1>4, EvictRemoves
  <2>2. e.entries \in Seq(Entry)
    BY <1>4, RemoveAtProperties DEF Evict
  <2> HIDE DEF e
  <2>3. /\ answer.status = "Removed"
        /\ answer.nb.identifier_index = e.identifier_index
        /\ Len(answer.nb.entries) = Len(e.entries)
        /\ \A i \in 1..Len(e.entries) : SameRow(answer.nb.entries[i], e.entries[i])
    BY <1>4, <2>2, SettleKeepsRows DEF e
  <2>4. \A i \in 1..Len(es) : i # idx => ShiftDown(i, idx) \in 1..Len(e.entries)
    BY <1>1, <2>1 DEF IsRemoval, ShrinksBy, ShiftDown
  <2>5. ShrinksBy(es, answer.nb.entries, idx)
    BY <2>1, <2>3, <2>4 DEF IsRemoval, ShrinksBy, SameRow
  <2> QED BY <2>1, <2>3, <2>5 DEF IsRemoval
<1>5. CASE /\ levels = {}
           /\ answer = Settle(Evict([n EXCEPT !.trie = T, !.free_nodes = freed], idx), a, <<>>)
  <2> DEFINE m == [n EXCEPT !.trie = T, !.free_nodes = freed]
  <2> HIDE DEF T, a, freed, levels
  <2>1. m.entries = es /\ m.identifier_index = n.identifier_index
    BY DEF Sound, IsNeighborhood
  <2>2. answer = Settle(Evict(m, idx), a, <<>>)
    BY <1>5
  <2> HIDE DEF m
  <2>3. \A i \in 1..Len(es) : SameRow(m.entries[i], es[i])
    BY <2>1 DEF SameRow
  <2> QED BY <1>1, <1>4, <2>1, <2>2, <2>3
<1>6. ASSUME levels # {}, NEW marker \in MarkersBelow(T, SubSeq(a, 1, Max(levels))),
             answer = CollapseOnto(n, T, freed, idx, levels, marker)
      PROVE  answer.status = "Removed" /\ IsRemoval(n, answer.nb, idx)
  <2> DEFINE m == T[marker].content
             t == SubSeq(a, 1, Min(levels))
             e2 == [es EXCEPT ![m].address = t]
             r == [n EXCEPT !.entries = [@ EXCEPT ![m].address = t],
                    !.trie = Collapse(T, a, Min(levels), m),
                    !.free_nodes = freed
                      \o CollapsedSlots(T, a, Min(levels), Max(levels), marker),
                    !.entry_nodes = [@ EXCEPT ![m] = T[t].slot]]
  <2>1. levels = Lonely(AddressesOf(es), es[idx].bytes)
    BY LevelsAreLonely
  <2>2. IsCollapse(n, idx, AddressesOf(es), es[idx].bytes, a, T, marker, m,
                   Min(levels), Max(levels), t, SubSeq(a, 1, Max(levels)))
    <3> HIDE DEF levels
    <3> QED BY <1>6, <2>1, CollapseFacts
  <2>3. m \in 1..Len(es) /\ t \in Address
    <3> HIDE DEF m, t, T, a, levels
    <3> QED BY <2>2 DEF IsCollapse
  <2>4. answer = Settle(Evict(r, idx), a,
                        CollapseChanges(es[m], a, Min(levels), Max(levels)))
    <3>1. m \in DOMAIN n.entries
      BY <1>1, <2>3
    <3> HIDE DEF levels, T, freed
    <3> QED BY <1>6, <3>1 DEF CollapseOnto
  <2>5. /\ e2 \in Seq(Entry) /\ Len(e2) = Len(es)
        /\ \A i \in 1..Len(es) : e2[i].bytes = es[i].bytes /\ e2[i].identifier = es[i].identifier
    <3> HIDE DEF m, t, es, a
    <3>1. /\ e2 \in Seq(Entry) /\ Len(e2) = Len(es)
          /\ \A i \in 1..Len(es) : /\ e2[i].bytes = es[i].bytes
                                   /\ e2[i].identifier = es[i].identifier
                                   /\ e2[i].address = IF i = m THEN t ELSE es[i].address
          /\ InByteOrder(e2)
          /\ AddressesOf(e2) = Put(AddressesOf(es), es[m].bytes, t)
      BY <1>1, <2>3, AddressesOfMove
    <3> QED BY <3>1
  <2>6. r.entries = e2 /\ r.identifier_index = n.identifier_index
    <3> HIDE DEF m, t, T, freed, levels, a
    <3> QED BY DEF Sound, IsNeighborhood
  <2> HIDE DEF r, e2
  <2>7. \A i \in 1..Len(es) : SameRow(r.entries[i], es[i])
    BY <2>5, <2>6 DEF SameRow
  <2> QED BY <1>4, <2>4, <2>5, <2>6, <2>7
<1> QED BY <1>3, <1>5, <1>6

-----------------------------------------------------------------------------
(* The identifier index under each of them.                                *)

\* An insertion shifts the index as it shifts the entries.
LEMMA InsertionLeads ==
  ASSUME NEW n, Sound(n), Leads(n), NEW r, NEW b, NEW id \in Identifiers \cup {NoId},
         IsInsertion(n, r, b, id)
  PROVE  Leads(r) /\ (Exact(n) => Exact(r))
<1> DEFINE es == n.entries
           ix == n.identifier_index
           jx == r.identifier_index
<1>1. PICK pos : GrowsBy(es, r.entries, pos, b, id) /\ jx = IndexAfterInsert(n, pos, id)
  BY DEF IsInsertion
<1>2. /\ Len(es) \in Nat /\ NoId \notin DOMAIN ix /\ \A x \in DOMAIN ix : ix[x] \in Nat
      /\ id \notin DOMAIN ix
  BY SoundTypes DEF IsInsertion
<1> DEFINE Up(i) == IF i >= pos THEN i + 1 ELSE i
<1>3. /\ pos \in 1..(Len(es) + 1) /\ Len(r.entries) = Len(es) + 1
      /\ r.entries[pos].identifier = id
      /\ \A i \in 1..Len(es) : r.entries[Up(i)].identifier = es[i].identifier
  BY <1>1 DEF GrowsBy, SameRow
<1>4. /\ DOMAIN jx = DOMAIN ix \cup (IF id = NoId THEN {} ELSE {id})
      /\ id # NoId => jx[id] = pos
      /\ \A x \in DOMAIN ix : jx[x] = Up(ix[x])
  BY <1>1, <1>2 DEF IndexAfterInsert, ShiftUp, PLACEHOLDER, Put
<1>5. \A k \in 1..Len(r.entries) : k # pos => \E i \in 1..Len(es) : k = Up(i)
  <2> SUFFICES ASSUME NEW k \in 1..Len(r.entries), k # pos
               PROVE  \E i \in 1..Len(es) : k = Up(i)
    OBVIOUS
  <2> DEFINE i == IF k > pos THEN k - 1 ELSE k
  <2>1. i \in 1..Len(es) /\ k = Up(i)
    BY <1>2, <1>3
  <2> QED BY <2>1
<1>6. \A i \in 1..Len(es) : es[i].identifier # NoId =>
        es[i].identifier \in DOMAIN ix /\ ix[es[i].identifier] = i
  BY DEF Leads
<1>7. \A i \in 1..Len(es) : Up(i) \in 1..Len(r.entries)
  BY <1>2, <1>3
<1> HIDE DEF ix, jx, es, Up
<1>8. ASSUME NEW k \in 1..Len(r.entries), r.entries[k].identifier # NoId
      PROVE  /\ r.entries[k].identifier \in DOMAIN jx
             /\ jx[r.entries[k].identifier] = k
  <2>1. CASE k = pos
    BY <1>3, <1>4, <1>8, <2>1
  <2>2. CASE k # pos
    BY <1>3, <1>4, <1>5, <1>6, <1>8, <2>2
  <2> QED BY <2>1, <2>2
<1>9. Leads(r)
  BY <1>8 DEF Leads, jx
<1>10. ASSUME Exact(n) PROVE Exact(r)
  <2>1. \A x \in DOMAIN ix : x # NoId /\ \E i \in 1..Len(es) : es[i].identifier = x
    BY <1>10 DEF Exact, ix, es
  <2>2. ASSUME NEW x \in DOMAIN jx
        PROVE  x # NoId /\ \E k \in 1..Len(r.entries) : r.entries[k].identifier = x
    <3>1. CASE x \in DOMAIN ix
      <4>1. x # NoId
        BY <2>1, <3>1
      <4>2. PICK i \in 1..Len(es) : es[i].identifier = x
        BY <2>1, <3>1
      <4>3. r.entries[Up(i)].identifier = x /\ Up(i) \in 1..Len(r.entries)
        BY <1>3, <1>7, <4>2
      <4> QED BY <4>1, <4>3
    <3>2. CASE x \notin DOMAIN ix
      <4>1. id # NoId /\ x = id
        BY <1>4, <3>2
      <4>2. pos \in 1..Len(r.entries)
        BY <1>2, <1>3
      <4> QED BY <1>3, <4>1, <4>2
    <3> QED BY <3>1, <3>2
  <2> QED BY <1>9, <2>2 DEF Exact, jx
<1> QED BY <1>9, <1>10

\* An identifier given leads to the entry; where it replaces another, that one stays in
\* the index without an entry.
LEMMA NamingLeads ==
  ASSUME NEW n, Sound(n), Leads(n), NEW r, NEW i, NEW id, IsNaming(n, r, i, id)
  PROVE  Leads(r) /\ (Exact(n) /\ n.entries[i].identifier \in {NoId, id} => Exact(r))
<1> DEFINE es == n.entries
           ix == n.identifier_index
           jx == r.identifier_index
<1>1. /\ i \in 1..Len(es) /\ id # NoId
      /\ id \in DOMAIN ix => ix[id] = i
      /\ Len(r.entries) = Len(es)
      /\ \A k \in 1..Len(es) : r.entries[k].identifier = IF k = i THEN id ELSE es[k].identifier
  BY IdentifierAssumption DEF IsNaming, Renames
<1>2. /\ DOMAIN jx = DOMAIN ix \cup {id} /\ jx[id] = i
      /\ \A x \in DOMAIN ix : x # id => jx[x] = ix[x]
  BY DEF IsNaming, Put
<1>3. \A k \in 1..Len(es) : es[k].identifier # NoId =>
        es[k].identifier \in DOMAIN ix /\ ix[es[k].identifier] = k
  BY DEF Leads
<1> HIDE DEF ix, jx, es
<1>4. ASSUME NEW k \in 1..Len(r.entries), r.entries[k].identifier # NoId
      PROVE  /\ r.entries[k].identifier \in DOMAIN jx
             /\ jx[r.entries[k].identifier] = k
  BY <1>1, <1>2, <1>3, <1>4
<1>5. Leads(r)
  BY <1>4 DEF Leads, jx
<1>6. ASSUME Exact(n), es[i].identifier \in {NoId, id} PROVE Exact(r)
  <2>1. \A x \in DOMAIN ix : x # NoId /\ \E k \in 1..Len(es) : es[k].identifier = x
    BY <1>6 DEF Exact, ix, es
  <2>2. \A x \in DOMAIN jx : x # NoId /\ \E k \in 1..Len(r.entries) : r.entries[k].identifier = x
    BY <1>1, <1>2, <1>6, <2>1
  <2> QED BY <1>5, <2>2 DEF Exact, jx
<1> QED BY <1>5, <1>6 DEF es

\* An identifier taken away leaves the index with the entry.
LEMMA UnnamingLeads ==
  ASSUME NEW n, Sound(n), Leads(n), NEW r, NEW i, IsUnnaming(n, r, i)
  PROVE  Leads(r) /\ (Exact(n) => Exact(r))
<1> DEFINE es == n.entries
           ix == n.identifier_index
           jx == r.identifier_index
<1>1. /\ i \in 1..Len(es) /\ NoId \notin DOMAIN ix
      /\ Len(r.entries) = Len(es)
      /\ \A k \in 1..Len(es) : r.entries[k].identifier = IF k = i THEN NoId ELSE es[k].identifier
  BY SoundTypes DEF IsUnnaming, Renames
<1>2. /\ DOMAIN jx = DOMAIN ix \ {es[i].identifier}
      /\ \A x \in DOMAIN jx : jx[x] = ix[x]
  BY DEF IsUnnaming, Drop
<1>3. \A k \in 1..Len(es) : es[k].identifier # NoId =>
        es[k].identifier \in DOMAIN ix /\ ix[es[k].identifier] = k
  BY DEF Leads
<1> HIDE DEF ix, jx, es
<1>4. ASSUME NEW k \in 1..Len(r.entries), r.entries[k].identifier # NoId
      PROVE  /\ r.entries[k].identifier \in DOMAIN jx
             /\ jx[r.entries[k].identifier] = k
  <2>1. k # i /\ r.entries[k].identifier = es[k].identifier /\ k \in 1..Len(es)
    BY <1>1, <1>4
  <2>2. es[k].identifier \in DOMAIN ix /\ ix[es[k].identifier] = k
    BY <1>3, <1>4, <2>1
  <2>3. es[k].identifier # es[i].identifier
    BY <1>1, <1>3, <2>1, <2>2
  <2> QED BY <1>2, <2>1, <2>2, <2>3
<1>5. Leads(r)
  BY <1>4 DEF Leads, jx
<1>6. ASSUME Exact(n) PROVE Exact(r)
  <2>1. \A x \in DOMAIN ix : x # NoId /\ \E k \in 1..Len(es) : es[k].identifier = x
    BY <1>6 DEF Exact, ix, es
  <2>2. \A x \in DOMAIN jx : x # NoId /\ \E k \in 1..Len(r.entries) : r.entries[k].identifier = x
    BY <1>1, <1>2, <2>1
  <2> QED BY <1>5, <2>2 DEF Exact, jx
<1> QED BY <1>5, <1>6

\* A removal shifts the index as it shifts the entries.
LEMMA RemovalLeads ==
  ASSUME NEW n, Sound(n), Leads(n), NEW r, NEW idx, IsRemoval(n, r, idx)
  PROVE  Leads(r) /\ (Exact(n) => Exact(r))
<1> DEFINE es == n.entries
           ix == n.identifier_index
           jx == r.identifier_index
           held == es[idx].identifier
           Dn(i) == IF i > idx THEN i - 1 ELSE i
<1>1. /\ idx \in 1..Len(es) /\ Len(es) \in Nat /\ NoId \notin DOMAIN ix
      /\ Len(r.entries) = Len(es) - 1
      /\ \A k \in 1..Len(es) : k # idx => r.entries[Dn(k)].identifier = es[k].identifier
  BY SoundTypes DEF IsRemoval, ShrinksBy, ShiftDown, SameRow
<1>2. /\ DOMAIN jx = DOMAIN ix \ {held}
      /\ \A x \in DOMAIN jx : jx[x] = Dn(ix[x])
  BY DEF IsRemoval, IndexAfterRemove, Drop, ShiftDown
<1>3. \A k \in 1..Len(es) : es[k].identifier # NoId =>
        es[k].identifier \in DOMAIN ix /\ ix[es[k].identifier] = k
  BY DEF Leads
<1>4. \A k \in 1..Len(r.entries) : \E i \in 1..Len(es) : i # idx /\ k = Dn(i)
  <2> SUFFICES ASSUME NEW k \in 1..Len(r.entries)
               PROVE  \E i \in 1..Len(es) : i # idx /\ k = Dn(i)
    OBVIOUS
  <2> DEFINE i == IF k >= idx THEN k + 1 ELSE k
  <2>1. i \in 1..Len(es) /\ i # idx /\ k = Dn(i)
    BY <1>1
  <2> QED BY <2>1
<1>5. \A i \in 1..Len(es) : i # idx => Dn(i) \in 1..Len(r.entries)
  BY <1>1
<1> HIDE DEF ix, jx, es, Dn
<1>6. ASSUME NEW k \in 1..Len(r.entries), r.entries[k].identifier # NoId
      PROVE  /\ r.entries[k].identifier \in DOMAIN jx
             /\ jx[r.entries[k].identifier] = k
  <2>1. PICK i \in 1..Len(es) : i # idx /\ k = Dn(i)
    BY <1>4
  <2>2. r.entries[k].identifier = es[i].identifier
    BY <1>1, <2>1
  <2>3. es[i].identifier \in DOMAIN ix /\ ix[es[i].identifier] = i
    BY <1>3, <1>6, <2>2
  <2>4. es[i].identifier # held
    BY <1>1, <1>3, <1>6, <2>1, <2>2, <2>3
  <2> QED BY <1>2, <2>1, <2>2, <2>3, <2>4
<1>7. Leads(r)
  BY <1>6 DEF Leads, jx
<1>8. ASSUME Exact(n) PROVE Exact(r)
  <2>1. \A x \in DOMAIN ix : x # NoId /\ \E k \in 1..Len(es) : es[k].identifier = x
    BY <1>8 DEF Exact, ix, es
  <2>2. \A x \in DOMAIN jx : x # NoId /\ \E k \in 1..Len(r.entries) : r.entries[k].identifier = x
    BY <1>1, <1>2, <1>5, <2>1
  <2> QED BY <1>7, <2>2 DEF Exact, jx
<1> QED BY <1>7, <1>8

\* The index of the empty neighborhood.
LEMMA NewExact == Exact(New)
BY DEF New, Exact, Leads

-----------------------------------------------------------------------------
(* The rows determine the rest.                                            *)

\* Members have one canonical tree of addresses.
THEOREM OneTree ==
  ASSUME NEW A, NEW B, IsTree(A), IsTree(B), DOMAIN A = DOMAIN B
  PROVE  A = B
<1>1. \A b \in DOMAIN A : /\ A[b] \in Seq(Atoms) /\ B[b] \in Seq(Atoms)
                          /\ A[b] # <<>> /\ B[b] # <<>>
  BY DEF IsTree, IsAddressMap
<1>2. ASSUME NEW b \in DOMAIN A
      PROVE  A[b] = B[b]
  <2> DEFINE M == DOMAIN A
             k == Len(A[b])
             j == Len(B[b])
  <2>1. IsCanonicalAddress(M, b, A[b])
    BY TreeIsCanonical
  <2>2. IsCanonicalAddress(M, b, B[b])
    BY TreeIsCanonical
  <2>3. k \in Nat /\ j \in Nat
    BY <1>1
  <2> HIDE DEF M
  <2>4. /\ A[b] = Prefix(b, k) /\ k > 0 /\ IsUnique(M, b, k)
        /\ \A i \in 1..(k - 1) : ~IsUnique(M, b, i)
    BY <2>1 DEF IsCanonicalAddress, IsCanonicalLength
  <2>5. /\ B[b] = Prefix(b, j) /\ j > 0 /\ IsUnique(M, b, j)
        /\ \A i \in 1..(j - 1) : ~IsUnique(M, b, i)
    BY <2>2 DEF IsCanonicalAddress, IsCanonicalLength
  <2> HIDE DEF k, j
  <2>6. k = j
    BY <2>3, <2>4, <2>5
  <2> QED BY <2>4, <2>5, <2>6
<1>3. A = [b \in DOMAIN A |-> A[b]] /\ B = [b \in DOMAIN B |-> B[b]]
  BY DEF IsTree, IsAddressMap
<1> QED BY <1>2, <1>3

\* n and m have the same rows.
SameRows(es, fs) == Len(es) = Len(fs) /\ \A i \in 1..Len(es) : SameRow(es[i], fs[i])

\* Sound neighborhoods with the same rows have the same entries and the same trie, but
\* for the slots; and the same index, where it is exact.
THEOREM RowsDetermine ==
  ASSUME NEW n, NEW m, Sound(n), Sound(m), SameRows(n.entries, m.entries)
  PROVE  /\ n.entries = m.entries
         /\ Form(n.trie) = Form(m.trie)
         /\ Exact(n) /\ Exact(m) => n.identifier_index = m.identifier_index
<1> DEFINE es == n.entries
           fs == m.entries
           A == AddressesOf(es)
           B == AddressesOf(fs)
<1>1. /\ es \in Seq(Entry) /\ InByteOrder(es) /\ Len(es) \in Nat /\ IsTree(A)
      /\ fs \in Seq(Entry) /\ InByteOrder(fs) /\ Len(fs) = Len(es) /\ IsTree(B)
      /\ \A i \in 1..Len(es) : es[i] \in Entry /\ fs[i] \in Entry /\ SameRow(es[i], fs[i])
  BY SoundTypes DEF Sound, SameRows
<1>2. /\ \A b : b \in DOMAIN A <=> \E i \in 1..Len(es) : es[i].bytes = b
      /\ \A i \in 1..Len(es) : A[es[i].bytes] = es[i].address
  BY <1>1, EntriesFacts
<1>3. /\ \A b : b \in DOMAIN B <=> \E i \in 1..Len(fs) : fs[i].bytes = b
      /\ \A i \in 1..Len(fs) : B[fs[i].bytes] = fs[i].address
  BY <1>1, EntriesFacts
<1> HIDE DEF A, B
<1>4. A = B
  <2>1. \A b : b \in DOMAIN A <=> b \in DOMAIN B
    BY <1>1, <1>2, <1>3 DEF SameRow
  <2>2. DOMAIN A = DOMAIN B
    BY <2>1
  <2> QED BY <1>1, <2>2, OneTree
<1> HIDE DEF es, fs
<1>5. es = fs
  <2>1. \A i \in 1..Len(es) : es[i] = fs[i]
    <3> SUFFICES ASSUME NEW i \in 1..Len(es) PROVE es[i] = fs[i]
      OBVIOUS
    <3>1. es[i].address = fs[i].address /\ SameRow(es[i], fs[i])
      BY <1>1, <1>2, <1>3, <1>4 DEF SameRow
    <3>2. es[i] = [address |-> es[i].address, bytes |-> es[i].bytes,
                   identifier |-> es[i].identifier]
      BY <1>1 DEF Entry
    <3>3. fs[i] = [address |-> fs[i].address, bytes |-> fs[i].bytes,
                   identifier |-> fs[i].identifier]
      BY <1>1 DEF Entry
    <3> QED BY <3>1, <3>2, <3>3 DEF SameRow
  <2> QED BY <1>1, <2>1
<1>6. Form(n.trie) = Form(m.trie)
  <2> DEFINE T == n.trie
             U == m.trie
  <2>1. /\ DOMAIN T = Nodes(A) /\ Len(es) \in Nat
        /\ \A p \in Nodes(A) :
             /\ T[p].count = Cardinality(Under(A, p))
             /\ T[p].content \in 1..Len(es) \cup {Vacant}
             /\ T[p].content # Vacant => es[T[p].content].address = p
             /\ \A i \in 1..Len(es) : es[i].address = p => T[p].content = i
    BY SoundFacts DEF A, es
  <2>2. /\ DOMAIN U = Nodes(B)
        /\ \A p \in Nodes(B) :
             /\ U[p].count = Cardinality(Under(B, p))
             /\ U[p].content \in 1..Len(fs) \cup {Vacant}
             /\ U[p].content # Vacant => fs[U[p].content].address = p
             /\ \A i \in 1..Len(fs) : fs[i].address = p => U[p].content = i
    BY SoundFacts DEF B, fs
  <2> HIDE DEF T, U
  <2>3. DOMAIN T = DOMAIN U
    BY <1>4, <2>1, <2>2
  <2>4. \A p \in DOMAIN T : T[p].content = U[p].content /\ T[p].count = U[p].count
    BY <1>4, <1>5, <2>1, <2>2 DEF Vacant
  <2>5. Form(T) = Form(U)
    BY <2>3, <2>4 DEF Form
  <2> QED BY <2>5 DEF T, U
<1>7. ASSUME Exact(n), Exact(m) PROVE n.identifier_index = m.identifier_index
  <2> DEFINE ix == n.identifier_index
             jx == m.identifier_index
  <2>1. /\ \A i \in 1..Len(es) : es[i].identifier # NoId =>
             es[i].identifier \in DOMAIN ix /\ ix[es[i].identifier] = i
        /\ \A x \in DOMAIN ix : x # NoId /\ \E i \in 1..Len(es) : es[i].identifier = x
    BY <1>7 DEF Exact, Leads, es
  <2>2. /\ \A i \in 1..Len(es) : es[i].identifier # NoId =>
             es[i].identifier \in DOMAIN jx /\ jx[es[i].identifier] = i
        /\ \A x \in DOMAIN jx : x # NoId /\ \E i \in 1..Len(es) : es[i].identifier = x
    BY <1>5, <1>7 DEF Exact, Leads, fs
  <2>3. ix \in [DOMAIN ix -> Nat] /\ jx \in [DOMAIN jx -> Nat]
    BY SoundTypes
  <2> HIDE DEF ix, jx
  <2>4. \A x : x \in DOMAIN ix <=> x \in DOMAIN jx
    BY <2>1, <2>2
  <2>5. DOMAIN ix = DOMAIN jx
    BY <2>4
  <2>6. \A x \in DOMAIN ix : ix[x] = jx[x]
    BY <2>1, <2>2
  <2>7. ix = jx
    BY <2>3, <2>5, <2>6
  <2> QED BY <2>7 DEF ix, jx
<1> QED BY <1>5, <1>6, <1>7 DEF es, fs

-----------------------------------------------------------------------------
(* The abstraction of a neighborhood.                                      *)

\* The rows and the addresses of the abstraction, in the terms of the lemmas.
LEMMA AbstractionIs ==
  ASSUME NEW n, Sound(n)
  PROVE  LET M == {e.bytes : e \in Range(n.entries)}
             At(b) == CHOOSE i \in DOMAIN n.entries : n.entries[i].bytes = b
         IN /\ M = DOMAIN IdsOf(n.entries)
            /\ [b \in M |-> n.entries[At(b)].identifier] = IdsOf(n.entries)
            /\ [b \in M |-> n.entries[At(b)].address] = AddressesOf(n.entries)
<1>1. {e.bytes : e \in Range(n.entries)} = {n.entries[i].bytes : i \in DOMAIN n.entries}
  BY DEF Range
<1> QED BY <1>1 DEF IdsOf, AddressesOf

\* Streams that differ, do within the horizon.
LEMMA DifferWithinHorizon ==
  ASSUME NEW b \in Contents, NEW c \in Contents, NEW i \in Nat, i > 0,
         Stream(b, i) # Stream(c, i)
  PROVE  i \in Horizon(b, c)
<1>1. Code[b] \in Seq(Atoms) /\ Code[c] \in Seq(Atoms)
  BY CodeAssumption
<1>2. Len(Code[b]) \in Nat /\ Len(Code[c]) \in Nat
  BY <1>1
<1>3. i \in 1..Len(Code[b]) \/ i \in 1..Len(Code[c])
  BY DEF Stream
<1> DEFINE k == Len(Code[b])
           l == Len(Code[c])
<1>4. Horizon(b, c) = 1..(k + l)
  BY DEF Horizon
<1>5. k \in Nat /\ l \in Nat /\ (i \in 1..k \/ i \in 1..l)
  BY <1>2, <1>3
<1> HIDE DEF k, l
<1> QED BY <1>4, <1>5

\* The two modules read the same streams.
LEMMA SameStreams ==
  /\ \A M : Abstract!Distinguishable(M) <=> Distinguishable(M)
  /\ \A M, b, a : Abstract!IsCanonicalAddress(M, b, a) <=> IsCanonicalAddress(M, b, a)
BY DEF Abstract!Distinguishable, Abstract!IsCanonicalAddress, Abstract!IsCanonicalLength,
   Abstract!IsUnique, Abstract!Agree, Abstract!Prefix, Abstract!Stream, Abstract!Horizon,
   Distinguishable, IsCanonicalAddress, IsCanonicalLength, IsUnique, Agree, Prefix, Stream,
   Horizon

\* A sound neighborhood whose identifiers lead back to their entries holds legal rows.
LEMMA RowsAreLegal ==
  ASSUME NEW n, Sound(n), Leads(n)
  PROVE  LET I == IdsOf(n.entries)
             A == AddressesOf(n.entries)
         IN /\ DOMAIN I \subseteq Contents
            /\ I \in [DOMAIN I -> Identifiers \cup {NoId}]
            /\ Distinguishable(DOMAIN I)
            /\ \A b, c \in DOMAIN I : b # c /\ I[b] = I[c] => I[b] = NoId
            /\ DOMAIN A = DOMAIN I
            /\ \A b \in DOMAIN I : IsCanonicalAddress(DOMAIN I, b, A[b])
<1> DEFINE es == n.entries
           I == IdsOf(es)
           A == AddressesOf(es)
           M == DOMAIN I
<1>1. /\ es \in Seq(Entry) /\ InByteOrder(es) /\ IsTree(A)
  BY SoundTypes DEF Sound
<1>2. /\ I = [b \in DOMAIN I |-> I[b]]
      /\ \A b : b \in DOMAIN I <=> \E i \in 1..Len(es) : es[i].bytes = b
      /\ \A i \in 1..Len(es) : es[i].bytes \in DOMAIN I /\ I[es[i].bytes] = es[i].identifier
      /\ DOMAIN I = DOMAIN A
      /\ DOMAIN I \subseteq Contents
      /\ \A b \in DOMAIN I : I[b] \in Identifiers \cup {NoId}
  BY <1>1, IdsFacts
<1>3. \A i \in 1..Len(es) : es[i].identifier # NoId =>
        n.identifier_index[es[i].identifier] = i
  BY DEF Leads
<1> HIDE DEF I, A, es
<1>4. \A b \in M : IsCanonicalAddress(M, b, A[b])
  BY <1>1, <1>2, TreeIsCanonical
<1>5. ASSUME NEW b \in M, NEW c \in M, b # c
      PROVE  \E k \in Horizon(b, c) : Stream(b, k) # Stream(c, k)
  <2>1. Len(A[b]) \in Nat
    BY <1>1, <1>2 DEF IsTree, IsAddressMap
  <2>2. ~Agree(b, c, Len(A[b]))
    BY <1>4, <1>5 DEF IsCanonicalAddress, IsCanonicalLength, IsUnique
  <2>3. PICK i \in 1..Len(A[b]) : Stream(b, i) # Stream(c, i)
    BY <2>2 DEF Agree
  <2>4. i \in Nat /\ i > 0 /\ b \in Contents /\ c \in Contents
    BY <1>2, <2>1
  <2> QED BY <2>3, <2>4, DifferWithinHorizon
<1>6. Distinguishable(M)
  BY <1>5 DEF Distinguishable
<1>7. ASSUME NEW b \in M, NEW c \in M, b # c, I[b] = I[c]
      PROVE  I[b] = NoId
  <2>1. PICK i \in 1..Len(es) : es[i].bytes = b
    BY <1>2
  <2>2. PICK j \in 1..Len(es) : es[j].bytes = c
    BY <1>2
  <2>3. es[i].identifier = I[b] /\ es[j].identifier = I[b]
    BY <1>2, <1>7, <2>1, <2>2
  <2>4. I[b] # NoId => i = j
    BY <1>3, <2>3
  <2> QED BY <1>7, <2>1, <2>2, <2>4
<1>8. I \in [M -> Identifiers \cup {NoId}]
  BY <1>2
<1> QED BY <1>2, <1>4, <1>6, <1>7, <1>8 DEF I, A, es

\* A call that leaves legal rows behind and succeeds is one of the abstraction's.
LEMMA AbstractBecomes ==
  ASSUME Sound(nb'), Leads(nb'), NEW op, op # "panic", result'.op = op,
         result'.status \in Successes
  PROVE  Abstract!Become(op)
<1> DEFINE I == IdsOf(nb'.entries)
           A == AddressesOf(nb'.entries)
<1>1. /\ DOMAIN I \subseteq Contents
      /\ I \in [DOMAIN I -> Identifiers \cup {NoId}]
      /\ Distinguishable(DOMAIN I)
      /\ \A b, c \in DOMAIN I : b # c /\ I[b] = I[c] => I[b] = NoId
      /\ DOMAIN A = DOMAIN I
      /\ \A b \in DOMAIN I : IsCanonicalAddress(DOMAIN I, b, A[b])
  BY RowsAreLegal
<1>2. /\ [b \in Members |-> nb.entries[MemberAt(b)].identifier]' = I
      /\ [b \in Members |-> nb.entries[MemberAt(b)].address]' = A
  BY AbstractionIs DEF Members, MemberAt
<1>3. result'.status # "Panic"
  BY DEF Successes
<1> HIDE DEF I, A
<1>4. <<IF result.status = "Panic" THEN "panic" ELSE result.op, result.status \in Successes>>'
        = <<op, TRUE>>
  BY <1>3
<1> QED BY <1>1, <1>2, <1>4, SameStreams
     DEF Abstract!Become, Abstract!AreRows, Abstract!Members

\* The rows of the abstraction before and after a step.
LEMMA AbstractRows ==
  ASSUME Sound(nb), Sound(nb')
  PROVE  /\ Members = DOMAIN IdsOf(nb.entries)
         /\ Members' = DOMAIN IdsOf(nb'.entries)
         /\ [b \in Members |-> nb.entries[MemberAt(b)].identifier] = IdsOf(nb.entries)
         /\ [b \in Members |-> nb.entries[MemberAt(b)].identifier]' = IdsOf(nb'.entries)
BY AbstractionIs DEF Members, MemberAt

\* A call that fails and leaves the neighborhood alone fails in the abstraction.
LEMMA AbstractFails ==
  ASSUME nb' = nb, result'.op \in Operations \ {"new", "remove_by_bytes"},
         result'.status \notin Successes, result'.status # "Panic"
  PROVE  Abstract!Next
<1>1. result'.op \in {"insert", "set_identifier", "remove_by_identifier", "merge", "rebuild",
                      "validate", "from_rows"}
  BY DEF Operations, Calls
<1>2. <<IF result.status = "Panic" THEN "panic" ELSE result.op, result.status \in Successes>>'
        = <<result'.op, FALSE>>
  <2>1. (result'.status \in Successes) = FALSE
    BY SMT
  <2> QED BY <2>1
<1>3. /\ [b \in Members |-> nb.entries[MemberAt(b)].identifier]'
           = [b \in Members |-> nb.entries[MemberAt(b)].identifier]
      /\ [b \in Members |-> nb.entries[MemberAt(b)].address]'
           = [b \in Members |-> nb.entries[MemberAt(b)].address]
  BY DEF Members, MemberAt
<1> QED BY <1>1, <1>2, <1>3 DEF Abstract!Next, Abstract!Fail

\* A step that changes neither the neighborhood nor the answer stutters in the abstraction.
LEMMA AbstractStutters ==
  ASSUME nb' = nb, result' = result
  PROVE  UNCHANGED Abstract!svars
BY DEF Abstract!svars, Members, MemberAt

\* What makes a call that succeeds a step of the abstraction.
LEMMA AbstractSucceeds ==
  ASSUME Sound(nb), Sound(nb'), Leads(nb'), result'.status \in Successes,
         NEW op, result'.op = op, NEW I, I = IdsOf(nb.entries), NEW J, J = IdsOf(nb'.entries)
  PROVE  /\ op = "insert" =>
              /\ \A b \in Contents, id \in Identifiers \cup {NoId} :
                   b \notin DOMAIN I /\ J = Put(I, b, id) => Abstract!Next
              /\ \A b \in Contents, id \in Identifiers \cup {NoId} :
                   /\ b \in DOMAIN I /\ (NoId \in {I[b], id} \/ I[b] = id)
                   /\ J = IF id = NoId THEN I ELSE Put(I, b, id)
                   => Abstract!Next
         /\ op = "set_identifier" =>
              \A b \in Contents, id \in Identifiers \cup {NoId} :
                b \in DOMAIN I /\ J = Put(I, b, id) => Abstract!Next
         /\ op \in {"remove_by_bytes", "remove_by_identifier"} =>
              \A b \in Contents : b \in DOMAIN I /\ J = Drop(I, b) => Abstract!Next
         /\ op = "merge" =>
              ((DOMAIN I \subseteq DOMAIN J /\ \A b \in DOMAIN I : I[b] \in {NoId, J[b]})
                 => Abstract!Next)
         /\ op = "from_rows" => Abstract!Next
         /\ op \in {"remove_by_bytes", "remove_by_identifier", "validate", "rebuild"} =>
              (J = I => Abstract!Next)
<1>1. op # "panic" => Abstract!Become(op)
  BY AbstractBecomes
<1>2. /\ Members = DOMAIN I
      /\ Members' = DOMAIN J
      /\ [b \in Members |-> nb.entries[MemberAt(b)].identifier] = I
      /\ [b \in Members |-> nb.entries[MemberAt(b)].identifier]' = J
  BY AbstractRows
<1>3. I = [b \in DOMAIN I |-> I[b]]
  BY DEF IdsOf
<1> USE DEF Abstract!Next
<1>4. CASE op = "insert"
  <2>1. Abstract!Become("insert")
    BY <1>1, <1>4
  <2>2. ASSUME NEW b \in Contents, NEW id \in Identifiers \cup {NoId},
               b \notin DOMAIN I, J = Put(I, b, id)
        PROVE  Abstract!Next
    <3>1. J = [c \in DOMAIN I \cup {b} |-> IF c = b THEN id ELSE I[c]]
      BY <2>2 DEF Put
    <3>2. Abstract!Insert(b, id)
      BY <1>2, <2>1, <2>2, <3>1 DEF Abstract!Insert, Abstract!Members
    <3> QED BY <3>2
  <2>3. ASSUME NEW b \in Contents, NEW id \in Identifiers \cup {NoId},
               b \in DOMAIN I, NoId \in {I[b], id} \/ I[b] = id,
               J = IF id = NoId THEN I ELSE Put(I, b, id)
        PROVE  Abstract!Next
    <3>1. J = IF id = NoId THEN I ELSE [I EXCEPT ![b] = id]
      <4>1. Put(I, b, id) = [I EXCEPT ![b] = id]
        BY <1>3, <2>3 DEF Put
      <4> QED BY <2>3, <4>1
    <3>2. Abstract!Name(b, id)
      BY <1>2, <2>1, <2>3, <3>1 DEF Abstract!Name, Abstract!Members
    <3> QED BY <3>2
  <2> QED BY <1>4, <2>2, <2>3
<1>5. CASE op = "set_identifier"
  <2>1. Abstract!Become("set_identifier")
    BY <1>1, <1>5
  <2>2. ASSUME NEW b \in Contents, NEW id \in Identifiers \cup {NoId},
               b \in DOMAIN I, J = Put(I, b, id)
        PROVE  Abstract!Next
    <3>1. J = [I EXCEPT ![b] = id]
      BY <1>3, <2>2 DEF Put
    <3>2. Abstract!SetIdentifier(b, id)
      BY <1>2, <2>1, <2>2, <3>1 DEF Abstract!SetIdentifier, Abstract!Members
    <3> QED BY <3>2
  <2> QED BY <1>5, <2>2
<1>6. CASE op \in {"remove_by_bytes", "remove_by_identifier"}
  <2>1. Abstract!Become("remove_by_bytes") \/ Abstract!Become("remove_by_identifier")
    BY <1>1, <1>6
  <2>2. ASSUME NEW b \in Contents, b \in DOMAIN I, J = Drop(I, b)
        PROVE  Abstract!Next
    <3>1. J = [c \in DOMAIN I \ {b} |-> I[c]]
      BY <2>2 DEF Drop
    <3>2. Abstract!Remove(b)
      BY <1>2, <2>1, <2>2, <3>1 DEF Abstract!Remove, Abstract!Members
    <3> QED BY <3>2
  <2>3. ASSUME J = I PROVE Abstract!Next
    <3>1. Abstract!Look
      BY <1>2, <2>1, <2>3 DEF Abstract!Look
    <3> QED BY <3>1
  <2> QED BY <1>6, <2>2, <2>3
<1>7. CASE op = "merge"
  <2>1. Abstract!Become("merge")
    BY <1>1, <1>7
  <2>2. ASSUME DOMAIN I \subseteq DOMAIN J, \A b \in DOMAIN I : I[b] \in {NoId, J[b]}
        PROVE  Abstract!Next
    <3>1. Abstract!Merge
      BY <1>2, <2>1, <2>2 DEF Abstract!Merge, Abstract!Members
    <3> QED BY <3>1
  <2> QED BY <1>7, <2>2
<1>8. CASE op = "from_rows"
  <2>1. Abstract!FromRows
    BY <1>1, <1>8 DEF Abstract!FromRows
  <2> QED BY <1>8, <2>1
<1>9. CASE op \in {"validate", "rebuild"}
  <2>1. ASSUME J = I PROVE Abstract!Next
    <3>1. Abstract!Become("validate") \/ Abstract!Become("rebuild")
      BY <1>1, <1>9
    <3>2. Abstract!Look
      BY <1>2, <2>1, <3>1 DEF Abstract!Look
    <3> QED BY <3>2
  <2> QED BY <1>9, <2>1
<1> QED BY <1>4, <1>5, <1>6, <1>7, <1>8, <1>9

-----------------------------------------------------------------------------
(* The inductive invariant: the index, and the working copies.             *)

\* The identifiers of n lead back to their entries, and the index has no others unless
\* callers replace identifiers.
RowsOK(n) == Leads(n) /\ (~Reassign => Exact(n))

\* The working copy w of a merge has every row of n; an entry of n without an identifier
\* may have one in w.
Keeps(n, w) ==
  \A i \in 1..Len(n.entries) : \E k \in 1..Len(w.entries) :
    /\ w.entries[k].bytes = n.entries[i].bytes
    /\ n.entries[i].identifier \in {NoId, w.entries[k].identifier}

\* The working copy w of rebuild and validate has the first rows of n, and the rest are to
\* do.
Replays(n, w, todo) ==
  /\ Len(w.entries) + Len(todo) = Len(n.entries)
  /\ \A i \in 1..Len(w.entries) : SameRow(w.entries[i], n.entries[i])
  /\ \A i \in 1..Len(todo) : todo[i] = Row(n.entries[Len(w.entries) + i])

\* What a row-by-row call on n keeps.
CallOK(n, c) ==
  /\ RowsOK(c.working)
  /\ c.op \in {"from_rows", "rebuild", "validate"} => Exact(c.working)
  /\ c.op = "merge" => Keeps(n, c.working)
  /\ c.op \in {"rebuild", "validate"} => Replays(n, c.working, c.todo)

\* A call panics only by an identifier that callers replaced.
StateOK(n, c, r) == RowsOK(n) /\ CallOK(n, c) /\ (~Reassign => r.status # "Panic")

RInv == Inv /\ StateOK(nb, call, result)

\* A step keeps the invariant, and is one of the abstraction's or none.
Good ==
  /\ StateOK(nb', call', result')
  /\ ~Reassign => Abstract!Next \/ UNCHANGED Abstract!svars

\* The invariant, in parts.
LEMMA Parts ==
  /\ RInv => /\ Sound(nb) /\ Sound(call.working) /\ Shape(call, result)
             /\ Leads(nb) /\ (~Reassign => Exact(nb))
  /\ Inv' => Sound(nb') /\ Sound(call'.working)
<1>1. RInv => /\ Sound(nb) /\ Sound(call.working) /\ Shape(call, result)
              /\ Leads(nb) /\ (~Reassign => Exact(nb))
  BY InvIsShape DEF RInv, StateOK, RowsOK
<1>2. Inv' => Sound(nb') /\ Sound(call'.working)
  BY DEF Inv, AllSound, Sound
<1> QED BY <1>1, <1>2

\* No call in progress.
LEMMA IdleCall == \A n : CallOK(n, NoCall)
<1>1. Exact(New) /\ Leads(New) /\ NoCall.working = New /\ NoCall.op = "none"
  BY NewExact DEF NoCall, Exact
<1> QED BY <1>1 DEF CallOK, RowsOK

\* The invariant holds at first.
LEMMA InitRows == Init => StateOK(nb, call, result)
<1> SUFFICES ASSUME Init PROVE StateOK(nb, call, result)
  OBVIOUS
<1>1. nb = New /\ call = NoCall /\ result.status = "Ok"
  BY DEF Init, Report
<1>2. Exact(New) /\ Leads(New)
  BY NewExact DEF Exact
<1> QED BY <1>1, <1>2, IdleCall DEF StateOK, RowsOK

\* What a single-step call returns.
LEMMA Returned ==
  ASSUME RInv, Idle, NEW op, NEW answers, Returns(op, answers)
  PROVE  \E a \in answers :
           /\ nb' = a.nb /\ result'.op = op /\ result'.status = a.status
           /\ RowsOK(a.nb) /\ (~Reassign => a.status # "Panic")
                => StateOK(nb', call', result')
<1>1. PICK a \in answers : nb' = a.nb /\ result' = Report(op, a.status, a.address, a.changes)
  BY DEF Returns
<1>2. result'.op = op /\ result'.status = a.status
  BY <1>1 DEF Report
<1>3. call' = NoCall
  BY Parts DEF Returns, Idle, Shape
<1>4. RowsOK(a.nb) /\ (~Reassign => a.status # "Panic") => StateOK(nb', call', result')
  BY <1>1, <1>2, <1>3, IdleCall DEF StateOK
<1> QED BY <1>1, <1>2, <1>4

\* Members and positions.
LEMMA MemberFacts ==
  ASSUME NEW n, Sound(n)
  PROVE  LET I == IdsOf(n.entries) IN
         /\ \A b : b \in DOMAIN I <=> \E i \in 1..Len(n.entries) : n.entries[i].bytes = b
         /\ \A i \in 1..Len(n.entries) : I[n.entries[i].bytes] = n.entries[i].identifier
         /\ \A i, j \in 1..Len(n.entries) : n.entries[i].bytes = n.entries[j].bytes => i = j
         /\ \A i \in 1..Len(n.entries) : /\ n.entries[i].bytes \in Contents
                                         /\ n.entries[i].bytes \in Nat
BY SoundTypes, IdsFacts, EntriesFacts

\* insert, and insert_with_identifier.
LEMMA InsertGood ==
  ASSUME RInv, Inv', NEW b \in Contents, NEW id \in Identifiers \cup {NoId}, Insert(b, id)
  PROVE  Good
<1> DEFINE es == nb.entries
           I == IdsOf(nb.entries)
           J == IdsOf(nb'.entries)
<1>1. /\ Sound(nb) /\ Leads(nb) /\ (~Reassign => Exact(nb)) /\ Sound(nb')
      /\ es \in Seq(Entry) /\ InByteOrder(es) /\ nb'.entries \in Seq(Entry)
      /\ InByteOrder(nb'.entries)
  BY Parts, SoundTypes
<1>2. PICK a \in InsertInner(nb, b, id) :
        /\ nb' = a.nb /\ result'.op = "insert" /\ result'.status = a.status
        /\ RowsOK(a.nb) /\ (~Reassign => a.status # "Panic")
             => StateOK(nb', call', result')
  BY Returned DEF Insert
<1>3. \/ a.status \in Refusals /\ a.nb = nb
      \/ a.status = "Inserted" /\ IsInsertion(nb, a.nb, b, id)
      \/ /\ a.status = "Existing"
         /\ \E i \in 1..Len(es) :
              /\ es[i].bytes = b
              /\ \/ a.nb = nb /\ id \in {NoId, es[i].identifier}
                 \/ es[i].identifier = NoId /\ IsNaming(nb, a.nb, i, id)
  BY <1>1, InsertEffects
<1>4. CASE a.status \in Refusals /\ a.nb = nb
  <2>1. StateOK(nb', call', result')
    BY <1>1, <1>2, <1>4 DEF RowsOK, Refusals
  <2>2. "insert" \in Operations \ {"new", "remove_by_bytes"} /\ a.status \notin Successes
        /\ a.status # "Panic"
    BY <1>4 DEF Operations, Refusals, Failures, Successes
  <2> QED BY <1>2, <1>4, <2>1, <2>2, AbstractFails DEF Good
<1>5. CASE a.status = "Inserted" /\ IsInsertion(nb, a.nb, b, id)
  <2>1. StateOK(nb', call', result')
    BY <1>1, <1>2, <1>5, InsertionLeads DEF RowsOK
  <2>2. /\ \A i \in 1..Len(es) : es[i].bytes # b
        /\ \E pos : GrowsBy(es, nb'.entries, pos, b, id)
    BY <1>2, <1>5 DEF IsInsertion
  <2>3. b \notin DOMAIN I
    <3>1. \A x : x \in DOMAIN I <=> \E i \in 1..Len(es) : es[i].bytes = x
      BY <1>1, MemberFacts
    <3> QED BY <2>2, <3>1
  <2>4. J = Put(I, b, id)
    BY <1>1, <2>2, IdsAfter
  <2>5. Leads(nb') /\ result'.status \in Successes
    BY <1>2, <1>5, <2>1 DEF StateOK, RowsOK, Successes
  <2> HIDE DEF I, J
  <2>6. Abstract!Next
    BY <1>1, <1>2, <2>3, <2>4, <2>5, AbstractSucceeds DEF I, J
  <2> QED BY <2>1, <2>6 DEF Good
<1>6. ASSUME a.status = "Existing", NEW i \in 1..Len(es), es[i].bytes = b,
             \/ a.nb = nb /\ id \in {NoId, es[i].identifier}
             \/ es[i].identifier = NoId /\ IsNaming(nb, a.nb, i, id)
      PROVE  Good
  <2>1. RowsOK(a.nb)
    BY <1>1, <1>6, NamingLeads DEF RowsOK
  <2>2. StateOK(nb', call', result')
    BY <1>2, <1>6, <2>1
  <2>3. b \in DOMAIN I /\ I[b] = es[i].identifier
    BY <1>1, <1>6, MemberFacts
  <2>4. Leads(nb') /\ result'.status \in Successes
    BY <1>2, <1>6, <2>1 DEF RowsOK, Successes
  <2>5. (NoId \in {I[b], id} \/ I[b] = id) /\ J = IF id = NoId THEN I ELSE Put(I, b, id)
    <3>1. CASE a.nb = nb /\ id \in {NoId, es[i].identifier}
      <4>1. J = I
        BY <1>2, <3>1
      <4>2. I[b] = id => Put(I, b, id) = I
        BY <2>3 DEF Put, IdsOf
      <4> QED BY <2>3, <3>1, <4>1, <4>2
    <3>2. CASE es[i].identifier = NoId /\ IsNaming(nb, a.nb, i, id)
      <4>1. Renames(es, nb'.entries, i, id) /\ id # NoId
        BY <1>2, <3>2, IdentifierAssumption DEF IsNaming
      <4>2. J = Put(I, b, id)
        BY <1>1, <1>6, <4>1, IdsAfter
      <4> QED BY <2>3, <3>2, <4>1, <4>2
    <3> QED BY <1>6, <3>1, <3>2
  <2> HIDE DEF I, J
  <2>6. Abstract!Next
    BY <1>1, <1>2, <2>3, <2>4, <2>5, AbstractSucceeds DEF I, J
  <2> QED BY <2>2, <2>6 DEF Good
<1> QED BY <1>3, <1>4, <1>5, <1>6

\* set_identifier.
LEMMA SetIdentifierGood ==
  ASSUME RInv, Inv', NEW b \in Contents, NEW id \in Identifiers \cup {NoId},
         SetIdentifier(b, id)
  PROVE  Good
<1> DEFINE es == nb.entries
           I == IdsOf(nb.entries)
           J == IdsOf(nb'.entries)
<1>1. /\ Sound(nb) /\ Leads(nb) /\ (~Reassign => Exact(nb)) /\ Sound(nb')
      /\ es \in Seq(Entry) /\ InByteOrder(es) /\ nb'.entries \in Seq(Entry)
      /\ InByteOrder(nb'.entries) /\ DOMAIN es = 1..Len(es)
  BY Parts, SoundTypes
<1>2. PICK a \in SetIdentifierInner(nb, b, id) :
        /\ nb' = a.nb /\ result'.op = "set_identifier" /\ result'.status = a.status
        /\ RowsOK(a.nb) /\ (~Reassign => a.status # "Panic")
             => StateOK(nb', call', result')
  BY Returned DEF SetIdentifier
<1>3. \/ a.status \in Refusals /\ a.nb = nb
      \/ /\ a.status = "Ok"
         /\ \E i \in 1..Len(es) :
              /\ es[i].bytes = b
              /\ IF id = NoId THEN IsUnnaming(nb, a.nb, i) ELSE IsNaming(nb, a.nb, i, id)
  BY <1>1, SetIdentifierEffects
<1>4. CASE a.status \in Refusals /\ a.nb = nb
  <2>1. StateOK(nb', call', result')
    BY <1>1, <1>2, <1>4 DEF RowsOK, Refusals
  <2>2. "set_identifier" \in Operations \ {"new", "remove_by_bytes"} /\ a.status \notin Successes
        /\ a.status # "Panic"
    BY <1>4 DEF Operations, Refusals, Failures, Successes
  <2> QED BY <1>2, <1>4, <2>1, <2>2, AbstractFails DEF Good
<1>5. ASSUME a.status = "Ok", NEW i \in 1..Len(es), es[i].bytes = b,
             IF id = NoId THEN IsUnnaming(nb, a.nb, i) ELSE IsNaming(nb, a.nb, i, id)
      PROVE  Good
  <2>1. ~Reassign /\ id # NoId => es[i].identifier \in {NoId, id}
    BY <1>1, <1>5 DEF SetIdentifier, Replaces, Find
  <2>2. RowsOK(a.nb)
    BY <1>1, <1>5, <2>1, NamingLeads, UnnamingLeads DEF RowsOK
  <2>3. StateOK(nb', call', result')
    BY <1>2, <1>5, <2>2
  <2>4. b \in DOMAIN I
    <3>1. \A x : x \in DOMAIN I <=> \E k \in 1..Len(es) : es[k].bytes = x
      BY <1>1, MemberFacts
    <3> QED BY <1>5, <3>1
  <2>5. Leads(nb') /\ result'.status \in Successes
    BY <1>2, <1>5, <2>2 DEF RowsOK, Successes
  <2>6. Renames(es, nb'.entries, i, id)
    BY <1>2, <1>5 DEF IsNaming, IsUnnaming
  <2>7. J = Put(I, b, id)
    BY <1>1, <1>5, <2>6, IdsAfter
  <2> HIDE DEF I, J
  <2>8. Abstract!Next
    BY <1>1, <1>2, <2>4, <2>5, <2>7, AbstractSucceeds DEF I, J
  <2> QED BY <2>3, <2>8 DEF Good
<1> QED BY <1>3, <1>4, <1>5

\* A removal of the entry at idx.
LEMMA RemovalGood ==
  ASSUME RInv, Inv', Idle, NEW op \in {"remove_by_bytes", "remove_by_identifier"},
         NEW answers, Returns(op, answers),
         \A a \in answers : \/ a = Refused(nb, "None")
                            \/ Reassign /\ a = Refused(nb, "Panic")
                            \/ \E idx \in 1..Len(nb.entries) : a \in RemoveInner(nb, idx)
  PROVE  Good
<1> DEFINE es == nb.entries
           I == IdsOf(nb.entries)
           J == IdsOf(nb'.entries)
<1>1. /\ Sound(nb) /\ Leads(nb) /\ (~Reassign => Exact(nb)) /\ Sound(nb')
      /\ es \in Seq(Entry) /\ InByteOrder(es) /\ nb'.entries \in Seq(Entry)
      /\ InByteOrder(nb'.entries)
  BY Parts, SoundTypes
<1>2. PICK a \in answers :
        /\ nb' = a.nb /\ result'.op = op /\ result'.status = a.status
        /\ RowsOK(a.nb) /\ (~Reassign => a.status # "Panic")
             => StateOK(nb', call', result')
  BY Returned
<1>3. CASE a = Refused(nb, "None")
  <2>1. a.nb = nb /\ a.status = "None" /\ RowsOK(nb)
    BY <1>1, <1>3 DEF Refused, Answer, RowsOK
  <2>2. StateOK(nb', call', result') /\ Leads(nb') /\ result'.status \in Successes /\ J = I
    BY <1>1, <1>2, <2>1 DEF Successes
  <2> HIDE DEF I, J
  <2>3. Abstract!Next
    BY <1>1, <1>2, <2>2, AbstractSucceeds DEF I, J
  <2> QED BY <2>2, <2>3 DEF Good
<1>4. CASE Reassign /\ a = Refused(nb, "Panic")
  <2>1. a.nb = nb /\ RowsOK(nb)
    BY <1>1, <1>4 DEF Refused, Answer, RowsOK
  <2> QED BY <1>2, <1>4, <2>1 DEF Good
<1>5. ASSUME NEW idx \in 1..Len(es), a \in RemoveInner(nb, idx)
      PROVE  Good
  <2>1. a.status = "Removed" /\ IsRemoval(nb, a.nb, idx)
    BY <1>1, <1>5, RemoveEffects
  <2>2. RowsOK(a.nb)
    BY <1>1, <2>1, RemovalLeads DEF RowsOK
  <2>3. StateOK(nb', call', result') /\ Leads(nb') /\ result'.status \in Successes
    BY <1>2, <2>1, <2>2 DEF RowsOK, Successes
  <2>4. ShrinksBy(es, nb'.entries, idx)
    BY <1>2, <2>1 DEF IsRemoval
  <2> DEFINE b == es[idx].bytes
  <2>5. J = Drop(I, b)
    BY <1>1, <2>4, IdsAfter
  <2>6. b \in Contents /\ b \in DOMAIN I
    <3>1. /\ \A x : x \in DOMAIN I <=> \E k \in 1..Len(es) : es[k].bytes = x
          /\ \A k \in 1..Len(es) : es[k].bytes \in Contents
      BY <1>1, MemberFacts
    <3> QED BY <3>1
  <2> HIDE DEF I, J, b
  <2>7. Abstract!Next
    BY <1>1, <1>2, <2>3, <2>5, <2>6, AbstractSucceeds DEF I, J
  <2> QED BY <2>3, <2>7 DEF Good
<1> QED BY <1>2, <1>3, <1>4, <1>5

\* remove_by_bytes.
LEMMA RemoveByBytesGood ==
  ASSUME RInv, Inv', NEW b \in Contents, RemoveByBytes(b)
  PROVE  Good
<1> DEFINE answers == IF Find(nb, b) = {} THEN {Refused(nb, "None")}
                      ELSE UNION {RemoveInner(nb, i) : i \in Find(nb, b)}
<1>1. Find(nb, b) \subseteq 1..Len(nb.entries)
  BY Parts, SoundTypes DEF Find
<1>2. \A a \in answers : \/ a = Refused(nb, "None")
                         \/ \E idx \in 1..Len(nb.entries) : a \in RemoveInner(nb, idx)
  BY <1>1
<1>3. Idle /\ Returns("remove_by_bytes", answers)
  BY DEF RemoveByBytes
<1> HIDE DEF answers
<1> QED BY <1>2, <1>3, RemovalGood

\* remove_by_identifier: an identifier that no entry carries any more may lead anywhere,
\* and to an index out of range.
LEMMA RemoveByIdentifierGood ==
  ASSUME RInv, Inv', NEW id \in Identifiers, RemoveByIdentifier(id)
  PROVE  Good
<1> DEFINE answers == IF id \notin DOMAIN nb.identifier_index THEN {Refused(nb, "None")}
                      ELSE RemoveInner(nb, nb.identifier_index[id])
<1>1. /\ DOMAIN nb.entries = 1..Len(nb.entries) /\ Leads(nb) /\ (~Reassign => Exact(nb))
  BY Parts, SoundTypes
<1>2. ASSUME NEW a \in answers
      PROVE  \/ a = Refused(nb, "None")
             \/ Reassign /\ a = Refused(nb, "Panic")
             \/ \E idx \in 1..Len(nb.entries) : a \in RemoveInner(nb, idx)
  <2>1. CASE id \notin DOMAIN nb.identifier_index
    BY <2>1
  <2>2. CASE id \in DOMAIN nb.identifier_index
    <3> DEFINE idx == nb.identifier_index[id]
    <3>1. a \in RemoveInner(nb, idx)
      BY <2>2
    <3>2. CASE idx \in 1..Len(nb.entries)
      BY <3>1, <3>2
    <3>3. CASE idx \notin 1..Len(nb.entries)
      <4>1. a = Refused(nb, "Panic")
        BY <1>1, <3>1, <3>3 DEF RemoveInner
      <4>2. Reassign
        <5> SUFFICES ASSUME ~Reassign PROVE FALSE
          OBVIOUS
        <5>1. PICK i \in 1..Len(nb.entries) : nb.entries[i].identifier = id /\ id # NoId
          BY <1>1, <2>2 DEF Exact
        <5>2. idx = i
          BY <1>1, <5>1 DEF Leads
        <5> QED BY <3>3, <5>2
      <4> QED BY <4>1, <4>2
    <3> QED BY <3>2, <3>3
  <2> QED BY <2>1, <2>2
<1>3. Idle /\ Returns("remove_by_identifier", answers)
  BY DEF RemoveByIdentifier
<1> HIDE DEF answers
<1> QED BY <1>2, <1>3, RemovalGood

-----------------------------------------------------------------------------
(* Row-by-row calls.                                                       *)

\* A call that fails, and not by a panic.
LEMMA FailGood ==
  ASSUME RInv, NEW op \in Calls, NEW status, status \notin Successes, status # "Panic",
         Fail(op, status)
  PROVE  Good
<1>1. nb' = nb /\ call' = NoCall /\ result'.op = op /\ result'.status = status
  BY DEF Fail, Report
<1>2. StateOK(nb', call', result')
  BY <1>1, IdleCall DEF RInv, StateOK
<1>3. op \in Operations \ {"new", "remove_by_bytes"}
  BY DEF Calls, Operations
<1>4. Abstract!Next
  BY <1>1, <1>3, AbstractFails
<1> QED BY <1>2, <1>4 DEF Good

\* A call that begins.
LEMMA BeginGood ==
  ASSUME RInv, NEW op, NEW rows, NEW working, Begin(op, rows, working),
         CallOK(nb, [op |-> op, todo |-> rows, working |-> working])
  PROVE  Good
<1>1. /\ nb' = nb /\ result' = result
      /\ call' = [op |-> op, todo |-> rows, working |-> working]
  BY DEF Begin
<1>2. StateOK(nb', call', result')
  BY <1>1 DEF RInv, StateOK
<1>3. UNCHANGED Abstract!svars
  BY <1>1, AbstractStutters
<1> QED BY <1>2, <1>3 DEF Good

\* The working copy of a merge keeps the rows of the neighborhood.
LEMMA KeepsStep ==
  ASSUME NEW n, NEW w, Sound(w), Keeps(n, w), NEW r, NEW b, NEW id,
         \/ r = w
         \/ IsInsertion(w, r, b, id)
         \/ \E k \in 1..Len(w.entries) :
              w.entries[k].identifier = NoId /\ IsNaming(w, r, k, id)
  PROVE  Keeps(n, r)
<1> DEFINE ws == w.entries
           rs == r.entries
<1>0. Len(ws) \in Nat
  BY SoundTypes
<1>1. \A k \in 1..Len(ws) : \E l \in 1..Len(rs) :
        /\ rs[l].bytes = ws[k].bytes /\ ws[k].identifier \in {NoId, rs[l].identifier}
  <2>1. CASE r = w
    BY <2>1
  <2>2. CASE IsInsertion(w, r, b, id)
    <3>1. PICK pos : GrowsBy(ws, rs, pos, b, id)
      BY <2>2 DEF IsInsertion
    <3>2. ASSUME NEW k \in 1..Len(ws)
          PROVE  \E l \in 1..Len(rs) : SameRow(rs[l], ws[k])
      <4> DEFINE l == IF k >= pos THEN k + 1 ELSE k
      <4>1. l \in 1..Len(rs)
        BY <1>0, <3>1 DEF GrowsBy
      <4>2. SameRow(rs[l], ws[k])
        BY <3>1 DEF GrowsBy
      <4> QED BY <4>1, <4>2
    <3> QED BY <3>2 DEF SameRow
  <2>3. ASSUME NEW i \in 1..Len(ws), ws[i].identifier = NoId, IsNaming(w, r, i, id)
        PROVE  \A k \in 1..Len(ws) :
                 /\ k \in 1..Len(rs)
                 /\ rs[k].bytes = ws[k].bytes /\ ws[k].identifier \in {NoId, rs[k].identifier}
    BY <2>3 DEF IsNaming, Renames
  <2> QED BY <2>1, <2>2, <2>3
<1> HIDE DEF ws, rs
<1>2. ASSUME NEW i \in 1..Len(n.entries)
      PROVE  \E l \in 1..Len(rs) : /\ rs[l].bytes = n.entries[i].bytes
                                   /\ n.entries[i].identifier \in {NoId, rs[l].identifier}
  <2>1. PICK k \in 1..Len(ws) : /\ ws[k].bytes = n.entries[i].bytes
                                /\ n.entries[i].identifier \in {NoId, ws[k].identifier}
    BY DEF Keeps, ws
  <2>2. PICK l \in 1..Len(rs) :
          rs[l].bytes = ws[k].bytes /\ ws[k].identifier \in {NoId, rs[l].identifier}
    BY <1>1
  <2> QED BY <2>1, <2>2
<1> QED BY <1>2 DEF Keeps, rs

\* The next row of rebuild and validate goes to the end of the working copy.
LEMMA ReplaysStep ==
  ASSUME NEW n, Sound(n), NEW w, Sound(w), NEW todo \in Seq(NeighborhoodRow), todo # <<>>,
         Replays(n, w, todo)
  PROVE  /\ \A i \in 1..Len(w.entries) : w.entries[i].bytes # Head(todo).bytes
         /\ \A r : IsInsertion(w, r, Head(todo).bytes, Head(todo).identifier)
                     => Replays(n, r, Tail(todo))
<1> DEFINE ws == w.entries
           es == n.entries
           row == Head(todo)
           rest == Tail(todo)
           k == Len(ws)
<1>1. /\ k \in Nat /\ Len(es) \in Nat /\ InByteOrder(es) /\ DOMAIN es = 1..Len(es)
      /\ \A i \in 1..Len(es) : es[i].bytes \in Nat
  BY SoundTypes, MemberFacts
<1>2. /\ row = todo[1] /\ Len(todo) \in Nat /\ Len(todo) > 0 /\ Len(rest) = Len(todo) - 1
      /\ \A i \in 1..Len(rest) : rest[i] = todo[i + 1]
  OBVIOUS
<1>3. /\ k + Len(todo) = Len(es)
      /\ \A i \in 1..k : SameRow(ws[i], es[i])
      /\ \A i \in 1..Len(todo) : todo[i] = Row(es[k + i])
  BY DEF Replays
<1> HIDE DEF ws, es, row, rest, k
<1>4. k + 1 \in 1..Len(es) /\ row.bytes = es[k + 1].bytes /\ row.identifier = es[k + 1].identifier
  <2>1. k + 1 \in 1..Len(es)
    BY <1>1, <1>2, <1>3
  <2>2. row = Row(es[k + 1])
    BY <1>2, <1>3
  <2> QED BY <2>1, <2>2 DEF Row
<1>5. \A i \in 1..k : ws[i].bytes < row.bytes /\ ws[i].bytes \in Nat
  <2> SUFFICES ASSUME NEW i \in 1..k PROVE ws[i].bytes < row.bytes /\ ws[i].bytes \in Nat
    OBVIOUS
  <2>1. i \in 1..Len(es) /\ i < k + 1
    BY <1>1, <1>4
  <2>2. es[i].bytes < es[k + 1].bytes
    BY <1>1, <1>4, <2>1 DEF InByteOrder
  <2>3. ws[i].bytes = es[i].bytes
    BY <1>3 DEF SameRow
  <2> QED BY <1>1, <1>4, <2>1, <2>2, <2>3
<1>6. row.bytes \in Nat
  BY <1>1, <1>4
<1>7. ASSUME NEW r, IsInsertion(w, r, row.bytes, row.identifier)
      PROVE  Replays(n, r, rest)
  <2> DEFINE rs == r.entries
  <2>1. PICK pos : GrowsBy(ws, rs, pos, row.bytes, row.identifier)
    BY <1>7 DEF IsInsertion, ws
  <2>2. /\ pos \in 1..(k + 1) /\ Len(rs) = k + 1
        /\ rs[pos].bytes = row.bytes /\ rs[pos].identifier = row.identifier
        /\ \A i \in 1..k : SameRow(rs[IF i >= pos THEN i + 1 ELSE i], ws[i])
        /\ \A i \in pos..k : ws[i].bytes > row.bytes
    BY <2>1 DEF GrowsBy, k
  <2> HIDE DEF rs
  <2>3. pos = k + 1
    <3> SUFFICES ASSUME pos # k + 1 PROVE FALSE
      OBVIOUS
    <3>1. k \in pos..k /\ k \in 1..k
      BY <1>1, <2>2
    <3> QED BY <1>5, <1>6, <2>2, <3>1
  <2>4. \A i \in 1..k : SameRow(rs[i], ws[i])
    BY <1>1, <2>2, <2>3
  <2>5. \A i \in 1..Len(rs) : SameRow(rs[i], es[i])
    BY <1>1, <1>3, <1>4, <2>2, <2>3, <2>4 DEF SameRow
  <2>6. \A i \in 1..Len(rest) : rest[i] = Row(es[Len(rs) + i])
    <3> SUFFICES ASSUME NEW i \in 1..Len(rest) PROVE rest[i] = Row(es[Len(rs) + i])
      OBVIOUS
    <3>1. i + 1 \in 1..Len(todo) /\ k + (i + 1) = Len(rs) + i
      BY <1>1, <1>2, <2>2
    <3> QED BY <1>2, <1>3, <3>1
  <2>7. Len(rs) + Len(rest) = Len(es)
    BY <1>1, <1>2, <1>3, <2>2
  <2> QED BY <2>5, <2>6, <2>7 DEF Replays, rs, es
<1>8. \A i \in 1..k : ws[i].bytes # row.bytes
  BY <1>5, <1>6
<1> QED BY <1>7, <1>8 DEF ws, k, row, rest

\* The first row of a call in progress.
LEMMA NextRow ==
  ASSUME Inv, call.todo # <<>>
  PROVE  /\ call.op \in Calls
         /\ call.todo \in Seq(NeighborhoodRow)
         /\ Head(call.todo).bytes \in Contents
         /\ Head(call.todo).identifier \in Identifiers \cup {NoId}
<1>1. Shape(call, result)
  BY InvIsShape
<1>2. call.todo \in Seq(NeighborhoodRow)
  BY <1>1 DEF Shape
<1>3. Head(call.todo) \in NeighborhoodRow
  BY <1>2
<1>4. call.op # "none"
  BY <1>1 DEF Shape, NoCall
<1> QED BY <1>1, <1>2, <1>3, <1>4 DEF NeighborhoodRow, Shape

\* Each row of merge, rebuild, validate and from_rows.
LEMMA InsertRowGood ==
  ASSUME RInv, InsertRow
  PROVE  Good
<1> DEFINE row == Head(call.todo)
           w == call.working
<1>1. /\ Sound(nb) /\ Sound(w) /\ StateOK(nb, call, result) /\ CallOK(nb, call) /\ RowsOK(w)
      /\ RowsOK(nb)
  BY Parts DEF RInv, StateOK, CallOK
<1>2. /\ call.todo # <<>> /\ call.op \in Calls /\ call.todo \in Seq(NeighborhoodRow)
      /\ row.bytes \in Contents /\ row.identifier \in Identifiers \cup {NoId}
  BY NextRow DEF InsertRow, RInv
<1>3. PICK a \in InsertInner(w, row.bytes, row.identifier) :
        IF a.status \in Failures
        THEN Fail(call.op, IF call.op = "validate" /\ a.status # "Panic"
                           THEN "reference reconstruction failed" ELSE a.status)
        ELSE /\ call' = [call EXCEPT !.todo = Tail(@), !.working = a.nb]
             /\ UNCHANGED <<nb, result>>
  BY DEF InsertRow
<1>4. \/ a.status \in Refusals /\ a.nb = w
      \/ a.status = "Inserted" /\ IsInsertion(w, a.nb, row.bytes, row.identifier)
      \/ /\ a.status = "Existing"
         /\ \E i \in 1..Len(w.entries) :
              /\ w.entries[i].bytes = row.bytes
              /\ \/ a.nb = w
                 \/ w.entries[i].identifier = NoId /\ IsNaming(w, a.nb, i, row.identifier)
  BY <1>1, <1>2, InsertEffects
<1> HIDE DEF row, w
<1>5. CASE a.status \in Refusals
  <2> DEFINE status == IF call.op = "validate" /\ a.status # "Panic"
                       THEN "reference reconstruction failed" ELSE a.status
  <2>1. Fail(call.op, status)
    BY <1>3, <1>5 DEF Refusals
  <2>2. status \notin Successes /\ status # "Panic"
    BY <1>5 DEF Refusals, Failures, Successes
  <2> HIDE DEF status
  <2> QED BY <1>2, <2>1, <2>2, FailGood
<1>6. CASE \/ a.status = "Inserted" /\ IsInsertion(w, a.nb, row.bytes, row.identifier)
           \/ /\ a.status = "Existing"
              /\ \E i \in 1..Len(w.entries) :
                   /\ w.entries[i].bytes = row.bytes
                   /\ \/ a.nb = w
                      \/ /\ w.entries[i].identifier = NoId
                         /\ IsNaming(w, a.nb, i, row.identifier)
  <2>1. /\ nb' = nb /\ result' = result
        /\ call' = [call EXCEPT !.todo = Tail(@), !.working = a.nb]
    BY <1>3, <1>6 DEF Failures
  <2>2. /\ call'.op = call.op /\ call'.todo = Tail(call.todo) /\ call'.working = a.nb
    <3>1. call = [op |-> call.op, todo |-> call.todo, working |-> call.working]
      BY InvIsShape DEF RInv, Shape
    <3> QED BY <2>1, <3>1
  <2>3. Leads(w) /\ (Exact(w) => Exact(a.nb)) /\ Leads(a.nb)
    <3>1. Leads(w)
      BY <1>1 DEF RowsOK
    <3>2. CASE IsInsertion(w, a.nb, row.bytes, row.identifier)
      BY <1>1, <1>2, <3>1, <3>2, InsertionLeads
    <3>3. ASSUME NEW i \in 1..Len(w.entries), w.entries[i].identifier = NoId,
                 IsNaming(w, a.nb, i, row.identifier)
          PROVE  (Exact(w) => Exact(a.nb)) /\ Leads(a.nb)
      BY <1>1, <3>1, <3>3, NamingLeads
    <3> QED BY <1>6, <3>1, <3>2, <3>3
  <2>4. RowsOK(a.nb)
    BY <1>1, <2>3 DEF RowsOK
  <2>5. call.op \in {"from_rows", "rebuild", "validate"} => Exact(a.nb)
    BY <1>1, <2>3 DEF CallOK, w
  <2>6. ASSUME call.op = "merge" PROVE Keeps(nb, a.nb)
    <3>1. Keeps(nb, w)
      BY <1>1, <2>6 DEF CallOK, w
    <3> QED BY <1>1, <1>6, <3>1, KeepsStep
  <2>7. ASSUME call.op \in {"rebuild", "validate"} PROVE Replays(nb, a.nb, Tail(call.todo))
    <3>1. Replays(nb, w, call.todo)
      BY <1>1, <2>7 DEF CallOK, w
    <3>2. /\ \A i \in 1..Len(w.entries) : w.entries[i].bytes # row.bytes
          /\ \A r : IsInsertion(w, r, row.bytes, row.identifier)
                      => Replays(nb, r, Tail(call.todo))
      BY <1>1, <1>2, <3>1, ReplaysStep DEF row
    <3> QED BY <1>6, <3>2
  <2>8. CallOK(nb', call')
    BY <2>1, <2>2, <2>4, <2>5, <2>6, <2>7 DEF CallOK
  <2>9. StateOK(nb', call', result')
    BY <1>1, <2>1, <2>8 DEF StateOK
  <2> QED BY <2>1, <2>9, AbstractStutters DEF Good
<1> QED BY <1>4, <1>5, <1>6

\* What a call starts with.
LEMMA StartOK ==
  ASSUME RInv
  PROVE  /\ \A rows : CallOK(nb, [op |-> "merge", todo |-> rows, working |-> nb])
         /\ \A rows : CallOK(nb, [op |-> "from_rows", todo |-> rows, working |-> New])
         /\ \A op \in {"rebuild", "validate"} :
              CallOK(nb, [op |-> op, todo |-> Rows(nb), working |-> New])
<1>1. RowsOK(nb) /\ RowsOK(New) /\ Exact(New)
  BY NewExact DEF RInv, StateOK, RowsOK, Exact
<1>2. Keeps(nb, nb)
  BY DEF Keeps
<1>3. Replays(nb, New, Rows(nb))
  <2>1. DOMAIN nb.entries = 1..Len(nb.entries) /\ Len(nb.entries) \in Nat
    BY Parts, SoundTypes
  <2>2. /\ Len(Rows(nb)) = Len(nb.entries)
        /\ \A i \in 1..Len(nb.entries) : Rows(nb)[i] = Row(nb.entries[i])
    BY <2>1 DEF Rows
  <2>3. New.entries = <<>>
    BY DEF New
  <2> QED BY <2>1, <2>2, <2>3 DEF Replays
<1> QED BY <1>1, <1>2, <1>3 DEF CallOK

\* What validate looks at first is in order.
LEMMA EntriesAreRight ==
  ASSUME RInv
  PROVE  EntriesError = "Ok"
<1> DEFINE e == nb.entries
<1>1. /\ DOMAIN e = 1..Len(e) /\ Len(e) \in Nat /\ InByteOrder(e) /\ IsTree(AddressesOf(e))
      /\ e \in Seq(Entry) /\ Leads(nb)
  BY Parts, SoundTypes DEF Sound
<1>2. \A i \in 1..Len(e) : /\ e[i].bytes \in Nat /\ e[i].address # <<>>
                           /\ e[i].bytes \in DOMAIN AddressesOf(e)
                           /\ AddressesOf(e)[e[i].bytes] = e[i].address
  BY <1>1, EntriesFacts
<1>3. ~ \E i \in 1..(Len(e) - 1) : e[i].bytes >= e[i + 1].bytes
  <2> SUFFICES ASSUME NEW i \in 1..(Len(e) - 1) PROVE ~(e[i].bytes >= e[i + 1].bytes)
    OBVIOUS
  <2>1. i \in 1..Len(e) /\ i + 1 \in 1..Len(e) /\ i < i + 1
    BY <1>1
  <2>2. e[i].bytes < e[i + 1].bytes
    BY <1>1, <2>1 DEF InByteOrder
  <2> QED BY <1>2, <2>1, <2>2
<1>4. ~ \E i, j \in DOMAIN e : i # j /\ e[i].identifier = e[j].identifier
                                /\ e[i].identifier # NoId
  BY <1>1 DEF Leads
<1>5. ~ \E i \in DOMAIN e : e[i].address = <<>>
  BY <1>1, <1>2
<1>6. ~ \E i \in DOMAIN e : e[i].address # Prefix(e[i].bytes, Len(e[i].address))
  BY <1>1, <1>2 DEF IsTree, Follows
<1> HIDE DEF e
<1> QED BY <1>3, <1>4, <1>5, <1>6 DEF EntriesError, e

\* At the end of rebuild and validate the working copy has the entries of the
\* neighborhood.
LEMMA ReplayDone ==
  ASSUME RInv, call.op \in {"rebuild", "validate"}, call.todo = <<>>
  PROVE  LET w == call.working IN
         /\ nb.entries = w.entries
         /\ Form(nb.trie) = Form(w.trie)
         /\ Exact(nb) => nb.identifier_index = w.identifier_index
<1> DEFINE w == call.working
<1>1. Sound(nb) /\ Sound(w) /\ Exact(w) /\ Replays(nb, w, <<>>)
  BY Parts DEF RInv, StateOK, CallOK
<1>2. Len(w.entries) = Len(nb.entries)
  BY <1>1, SoundTypes DEF Replays
<1>3. SameRows(nb.entries, w.entries)
  BY <1>1, <1>2 DEF Replays, SameRows, SameRow
<1> QED BY <1>1, <1>3, RowsDetermine

\* Beginning merge and from_rows.
LEMMA BeginBatchGood ==
  ASSUME RInv, NEW rows, BeginMerge(rows) \/ BeginFromRows(rows)
  PROVE  Good
<1>1. CASE BeginMerge(rows)
  <2>1. Begin("merge", rows, nb)
    BY <1>1 DEF BeginMerge
  <2> QED BY <2>1, StartOK, BeginGood
<1>2. CASE BeginFromRows(rows)
  <2>1. Begin("from_rows", rows, New)
    BY <1>2 DEF BeginFromRows
  <2> QED BY <2>1, StartOK, BeginGood
<1> QED BY <1>1, <1>2

\* Beginning rebuild and validate, which refuses no neighborhood at once.
LEMMA BeginReplayGood ==
  ASSUME RInv, BeginRebuild \/ BeginValidate
  PROVE  Good
<1>1. CASE BeginRebuild
  <2>1. Begin("rebuild", Rows(nb), New)
    BY <1>1 DEF BeginRebuild
  <2> QED BY <2>1, StartOK, BeginGood
<1>2. CASE BeginValidate
  <2>1. Begin("validate", Rows(nb), New)
    BY <1>2, EntriesAreRight DEF BeginValidate
  <2> QED BY <2>1, StartOK, BeginGood
<1> QED BY <1>1, <1>2

\* A merge refused for its scheme.
LEMMA MergeOtherSchemeGood ==
  ASSUME RInv, MergeOtherScheme
  PROVE  Good
<1>1. "merge" \in Calls /\ "SchemeMismatch" \notin Successes
  BY DEF Calls, Successes
<1> QED BY <1>1, FailGood DEF MergeOtherScheme

\* The end of validate.
LEMMA EndValidateGood ==
  ASSUME RInv, EndValidate
  PROVE  Good
<1> DEFINE status == ReferenceError(call.working)
<1>1. Fail("validate", status) /\ "validate" \in Calls /\ status # "Panic"
      /\ (status \in Successes => status = "Ok")
  BY DEF EndValidate, Calls, ReferenceError, Successes
<1> HIDE DEF status
<1>2. CASE status \notin Successes
  BY <1>1, <1>2, FailGood
<1>3. CASE status = "Ok"
  <2>1. nb' = nb /\ call' = NoCall /\ result'.op = "validate" /\ result'.status = "Ok"
    BY <1>1, <1>3 DEF Fail, Report
  <2>2. StateOK(nb', call', result')
    BY <2>1, IdleCall DEF RInv, StateOK
  <2>3. Sound(nb) /\ Leads(nb)
    BY Parts
  <2>4. IdsOf(nb'.entries) = IdsOf(nb.entries) /\ "Ok" \in Successes
    BY <2>1 DEF Successes
  <2>5. Abstract!Next
    BY <2>1, <2>3, <2>4, AbstractSucceeds
  <2> QED BY <2>2, <2>5 DEF Good
<1> QED BY <1>1, <1>2, <1>3

\* A call that ends by adopting its working copy.
LEMMA AdoptGood ==
  ASSUME RInv, NEW op \in {"merge", "rebuild", "from_rows"}, call.op = op, call.todo = <<>>,
         nb' = call.working, call' = NoCall, result'.op = op, result'.status = "Ok"
  PROVE  Good
<1> DEFINE w == call.working
           I == IdsOf(nb.entries)
           J == IdsOf(nb'.entries)
<1>1. Sound(nb) /\ Sound(w) /\ CallOK(nb, call) /\ RowsOK(w)
  BY Parts DEF RInv, StateOK, CallOK
<1>2. StateOK(nb', call', result')
  BY <1>1, IdleCall DEF StateOK
<1>3. Leads(nb') /\ Sound(nb') /\ result'.status \in Successes
  BY <1>1 DEF RowsOK, Successes
<1>4. CASE op = "from_rows"
  <2> HIDE DEF I, J
  <2>1. Abstract!Next
    BY <1>1, <1>3, <1>4, AbstractSucceeds DEF I, J
  <2> QED BY <1>2, <2>1 DEF Good
<1>5. CASE op = "rebuild"
  <2>1. J = I
    BY <1>5, ReplayDone
  <2> HIDE DEF I, J
  <2>2. Abstract!Next
    BY <1>1, <1>3, <1>5, <2>1, AbstractSucceeds DEF I, J
  <2> QED BY <1>2, <2>2 DEF Good
<1>6. CASE op = "merge"
  <2> DEFINE es == nb.entries
             ws == w.entries
  <2>1. /\ \A b : b \in DOMAIN I <=> \E i \in 1..Len(es) : es[i].bytes = b
        /\ \A i \in 1..Len(es) : I[es[i].bytes] = es[i].identifier
    BY <1>1, MemberFacts
  <2>2. /\ \A b : b \in DOMAIN J <=> \E i \in 1..Len(ws) : ws[i].bytes = b
        /\ \A i \in 1..Len(ws) : J[ws[i].bytes] = ws[i].identifier
    <3> DEFINE K == IdsOf(w.entries)
    <3>1. J = K
      OBVIOUS
    <3>2. /\ \A b : b \in DOMAIN K <=> \E i \in 1..Len(ws) : ws[i].bytes = b
          /\ \A i \in 1..Len(ws) : K[ws[i].bytes] = ws[i].identifier
      BY <1>1, MemberFacts
    <3> HIDE DEF J, K
    <3> QED BY <3>1, <3>2
  <2>3. \A i \in 1..Len(es) : \E k \in 1..Len(ws) :
          /\ ws[k].bytes = es[i].bytes /\ es[i].identifier \in {NoId, ws[k].identifier}
    BY <1>1, <1>6 DEF CallOK, Keeps
  <2> HIDE DEF I, J, es, ws
  <2>4. DOMAIN I \subseteq DOMAIN J /\ \A b \in DOMAIN I : I[b] \in {NoId, J[b]}
    <3> SUFFICES ASSUME NEW b \in DOMAIN I PROVE b \in DOMAIN J /\ I[b] \in {NoId, J[b]}
      OBVIOUS
    <3>1. PICK i \in 1..Len(es) : es[i].bytes = b
      BY <2>1
    <3>2. PICK k \in 1..Len(ws) :
            ws[k].bytes = es[i].bytes /\ es[i].identifier \in {NoId, ws[k].identifier}
      BY <2>3
    <3> QED BY <2>1, <2>2, <3>1, <3>2
  <2>5. Abstract!Next
    BY <1>1, <1>3, <1>6, <2>4, AbstractSucceeds DEF I, J
  <2> QED BY <1>2, <2>5 DEF Good
<1> QED BY <1>4, <1>5, <1>6

\* The end of from_rows.
LEMMA EndFromRowsGood ==
  ASSUME RInv, EndFromRows
  PROVE  Good
<1>1. /\ call.op = "from_rows" /\ call.todo = <<>> /\ nb' = call.working /\ call' = NoCall
      /\ result'.op = "from_rows" /\ result'.status = "Ok"
  BY DEF EndFromRows, Done, Report
<1> QED BY <1>1, AdoptGood

\* The end of merge and rebuild: each entry has its counterpart in the working copy.
LEMMA CommitGood ==
  ASSUME RInv, NEW op \in {"merge", "rebuild"}, Commit(op)
  PROVE  Good
<1> DEFINE w == call.working
<1>1. /\ Sound(nb) /\ Sound(w) /\ CallOK(nb, call) /\ call.op = op /\ call.todo = <<>>
      /\ DOMAIN nb.entries = 1..Len(nb.entries) /\ DOMAIN w.entries = 1..Len(w.entries)
  BY Parts, SoundTypes DEF RInv, StateOK, CallOK, Commit, Done
<1>2. ASSUME NEW i \in DOMAIN nb.entries PROVE Counterpart(i) # {}
  <2>1. \E k \in 1..Len(w.entries) : w.entries[k].bytes = nb.entries[i].bytes
    <3>1. CASE op = "merge"
      BY <1>1, <1>2, <3>1 DEF CallOK, Keeps
    <3>2. CASE op = "rebuild"
      BY <1>1, <1>2, <3>2, ReplayDone
    <3> QED BY <3>1, <3>2
  <2>2. PICK k \in DOMAIN w.entries : w.entries[k].bytes = nb.entries[i].bytes
    BY <1>1, <2>1
  <2>3. w.entries[k] \in Range(w.entries)
    BY DEF Range
  <2>4. w.entries[k] \in Counterpart(i)
    BY <2>2, <2>3 DEF Counterpart
  <2> QED BY <2>4
<1>3. /\ nb' = w /\ call' = NoCall /\ result'.op = op /\ result'.status = "Ok"
  <2>1. ~ \E i \in DOMAIN nb.entries : Counterpart(i) = {}
    BY <1>2
  <2> QED BY <2>1 DEF Commit, Report
<1> QED BY <1>1, <1>3, AdoptGood

\* Every step.
LEMMA NextGood ==
  ASSUME RInv, [Next]_vars
  PROVE  Good
<1>1. Inv'
  BY NextInv DEF RInv
<1>2. CASE UNCHANGED vars
  <2>1. StateOK(nb', call', result')
    BY <1>2 DEF vars, RInv
  <2> QED BY <1>2, <2>1, AbstractStutters DEF vars, Good
<1>3. ASSUME NEW b \in Contents, NEW id \in Identifiers \cup {NoId}, Insert(b, id)
      PROVE  Good
  BY <1>1, <1>3, InsertGood
<1>4. ASSUME NEW b \in Contents, NEW id \in Identifiers \cup {NoId}, SetIdentifier(b, id)
      PROVE  Good
  BY <1>1, <1>4, SetIdentifierGood
<1>5. ASSUME NEW b \in Contents, RemoveByBytes(b)
      PROVE  Good
  BY <1>1, <1>5, RemoveByBytesGood
<1>6. ASSUME NEW id \in Identifiers, RemoveByIdentifier(id)
      PROVE  Good
  BY <1>1, <1>6, RemoveByIdentifierGood
<1>7. CASE EndMerge \/ EndRebuild
  BY <1>7, CommitGood DEF EndMerge, EndRebuild
<1> QED BY <1>2, <1>3, <1>4, <1>5, <1>6, <1>7, BeginBatchGood, MergeOtherSchemeGood,
           BeginReplayGood, InsertRowGood, EndValidateGood, EndFromRowsGood DEF Next

-----------------------------------------------------------------------------
(* The theorems.                                                           *)

\* The rows of the neighborhood and of every working copy, their identifiers and the
\* identifier index stay in step through every call (neighborhood.rs).
THEOREM RowsInvariant == Spec => []RInv
<1>1. Init => RInv
  BY InitInv, InitRows DEF RInv
<1>2. RInv /\ [Next]_vars => RInv'
  <2> SUFFICES ASSUME RInv, [Next]_vars PROVE RInv'
    OBVIOUS
  <2>1. Inv'
    BY NextInv DEF RInv
  <2>2. StateOK(nb', call', result')
    BY NextGood DEF Good
  <2> QED BY <2>1, <2>2 DEF RInv, StateOK, RowsOK, CallOK, Keeps, Replays, Leads, Exact
<1> QED BY <1>1, <1>2, PTL DEF Spec

\* An identifier that an entry carries leads back to the entry through identifier_index,
\* whatever identifiers callers replace: get_by_identifier finds every holder.
THEOREM IdentifiersLeadBack == Spec => []IdentifierForward
<1>1. RInv => IdentifierForward
  <2>1. RInv => Leads(nb) /\ DOMAIN nb.entries = 1..Len(nb.entries)
    BY Parts, SoundTypes
  <2> QED BY <2>1 DEF IdentifierForward, Leads
<1> QED BY <1>1, RowsInvariant, PTL

\* Where callers replace no identifier by another, identifier_index is exactly the map
\* from the entries' identifiers to their positions.
THEOREM IndexStaysExact ==
  ASSUME Reassign = FALSE
  PROVE  Spec => []IdentifierIndexExact
<1>1. RInv => IdentifierIndexExact
  <2> SUFFICES ASSUME RInv PROVE IdentifierIndexExact
    OBVIOUS
  <2> DEFINE es == nb.entries
             ix == nb.identifier_index
             Ids == {e.identifier : e \in Range(es)} \ {NoId}
  <2>1. /\ DOMAIN es = 1..Len(es) /\ ix \in [DOMAIN ix -> Nat]
        /\ Leads(nb) /\ Exact(nb)
    BY Parts, SoundTypes
  <2>2. /\ \A i \in 1..Len(es) : es[i].identifier # NoId =>
             es[i].identifier \in DOMAIN ix /\ ix[es[i].identifier] = i
        /\ \A x \in DOMAIN ix : x # NoId /\ \E i \in 1..Len(es) : es[i].identifier = x
    BY <2>1 DEF Exact, Leads
  <2>3. \A x : x \in Ids <=> x # NoId /\ \E i \in 1..Len(es) : es[i].identifier = x
    BY <2>1 DEF Range
  <2> HIDE DEF es, ix, Ids
  <2>4. DOMAIN ix = Ids
    <3>1. \A x : x \in DOMAIN ix <=> x \in Ids
      BY <2>2, <2>3
    <3> QED BY <3>1
  <2>5. ASSUME NEW x \in Ids
        PROVE  ix[x] = CHOOSE i \in DOMAIN es : es[i].identifier = x
    <3>1. PICK i \in DOMAIN es : es[i].identifier = x
      BY <2>1, <2>3
    <3>2. \A k \in DOMAIN es : es[k].identifier = x => k = ix[x]
      BY <2>1, <2>2, <2>3
    <3> QED BY <3>1, <3>2
  <2>6. ix = [x \in Ids |-> CHOOSE i \in DOMAIN es : es[i].identifier = x]
    BY <2>1, <2>4, <2>5
  <2> QED BY <2>6 DEF IdentifierIndexExact, es, ix, Ids
<1> QED BY <1>1, RowsInvariant, PTL

\* Where callers replace no identifier by another, every behaviour of the neighborhood is
\* one of its abstract specification: every call that succeeds acts as one step there, a
\* call that fails changes nothing, and no call panics (neighborhood.rs, the header).
THEOREM Refinement ==
  ASSUME Reassign = FALSE
  PROVE  Spec => ImplementsSpec
<1>1. Init => Abstract!Init
  <2> SUFFICES ASSUME Init PROVE Abstract!Init
    OBVIOUS
  <2>1. nb.entries = <<>> /\ result.op = "new" /\ result.status = "Ok"
    BY DEF Init, New, Report
  <2>2. Members = {}
    BY <2>1 DEF Members, Range
  <2>3. (result.status \in Successes) = TRUE
    BY <2>1 DEF Successes
  <2> QED BY <2>1, <2>2, <2>3 DEF Abstract!Init
<1>2. RInv /\ [Next]_vars => [Abstract!Next]_(Abstract!svars)
  BY NextGood DEF Good
<1> QED BY <1>1, <1>2, RowsInvariant, PTL DEF Spec, ImplementsSpec, Abstract!Spec

-----------------------------------------------------------------------------
(* Rebuilding agrees.                                                      *)

\* MAX_DIVERGENCE_ATOMS reaches the first difference of any two streams that differ.
BoundReaches ==
  \A b, c \in Contents :
    (\E k \in Horizon(b, c) : Stream(b, k) # Stream(c, k))
      => \E k \in 1..MaxDivergence : Stream(b, k) # Stream(c, k)

\* Where the bound reaches, a split of two contents that differ finds where they do.
LEMMA SharedAtomsFound ==
  ASSUME BoundReaches, NEW b \in Contents, NEW c \in Contents,
         NEW d \in Nat, Prefix(b, d) = Prefix(c, d),
         NEW k \in Horizon(b, c), Stream(b, k) # Stream(c, k)
  PROVE  SharedAtoms(b, c, d) # {}
<1> DEFINE K == {i \in 1..MaxDivergence : Stream(b, i) # Stream(c, i)}
<1>1. K \in SUBSET Nat /\ K # {}
  BY DivergenceAssumption DEF BoundReaches
<1>2. PICK l \in K : \A y \in K : l <= y
  BY <1>1, LeastNatural
<1>3. \A i \in 1..d : Stream(b, i) = Stream(c, i)
  <2>1. /\ \A i \in 1..d : Prefix(b, d)[i] = Stream(b, i)
        /\ \A i \in 1..d : Prefix(c, d)[i] = Stream(c, i)
    BY PrefixProperties
  <2> QED BY <2>1
<1>4. l \in 1..MaxDivergence /\ Stream(b, l) # Stream(c, l) /\ MaxDivergence \in Nat
  BY DivergenceAssumption
<1>5. \A i \in 1..(l - 1) : Stream(b, i) = Stream(c, i)
  <2> SUFFICES ASSUME NEW i \in 1..(l - 1), Stream(b, i) # Stream(c, i) PROVE FALSE
    OBVIOUS
  <2>1. i \in K
    BY <1>4
  <2>2. l <= i
    BY <1>2, <2>1
  <2> QED BY <1>4, <2>2
<1> HIDE DEF K
<1> DEFINE j == l - d - 1
<1>6. l > d
  BY <1>3, <1>4
<1>7. j \in 0..(MaxDivergence - 1) /\ d + j + 1 = l /\ d + j = l - 1
  BY <1>4, <1>6
<1> HIDE DEF j
<1>8. \A i \in (d + 1)..(d + j) : Stream(b, i) = Stream(c, i)
  BY <1>4, <1>5, <1>7
<1>9. j \in SharedAtoms(b, c, d)
  BY <1>4, <1>7, <1>8 DEF SharedAtoms
<1> QED BY <1>9

\* Where the bound reaches, no row of rebuild and validate is refused.
LEMMA ReplayInserts ==
  ASSUME BoundReaches, NEW n, Sound(n), Leads(n), NEW w, Sound(w), Exact(w),
         NEW todo \in Seq(NeighborhoodRow), todo # <<>>, Replays(n, w, todo),
         NEW a \in InsertInner(w, Head(todo).bytes, Head(todo).identifier)
  PROVE  a.status \notin Failures
<1> DEFINE b == Head(todo).bytes
           id == Head(todo).identifier
           es == n.entries
           ws == w.entries
<1>1. /\ Head(todo) = todo[1] /\ Len(todo) \in Nat /\ Len(todo) > 0
  OBVIOUS
<1>2. /\ Len(ws) + Len(todo) = Len(es)
      /\ \A i \in 1..Len(ws) : SameRow(ws[i], es[i])
      /\ \A i \in 1..Len(todo) : todo[i] = Row(es[Len(ws) + i])
  BY DEF Replays
<1>3. /\ Len(ws) \in Nat /\ Len(es) \in Nat /\ DOMAIN ws = 1..Len(ws)
      /\ ws \in Seq(Entry) /\ InByteOrder(ws) /\ IsTree(AddressesOf(ws))
      /\ es \in Seq(Entry) /\ InByteOrder(es)
  BY SoundTypes DEF Sound
<1>4. \A i \in 1..Len(ws) : ws[i].bytes # b
  BY ReplaysStep
<1> DEFINE k == Len(ws) + 1
<1>5. k \in 1..Len(es) /\ es[k].bytes = b /\ es[k].identifier = id
  <2>1. Head(todo) = Row(es[k]) /\ k \in 1..Len(es)
    BY <1>1, <1>2, <1>3
  <2> QED BY <2>1 DEF Row
<1>6. b \in Contents /\ id \in Identifiers \cup {NoId}
  <2>1. es[k] \in Entry
    BY <1>3, <1>5
  <2> QED BY <1>5, <2>1 DEF Entry
<1>7. id \notin DOMAIN w.identifier_index
  <2> SUFFICES ASSUME id \in DOMAIN w.identifier_index PROVE FALSE
    OBVIOUS
  <2>1. PICK i \in 1..Len(ws) : ws[i].identifier = id /\ id # NoId
    BY DEF Exact
  <2>2. i \in 1..Len(es) /\ es[i].identifier = id
    BY <1>2, <1>3, <1>5, <2>1 DEF SameRow
  <2>3. i = k
    BY <1>5, <2>1, <2>2 DEF Leads
  <2> QED BY <1>3, <2>1, <2>3
<1> HIDE DEF b, id, k
<1>8. Find(w, b) = {}
  BY <1>3, <1>4 DEF Find
<1>9. PICK pos \in InsertPositions(w, b), d \in WalkEnds(w, b) : a \in InsertNew(w, b, id, pos, d)
  BY <1>7, <1>8 DEF InsertInner, b, id
<1> DEFINE m == w.trie[Prefix(b, d)].content
<1>10. CASE m = Vacant
  <2>1. a = ApplyInsert(w, b, id, pos, [base |-> d, member |-> Vacant, shared |-> 0])
    BY <1>9, <1>10 DEF InsertNew
  <2> QED BY <2>1 DEF ApplyInsert, Answer, Failures
<1>11. CASE m # Vacant
  <2> DEFINE c == ws[m].bytes
             shared == SharedAtoms(b, c, d)
  <2>1. m \in 1..Len(ws) /\ ws[m].address = Prefix(b, d) /\ d \in Nat
    BY <1>6, <1>11, WalkFacts
  <2>2. c \in Contents /\ c # b
    BY <1>3, <1>4, <2>1, EntriesFacts
  <2>3. Prefix(b, d) = Prefix(c, d)
    <3>1. /\ c \in DOMAIN AddressesOf(ws) /\ AddressesOf(ws)[c] = ws[m].address
      <4>1. /\ ws[m].bytes \in DOMAIN AddressesOf(ws)
            /\ AddressesOf(ws)[ws[m].bytes] = ws[m].address
        <5> HIDE DEF m, ws
        <5> QED BY <1>3, <2>1, EntriesFacts
      <4> QED BY <4>1
    <3>2. ws[m].address = Prefix(c, Len(ws[m].address))
      BY <1>3, <3>1 DEF IsTree, Follows
    <3>3. Len(Prefix(b, d)) = d
      BY <1>6, <2>1, PrefixProperties
    <3> QED BY <2>1, <3>2, <3>3
  <2>4. \E i \in Horizon(b, c) : Stream(b, i) # Stream(c, i)
    <3> DEFINE I == IdsOf(es)
    <3>1. Distinguishable(DOMAIN I)
      BY RowsAreLegal
    <3>2. m \in 1..Len(es) /\ es[m].bytes = c
      <4>1. Len(ws) \in Nat /\ Len(es) \in Nat /\ Len(ws) + 1 \in 1..Len(es)
        BY <1>2, <1>3, <1>5 DEF k
      <4>2. m \in 1..Len(es)
        BY <2>1, <4>1
      <4>3. SameRow(ws[m], es[m])
        BY <1>2, <2>1
      <4> QED BY <4>2, <4>3 DEF SameRow
    <3>3. b \in DOMAIN I /\ c \in DOMAIN I
      <4>1. \A x : x \in DOMAIN I <=> \E i \in 1..Len(es) : es[i].bytes = x
        BY MemberFacts
      <4> QED BY <1>5, <3>2, <4>1
    <3> HIDE DEF I, c
    <3> QED BY <2>2, <3>1, <3>3 DEF Distinguishable
  <2> HIDE DEF c
  <2>5. shared # {}
    BY <1>6, <2>1, <2>2, <2>3, <2>4, SharedAtomsFound
  <2>6. \E j \in shared :
          a = ApplyInsert(w, b, id, pos, [base |-> d, member |-> m, shared |-> j])
    <3>1. m \in DOMAIN ws
      BY <1>3, <2>1
    <3> QED BY <1>9, <1>11, <2>5, <3>1 DEF InsertNew, c
  <2>7. PICK j \in shared :
          a = ApplyInsert(w, b, id, pos, [base |-> d, member |-> m, shared |-> j])
    BY <2>6
  <2> HIDE DEF shared, m
  <2>8. a.status = "Inserted"
    BY <2>7 DEF ApplyInsert, Answer
  <2> QED BY <2>8 DEF Failures
<1> QED BY <1>10, <1>11

\* What validate and rebuild answer.
Agrees(r) ==
  r.op \in {"validate", "rebuild"} =>
    /\ r.status \in {"Ok", "identifier index"}
    /\ r.changes = <<>>
    /\ ~Reassign => r.status = "Ok"

\* The reference that validate builds agrees with the neighborhood, but for the index.
LEMMA ReferenceAgrees ==
  ASSUME RInv, call.op = "validate", call.todo = <<>>
  PROVE  LET status == ReferenceError(call.working) IN
         status \in {"Ok", "identifier index"} /\ (~Reassign => status = "Ok")
<1> DEFINE w == call.working
<1>1. /\ nb.entries = w.entries
      /\ Form(nb.trie) = Form(w.trie)
      /\ Exact(nb) => nb.identifier_index = w.identifier_index
  BY ReplayDone
<1>2. ~Reassign => Exact(nb)
  BY Parts
<1> QED BY <1>1, <1>2 DEF ReferenceError

\* The working copy of a rebuild moves no entry.
LEMMA RebuildMovesNone ==
  ASSUME RInv, call.op = "rebuild", call.todo = <<>>
  PROVE  Moved = {}
<1> DEFINE es == nb.entries
<1>1. call.working.entries = es /\ DOMAIN es = 1..Len(es)
  BY ReplayDone, Parts, SoundTypes
<1>2. \A i, j \in 1..Len(es) : es[i].bytes = es[j].bytes => i = j
  BY Parts, MemberFacts
<1>3. ASSUME NEW i \in DOMAIN es, NEW e \in Counterpart(i)
      PROVE  e.address = es[i].address
  <2>1. PICK k \in DOMAIN es : e = es[k] /\ es[k].bytes = es[i].bytes
    BY <1>1 DEF Counterpart, Range
  <2> QED BY <1>1, <1>2, <2>1
<1> QED BY <1>3 DEF Moved

\* Every step.
LEMMA NextAgrees ==
  ASSUME BoundReaches, RInv, Agrees(result), [Next]_vars
  PROVE  Agrees(result')
<1>1. CASE result' = result
  BY <1>1
<1>2. ASSUME result'.op \notin {"validate", "rebuild"} PROVE Agrees(result')
  BY <1>2 DEF Agrees
<1>3. ASSUME NEW op, NEW answers, op \notin {"validate", "rebuild"}, Returns(op, answers)
      PROVE  Agrees(result')
  <2>1. result'.op = op
    BY <1>3 DEF Returns, Report
  <2> QED BY <1>2, <1>3, <2>1
<1>4. CASE InsertRow
  <2>1. CASE call.op \in {"validate", "rebuild"}
    <3> DEFINE row == Head(call.todo)
               w == call.working
    <3>1. PICK a \in InsertInner(w, row.bytes, row.identifier) :
            a.status \notin Failures => result' = result
      BY <1>4 DEF InsertRow
    <3>2. /\ call.todo # <<>> /\ call.todo \in Seq(NeighborhoodRow)
      BY <1>4, NextRow DEF InsertRow, RInv
    <3>3. Sound(nb) /\ Leads(nb) /\ Sound(w)
      BY Parts
    <3>4. Replays(nb, w, call.todo) /\ Exact(w)
      BY <2>1 DEF RInv, StateOK, CallOK
    <3>5. a.status \notin Failures
      BY <3>1, <3>2, <3>3, <3>4, ReplayInserts
    <3> QED BY <3>1, <3>5
  <2>2. CASE call.op \notin {"validate", "rebuild"}
    <3> DEFINE row == Head(call.todo)
    <3>1. PICK a \in InsertInner(call.working, row.bytes, row.identifier) :
            result' = result \/ \E s : Fail(call.op, s)
      BY <1>4 DEF InsertRow
    <3>2. result' = result \/ \E s : result' = Report(call.op, s, <<>>, <<>>)
      BY <3>1 DEF Fail
    <3>3. result' = result \/ result'.op = call.op
      BY <3>2 DEF Report
    <3> QED BY <1>1, <1>2, <2>2, <3>3
  <2> QED BY <2>1, <2>2
<1>5. CASE EndValidate
  <2>1. call.op = "validate" /\ call.todo = <<>> /\ result'.changes = <<>>
        /\ result'.status = ReferenceError(call.working)
    BY <1>5 DEF EndValidate, Done, Fail, Report
  <2> DEFINE status == ReferenceError(call.working)
  <2>2. status \in {"Ok", "identifier index"} /\ (~Reassign => status = "Ok")
    BY <2>1, ReferenceAgrees
  <2>3. result'.status = status
    BY <2>1
  <2> HIDE DEF status
  <2> QED BY <2>1, <2>2, <2>3 DEF Agrees
<1>6. CASE EndRebuild
  <2>1. call.op = "rebuild" /\ call.todo = <<>>
    BY <1>6 DEF EndRebuild, Commit, Done
  <2>2. Moved = {} /\ Cardinality(Moved) = 0
    BY <2>1, RebuildMovesNone, FS_EmptySet
  <2>3. ~ \E i \in DOMAIN nb.entries : Counterpart(i) = {}
    <3> SUFFICES ASSUME NEW i \in DOMAIN nb.entries PROVE Counterpart(i) # {}
      OBVIOUS
    <3>1. nb.entries[i] \in Counterpart(i)
      BY <2>1, ReplayDone DEF Counterpart, Range
    <3> QED BY <3>1
  <2>4. result'.status = "Ok" /\ result'.changes = <<>>
    BY <1>6, <2>2, <2>3 DEF EndRebuild, Commit, Report
  <2> QED BY <2>4 DEF Agrees
<1>7. CASE EndMerge
  <2>1. result'.op = "merge"
    BY <1>7 DEF EndMerge, Commit, Fail, Report
  <2> QED BY <1>2, <2>1
<1>8. CASE EndFromRows \/ MergeOtherScheme
  <2>1. result'.op \in {"from_rows", "merge"}
    BY <1>8 DEF EndFromRows, MergeOtherScheme, Fail, Report
  <2> QED BY <1>2, <2>1
<1>9. CASE BeginValidate \/ BeginRebuild \/ \E rows : BeginMerge(rows) \/ BeginFromRows(rows)
  <2>1. result' = result
    BY <1>9, EntriesAreRight
       DEF BeginValidate, BeginRebuild, BeginMerge, BeginFromRows, Begin
  <2> QED BY <1>1, <2>1
<1>10. CASE UNCHANGED vars
  BY <1>1, <1>10 DEF vars
<1>11. CASE \/ \E b \in Contents, id \in Identifiers \cup {NoId} :
                 Insert(b, id) \/ SetIdentifier(b, id)
            \/ \E b \in Contents : RemoveByBytes(b)
            \/ \E id \in Identifiers : RemoveByIdentifier(id)
  <2>1. ASSUME NEW b, NEW id, Insert(b, id) PROVE Agrees(result')
    <3>1. Returns("insert", InsertInner(nb, b, id))
      BY <2>1 DEF Insert
    <3> QED BY <1>3, <3>1
  <2>2. ASSUME NEW b, NEW id, SetIdentifier(b, id) PROVE Agrees(result')
    <3>1. Returns("set_identifier", SetIdentifierInner(nb, b, id))
      BY <2>2 DEF SetIdentifier
    <3> QED BY <1>3, <3>1
  <2>3. ASSUME NEW b, RemoveByBytes(b) PROVE Agrees(result')
    <3>1. \E answers : Returns("remove_by_bytes", answers)
      BY <2>3 DEF RemoveByBytes
    <3> QED BY <1>3, <3>1
  <2>4. ASSUME NEW id, RemoveByIdentifier(id) PROVE Agrees(result')
    <3>1. \E answers : Returns("remove_by_identifier", answers)
      BY <2>4 DEF RemoveByIdentifier
    <3> QED BY <1>3, <3>1
  <2> QED BY <1>11, <2>1, <2>2, <2>3, <2>4
<1> QED BY <1>4, <1>5, <1>6, <1>7, <1>8, <1>9, <1>10, <1>11 DEF Next

\* Where the bound reaches and whatever identifiers callers replace, validate finds the
\* index wrong at most, and rebuild reproduces every address (neighborhood.rs, validate and
\* rebuild).
THEOREM RebuildAgreesOnAddresses ==
  ASSUME BoundReaches
  PROVE  Spec => []RebuildAgreesButIndex
<1>1. Init => Agrees(result)
  BY DEF Init, Agrees, Report
<1>2. RInv /\ Agrees(result) /\ [Next]_vars => Agrees(result)'
  BY NextAgrees DEF Agrees
<1>3. Agrees(result) => RebuildAgreesButIndex
  BY DEF Agrees, RebuildAgreesButIndex
<1> QED BY <1>1, <1>2, <1>3, RowsInvariant, PTL DEF Spec

\* Where moreover callers replace no identifier by another, validate accepts, and rebuild
\* reproduces without a change, every neighborhood the other calls produce.
THEOREM RebuildAgreesFully ==
  ASSUME BoundReaches, Reassign = FALSE
  PROVE  Spec => []RebuildAgrees
<1>1. Init => Agrees(result)
  BY DEF Init, Agrees, Report
<1>2. RInv /\ Agrees(result) /\ [Next]_vars => Agrees(result)'
  BY NextAgrees DEF Agrees
<1>3. Agrees(result) => RebuildAgrees
  BY DEF Agrees, RebuildAgrees
<1> QED BY <1>1, <1>2, <1>3, RowsInvariant, PTL DEF Spec

-----------------------------------------------------------------------------
(* Changes of addresses.                                                   *)

\* A member more makes at most one other address longer, and no address shorter: its
\* stream starts with one address of a tree at most.
THEOREM OneMoves ==
  ASSUME NEW A, NEW B, IsTree(A), IsTree(B), NEW b, b \notin DOMAIN A,
         \A c : c \in DOMAIN B <=> c \in DOMAIN A \/ c = b
  PROVE  /\ \A c \in DOMAIN A : IsPrefix(A[c], B[c])
         /\ \A c, d \in DOMAIN A : A[c] # B[c] /\ A[d] # B[d] => c = d
<1> DEFINE M == DOMAIN A
           N == DOMAIN B
<1>1. ASSUME NEW c \in M
      PROVE  /\ c \in Contents /\ A[c] \in Seq(Atoms) /\ B[c] \in Seq(Atoms)
             /\ Len(A[c]) \in Nat /\ Len(B[c]) \in Nat
             /\ IsCanonicalAddress(M, c, A[c]) /\ IsCanonicalAddress(N, c, B[c])
  <2>1. c \in N
    OBVIOUS
  <2>2. c \in Contents /\ A[c] \in Seq(Atoms) /\ B[c] \in Seq(Atoms)
    BY <2>1 DEF IsTree, IsAddressMap
  <2>3. IsCanonicalAddress(M, c, A[c]) /\ IsCanonicalAddress(N, c, B[c])
    BY <2>1, TreeIsCanonical
  <2> QED BY <2>2, <2>3
<1>2. \A c : c \in N <=> c \in M \/ c = b
  OBVIOUS
<1> HIDE DEF M, N
<1>3. ASSUME NEW c \in M
      PROVE  /\ Len(A[c]) <= Len(B[c])
             /\ A[c] # B[c] => Agree(c, b, Len(A[c]))
  <2> DEFINE k == Len(A[c])
             j == Len(B[c])
  <2>1. /\ A[c] = Prefix(c, k) /\ k > 0 /\ IsUnique(M, c, k)
        /\ \A i \in 1..(k - 1) : ~IsUnique(M, c, i)
    BY <1>1 DEF IsCanonicalAddress, IsCanonicalLength
  <2>2. /\ B[c] = Prefix(c, j) /\ j > 0 /\ IsUnique(N, c, j)
        /\ \A i \in 1..(j - 1) : ~IsUnique(N, c, i)
    BY <1>1 DEF IsCanonicalAddress, IsCanonicalLength
  <2>3. k \in Nat /\ j \in Nat
    BY <1>1
  <2> HIDE DEF k, j
  <2>4. IsUnique(M, c, j)
    BY <1>2, <2>2 DEF IsUnique
  <2>5. k <= j
    BY <2>1, <2>2, <2>3, <2>4
  <2>6. ASSUME A[c] # B[c]
        PROVE  Agree(c, b, k)
    <3>1. k \in 1..(j - 1)
      BY <2>1, <2>2, <2>3, <2>5, <2>6
    <3>2. ~IsUnique(N, c, k)
      BY <2>2, <3>1
    <3>3. PICK d \in N \ {c} : Agree(c, d, k)
      BY <3>2 DEF IsUnique
    <3>4. d \notin M
      BY <2>1, <3>3 DEF IsUnique
    <3> QED BY <1>2, <3>3, <3>4
  <2> QED BY <2>5, <2>6 DEF k, j
<1>4. \A c \in M : IsPrefix(A[c], B[c])
  <2> SUFFICES ASSUME NEW c \in M PROVE IsPrefix(A[c], B[c])
    OBVIOUS
  <2>1. A[c] = Prefix(c, Len(A[c])) /\ B[c] = Prefix(c, Len(B[c]))
    BY <1>1 DEF IsCanonicalAddress
  <2>2. IsPrefix(A[c], Prefix(c, Len(B[c])))
    BY <1>1, <1>3, <2>1, PrefixOfPrefix
  <2> QED BY <2>1, <2>2
<1>5. ASSUME NEW c \in M, NEW d \in M, A[c] # B[c], A[d] # B[d], Len(A[c]) <= Len(A[d]),
             c # d
      PROVE  FALSE
  <2>1. Agree(c, b, Len(A[c])) /\ Agree(d, b, Len(A[d]))
    BY <1>3, <1>5
  <2>2. Agree(c, d, Len(A[c]))
    BY <1>1, <1>5, <2>1 DEF Agree
  <2>3. IsUnique(M, c, Len(A[c]))
    BY <1>1 DEF IsCanonicalAddress, IsCanonicalLength
  <2> QED BY <1>5, <2>2, <2>3 DEF IsUnique
<1>6. \A c, d \in M : A[c] # B[c] /\ A[d] # B[d] => c = d
  <2> SUFFICES ASSUME NEW c \in M, NEW d \in M, A[c] # B[c], A[d] # B[d], c # d
               PROVE  FALSE
    OBVIOUS
  <2>1. Len(A[c]) \in Nat /\ Len(A[d]) \in Nat
    BY <1>1
  <2>2. Len(A[c]) <= Len(A[d]) \/ Len(A[d]) <= Len(A[c])
    BY <2>1
  <2> QED BY <1>5, <2>2
<1> QED BY <1>4, <1>6 DEF M

\* Whoever has the addresses A and applies the changes has B's, of the members of both.
Tells(A, B, changes) == \A b \in DOMAIN A \cap DOMAIN B : Carries(changes, b, A[b], B[b])

\* Nothing is to be told where nothing moves.
LEMMA NothingTells ==
  ASSUME NEW A, NEW B, \A b \in DOMAIN A \cap DOMAIN B : A[b] = B[b]
  PROVE  Tells(A, B, <<>>)
BY DEF Tells, Carries

\* One change, of the member that moves.
LEMMA OneTells ==
  ASSUME NEW A, NEW B, NEW m, NEW change, change.bytes = m,
         change.old = A[m], change.new = B[m], A[m] # B[m],
         \A b \in DOMAIN A \cap DOMAIN B : b # m => A[b] = B[b]
  PROVE  Tells(A, B, <<change>>)
<1> DEFINE changes == <<change>>
<1>1. DOMAIN changes = {1} /\ changes[1] = change
  OBVIOUS
<1> HIDE DEF changes
<1>2. ASSUME NEW b \in DOMAIN A \cap DOMAIN B
      PROVE  Carries(changes, b, A[b], B[b])
  <2>1. CASE b = m
    BY <1>1, <2>1 DEF Carries
  <2>2. CASE b # m
    BY <1>1, <2>2 DEF Carries
  <2> QED BY <2>1, <2>2
<1> QED BY <1>2 DEF Tells, changes

\* The changes of an insert into a sound neighborhood tell what it moves.
LEMMA ApplyTells ==
  ASSUME NEW n, Sound(n), NEW b \in Contents, b \notin DOMAIN AddressesOf(n.entries),
         NEW id \in Identifiers \cup {NoId}, NEW pos \in InsertPositions(n, b),
         NEW plan, PlanFits(n, b, plan)
  PROVE  LET a == ApplyInsert(n, b, id, pos, plan)
         IN Tells(AddressesOf(n.entries), AddressesOf(a.nb.entries), a.changes)
<1> DEFINE es    == n.entries
           A     == AddressesOf(es)
           G     == Grown(n, b, plan)
           end   == plan.base + plan.shared + 1
           member == es[plan.member]
           moved == Prefix(member.bytes, end)
           a     == ApplyInsert(n, b, id, pos, plan)
           change == [bytes |-> member.bytes, identifier |-> member.identifier,
                      old |-> member.address, new |-> moved]
<1>1. AddressesOf(a.nb.entries) = G
  <2> DEFINE entry == [address |-> Prefix(b, end), bytes |-> b, identifier |-> id]
             new == EntriesAfterInsert(n, plan, moved, pos, entry)
  <2>1. AddressesOf(new) = G
    BY EntriesGrow, SMTT(40)
  <2>2. a.nb.entries = new
    BY DEF ApplyInsert, Answer
  <2> HIDE DEF a, new, G
  <2> QED BY <2>1, <2>2
<1>2. a.changes = IF plan.member # Vacant THEN <<change>> ELSE <<>>
  BY DEF ApplyInsert, Answer
<1>3. CASE plan.member = Vacant
  <2>1. G = Put(A, b, Prefix(b, end))
    BY <1>3 DEF Grown
  <2>2. \A c \in DOMAIN A \cap DOMAIN G : A[c] = G[c]
    BY <2>1 DEF Put
  <2> HIDE DEF A, G, a
  <2> QED BY <1>1, <1>2, <1>3, <2>2, NothingTells DEF A, a
<1>4. CASE plan.member # Vacant
  <2>1. /\ plan.member \in 1..Len(es) /\ plan.base \in Nat /\ plan.shared \in Nat
        /\ member.address = Prefix(b, plan.base)
    BY <1>4 DEF PlanFits
  <2>2. /\ member.bytes \in DOMAIN A /\ A[member.bytes] = member.address
        /\ member.bytes \in Contents
    <3>1. es \in Seq(Entry) /\ InByteOrder(es)
      BY SoundFacts DEF Sound
    <3> HIDE DEF es
    <3> QED BY <2>1, <3>1, EntriesFacts
  <2>3. G = Put(Put(A, member.bytes, moved), b, Prefix(b, end))
    BY <1>4 DEF Grown
  <2>4. member.bytes # b
    BY <2>2
  <2> HIDE DEF A, G, member
  <2>5. /\ G[member.bytes] = moved
        /\ \A c \in DOMAIN A \cap DOMAIN G : c # member.bytes => A[c] = G[c]
    <3>1. b \notin DOMAIN A
      BY DEF A
    <3> HIDE DEF moved
    <3> QED BY <2>2, <2>3, <2>4, <3>1 DEF Put
  <2>6. A[member.bytes] # moved
    <3>1. Len(Prefix(b, plan.base)) = plan.base
      BY <2>1, PrefixProperties
    <3>2. end \in Nat /\ end > plan.base
      BY <2>1
    <3> HIDE DEF end
    <3>3. Len(moved) = end
      BY <2>2, <3>2, PrefixProperties
    <3> QED BY <2>1, <2>2, <3>1, <3>2, <3>3
  <2>7. Tells(A, G, <<change>>)
    BY <2>2, <2>5, <2>6, OneTells
  <2> HIDE DEF a, change
  <2> QED BY <1>1, <1>2, <1>4, <2>7 DEF A, a
<1> QED BY <1>3, <1>4

\* Another identifier is no other address.
LEMMA NamesMoveNothing ==
  ASSUME NEW n, Sound(n), NEW r, Sound(r), NEW i, NEW id,
         Renames(n.entries, r.entries, i, id)
  PROVE  AddressesOf(r.entries) = AddressesOf(n.entries)
<1> DEFINE es == n.entries
           fs == r.entries
           A == AddressesOf(es)
           B == AddressesOf(fs)
<1>1. /\ es \in Seq(Entry) /\ InByteOrder(es) /\ IsTree(A)
      /\ fs \in Seq(Entry) /\ InByteOrder(fs) /\ IsTree(B)
  BY SoundFacts DEF Sound
<1>2. Len(fs) = Len(es) /\ \A k \in 1..Len(es) : fs[k].bytes = es[k].bytes
  BY DEF Renames, SameRow
<1>3. \A b : b \in DOMAIN A <=> \E k \in 1..Len(es) : es[k].bytes = b
  BY <1>1, EntriesFacts
<1>4. \A b : b \in DOMAIN B <=> \E k \in 1..Len(fs) : fs[k].bytes = b
  BY <1>1, EntriesFacts
<1> HIDE DEF A, B, es, fs
<1>5. \A b : b \in DOMAIN A <=> b \in DOMAIN B
  BY <1>2, <1>3, <1>4
<1>6. DOMAIN A = DOMAIN B
  BY <1>5
<1> QED BY <1>1, <1>6, OneTree DEF A, B, es, fs

\* The addresses of a neighborhood.
AddressMap(n) == AddressesOf(n.entries)

\* An insertion is apply_insert by a plan that fits.
LEMMA InsertedByPlan ==
  ASSUME NEW n, Sound(n), NEW b \in Contents, NEW id \in Identifiers \cup {NoId},
         NEW a \in InsertInner(n, b, id), a.status = "Inserted"
  PROVE  /\ b \notin DOMAIN AddressesOf(n.entries)
         /\ \E pos, plan : /\ pos \in InsertPositions(n, b)
                           /\ PlanFits(n, b, plan)
                           /\ a = ApplyInsert(n, b, id, pos, plan)
<1> DEFINE A == AddressesOf(n.entries)
<1>1. /\ n.entries \in Seq(Entry) /\ InByteOrder(n.entries)
      /\ DOMAIN n.entries = 1..Len(n.entries) /\ Len(n.entries) \in Nat
  BY SoundTypes
<1>2. Find(n, b) = {} /\ id \notin DOMAIN n.identifier_index
  <2>1. \A i : InsertExisting(n, i, id).status # "Inserted"
    BY DEF InsertExisting, Answer, Refused
  <2>2. Find(n, b) = {}
    BY <2>1 DEF InsertInner
  <2> QED BY <2>2 DEF InsertInner, Refused, Answer
<1>3. PICK pos \in InsertPositions(n, b), d \in WalkEnds(n, b) :
        a \in InsertNew(n, b, id, pos, d)
  BY <1>2 DEF InsertInner
<1>4. b \notin DOMAIN A
  <2> SUFFICES ASSUME b \in DOMAIN A PROVE FALSE
    OBVIOUS
  <2>1. PICK i \in 1..Len(n.entries) : n.entries[i].bytes = b
    BY <1>1, EntriesFacts
  <2>2. i \in Find(n, b)
    BY <1>1, <2>1 DEF Find
  <2> QED BY <1>2, <2>2
<1> DEFINE m == n.trie[Prefix(b, d)].content
           shared == SharedAtoms(b, n.entries[m].bytes, d)
           leaf == [base |-> d, member |-> Vacant, shared |-> 0]
           split(j) == [base |-> d, member |-> m, shared |-> j]
<1> HIDE DEF A
<1>5. CASE m = Vacant
  <2>1. a = ApplyInsert(n, b, id, pos, leaf)
    BY <1>3, <1>5 DEF InsertNew
  <2>2. PlanFits(n, b, leaf)
    BY <1>4, <1>5, LeafFits DEF A
  <2> HIDE DEF leaf
  <2> QED BY <1>4, <2>1, <2>2 DEF A
<1>6. CASE m # Vacant
  <2>1. PICK j \in shared : a = ApplyInsert(n, b, id, pos, split(j))
    BY <1>3, <1>6 DEF InsertNew, Refused, Answer
  <2>2. PlanFits(n, b, split(j))
    BY <1>4, <1>6, SplitFits DEF A
  <2> HIDE DEF split
  <2> QED BY <1>4, <2>1, <2>2 DEF A
<1> QED BY <1>5, <1>6

\* What insert answers tells what it moves.
LEMMA InsertTells ==
  ASSUME NEW n, Sound(n), NEW b \in Contents, NEW id \in Identifiers \cup {NoId},
         NEW a \in InsertInner(n, b, id)
  PROVE  Tells(AddressMap(n), AddressMap(a.nb), a.changes)
<1>1. Sound(a.nb)
  BY InsertSound DEF IsAnswer
<1>2. ASSUME a.nb = n, a.changes = <<>>
      PROVE  Tells(AddressMap(n), AddressMap(a.nb), a.changes)
  BY <1>2, NothingTells
<1>3. CASE a.status = "Inserted"
  <2>1. PICK pos, plan : /\ pos \in InsertPositions(n, b)
                         /\ PlanFits(n, b, plan)
                         /\ a = ApplyInsert(n, b, id, pos, plan)
    BY <1>3, InsertedByPlan
  <2>2. b \notin DOMAIN AddressesOf(n.entries)
    BY <1>3, InsertedByPlan
  <2> QED BY <2>1, <2>2, ApplyTells DEF AddressMap
<1>4. ASSUME a.changes = <<>>, NEW i \in 1..Len(n.entries), IsNaming(n, a.nb, i, id)
      PROVE  Tells(AddressMap(n), AddressMap(a.nb), a.changes)
  <2>1. AddressMap(n) = AddressMap(a.nb)
    BY <1>1, <1>4, NamesMoveNothing DEF IsNaming, AddressMap
  <2> QED BY <1>4, <2>1, NothingTells
<1> QED BY <1>2, <1>3, <1>4, InsertEffects

\* set_identifier moves and tells nothing.
LEMMA SetIdentifierTells ==
  ASSUME NEW n, Sound(n), NEW b \in Contents, NEW id \in Identifiers \cup {NoId},
         NEW a \in SetIdentifierInner(n, b, id)
  PROVE  Tells(AddressMap(n), AddressMap(a.nb), a.changes)
<1>1. Sound(a.nb)
  BY SetIdentifierSound DEF IsAnswer
<1>2. AddressMap(a.nb) = AddressMap(n)
  <2>1. CASE a.nb = n
    BY <2>1
  <2>2. ASSUME NEW i, NEW x, Renames(n.entries, a.nb.entries, i, x)
        PROVE  AddressMap(a.nb) = AddressMap(n)
    BY <1>1, <2>2, NamesMoveNothing DEF AddressMap
  <2> QED BY <2>1, <2>2, SetIdentifierEffects DEF IsNaming, IsUnnaming
<1>3. a.changes = <<>>
  BY SetIdentifierEffects
<1> QED BY <1>2, <1>3, NothingTells

\* The last cases of a removal move nothing more: the one member left has an address of
\* one atom.
LEMMA SettleMovesNothing ==
  ASSUME NEW n, Sound(n), NEW address, NEW changes \in Seq(AddressChange)
  PROVE  /\ Settle(n, address, changes).changes = changes
         /\ Settle(n, address, changes).nb.entries = n.entries
<1> DEFINE es == n.entries
<1>1. es \in Seq(Entry) /\ InByteOrder(es) /\ Len(es) \in Nat /\ IsTree(AddressesOf(es))
  BY SoundFacts DEF Sound
<1>2. CASE Len(es) = 0
  BY <1>1, <1>2 DEF Settle, Answer, New
<1>3. CASE Len(es) = 1
  <2> DEFINE A == AddressesOf(es)
             e == es[1]
             first == Prefix(e.bytes, 1)
  <2>1. /\ e \in Entry /\ e.bytes \in DOMAIN A /\ A[e.bytes] = e.address
        /\ e.address # <<>> /\ e.address \in Seq(Atoms)
        /\ \A b \in DOMAIN A : b = e.bytes
    <3>1. /\ 1 \in 1..Len(es)
          /\ \A i \in 1..Len(es) : i = 1
      BY <1>3
    <3> HIDE DEF es
    <3> QED BY <1>1, <3>1, EntriesFacts
  <2>2. e.address = first
    <3> HIDE DEF A, e
    <3>1. ~(Len(A[e.bytes]) > 1)
      BY <1>1, <2>1 DEF IsTree, Tight, A
    <3>2. A[e.bytes] = Prefix(e.bytes, Len(A[e.bytes]))
      BY <1>1, <2>1 DEF IsTree, Follows, A
    <3>3. Len(A[e.bytes]) = 1
      <4> DEFINE s == A[e.bytes]
      <4>1. s \in Seq(Atoms) /\ s # <<>>
        BY <2>1
      <4> HIDE DEF s
      <4>2. Len(s) \in Nat /\ Len(s) # 0
        BY <4>1
      <4>3. ~(Len(s) > 1)
        BY <3>1 DEF s
      <4>4. Len(s) = 1
        <5> DEFINE k == Len(s)
        <5>1. k \in Nat /\ k # 0 /\ ~(k > 1)
          BY <4>2, <4>3
        <5> HIDE DEF k
        <5>2. k = 1
          BY <5>1
        <5> QED BY <5>2 DEF k
      <4> QED BY <4>4 DEF s
    <3> QED BY <2>1, <3>2, <3>3
  <2>3. ReseatChanges(n) = <<>>
    BY <2>2 DEF ReseatChanges
  <2>4. [es EXCEPT ![1].address = first] = es
    <3>1. [e EXCEPT !.address = first] = e
      BY <2>1, <2>2 DEF Entry
    <3> HIDE DEF e, first
    <3> QED BY <1>1, <3>1 DEF e
  <2>5. Reseat(n).entries = es
    BY <2>4 DEF Reseat
  <2>6. Settle(n, address, changes) = Answer(Reseat(n), "Removed", address, changes \o <<>>)
    BY <1>3, <2>3 DEF Settle
  <2> QED BY <2>5, <2>6 DEF Answer
<1>4. CASE Len(es) # 0 /\ Len(es) # 1
  BY <1>4 DEF Settle, Answer
<1> QED BY <1>2, <1>3, <1>4

\* The changes of a collapse lead its member from its address up to the highest level.
LEMMA CollapseTells ==
  ASSUME NEW A, NEW B, NEW member, NEW a \in Seq(Atoms), NEW top \in Nat, NEW low \in Nat,
         1 <= top, top <= low, low <= Len(a),
         member.address = A[member.bytes], A[member.bytes] # SubSeq(a, 1, low),
         B[member.bytes] = SubSeq(a, 1, top),
         \A b \in DOMAIN A \cap DOMAIN B : b # member.bytes => A[b] = B[b]
  PROVE  Tells(A, B, CollapseChanges(member, a, top, low))
<1> DEFINE changes == CollapseChanges(member, a, top, low)
           c == member.bytes
           K == low - top + 1
           Up(k) == SubSeq(a, 1, k)
<1>1. K \in Nat /\ K >= 1 /\ DOMAIN changes = 1..K
  BY DEF CollapseChanges
<1>2. \A i \in 1..K : /\ changes[i].bytes = c
                      /\ changes[i].old = IF i = 1 THEN A[c] ELSE Up(low + 2 - i)
                      /\ changes[i].new = Up(low + 1 - i)
  BY DEF CollapseChanges
<1>3. \A k, j \in top..low : k # j => Up(k) # Up(j)
  <2> SUFFICES ASSUME NEW k \in top..low, NEW j \in top..low, k # j
               PROVE  Up(k) # Up(j)
    OBVIOUS
  <2>1. k \in 0..Len(a) /\ j \in 0..Len(a)
    OBVIOUS
  <2>2. Len(Up(k)) = k /\ Len(Up(j)) = j
    BY <2>1, SubSeqIsPrefix
  <2> QED BY <2>2
<1> HIDE DEF changes, Up
<1>4. Carries(changes, c, A[c], B[c])
  <2> DEFINE links == {i \in DOMAIN changes : changes[i].bytes = c}
  <2>1. links = 1..K
    BY <1>1, <1>2
  <2>2. K \in links /\ 1 \in links
    BY <1>1, <2>1
  <2> HIDE DEF K
  <2>3. ASSUME NEW i \in 1..K
        PROVE  /\ changes[i].old # changes[i].new
               /\ (\A k \in 1..K : i <= k) => changes[i].old = A[c]
               /\ (\A k \in 1..K : k <= i) => changes[i].new = B[c]
    <3>1. changes[i].old # changes[i].new
      <4>1. CASE i = 1
        BY <1>2, <4>1 DEF Up
      <4>2. CASE i # 1
        <5>1. low + 2 - i \in top..low /\ low + 1 - i \in top..low
          BY <4>2 DEF K
        <5>2. low + 2 - i # low + 1 - i
          OBVIOUS
        <5> QED BY <1>2, <1>3, <4>2, <5>1, <5>2
      <4> QED BY <4>1, <4>2
    <3>2. (\A k \in 1..K : i <= k) => i = 1
      BY <1>1
    <3>3. (\A k \in 1..K : k <= i) => i = K
      BY <1>1
    <3>4. changes[K].new = B[c]
      <4>1. low + 1 - K = top
        BY DEF K
      <4> QED BY <1>1, <1>2, <4>1 DEF Up
    <3> QED BY <1>2, <3>1, <3>2, <3>3, <3>4
  <2>4. ASSUME NEW i \in 1..K, NEW j \in 1..K, i < j,
               \A k \in 1..K : k <= i \/ j <= k
        PROVE  changes[i].new = changes[j].old
    <3>1. j = i + 1
      <4>1. i + 1 \in 1..K
        BY <1>1, <2>4
      <4>2. i + 1 <= i \/ j <= i + 1
        BY <2>4, <4>1
      <4> QED BY <2>4, <4>2
    <3>2. low + 1 - i = low + 2 - j /\ j # 1
      BY <3>1
    <3> QED BY <1>2, <3>2
  <2> HIDE DEF links
  <2>5. \A i \in links :
          /\ changes[i].old # changes[i].new
          /\ (\A k \in links : i <= k) => changes[i].old = A[c]
          /\ (\A k \in links : k <= i) => changes[i].new = B[c]
          /\ \A j \in links : i < j /\ (\A k \in links : k <= i \/ j <= k)
                                => changes[i].new = changes[j].old
    BY <2>1, <2>3, <2>4
  <2> QED BY <2>2, <2>5 DEF Carries, links
<1>5. ASSUME NEW b \in DOMAIN A \cap DOMAIN B, b # c
      PROVE  Carries(changes, b, A[b], B[b])
  <2>1. {i \in DOMAIN changes : changes[i].bytes = b} = {}
    BY <1>1, <1>2, <1>5
  <2>2. A[b] = B[b]
    BY <1>5
  <2> QED BY <2>1, <2>2 DEF Carries
<1> QED BY <1>4, <1>5 DEF Tells, changes

\* What a removal answers tells what it moves.
LEMMA RemoveTells ==
  ASSUME NEW n, Sound(n), NEW idx \in 1..Len(n.entries), NEW answer \in RemoveInner(n, idx)
  PROVE  Tells(AddressMap(n), AddressMap(answer.nb), answer.changes)
<1> DEFINE es == n.entries
           A == AddressesOf(es)
           b == es[idx].bytes
           a == es[idx].address
           T == Detach(n, a)
           freed  == Append(n.free_nodes, n.trie[a].slot)
           levels == CollapseLevels(T, a)
<1>1. /\ es \in Seq(Entry) /\ InByteOrder(es) /\ IsTree(A) /\ DOMAIN es = 1..Len(es)
      /\ es[idx] \in Entry
  BY SoundFacts DEF Sound
<1>2. \/ answer = Refused(n, "Panic")
      \/ /\ levels = {}
         /\ answer = Settle(Evict([n EXCEPT !.trie = T, !.free_nodes = freed], idx), a, <<>>)
      \/ /\ levels # {}
         /\ \E marker \in MarkersBelow(T, SubSeq(a, 1, Max(levels))) :
              answer = CollapseOnto(n, T, freed, idx, levels, marker)
  <2> HIDE DEF T, a, freed, levels
  <2> QED BY DEF RemoveInner, T, a, freed, levels
<1>3. levels = Lonely(A, b)
  BY LevelsAreLonely
<1>4. CASE answer = Refused(n, "Panic")
  BY <1>4, NothingTells DEF Refused, Answer
<1>5. CASE /\ levels = {}
           /\ answer = Settle(Evict([n EXCEPT !.trie = T, !.free_nodes = freed], idx), a, <<>>)
  <2> DEFINE x == Evict([n EXCEPT !.trie = T, !.free_nodes = freed], idx)
  <2>1. Sound(x)
    BY <1>3, <1>5, LeafEvictSound
  <2>2. x.entries = RemoveAt(es, idx)
    BY DEF Evict
  <2> DEFINE none == <<>>
  <2>3. none \in Seq(AddressChange)
    OBVIOUS
  <2> HIDE DEF x, T, freed, levels, a
  <2>4. answer = Settle(x, a, none)
    BY <1>5 DEF x
  <2> HIDE DEF none
  <2>n. answer.changes = none /\ answer.nb.entries = x.entries
    BY <2>1, <2>3, <2>4, SettleMovesNothing
  <2>5. answer.changes = <<>> /\ answer.nb.entries = RemoveAt(es, idx)
    BY <2>2, <2>n DEF none
  <2>6. AddressMap(answer.nb) = Drop(A, b)
    BY <1>1, <2>5, AddressesOfRemove DEF AddressMap
  <2>7. \A d \in DOMAIN A \cap DOMAIN Drop(A, b) : A[d] = Drop(A, b)[d]
    BY DEF Drop
  <2> HIDE DEF A
  <2> QED BY <2>5, <2>6, <2>7, NothingTells DEF AddressMap, A
<1>6. CASE /\ levels # {}
           /\ \E marker \in MarkersBelow(T, SubSeq(a, 1, Max(levels))) :
                answer = CollapseOnto(n, T, freed, idx, levels, marker)
  <2>1. PICK marker \in MarkersBelow(T, SubSeq(a, 1, Max(levels))) :
               answer = CollapseOnto(n, T, freed, idx, levels, marker)
    BY <1>6
  <2> DEFINE m == T[marker].content
             top == Min(levels)
             low == Max(levels)
             t == SubSeq(a, 1, top)
             l == SubSeq(a, 1, low)
             c == es[m].bytes
             changes == CollapseChanges(es[m], a, top, low)
  <2>2. IsCollapse(n, idx, A, b, a, T, marker, m, top, low, t, l)
    BY <1>3, <1>6, CollapseFacts
  <2>3. freed \in Seq(Nat)
    <3>1. n.free_nodes \in Seq(Nat) /\ n.trie[a].slot \in Nat
      BY SoundFacts DEF Sound, IsNeighborhood
    <3> QED BY <3>1
  <2>4. PICK x : IsCollapsed(n, x, freed, idx, levels, marker)
    <3> HIDE DEF freed, levels
    <3> QED BY <1>3, <1>6, <2>3, CollapseEvictSound
  <2>5. /\ Sound(x) /\ changes \in Seq(AddressChange)
        /\ x.entries = RemoveAt([es EXCEPT ![m].address = t], idx)
        /\ answer = Settle(x, a, changes)
    BY <2>1, <2>4 DEF IsCollapsed
  <2> HIDE DEF changes, T, freed, levels, a, m, t, l, top, low, c
  <2>6. answer.changes = changes /\ answer.nb.entries = x.entries
    BY <2>5, SettleMovesNothing
  <2>7. /\ top \in Nat /\ low \in Nat /\ 1 <= top /\ top <= low /\ low <= Len(a) - 1
        /\ m \in 1..Len(es) /\ m # idx /\ es[m].address = marker
        /\ c \in DOMAIN A /\ c # b /\ A[c] = marker
        /\ t \in Address
        /\ Under(Drop(A, b), l) = {c}
    BY <2>2 DEF IsCollapse, c
  <2> DEFINE e2 == [es EXCEPT ![m].address = t]
             B == Drop(Put(A, c, t), b)
  <2>8. AddressMap(answer.nb) = B
    <3>1. /\ e2 \in Seq(Entry) /\ Len(e2) = Len(es) /\ InByteOrder(e2)
          /\ \A i \in 1..Len(es) : e2[i].bytes = es[i].bytes
          /\ AddressesOf(e2) = Put(AddressesOf(es), es[m].bytes, t)
      <4>1. es \in Seq(Entry) /\ InByteOrder(es) /\ m \in 1..Len(es) /\ t \in Address
        BY <1>1, <2>7
      <4> HIDE DEF es
      <4>2. /\ e2 \in Seq(Entry) /\ Len(e2) = Len(es)
            /\ \A i \in 1..Len(es) : /\ e2[i].bytes = es[i].bytes
                                     /\ e2[i].identifier = es[i].identifier
                                     /\ e2[i].address = IF i = m THEN t ELSE es[i].address
            /\ InByteOrder(e2)
            /\ AddressesOf(e2) = Put(AddressesOf(es), es[m].bytes, t)
        BY <4>1, AddressesOfMove
      <4> HIDE DEF e2
      <4> QED BY <4>2
    <3> HIDE DEF e2
    <3>2. idx \in 1..Len(e2) /\ e2[idx].bytes = b
      BY <3>1
    <3>3. AddressesOf(RemoveAt(e2, idx)) = Drop(AddressesOf(e2), e2[idx].bytes)
      BY <3>1, <3>2, AddressesOfRemove
    <3>4. AddressMap(answer.nb) = AddressesOf(RemoveAt(e2, idx))
      BY <2>5, <2>6 DEF AddressMap, e2
    <3> QED BY <3>1, <3>2, <3>3, <3>4 DEF c
  <2>9. marker # l
    <3>1. a \in Seq(Atoms) /\ Len(a) \in Nat /\ b \in DOMAIN A /\ A[b] = a
      <4>1. a \in Seq(Atoms)
        BY <1>1 DEF a, Entry, Address
      <4>2. b \in DOMAIN A /\ A[b] = a
        BY <1>1, EntriesFacts DEF a
      <4> QED BY <4>1, <4>2
    <3>2. low \in 0..Len(a)
      BY <2>7, <3>1
    <3>3. IsPrefix(l, a)
      BY <3>1, <3>2, SubSeqIsPrefix DEF l
    <3>4. ~IsPrefix(A[c], A[b])
      BY <1>1, <2>7, <3>1 DEF IsTree, Separate
    <3> QED BY <2>7, <3>1, <3>3, <3>4
  <2>10. Tells(A, B, changes)
    <3> DEFINE member == es[m]
    <3>1. /\ member.bytes = c /\ member.address = A[c] /\ A[c] # SubSeq(a, 1, low)
          /\ B[c] = SubSeq(a, 1, top)
          /\ \A d \in DOMAIN A \cap DOMAIN B : d # c => A[d] = B[d]
      <4>1. B[c] = t /\ \A d \in DOMAIN A \cap DOMAIN B : d # c => A[d] = B[d]
        BY <2>7 DEF Put, Drop
      <4> QED BY <2>7, <2>9, <4>1 DEF t, l, c
    <3>2. a \in Seq(Atoms) /\ low <= Len(a)
      BY <1>1, <2>7 DEF a, Entry, Address
    <3> HIDE DEF B, A, member
    <3>3. Tells(A, B, CollapseChanges(member, a, top, low))
      BY <2>7, <3>1, <3>2, CollapseTells
    <3> QED BY <3>3 DEF changes, member
  <2> HIDE DEF B, A
  <2> QED BY <2>6, <2>8, <2>10 DEF AddressMap, A
<1> QED BY <1>2, <1>4, <1>5, <1>6

\* Each position that an increasing enumeration must reach, it reaches once.
LEMMA EnumerationReaches ==
  ASSUME NEW S, IsFiniteSet(S), S \subseteq Nat, NEW f \in [1..Cardinality(S) -> S],
         \A i, j \in DOMAIN f : i < j => f[i] < f[j], NEW x \in S
  PROVE  /\ \E k \in DOMAIN f : f[k] = x
         /\ \A i, j \in DOMAIN f : f[i] = f[j] => i = j
<1> DEFINE N == Cardinality(S)
           D == 1..N
<1>1. N \in Nat
  BY FS_CardinalityType
<1>2. \A i, j \in D : f[i] = f[j] => i = j
  <2> SUFFICES ASSUME NEW i \in D, NEW j \in D, f[i] = f[j], i # j PROVE FALSE
    OBVIOUS
  <2>1. f[i] \in Nat /\ f[j] \in Nat
    OBVIOUS
  <2>2. i < j \/ j < i
    BY <1>1
  <2> QED BY <2>1, <2>2
<1>3. f \in Injection(D, S)
  BY <1>2 DEF Injection, IsInjective
<1>4. Cardinality(D) = N
  <2>1. 1 \in Int /\ N \in Int
    BY <1>1
  <2>2. Cardinality(D) = IF 1 > N THEN 0 ELSE N - 1 + 1
    BY <2>1, FS_Interval
  <2> QED BY <1>1, <2>2
<1>5. f \in Surjection(D, S)
  BY <1>3, <1>4, FS_Injection
<1> QED BY <1>2, <1>5 DEF Surjection

\* The only entry of a neighborhood with given bytes.
LEMMA EntryOf ==
  ASSUME NEW n, Sound(n), NEW b \in DOMAIN AddressMap(n)
  PROVE  \E i \in 1..Len(n.entries) :
           /\ n.entries[i].bytes = b /\ n.entries[i].address = AddressMap(n)[b]
           /\ \A k \in 1..Len(n.entries) : n.entries[k].bytes = b => k = i
           /\ {e \in Range(n.entries) : e.bytes = b} = {n.entries[i]}
<1> DEFINE es == n.entries
           A == AddressesOf(es)
<1>1. es \in Seq(Entry) /\ InByteOrder(es) /\ DOMAIN es = 1..Len(es)
  BY SoundFacts DEF Sound
<1>2. /\ \A c : c \in DOMAIN A <=> \E i \in 1..Len(es) : es[i].bytes = c
      /\ \A i \in 1..Len(es) : A[es[i].bytes] = es[i].address
      /\ \A i, j \in 1..Len(es) : es[i].bytes = es[j].bytes => i = j
  BY <1>1, EntriesFacts
<1> HIDE DEF A, es
<1>3. PICK i \in 1..Len(es) : es[i].bytes = b
  BY <1>2 DEF AddressMap, A, es
<1>4. \A e : e \in {f \in Range(es) : f.bytes = b} <=> e = es[i]
  BY <1>1, <1>2, <1>3 DEF Range
<1>5. {e \in Range(es) : e.bytes = b} = {es[i]}
  BY <1>4
<1> QED BY <1>2, <1>3, <1>5 DEF AddressMap, A, es

\* merge and rebuild tell what they move.
LEMMA CommitTells ==
  ASSUME Sound(nb), Sound(call.working), NEW op, Commit(op), nb' # nb
  PROVE  Tells(AddressMap(nb), AddressMap(call.working), result'.changes) /\ nb' = call.working
<1> DEFINE w  == call.working
           es == nb.entries
           A  == AddressMap(nb)
           B  == AddressMap(w)
           size == Cardinality(Moved)
<1>1. PICK order \in [1..size -> Moved], to \in [Moved -> UNION {Counterpart(i) : i \in Moved}] :
        /\ \A i, j \in DOMAIN order : i < j => order[i] < order[j]
        /\ \A i \in Moved : to[i] \in Counterpart(i)
        /\ nb' = w
        /\ result' = Report(op, "Ok", <<>>,
             [k \in 1..size |->
                [bytes      |-> es[order[k]].bytes,
                 identifier |-> es[order[k]].identifier,
                 old        |-> es[order[k]].address,
                 new        |-> to[order[k]].address]])
  BY DEF Commit, Fail
<1> DEFINE changes == [k \in 1..size |->
                         [bytes      |-> es[order[k]].bytes,
                          identifier |-> es[order[k]].identifier,
                          old        |-> es[order[k]].address,
                          new        |-> to[order[k]].address]]
<1>2. result'.changes = changes
  BY <1>1 DEF Report
<1>3. /\ DOMAIN changes = 1..size
      /\ \A k \in 1..size : /\ changes[k].bytes = es[order[k]].bytes
                            /\ changes[k].old = es[order[k]].address
                            /\ changes[k].new = to[order[k]].address
  OBVIOUS
<1>4. /\ DOMAIN es = 1..Len(es) /\ Len(es) \in Nat
  BY SoundFacts
<1>5. Moved \subseteq 1..Len(es)
  BY <1>4 DEF Moved
<1>6. IsFiniteSet(Moved) /\ Moved \subseteq Nat
  <2>1. 1 \in Int /\ Len(es) \in Int
    BY <1>4
  <2>2. IsFiniteSet(1..Len(es))
    BY <2>1, FS_Interval
  <2>3. IsFiniteSet(Moved)
    BY <1>5, <2>2, FS_Subset
  <2>4. 1..Len(es) \subseteq Nat
    BY <1>4
  <2> QED BY <1>5, <2>3, <2>4
<1> HIDE DEF changes
<1>7. ASSUME NEW b \in DOMAIN A \cap DOMAIN B
      PROVE  Carries(changes, b, A[b], B[b])
  <2>1. PICK i \in 1..Len(es) :
          /\ es[i].bytes = b /\ es[i].address = A[b]
          /\ \A k \in 1..Len(es) : es[k].bytes = b => k = i
    BY EntryOf
  <2>2. PICK j \in 1..Len(w.entries) :
          /\ w.entries[j].address = B[b]
          /\ {e \in Range(w.entries) : e.bytes = b} = {w.entries[j]}
    <3>1. Sound(w) /\ b \in DOMAIN AddressMap(w)
      OBVIOUS
    <3> HIDE DEF w
    <3> QED BY <3>1, EntryOf
  <2>3. \A e \in Counterpart(i) : e.address = B[b]
    BY <2>1, <2>2 DEF Counterpart
  <2>4. \E e \in Counterpart(i) : TRUE
    BY <2>1, <2>2 DEF Counterpart
  <2>5. i \in Moved <=> A[b] # B[b]
    BY <1>4, <2>1, <2>3, <2>4 DEF Moved
  <2> DEFINE links == {k \in DOMAIN changes : changes[k].bytes = b}
  <2>6. \A k \in 1..size : order[k] \in Moved /\ order[k] \in 1..Len(es)
    BY <1>1, <1>5
  <2> HIDE DEF A, B, es, w, size
  <2>7. \A k : k \in links <=> k \in 1..size /\ order[k] = i
    BY <1>3, <2>1, <2>6
  <2>8. CASE i \notin Moved
    <3>1. links = {}
      BY <2>6, <2>7, <2>8
    <3> HIDE DEF links
    <3> QED BY <2>5, <2>8, <3>1 DEF Carries, links
  <2>9. CASE i \in Moved
    <3>1. /\ \E k \in DOMAIN order : order[k] = i
          /\ \A k, l \in DOMAIN order : order[k] = order[l] => k = l
      BY <1>1, <1>6, <2>9, EnumerationReaches DEF size
    <3>2. PICK k \in 1..size : order[k] = i
      BY <1>1, <3>1
    <3>3. \A l : l \in links <=> l = k
      BY <1>1, <2>7, <3>1, <3>2
    <3>4. changes[k].old = A[b] /\ changes[k].new = B[b]
      <4>1. to[i].address = B[b]
        BY <1>1, <2>3, <2>9
      <4> QED BY <1>3, <2>1, <3>2, <4>1
    <3>5. links = {k} /\ k \in Nat
      BY <3>2, <3>3
    <3> HIDE DEF links
    <3> QED BY <2>5, <2>9, <3>4, <3>5 DEF Carries, links
  <2> QED BY <2>8, <2>9
<1> HIDE DEF A, B
<1>8. Tells(A, B, changes)
  BY <1>7 DEF Tells
<1> QED BY <1>1, <1>2, <1>8 DEF A, B

-----------------------------------------------------------------------------
(* Theorems.                                                               *)

\* Every step tells what it moves, but the one that returns from from_rows.
LEMMA StepTells ==
  ASSUME Inv, [Next]_vars, nb' # nb, result'.op # "from_rows"
  PROVE  Sound(nb') /\ Tells(AddressMap(nb), AddressMap(nb'), result'.changes)
<1>1. Sound(nb) /\ Sound(call.working)
  BY InvIsShape
<1>2. Sound(nb')
  BY NextInv DEF Inv, AllSound
<1>3. ASSUME NEW op, NEW answers, Returns(op, answers),
             \A a \in answers : Tells(AddressMap(nb), AddressMap(a.nb), a.changes)
      PROVE  Tells(AddressMap(nb), AddressMap(nb'), result'.changes)
  BY <1>3 DEF Returns, Report
<1>4. ASSUME NEW b \in Contents, NEW id \in Identifiers \cup {NoId}, Insert(b, id)
      PROVE  Tells(AddressMap(nb), AddressMap(nb'), result'.changes)
  BY <1>1, <1>3, <1>4, InsertTells DEF Insert
<1>5. ASSUME NEW b \in Contents, NEW id \in Identifiers \cup {NoId}, SetIdentifier(b, id)
      PROVE  Tells(AddressMap(nb), AddressMap(nb'), result'.changes)
  BY <1>1, <1>3, <1>5, SetIdentifierTells DEF SetIdentifier
<1>6. \A idx, a : a \in RemoveInner(nb, idx) => Tells(AddressMap(nb), AddressMap(a.nb), a.changes)
  <2> SUFFICES ASSUME NEW idx, NEW a \in RemoveInner(nb, idx)
               PROVE  Tells(AddressMap(nb), AddressMap(a.nb), a.changes)
    OBVIOUS
  <2>1. CASE idx \in DOMAIN nb.entries
    BY <1>1, <2>1, RemoveTells, SoundFacts
  <2>2. CASE idx \notin DOMAIN nb.entries
    BY <2>2, NothingTells DEF RemoveInner, Refused, Answer
  <2> QED BY <2>1, <2>2
<1>7. Tells(AddressMap(nb), AddressMap(Refused(nb, "None").nb), Refused(nb, "None").changes)
  BY NothingTells DEF Refused, Answer
<1>8. ASSUME NEW b \in Contents, RemoveByBytes(b)
      PROVE  Tells(AddressMap(nb), AddressMap(nb'), result'.changes)
  BY <1>3, <1>6, <1>7, <1>8 DEF RemoveByBytes
<1>9. ASSUME NEW id \in Identifiers, RemoveByIdentifier(id)
      PROVE  Tells(AddressMap(nb), AddressMap(nb'), result'.changes)
  BY <1>3, <1>6, <1>7, <1>9 DEF RemoveByIdentifier
<1>10. ASSUME NEW op, Commit(op)
       PROVE  Tells(AddressMap(nb), AddressMap(nb'), result'.changes)
  BY <1>1, <1>10, CommitTells
<1>11. ASSUME \/ \E rows \in RowBatches : BeginMerge(rows) \/ BeginFromRows(rows)
              \/ MergeOtherScheme \/ BeginRebuild \/ BeginValidate \/ InsertRow
              \/ EndValidate \/ UNCHANGED vars
       PROVE  nb' = nb
  BY <1>11 DEF BeginMerge, BeginFromRows, MergeOtherScheme, BeginRebuild, BeginValidate,
               InsertRow, EndValidate, Begin, Fail, vars
<1>12. ASSUME EndFromRows
       PROVE  result'.op = "from_rows"
  BY <1>12 DEF EndFromRows, Report
<1>13. Tells(AddressMap(nb), AddressMap(nb'), result'.changes)
  BY <1>4, <1>5, <1>8, <1>9, <1>10, <1>11, <1>12 DEF Next, EndMerge, EndRebuild
<1> QED BY <1>2, <1>13

\* Members of a sound neighborhood and their addresses, as the properties put it.
LEMMA AddressOfMember ==
  ASSUME NEW n, Sound(n)
  PROVE  /\ {e.bytes : e \in Range(n.entries)} = DOMAIN AddressMap(n)
         /\ \A b \in DOMAIN AddressMap(n) : AddressOf(n, b) = {AddressMap(n)[b]}
<1>1. {e.bytes : e \in Range(n.entries)} = DOMAIN AddressMap(n)
  <2>1. {e.bytes : e \in Range(n.entries)} = {n.entries[i].bytes : i \in DOMAIN n.entries}
    BY DEF Range
  <2> QED BY <2>1 DEF AddressMap, AddressesOf
<1>2. ASSUME NEW b \in DOMAIN AddressMap(n)
      PROVE  AddressOf(n, b) = {AddressMap(n)[b]}
  <2>1. PICK i \in 1..Len(n.entries) :
          /\ n.entries[i].address = AddressMap(n)[b]
          /\ {e \in Range(n.entries) : e.bytes = b} = {n.entries[i]}
    BY <1>2, EntryOf
  <2> QED BY <2>1 DEF AddressOf
<1> QED BY <1>1, <1>2

\* What a step reports, as the property puts it.
StepReplays ==
  nb' # nb /\ result'.op # "from_rows" =>
    \A b \in {e.bytes : e \in Range(nb.entries)} \cap {e.bytes : e \in Range(nb'.entries)} :
      Carries(result'.changes, b,
              CHOOSE a \in AddressOf(nb, b) : TRUE, CHOOSE a \in AddressOf(nb', b) : TRUE)

\* Whoever mirrors the addresses by applying the reported changes in order has every
\* member's address, whatever insert, remove, merge or rebuild moved.
THEOREM ChangesAreComplete == Spec => ChangesReplay
<1>1. Inv /\ [Next]_vars => [StepReplays]_vars
  <2> SUFFICES ASSUME Inv, [Next]_vars, nb' # nb, result'.op # "from_rows"
               PROVE  StepReplays
    BY DEF StepReplays
  <2>1. Sound(nb) /\ Sound(nb') /\ Tells(AddressMap(nb), AddressMap(nb'), result'.changes)
    BY StepTells, InvIsShape
  <2>2. /\ {e.bytes : e \in Range(nb.entries)} = DOMAIN AddressMap(nb)
        /\ {e.bytes : e \in Range(nb'.entries)} = DOMAIN AddressMap(nb')
        /\ \A b \in DOMAIN AddressMap(nb) : AddressOf(nb, b) = {AddressMap(nb)[b]}
        /\ \A b \in DOMAIN AddressMap(nb') : AddressOf(nb', b) = {AddressMap(nb')[b]}
    BY <2>1, AddressOfMember
  <2>3. \A x : (CHOOSE a \in {x} : TRUE) = x
    OBVIOUS
  <2>4. ASSUME NEW b \in DOMAIN AddressMap(nb) \cap DOMAIN AddressMap(nb')
        PROVE  /\ (CHOOSE a \in AddressOf(nb, b) : TRUE) = AddressMap(nb)[b]
               /\ (CHOOSE a \in AddressOf(nb', b) : TRUE) = AddressMap(nb')[b]
    BY <2>2, <2>3
  <2>5. \A b \in DOMAIN AddressMap(nb) \cap DOMAIN AddressMap(nb') :
          Carries(result'.changes, b, CHOOSE a \in AddressOf(nb, b) : TRUE,
                  CHOOSE a \in AddressOf(nb', b) : TRUE)
    BY <2>1, <2>4 DEF Tells
  <2> QED BY <2>2, <2>5 DEF StepReplays
<1> QED BY <1>1, Invariant, PTL DEF Spec, ChangesReplay, StepReplays

-----------------------------------------------------------------------------
(* How many move.                                                          *)

\* From the addresses A to the addresses B at most one member moves, to a longer one.
LengthensOne(A, B) ==
  /\ \A c \in DOMAIN A \cap DOMAIN B : IsPrefix(A[c], B[c])
  /\ \A c, d \in DOMAIN A \cap DOMAIN B : A[c] # B[c] /\ A[d] # B[d] => c = d

\* The same of a step, as the property puts it.
LengthensAtMostOne(m, n) ==
  LET moved == {b \in {e.bytes : e \in Range(m.entries)} \cap {e.bytes : e \in Range(n.entries)} :
                  AddressOf(m, b) # AddressOf(n, b)}
  IN Cardinality(moved) <= 1 /\ \A b \in moved : IsShorter(m, n, b)

\* An insert moves one member at most.
LEMMA InsertMovesOne ==
  ASSUME NEW n, Sound(n), NEW b \in Contents, NEW id \in Identifiers \cup {NoId},
         NEW a \in InsertInner(n, b, id)
  PROVE  LengthensOne(AddressMap(n), AddressMap(a.nb))
<1> DEFINE A == AddressMap(n)
           B == AddressMap(a.nb)
<1>1. Sound(a.nb)
  BY InsertSound DEF IsAnswer
<1>2. IsTree(A) /\ IsTree(B)
  BY <1>1, SoundFacts DEF Sound, AddressMap
<1>3. ASSUME A = B
      PROVE  LengthensOne(A, B)
  <2>1. \A c \in DOMAIN A : IsPrefix(A[c], A[c])
    BY <1>2, PrefixReflexive DEF IsTree, IsAddressMap
  <2> HIDE DEF A, B
  <2> QED BY <1>3, <2>1 DEF LengthensOne
<1>4. CASE a.status = "Inserted"
  <2>1. b \notin DOMAIN A
    BY <1>4, InsertedByPlan DEF AddressMap
  <2>2. \A c : c \in DOMAIN B <=> c \in DOMAIN A \/ c = b
    <3>1. IsInsertion(n, a.nb, b, id)
      BY <1>4, InsertEffects DEF Refusals, Failures
    <3>2. PICK pos2 : GrowsBy(n.entries, a.nb.entries, pos2, b, id)
      BY <3>1 DEF IsInsertion
    <3>3. IdsOf(a.nb.entries) = Put(IdsOf(n.entries), b, id)
      BY <1>1, <3>2, IdsAfter, SoundTypes
    <3>4. DOMAIN IdsOf(n.entries) = DOMAIN A /\ DOMAIN IdsOf(a.nb.entries) = DOMAIN B
      BY DEF IdsOf, AddressMap, AddressesOf
    <3> QED BY <3>3, <3>4 DEF Put
  <2> HIDE DEF A, B
  <2>3. /\ \A c \in DOMAIN A : IsPrefix(A[c], B[c])
        /\ \A c, d \in DOMAIN A : A[c] # B[c] /\ A[d] # B[d] => c = d
    BY <1>2, <2>1, <2>2, OneMoves
  <2> QED BY <2>3 DEF LengthensOne, A, B
<1>5. ASSUME NEW i \in 1..Len(n.entries), IsNaming(n, a.nb, i, id)
      PROVE  A = B
  BY <1>1, <1>5, NamesMoveNothing DEF IsNaming, AddressMap
<1> QED BY <1>3, <1>4, <1>5, InsertEffects

\* A removal takes out one member and moves one other at most, to a shorter address.
LEMMA RemoveMovesOne ==
  ASSUME NEW n, Sound(n), NEW idx \in 1..Len(n.entries), NEW a \in RemoveInner(n, idx)
  PROVE  /\ Len(a.nb.entries) = Len(n.entries) - 1
         /\ LengthensOne(AddressMap(a.nb), AddressMap(n))
<1> DEFINE A == AddressMap(n)
           B == AddressMap(a.nb)
           b == n.entries[idx].bytes
<1>1. Sound(a.nb)
  BY RemoveSound DEF IsAnswer
<1>2. IsTree(A) /\ IsTree(B)
  BY <1>1, SoundFacts DEF Sound, AddressMap
<1>3. ShrinksBy(n.entries, a.nb.entries, idx)
  BY RemoveEffects DEF IsRemoval
<1>4. IdsOf(a.nb.entries) = Drop(IdsOf(n.entries), b)
  BY <1>1, <1>3, IdsAfter, SoundTypes
<1>5. DOMAIN IdsOf(n.entries) = DOMAIN A /\ DOMAIN IdsOf(a.nb.entries) = DOMAIN B
  BY DEF IdsOf, AddressMap, AddressesOf
<1>6. b \in DOMAIN A
  BY SoundTypes, EntriesFacts DEF AddressMap
<1>7. DOMAIN B = DOMAIN A \ {b}
  BY <1>4, <1>5 DEF Drop
<1> HIDE DEF A, B, b
<1>8. b \notin DOMAIN B /\ \A c : c \in DOMAIN A <=> c \in DOMAIN B \/ c = b
  BY <1>6, <1>7
<1>9. /\ \A c \in DOMAIN B : IsPrefix(B[c], A[c])
      /\ \A c, d \in DOMAIN B : B[c] # A[c] /\ B[d] # A[d] => c = d
  BY <1>2, <1>8, OneMoves
<1> QED BY <1>3, <1>9 DEF LengthensOne, ShrinksBy, A, B

\* Moves of addresses are those the property speaks of.
LEMMA MovesAre ==
  ASSUME NEW m, Sound(m), NEW n, Sound(n), LengthensOne(AddressMap(m), AddressMap(n))
  PROVE  LengthensAtMostOne(m, n)
<1> DEFINE A == AddressMap(m)
           B == AddressMap(n)
           moved == {b \in {e.bytes : e \in Range(m.entries)}
                           \cap {e.bytes : e \in Range(n.entries)} :
                       AddressOf(m, b) # AddressOf(n, b)}
<1>1. /\ {e.bytes : e \in Range(m.entries)} = DOMAIN A
      /\ {e.bytes : e \in Range(n.entries)} = DOMAIN B
      /\ \A b \in DOMAIN A : AddressOf(m, b) = {A[b]}
      /\ \A b \in DOMAIN B : AddressOf(n, b) = {B[b]}
  BY AddressOfMember
<1>2. \A b : b \in moved <=> b \in DOMAIN A \cap DOMAIN B /\ A[b] # B[b]
  BY <1>1
<1> HIDE DEF moved, A, B
<1>3. \A c, d \in moved : c = d
  BY <1>2 DEF LengthensOne, A, B
<1>4. Cardinality(moved) <= 1
  <2>1. CASE moved = {}
    BY <2>1, FS_EmptySet
  <2>2. CASE moved # {}
    <3>1. PICK c : c \in moved
      BY <2>2
    <3>2. moved = {c}
      BY <1>3, <3>1
    <3> QED BY <3>2, FS_Singleton
  <2> QED BY <2>1, <2>2
<1>5. ASSUME NEW b \in moved
      PROVE  IsShorter(m, n, b)
  <2>1. IsPrefix(A[b], B[b]) /\ A[b] # B[b]
    BY <1>2 DEF LengthensOne, A, B
  <2> QED BY <1>1, <1>2, <2>1 DEF IsShorter, IsStrictPrefix
<1> QED BY <1>4, <1>5 DEF LengthensAtMostOne, moved

\* What a step moves.
StepMoves(m, n, op) ==
  /\ op = "insert" => LengthensAtMostOne(m, n)
  /\ op \in {"remove_by_bytes", "remove_by_identifier"} =>
       Len(n.entries) = Len(m.entries) - 1 /\ LengthensAtMostOne(n, m)

LEMMA StepMovesOne ==
  ASSUME Inv, [Next]_vars, nb' # nb
  PROVE  StepMoves(nb, nb', result'.op)
<1>1. Sound(nb) /\ Sound(nb')
  BY InvIsShape, NextInv DEF Inv, AllSound
<1>2. ASSUME NEW b \in Contents, NEW id \in Identifiers \cup {NoId}, Insert(b, id)
      PROVE  StepMoves(nb, nb', result'.op)
  <2>1. PICK a \in InsertInner(nb, b, id) : nb' = a.nb /\ result'.op = "insert"
    BY <1>2 DEF Insert, Returns, Report
  <2>2. LengthensOne(AddressMap(nb), AddressMap(a.nb))
    BY <1>1, InsertMovesOne
  <2>3. LengthensAtMostOne(nb, a.nb)
    BY <1>1, <2>1, <2>2, MovesAre
  <2> QED BY <2>1, <2>3 DEF StepMoves
<1>3. ASSUME NEW idx, NEW a \in RemoveInner(nb, idx), nb' = a.nb, result'.op # "insert"
      PROVE  StepMoves(nb, nb', result'.op)
  <2>1. idx \in 1..Len(nb.entries)
    <3>1. DOMAIN nb.entries = 1..Len(nb.entries)
      BY <1>1, SoundFacts
    <3>2. CASE idx \notin DOMAIN nb.entries
      <4>1. a.nb = nb
        BY <3>2 DEF RemoveInner, Refused, Answer
      <4> QED BY <1>3, <4>1
    <3> QED BY <3>1, <3>2
  <2>2. /\ Len(a.nb.entries) = Len(nb.entries) - 1
        /\ LengthensOne(AddressMap(a.nb), AddressMap(nb))
    BY <1>1, <2>1, RemoveMovesOne
  <2>3. LengthensAtMostOne(a.nb, nb)
    BY <1>1, <1>3, <2>2, MovesAre
  <2> QED BY <1>3, <2>2, <2>3 DEF StepMoves
<1>4. Refused(nb, "None").nb = nb
  BY DEF Refused, Answer
<1>5. ASSUME NEW b \in Contents, RemoveByBytes(b)
      PROVE  StepMoves(nb, nb', result'.op)
  BY <1>3, <1>4, <1>5 DEF RemoveByBytes, Returns, Report
<1>6. ASSUME NEW id \in Identifiers, RemoveByIdentifier(id)
      PROVE  StepMoves(nb, nb', result'.op)
  BY <1>3, <1>4, <1>6 DEF RemoveByIdentifier, Returns, Report
<1>7. ASSUME \/ \E b \in Contents, id \in Identifiers \cup {NoId} : SetIdentifier(b, id)
             \/ EndMerge \/ EndRebuild \/ EndFromRows
      PROVE  result'.op \in {"set_identifier", "merge", "rebuild", "from_rows"}
  BY <1>7 DEF SetIdentifier, Returns, EndMerge, EndRebuild, EndFromRows, Commit, Fail, Report
<1>8. ASSUME \/ \E rows \in RowBatches : BeginMerge(rows) \/ BeginFromRows(rows)
             \/ MergeOtherScheme \/ BeginRebuild \/ BeginValidate \/ InsertRow
             \/ EndValidate \/ UNCHANGED vars
      PROVE  nb' = nb
  BY <1>8 DEF BeginMerge, BeginFromRows, MergeOtherScheme, BeginRebuild, BeginValidate,
              InsertRow, EndValidate, Begin, Fail, vars
<1>9. ASSUME result'.op \in {"set_identifier", "merge", "rebuild", "from_rows"}
      PROVE  StepMoves(nb, nb', result'.op)
  BY <1>9 DEF StepMoves
<1> QED BY <1>2, <1>5, <1>6, <1>7, <1>8, <1>9 DEF Next

\* What the property says of a step.
StepShifts ==
  nb' # nb =>
    /\ result'.op = "insert" =>
         Cardinality(MovedMembers) <= 1 /\ \A b \in MovedMembers : IsShorter(nb, nb', b)
    /\ result'.op \in {"remove_by_bytes", "remove_by_identifier"} =>
         /\ Len(nb'.entries) = Len(nb.entries) - 1
         /\ Cardinality(MovedMembers) <= 1 /\ \A b \in MovedMembers : IsShorter(nb', nb, b)

\* Whatever splits and collapses they make, an insert and a removal move one member at
\* most besides the one they are about, the insert to a longer and the removal to a
\* shorter address.
THEOREM OneMovesAtMost == Spec => CallsMoveOne
<1>1. Inv /\ [Next]_vars => [StepShifts]_vars
  <2> SUFFICES ASSUME Inv, [Next]_vars, nb' # nb
               PROVE  StepShifts
    BY DEF StepShifts
  <2>1. StepMoves(nb, nb', result'.op)
    BY StepMovesOne
  <2> DEFINE moved(m, n) ==
        {b \in {e.bytes : e \in Range(m.entries)} \cap {e.bytes : e \in Range(n.entries)} :
           AddressOf(m, b) # AddressOf(n, b)}
  <2>2. MovedMembers = moved(nb, nb')
    BY DEF MovedMembers, Members
  <2>3. moved(nb', nb) = moved(nb, nb')
    OBVIOUS
  <2>4. \A m, n : LengthensAtMostOne(m, n) <=>
          Cardinality(moved(m, n)) <= 1 /\ \A b \in moved(m, n) : IsShorter(m, n, b)
    BY DEF LengthensAtMostOne
  <2> HIDE DEF moved
  <2> QED BY <2>1, <2>2, <2>3, <2>4 DEF StepShifts, StepMoves
<1> QED BY <1>1, Invariant, PTL DEF Spec, CallsMoveOne, StepShifts
=============================================================================
