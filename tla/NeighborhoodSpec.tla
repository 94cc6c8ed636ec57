-------------------------- MODULE NeighborhoodSpec --------------------------
(***************************************************************************)
(* What a neighborhood promises (the header of neighborhood.rs): a set of  *)
(* members, each with at most one identifier, where the address of every   *)
(* member is the shortest prefix of its stream that no other member        *)
(* shares.  Addresses are a function of the set of members alone: nothing  *)
(* here remembers an order of calls, and a call that fails changes         *)
(* nothing.                                                                *)
(***************************************************************************)
EXTENDS Streams, FiniteSets

CONSTANTS Identifiers, NoId

VARIABLES
  rows,       \* rows[b]: the identifier of the member b, or NoId
  addresses,  \* addresses[b]: the address of the member b
  answer      \* the last call that returned, and whether it succeeded

svars == <<rows, addresses, answer>>

Members == DOMAIN rows

\* Any rows that a neighborhood can hold: members the scheme tells apart, and
\* an identifier for one member at most.
AreRows(r) ==
  /\ DOMAIN r \subseteq Contents
  /\ r \in [DOMAIN r -> Identifiers \cup {NoId}]
  /\ Distinguishable(DOMAIN r)
  /\ \A b, c \in DOMAIN r : b # c /\ r[b] = r[c] => r[b] = NoId

\* The call op succeeds: the rows are legal and every member has its address.
Become(op) ==
  /\ answer' = <<op, TRUE>>
  /\ AreRows(rows')
  /\ DOMAIN addresses' = Members'
  /\ \A b \in Members' : IsCanonicalAddress(Members', b, addresses'[b])

Init ==
  /\ rows = [b \in {} |-> NoId]
  /\ addresses = [b \in {} |-> <<>>]
  /\ answer = <<"new", TRUE>>

Insert(b, id) ==
  /\ b \notin Members
  /\ rows' = [c \in Members \cup {b} |-> IF c = b THEN id ELSE rows[c]]
  /\ Become("insert")

\* An insert of a member may name an identifier for it, if it has none.
Name(b, id) ==
  /\ b \in Members
  /\ NoId \in {rows[b], id} \/ rows[b] = id
  /\ rows' = IF id = NoId THEN rows ELSE [rows EXCEPT ![b] = id]
  /\ Become("insert")

SetIdentifier(b, id) ==
  /\ b \in Members
  /\ rows' = [rows EXCEPT ![b] = id]
  /\ Become("set_identifier")

Remove(b) ==
  /\ b \in Members
  /\ rows' = [c \in Members \ {b} |-> rows[c]]
  /\ Become("remove_by_bytes") \/ Become("remove_by_identifier")

\* A merge takes in the rows of another neighborhood: it loses no member and no
\* identifier.
Merge ==
  /\ Members \subseteq Members'
  /\ \A b \in Members : rows[b] \in {NoId, rows'[b]}
  /\ Become("merge")

\* from_rows builds a neighborhood from nothing.
FromRows == Become("from_rows")

\* Calls that find nothing to remove, or only look, or rebuild what is there.
Look ==
  /\ UNCHANGED rows
  /\ \E op \in {"remove_by_bytes", "remove_by_identifier", "validate", "rebuild"} :
       Become(op)

\* Any call that can fail changes nothing when it does.
Fail ==
  /\ \E op \in {"insert", "set_identifier", "remove_by_identifier", "merge", "rebuild",
                "validate", "from_rows"} : answer' = <<op, FALSE>>
  /\ UNCHANGED <<rows, addresses>>

Next ==
  \/ \E b \in Contents, id \in Identifiers \cup {NoId} :
       Insert(b, id) \/ Name(b, id) \/ SetIdentifier(b, id)
  \/ \E b \in Contents : Remove(b)
  \/ Merge
  \/ FromRows
  \/ Look
  \/ Fail

Spec == Init /\ [][Next]_svars
=============================================================================
