------------------------------- MODULE Streams -------------------------------
(***************************************************************************)
(* What a neighborhood sees of a scheme: every content has an endless      *)
(* stream of atoms (address.rs, Address).  A stream ends in the zero tail  *)
(* of its fallback (fallback.rs, next_static and next_v1), so Code[b] is   *)
(* the informative part and every later atom is 0.  Contents are numbered  *)
(* in the lexicographic order of their bytes.                              *)
(*                                                                         *)
(* The second half of the module is the definition of a canonical address  *)
(* that the header of neighborhood.rs states: the shortest nonempty prefix *)
(* of a content's stream that no other member's stream shares.             *)
(***************************************************************************)
EXTENDS Naturals, Sequences

CONSTANTS
  Contents,     \* distinct byte strings, numbered in byte order
  Atoms,        \* the atoms 0 .. capacity - 1 of the scheme
  Code          \* Code[b]: the informative part of b's stream

ASSUME ContentsAssumption == Contents \subseteq Nat

ASSUME CodeAssumption ==
  /\ Atoms \subseteq Nat
  /\ 0 \in Atoms
  /\ Code \in [Contents -> Seq(Atoms)]

\* The k-th atom of b's stream, k = 1, 2, ...
Stream(b, k) == IF k \in 1..Len(Code[b]) THEN Code[b][k] ELSE 0

\* The first k atoms of b's stream.
Prefix(b, k) == [i \in 1..k |-> Stream(b, i)]

-----------------------------------------------------------------------------
(* Canonical addresses, by definition.                                     *)

Agree(b, c, k) == \A i \in 1..k : Stream(b, i) = Stream(c, i)

\* No other member of M shares the first k atoms of b.
IsUnique(M, b, k) == \A c \in M \ {b} : ~Agree(b, c, k)

\* k is the length of the canonical address of b among the members M.
IsCanonicalLength(M, b, k) ==
  /\ k > 0
  /\ IsUnique(M, b, k)
  /\ \A j \in 1..(k - 1) : ~IsUnique(M, b, j)

IsCanonicalAddress(M, b, address) ==
  /\ address = Prefix(b, Len(address))
  /\ IsCanonicalLength(M, b, Len(address))

\* Two streams that differ at all differ before both have reached the tail.
Horizon(b, c) == 1..(Len(Code[b]) + Len(Code[c]))

Distinguishable(M) ==
  \A b, c \in M : b # c => \E k \in Horizon(b, c) : Stream(b, k) # Stream(c, k)
=============================================================================
