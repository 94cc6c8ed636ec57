------------------------------ MODULE ByteFormat ------------------------------
(***************************************************************************)
(* The tokens all artifacts are made of (the put_ functions of             *)
(* artifact.rs): integers of fixed width, big-endian, and whatever has a   *)
(* length after a count.  A byte is a digit in base ByteBase, so that the  *)
(* widths can be scaled down without losing a boundary.                    *)
(***************************************************************************)
EXTENDS Integers, Sequences, SequencesExt

CONSTANTS
  ByteBase,                        \* 256
  U32Bytes, U64Bytes, U128Bytes    \* 4, 8 and 16

ASSUME WidthAssumption ==
  /\ ByteBase \in Nat \ {0, 1}
  /\ {U32Bytes, U64Bytes, U128Bytes} \subseteq Nat \ {0}

BigEndian(n, width) == [i \in 1..width |-> (n \div ByteBase^(width - i)) % ByteBase]

\* from_be_bytes.
Number(bytes) == FoldLeft(LAMBDA n, byte : n * ByteBase + byte, 0, bytes)

\* A BigUint is the sequence of its digits, the first of which is not 0: to_bytes_be.
BigUint(n) ==
  IF n = 0 THEN <<>>
  ELSE BigEndian(n, CHOOSE k \in 1..n : ByteBase^(k - 1) <= n /\ n < ByteBase^k)

\* from_bytes_be of a BigUint.
Stripped(digits) ==
  SubSeq(digits, 1 + Len(SelectSeq([i \in DOMAIN digits |-> i],
                                   LAMBDA i : \A j \in 1..i : digits[j] = 0)), Len(digits))

-----------------------------------------------------------------------------
PutTag(tag) == <<tag>>

PutU32(n) == BigEndian(n, U32Bytes)
PutU64(n) == BigEndian(n, U64Bytes)
PutU128(n) == BigEndian(n, U128Bytes)

\* Rows of bytes, after their count.
PutRows(rows) == PutU32(Len(rows)) \o FlattenSeq(rows)

PutBytes(bytes) == PutU32(Len(bytes)) \o bytes

PutOptional(bytes) == PutTag(1) \o bytes
PutNone == PutTag(0)
=============================================================================
