------------------------------- MODULE Fallback -------------------------------
(***************************************************************************)
(* The endless continuation of an address (fallback.rs).  DirectRadixV1    *)
(* writes the length of the content in Elias gamma, its bytes block by     *)
(* block in the radix of the capacity, then zeros for ever.                *)
(* StaticPolynomialV2 evaluates the content's polynomial at every nonzero  *)
(* point of a field, then its Hasse derivatives, one order after another.  *)
(* A fallback is the record of the state of its iterator.                  *)
(***************************************************************************)
EXTENDS Probes

CONSTANTS
  BLOCK_BYTES,   \* bytes per block of DirectRadixV1: 15 in the code
  WordLimit      \* 2^128: where the arithmetic of a block overflows

ASSUME BlockAssumption ==
  /\ BLOCK_BYTES \in Nat \ {0}
  /\ WordLimit \in Nat
  /\ WordLimit > 256^BLOCK_BYTES

\* Descriptors.
DirectRadixV1 == [kind |-> "DirectRadixV1"]
StaticPolynomialV2(codec, field, optimized_points) ==
  [kind |-> "StaticPolynomialV2", codec |-> codec, field |-> field,
   optimized_points |-> optimized_points]

\* FallbackDescriptor::validate.
IsValidFallback(descriptor, capacity) ==
  descriptor.kind = "StaticPolynomialV2" =>
    LET points == descriptor.optimized_points IN
    /\ IsValid(descriptor.field)
    /\ Order(descriptor.field) <= capacity
    /\ \A i \in 1..4 : points[i] \in 1..(Order(descriptor.field) - 1)
    /\ \A i, j \in 1..4 : i # j => points[i] # points[j]

-----------------------------------------------------------------------------
(* DirectRadixV1.                                                          *)

BitLength(n) == CHOOSE k \in 1..n : 2^(k - 1) <= n /\ n < 2^k

\* The iterator before its first atom.  The gamma code is that of the length plus
\* one, so that the empty content has one.
NewRadix(bytes, capacity) ==
  [kind |-> "DirectRadixV1", bytes |-> bytes, base |-> capacity,
   value |-> Len(bytes) + 1,
   zero_remaining |-> BitLength(Len(bytes) + 1) - 1,
   bit_remaining |-> BitLength(Len(bytes) + 1),
   byte_index |-> 0, block_value |-> 0, block_divisor |-> 1, block_digits_remaining |-> 0]

\* Mutant: one digit too few.
RadixDigitsLess(base, bytes) ==
  IF bytes = 0 THEN 0
  ELSE CHOOSE d \in 1..(8 * bytes) : base^d * base >= 256^bytes

\* The least d with base^d >= 256^bytes; where base^d overflows it is enough too.
RadixDigits(base, bytes) ==
  LET represented[d \in 0..(8 * bytes)] ==
        IF d = 0 THEN 1
        ELSE LET last == represented[d - 1] IN
             IF last >= 256^bytes THEN last ELSE Min({last * base, WordLimit})
  IN IF bytes = 0 THEN 0
     ELSE CHOOSE d \in 1..(8 * bytes) :
            represented[d] >= 256^bytes /\ represented[d - 1] < 256^bytes

\* The big-endian value of a block.
BlockValue(block) == FoldLeft(LAMBDA value, byte : value * 256 + byte, 0, block)

BlockEnd(s) == Min({s.byte_index + BLOCK_BYTES, Len(s.bytes)})

\* load_v1_block: the next block, of BLOCK_BYTES bytes or what is left.
LoadBlock(s) ==
  LET block == SubSeq(s.bytes, s.byte_index + 1, BlockEnd(s))
      digits == RadixDigits(s.base, Len(block))
  IN [s EXCEPT !.byte_index = BlockEnd(s),
               !.block_value = BlockValue(block),
               !.block_divisor = s.base^(digits - 1),
               !.block_digits_remaining = digits]

\* The block whose digits come next.
Loaded(s) ==
  IF s.block_digits_remaining = 0 /\ s.byte_index < Len(s.bytes) THEN LoadBlock(s) ELSE s

\* Every branch of next_v1: the atom, and the state after it.
InZeros(s) == s.zero_remaining # 0
InBits(s) == ~InZeros(s) /\ s.bit_remaining # 0
InBlocks(s) == ~InZeros(s) /\ ~InBits(s) /\ Loaded(s).block_digits_remaining # 0
InTail(s) == ~InZeros(s) /\ ~InBits(s) /\ Loaded(s).block_digits_remaining = 0

AfterZero(s) == [s EXCEPT !.zero_remaining = @ - 1]

BitAtom(s) == (s.value \div 2^(s.bit_remaining - 1)) % 2
AfterBit(s) == [s EXCEPT !.bit_remaining = @ - 1]

DigitAtom(s) == Loaded(s).block_value \div Loaded(s).block_divisor
AfterDigit(s) ==
  LET l == Loaded(s) IN
  [l EXCEPT !.block_value = @ % l.block_divisor,
            !.block_digits_remaining = @ - 1,
            !.block_divisor = IF l.block_digits_remaining > 1 THEN @ \div l.base ELSE @]

\* Mutant: a block that is not full counts as a full one.
FiniteLenFull(length, capacity) ==
  2 * BitLength(length + 1) - 1
    + ((length + BLOCK_BYTES - 1) \div BLOCK_BYTES) * RadixDigits(capacity, BLOCK_BYTES)

\* direct_radix_v1_finite_len: the number of atoms before the tail.
FiniteLen(length, capacity) ==
  2 * BitLength(length + 1) - 1
    + (length \div BLOCK_BYTES) * RadixDigits(capacity, BLOCK_BYTES)
    + RadixDigits(capacity, length % BLOCK_BYTES)

-----------------------------------------------------------------------------
(* StaticPolynomialV2.                                                     *)

NewStatic(bytes, descriptor) ==
  [kind |-> "StaticPolynomialV2", bytes |-> bytes, descriptor |-> descriptor, depth |-> 0]

PointCount(descriptor) == Order(descriptor.field) - 1

\* Mutant: the skip adds two past a point instead of one.
SkipTwo(candidate, blocked) == IF candidate >= blocked THEN candidate + 2 ELSE candidate

Skip(candidate, blocked) == IF candidate >= blocked THEN candidate + 1 ELSE candidate

\* The point of a slot of a pass: the optimized points, then the others in
\* ascending order, each candidate moved past the optimized points in the order
\* in which the descriptor has them.
Point(descriptor, slot) ==
  IF slot < 4 THEN descriptor.optimized_points[slot + 1]
  ELSE LET points == descriptor.optimized_points
       IN Skip(Skip(Skip(Skip(slot - 4 + 1, points[1]), points[2]), points[3]), points[4])

\* next_static.
StaticAtom(s) ==
  LET d == s.descriptor IN
  Evaluate(Probe(d.field, Point(d, s.depth % PointCount(d)),
                 s.depth \div PointCount(d)),
           d.codec, s.bytes)
AfterStatic(s) == [s EXCEPT !.depth = @ + 1]

-----------------------------------------------------------------------------
\* FallbackDescriptor::address.
NewFallback(descriptor, bytes, capacity) ==
  IF descriptor.kind = "DirectRadixV1" THEN NewRadix(bytes, capacity)
  ELSE NewStatic(bytes, descriptor)

\* FallbackAddress::next_atom: the atom, and the state after it.
NextAtom(s) ==
  IF s.kind = "StaticPolynomialV2" THEN <<StaticAtom(s), AfterStatic(s)>>
  ELSE CASE InZeros(s)  -> <<0, AfterZero(s)>>
         [] InBits(s)   -> <<BitAtom(s), AfterBit(s)>>
         [] InBlocks(s) -> <<DigitAtom(s), AfterDigit(s)>>
         [] InTail(s)   -> <<0, s>>
=============================================================================
