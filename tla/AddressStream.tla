----------------------------- MODULE AddressStream -----------------------------
(***************************************************************************)
(* The address streams of a scheme (scheme.rs, address.rs).  A scheme is a *)
(* decision graph: a node evaluates its probe bundle on the content, emits *)
(* the value as an atom and branches on it.  Where no branch leads on, the *)
(* stream continues with the fallback, from its first atom.  Each content  *)
(* has an iterator of its own (Address), which changes only when its owner *)
(* asks for the next atom.                                                 *)
(***************************************************************************)
EXTENDS Schemes, FiniteSets

CONSTANTS
  Contents,    \* the byte strings addressed
  Schemes,     \* schemes somebody may have written down, valid or not
  MaxAtoms     \* bound: atoms taken from one stream

ASSUME StreamAssumption ==
  /\ Contents \subseteq Seq(Byte)
  /\ MaxAtoms \in Nat

\* The nodes of a scheme are a list, and the fields its continuation may be over are
\* among those given.
ASSUME SchemeAssumption ==
  \A s \in Schemes :
    /\ s.nodes \in Seq({s.nodes[i] : i \in DOMAIN s.nodes})
    /\ IsValidScheme(s) /\ s.fallback.kind = "StaticPolynomialV2" =>
         s.fallback.field \in DOMAIN FieldOf

VARIABLES
  scheme,      \* the scheme, validated
  iterators,   \* iterators[c]: the iterator over the content c
  emitted      \* emitted[c]: the atoms it has yielded

vars == <<scheme, iterators, emitted>>

Init ==
  /\ scheme \in {s \in Schemes : IsValidScheme(s)}
  /\ iterators = [c \in Contents |-> NewIterator(scheme)]
  /\ emitted = [c \in Contents |-> <<>>]

\* The streams are taken in rounds, as plan_insert takes two, and no further than
\* MaxAtoms.
IsAsked(c) ==
  /\ Len(emitted[c]) < MaxAtoms
  /\ \A d \in Contents : Len(emitted[c]) <= Len(emitted[d])

Yield(c, step) ==
  /\ emitted' = [emitted EXCEPT ![c] = Append(@, step[1])]
  /\ iterators' = [iterators EXCEPT ![c] = step[2]]
  /\ UNCHANGED scheme

NodeAtom(c) ==
  /\ IsAsked(c)
  /\ iterators[c].next_node # None
  /\ Yield(c, NodeStep(scheme, c, iterators[c]))

FallbackAtom(c) ==
  /\ IsAsked(c)
  /\ iterators[c].next_node = None
  /\ Yield(c, FallbackStep(scheme, c, iterators[c]))

Next == \E c \in Contents : NodeAtom(c) \/ FallbackAtom(c)

Spec == Init /\ [][Next]_vars

-----------------------------------------------------------------------------
(* Properties.                                                             *)

TypeOK ==
  /\ scheme \in Schemes
  /\ DOMAIN iterators = Contents
  /\ emitted \in [Contents -> Seq(0..(scheme.capacity - 1))]
  /\ \A c \in Contents :
       /\ iterators[c].next_node \in NodeIds(scheme) \cup {None}
       /\ iterators[c].fallback # None => /\ iterators[c].next_node = None
                                         /\ iterators[c].fallback.bytes = c

\* The node before the k-th atom of c, by the atoms before it.
NodeBefore(c, k) ==
  LET node[j \in 1..k] ==
        IF j = 1 THEN scheme.root
        ELSE IF node[j - 1] = None THEN None
        ELSE ChildFor(NodeOf(scheme, node[j - 1]), emitted[c][j - 1])
  IN node[k]

\* What the fallback of c has yielded: the atoms past the last node.
Continuation(c) ==
  LET walk == {k \in DOMAIN emitted[c] : NodeBefore(c, k) # None}
  IN SubSeq(emitted[c], Cardinality(walk) + 1, Len(emitted[c]))

\* No stream stays in the decision graph for more atoms than it has nodes: by then its
\* iterator is past the last node.
WalkEnds ==
  \A c \in Contents : Len(emitted[c]) >= Len(scheme.nodes) => iterators[c].next_node = None

\* Two contents get different streams: no scheme that validates gives distinct
\* contents the same atoms for ever (MaxAtoms is past the tail of each of them).
Exact ==
  \A c, d \in Contents :
    c # d /\ Len(emitted[c]) = MaxAtoms /\ Len(emitted[d]) = MaxAtoms
      => emitted[c] # emitted[d]

-----------------------------------------------------------------------------
(* A decoder of DirectRadixV1, from what the comments of fallback.rs say of *)
(* the code: Elias-gamma length, fixed-width blocks, zero tail.             *)

Zeros(code) == CHOOSE z \in 0..(Len(code) - 1) :
                 code[z + 1] # 0 /\ \A i \in 1..z : code[i] = 0

Value(digits, base) == FoldLeft(LAMBDA value, digit : value * base + digit, 0, digits)

DecodedLength(code) == Value(SubSeq(code, Zeros(code) + 1, 2 * Zeros(code) + 1), 2) - 1

Width(bytes, base) == CHOOSE d \in 0..(8 * bytes) :
                        base^d >= 256^bytes /\ (d > 0 => base^(d - 1) < 256^bytes)

\* The bytes of the block b = 0, 1, ... of a content of the given length.
BlockLength(b, length) == Min({BLOCK_BYTES, length - b * BLOCK_BYTES})

BlockStart(code, b, base) == 2 * Zeros(code) + 1 + b * Width(BLOCK_BYTES, base)

DecodedByte(code, i, base) ==
  LET b == (i - 1) \div BLOCK_BYTES
      n == BlockLength(b, DecodedLength(code))
      value == Value(SubSeq(code, BlockStart(code, b, base) + 1,
                            BlockStart(code, b, base) + Width(n, base)), base)
  IN (value \div 256^((n - 1) - ((i - 1) % BLOCK_BYTES))) % 256

Decoded(code, base) == [i \in 1..DecodedLength(code) |-> DecodedByte(code, i, base)]

DecodedEnd(code, base) ==
  BlockStart(code, DecodedLength(code) \div BLOCK_BYTES, base)
    + Width(DecodedLength(code) % BLOCK_BYTES, base)

\* Once a DirectRadixV1 continuation is as long as direct_radix_v1_finite_len says,
\* the content can be read back from it: it starts with its first atom right after
\* the last node's, ends where the helper says, and only zeros follow.  (Looked at when
\* the last atom has been taken, which says the same of every shorter continuation.)
RadixDecodes ==
  scheme.fallback.kind = "DirectRadixV1" =>
    \A c \in Contents : Len(emitted[c]) = MaxAtoms =>
      LET code == Continuation(c)
          end  == FiniteLen(Len(c), scheme.capacity)
      IN Len(code) >= end =>
           /\ Decoded(code, scheme.capacity) = c
           /\ DecodedEnd(code, scheme.capacity) = end
           /\ \A i \in (end + 1)..Len(code) : code[i] = 0

\* The depths up to n - 1 that belong to the pass of n - 1.
PassOf(d, n) == {k \in 0..(n - 1) : k \div PointCount(d) = (n - 1) \div PointCount(d)}

\* A pass of StaticPolynomialV2 evaluates the content at every nonzero point of the
\* field, and never at one point twice.
PassVisitsEachPointOnce ==
  \A c \in Contents :
    scheme.fallback.kind = "StaticPolynomialV2" /\ iterators[c].fallback # None =>
    LET d     == scheme.fallback
        n     == iterators[c].fallback.depth
        pass  == PassOf(d, n)
        at(k) == Point(d, k % PointCount(d))
    IN /\ \A j, k \in pass : j # k => at(j) # at(k)
       /\ Cardinality(pass) = PointCount(d) => {at(k) : k \in pass} = 1..PointCount(d)
=============================================================================
