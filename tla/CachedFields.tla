----------------------------- MODULE CachedFields -----------------------------
(***************************************************************************)
(* What the cache of FieldCache means: each of its fields with the towers  *)
(* and moduli of StandardFF, made of the very fields it was built from.    *)
(***************************************************************************)
EXTENDS FieldCache, StandardFF

CONSTANT RankBound    \* of larger fields, only the elements up to this rank are tried

RECURSIVE Explicit(_)

\* The field as element.rs has it.
Explicit(field) ==
  Construct(field.descriptor[1], field.descriptor[2],
            [i \in DOMAIN field.parts |-> Explicit(field.parts[i])])

\* No thread has a request left.
Done == \A t \in Threads : stack[t] = <<>> /\ todo[t] = <<>>

-----------------------------------------------------------------------------
(* Properties.  They are about the last states; the cache only grows, so   *)
(* they hold of every field from its insertion on.                         *)

\* Every element but zero has an inverse: the moduli, the search's and those that
\* need none, are irreducible over fields that different threads may have built,
\* and their coefficients were moved to the right places of the base.
IsFiniteField(f) ==
  \A rank \in 1..Min({f.cardinality - 1, RankBound}) :
    LET x == FromRank(f, rank) IN
    /\ Rank(f, x) = rank
    /\ Mul(f, x, Inv(f, x)) = One(f)

FieldsAreFields ==
  Done => \A d \in DOMAIN cache :
            LET f == Explicit(cache[d])
            IN f.cardinality = Order(d) /\ IsFiniteField(f)

\* The monomials of the tower basis, by which all elements are sums.
Monomials(f) == {Power(f.p, i) : i \in 0..(f.degree - 1)}

\* A field lies in each larger one of its tower as a field: embed_steinitz
\* preserves products, and going by way of a third field makes no difference.
EmbeddingsCommute ==
  Done => \A d, e \in DOMAIN cache :
    d[1] = e[1] /\ Divides(d[2], e[2]) =>
      LET small    == Explicit(cache[d])
          large    == Explicit(cache[e])
          Image(x) == EmbedSteinitz(d[1], d[2], e[2], x)
      IN \A x, y \in Monomials(small) :
           /\ Image(Rank(small, Mul(small, FromRank(small, x), FromRank(small, y))))
                = Rank(large, Mul(large, FromRank(large, Image(x)), FromRank(large, Image(y))))
           /\ \A n \in 1..d[2] :
                Divides(n, d[2]) /\ x < Power(d[1], n) =>
                  Image(EmbedSteinitz(d[1], n, d[2], x)) = EmbedSteinitz(d[1], n, e[2], x)
=============================================================================
