---------------------------- MODULE MCFieldCache ----------------------------
(***************************************************************************)
(* An instance of FieldCache for TLC.                                      *)
(***************************************************************************)
EXTENDS CachedFields, TLC

CONSTANTS t1, t2

\* Each way to find a modulus: Artin-Schreier towers (<<2, 4>>, <<3, 3>>), quadratic
\* towers over F_3 with the second extension that asks for one field twice
\* (<<3, 8>>), roots of a nonresidue and of its root (<<7, 3>>, <<5, 4>>), the search
\* (<<2, 5>>, <<2, 6>>).  Three descriptors are no fields (the order of one is too
\* large).  Both threads need the prime fields and the field of 9 elements.
TwoThreads ==
  t1 :> <<<<3, 4>>, <<2, 3>>, <<4, 1>>, <<7, 3>>, <<2, 5>>, <<3, 3>>>> @@
  t2 :> <<<<2, 6>>, <<3, 2>>, <<2, 20>>, <<5, 0>>, <<5, 4>>, <<2, 4>>, <<3, 8>>>>
=============================================================================
