------------------------------ MODULE FieldCache ------------------------------
(***************************************************************************)
(* The process-wide cache of finite fields (field/standardff.rs).  Threads *)
(* that evaluate addresses ask for standard fields at the same time.  A    *)
(* call of standard_field looks the field up under the mutex, lets go of   *)
(* the mutex, and on a miss builds the field from smaller ones, for which  *)
(* it calls itself, before it takes the mutex again to insert the result:  *)
(* so several threads may build the same field, and the last one to insert *)
(* it replaces the value of the others.                                    *)
(*                                                                         *)
(* A field is abstracted to what it is built from: its characteristic, its *)
(* degree and the smaller fields that gave the coefficients of its modulus *)
(* and the base of its tower, in the order in which they were asked for.   *)
(***************************************************************************)
EXTENDS FieldDescriptors, Functions

CONSTANTS
  Threads,
  Free,         \* the owner of the mutex when nobody has locked it
  Requests      \* Requests[t]: the descriptors that t instantiates, in order

ASSUME RequestsAssumption ==
  /\ Free \notin Threads
  /\ Requests \in [Threads -> Seq(Descriptor)]

VARIABLES
  lock,     \* the owner of the mutex of FIELD_CACHE
  cache,    \* FIELD_CACHE: from descriptors to fields
  stack,    \* stack[t]: the calls of standard_field in progress, innermost last
  todo,     \* todo[t]: the requests t has not made yet
  answers   \* answers[t]: what its requests returned, in order

vars == <<lock, cache, stack, todo, answers>>

-----------------------------------------------------------------------------
(* Fields.                                                                 *)

Field(d, parts) == [descriptor |-> d, parts |-> parts]

\* What instantiate returns: a field or an error.
Ok(field) == {field}
Err == {}

-----------------------------------------------------------------------------
(* Calls in progress.                                                      *)

Frame(d) == [descriptor |-> d, pc |-> "lookup", parts |-> <<>>]

Innermost(t) == stack[t][Len(stack[t])]

\* The innermost call of t is at pc.
At(t, pc) == stack[t] # <<>> /\ Innermost(t).pc = pc

Wanted(t) == Subdegrees(Innermost(t).descriptor[1], Innermost(t).descriptor[2])

Callers(t) == SubSeq(stack[t], 1, Len(stack[t]) - 1)

\* The innermost call of t returns a field: to the call that made it, or as the
\* answer of the request.
Return(t, field) ==
  IF Len(stack[t]) = 1
  THEN /\ stack' = [stack EXCEPT ![t] = <<>>]
       /\ answers' = [answers EXCEPT ![t] = Append(@, Ok(field))]
  ELSE /\ stack' = [stack EXCEPT ![t] =
                      [Callers(t) EXCEPT ![Len(Callers(t))].parts = Append(@, field)]]
       /\ UNCHANGED answers

Goto(t, pc) == stack' = [stack EXCEPT ![t][Len(stack[t])].pc = pc]

\* Mutant: characteristics share their entries.
KeyOfDegree(d) == <<2, d[2]>>

\* The key of the cache.
Key(d) == d

-----------------------------------------------------------------------------
Init ==
  /\ lock = Free
  /\ cache = [d \in {} |-> Field(d, <<>>)]
  /\ stack = [t \in Threads |-> <<>>]
  /\ todo = Requests
  /\ answers = [t \in Threads |-> <<>>]

\* StandardFieldDescriptor::instantiate: an invalid descriptor is refused, for a
\* valid one the thread calls standard_field.
Instantiate(t) ==
  /\ stack[t] = <<>>
  /\ todo[t] # <<>>
  /\ todo' = [todo EXCEPT ![t] = Tail(@)]
  /\ IF IsValid(Head(todo[t]))
     THEN /\ stack' = [stack EXCEPT ![t] = <<Frame(Head(todo[t]))>>]
          /\ UNCHANGED answers
     ELSE /\ answers' = [answers EXCEPT ![t] = Append(@, Err)]
          /\ UNCHANGED stack
  /\ UNCHANGED <<lock, cache>>

\* Before the lookup and before the insertion.
Lock(t) ==
  /\ lock = Free
  /\ lock' = t
  /\ \/ At(t, "lookup") /\ Goto(t, "get")
     \/ At(t, "insert") /\ Goto(t, "put")
  /\ UNCHANGED <<cache, todo, answers>>

\* Mutant: the guard lives until the field is built.
LookupHolding(t) ==
  /\ At(t, "get")
  /\ LET k == Key(Innermost(t).descriptor) IN
     IF k \in DOMAIN cache THEN Return(t, cache[k]) /\ lock' = Free
     ELSE Goto(t, "build") /\ UNCHANGED <<lock, answers>>
  /\ UNCHANGED <<cache, todo>>

\* The lookup returns a clone of the cached field, or goes on to build it; either
\* way the guard is dropped first.
Lookup(t) ==
  /\ At(t, "get")
  /\ lock' = Free
  /\ LET k == Key(Innermost(t).descriptor) IN
     IF k \in DOMAIN cache THEN Return(t, cache[k])
     ELSE Goto(t, "build") /\ UNCHANGED answers
  /\ UNCHANGED <<cache, todo>>

\* The next of the smaller fields.
Recurse(t) ==
  /\ At(t, "build")
  /\ Len(Innermost(t).parts) < Len(Wanted(t))
  /\ stack' = [stack EXCEPT ![t] =
       Append(@, Frame(<<Innermost(t).descriptor[1],
                         Wanted(t)[Len(Innermost(t).parts) + 1]>>))]
  /\ UNCHANGED <<lock, cache, todo, answers>>

\* Mutant: the entry is put into the cache before the fields it needs.
BuildEarly(t) ==
  /\ At(t, "build")
  /\ Goto(t, "insert")
  /\ UNCHANGED <<lock, cache, todo, answers>>

\* All of them are there: the field is built.
Build(t) ==
  /\ At(t, "build")
  /\ Len(Innermost(t).parts) = Len(Wanted(t))
  /\ Goto(t, "insert")
  /\ UNCHANGED <<lock, cache, todo, answers>>

\* The insertion replaces what another thread has inserted meanwhile.
Insert(t) ==
  /\ At(t, "put")
  /\ lock' = Free
  /\ LET d == Innermost(t).descriptor
         field == Field(d, Innermost(t).parts)
     IN /\ cache' = [k \in DOMAIN cache \cup {Key(d)} |->
                       IF k = Key(d) THEN field ELSE cache[k]]
        /\ Return(t, field)
  /\ UNCHANGED todo

Step(t) ==
  \/ Instantiate(t)
  \/ Lock(t)
  \/ Lookup(t)
  \/ Recurse(t)
  \/ Build(t)
  \/ Insert(t)

Next == \E t \in Threads : Step(t)

\* A thread that can take a step is scheduled some time.
Fairness == \A t \in Threads : WF_vars(Step(t))

Spec == Init /\ [][Next]_vars /\ Fairness

-----------------------------------------------------------------------------
(* Properties.                                                             *)

IsFrame(f) ==
  /\ f = [descriptor |-> f.descriptor, pc |-> f.pc, parts |-> f.parts]
  /\ f.descriptor \in Descriptor
  /\ f.pc \in {"lookup", "get", "build", "insert", "put"}
  /\ DOMAIN f.parts = 1..Len(f.parts)

TypeOK ==
  /\ lock \in Threads \cup {Free}
  /\ DOMAIN cache \subseteq Descriptor
  /\ \A t \in Threads :
       /\ DOMAIN stack[t] = 1..Len(stack[t])
       /\ \A i \in DOMAIN stack[t] :
            /\ IsFrame(stack[t][i])
            /\ i < Len(stack[t]) => stack[t][i].pc = "build"
       /\ lock = t <=> At(t, "get") \/ At(t, "put")
  /\ todo \in [Threads -> Seq(Descriptor)]
  /\ DOMAIN stack = Threads /\ DOMAIN answers = Threads

\* parts are the first of the fields that building the field d asks for, as the
\* cache has them.
AreParts(d, parts) ==
  LET wanted == Subdegrees(d[1], d[2]) IN
  \A i \in DOMAIN parts :
    /\ i \in DOMAIN wanted
    /\ <<d[1], wanted[i]>> \in DOMAIN cache
    /\ parts[i] = cache[<<d[1], wanted[i]>>]

\* Whatever threads raced to build it, a cached field is built completely, from
\* the cached fields of its own tower: every smaller field is in the cache before
\* a field that needs it.
CacheConsistent ==
  \A d \in DOMAIN cache :
    /\ cache[d].descriptor = d
    /\ Len(cache[d].parts) = Len(Subdegrees(d[1], d[2]))
    /\ AreParts(d, cache[d].parts)

\* A field that the cache has given out stays the one for its descriptor: a
\* thread that lost the race inserts an equal field.
CacheOnlyGrows ==
  [][\A d \in DOMAIN cache : d \in DOMAIN cache' /\ cache'[d] = cache[d]]_vars

\* Every request is answered in its turn, an invalid descriptor with an error and
\* any other with the one field of the cache, whoever built it.
AnswersRight ==
  \A t \in Threads : \A i \in DOMAIN answers[t] :
    LET d == Requests[t][i] IN
    IF IsValid(d) THEN d \in DOMAIN cache /\ answers[t][i] = Ok(cache[d])
    ELSE answers[t][i] = Err

\* Every thread gets all its answers: the mutex is never held across the
\* recursion, and the recursion ends.
Terminates == <>(\A t \in Threads : stack[t] = <<>> /\ Len(answers[t]) = Len(Requests[t]))
=============================================================================
