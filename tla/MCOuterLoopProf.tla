--------------------------- MODULE MCOuterLoopProf ---------------------------
(***************************************************************************)
(* Every program of three functions with a loop each and at most three     *)
(* calls, in their loops or outside, or two and one of them by a pointer.  *)
(***************************************************************************)
EXTENDS OuterLoopProf, FiniteSetsExt

CONSTANTS bench, f, g

Fns == {bench, f, g}

OneLoop == [h \in Fns |-> {"loop"}]

Calls == [caller : Fns, place : {Body, "loop"}, fn : Fns, direct : BOOLEAN]

\* All calls are direct, or one of two is not.
FewPointers(calls) ==
  LET pointers == {c \in calls : ~c.direct}
  IN  pointers = {} \/ (Cardinality(pointers) = 1 /\ Cardinality(calls) = 2)

\* Every function that calls another is called by bench, directly or not.
Connected(calls) ==
  LET From(fns) == fns \cup {c.fn : c \in {d \in calls : d.caller \in fns}}
  IN  {c.caller : c \in calls} \subseteq From(From({bench}))

SmallPrograms ==
  {[loops |-> OneLoop, calls |-> calls] :
     calls \in {s \in {{c, d, e} : c, d, e \in Calls} : FewPointers(s) /\ Connected(s)}}

BenchOnly == {bench}
TwoDepths == {0, 1}
Symmetry == Permutations({f, g})
=============================================================================
