--------------------------- MODULE MC_PullSession ---------------------------
(* Model-checking instance of PullSession: the cfg files bind the objects  *)
(* to model values and the bounds below.                                   *)
EXTENDS PullSession

CONSTANTS o1, o2

MCObjects == {o1, o2}

\* A single object, for runs that need longer objects.
MCOneObject == {o1}

\* Objects are interchangeable: nothing in the session tells them apart.
MCSymmetry == Permutations(MCObjects)

=============================================================================
