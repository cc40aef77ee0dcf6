----------------------- MODULE MC_ReplicationScheduler -----------------------
(* Model-checking instance of ReplicationScheduler: two remote endpoints   *)
(* and two objects, bound to model values by the cfg files.               *)
EXTENDS ReplicationScheduler

CONSTANTS e1, e2, a, b

MCEndpoints == {e1, e2}
MCObjects == {a, b}

\* Endpoints are interchangeable, and so are objects.
MCSymmetry == Permutations(MCEndpoints) \cup Permutations(MCObjects)

=============================================================================
