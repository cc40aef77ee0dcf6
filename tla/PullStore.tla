------------------------------ MODULE PullStore ------------------------------
(***************************************************************************)
(* What a pull session promises the store behind the proxy: an abstract    *)
(* specification of ReplicationHandler::process together with             *)
(* load_into_backend (src/src/replication/replication_handler.rs).         *)
(*                                                                         *)
(* For every object that is not located yet, the backend receives the      *)
(* object's chunks once each, in index order; the location is upserted    *)
(* into the cache only after the last chunk, and at most once; the session *)
(* then ends with a result.  Objects located before the session are never  *)
(* written.  Nothing here says how the chunks travel.                      *)
(***************************************************************************)
EXTENDS Naturals, Sequences

CONSTANTS Objects, MinChunks, MaxChunks

VARIABLES
    chunks,     \* chunk count of each object (fixed)
    located,    \* the cache holds a location for the object
    written,    \* chunk indices written to the backend, in order
    committed,  \* objects whose location the session upserted
    outcome     \* "running" | "ok" | "error"

vars == <<chunks, located, written, committed, outcome>>

Init ==
    /\ chunks \in [Objects -> MinChunks..MaxChunks]
    /\ located \in [Objects -> BOOLEAN]
    /\ written = [o \in Objects |-> <<>>]
    /\ committed = {}
    /\ outcome = "running"

\* The next chunk of an object that is still to be replicated.
WriteChunk(o) ==
    /\ outcome = "running" /\ ~located[o]
    /\ Len(written[o]) < chunks[o]
    /\ written' = [written EXCEPT ![o] = Append(@, Len(@))]
    /\ UNCHANGED <<chunks, located, committed, outcome>>

\* Upsert the location of a completely written object.
Commit(o) ==
    /\ outcome = "running" /\ ~located[o]
    /\ Len(written[o]) = chunks[o]
    /\ located' = [located EXCEPT ![o] = TRUE]
    /\ committed' = committed \cup {o}
    /\ UNCHANGED <<chunks, written, outcome>>

\* The session returns, successfully or with an error.
End ==
    /\ outcome = "running"
    /\ \E r \in {"ok", "error"} : outcome' = r
    /\ UNCHANGED <<chunks, located, written, committed>>

Next == \/ \E o \in Objects : WriteChunk(o) \/ Commit(o)
        \/ End

Spec == Init /\ [][Next]_vars

=============================================================================
