------------------------- MODULE ReplicationScheduler -------------------------
(***************************************************************************)
(* The replication intent queue of ReplicationHandler::run                *)
(* (src/replication/replication_handler.rs, lines 95-154).  Two tokio      *)
(* tasks share a DashMap endpoint -> Vec<Direction>:                       *)
(*   - the receive task takes ReplicationMessages off the channel and      *)
(*     appends the direction to its endpoint's list (lines 103-119);       *)
(*   - the process task sleeps 30 s, runs process() over the live map      *)
(*     (one pull session per endpoint), then removes the returned          *)
(*     directions from the map and drops entries left empty (122-149).     *)
(* A pull session is abstracted to its outcome: it writes some of the      *)
(* pulled objects, returns some pulled objects as finished, fails, or      *)
(* never returns.  The session itself is the module PullSession.           *)
(* process() iterates the map with batch.iter() (line 167), which holds    *)
(* the read lock of the current endpoint's shard across the session's      *)
(* awaits; the receive task's insert and alter need that shard's write     *)
(* lock and wait for it.                                                   *)
(***************************************************************************)
EXTENDS Naturals, Sequences, FiniteSets, SequencesExt, Functions

CONSTANTS
    Endpoints,       \* remote data proxies
    Objects,         \* object ids
    MaxIntents,      \* bound on the ReplicationMessages sent
    SessionFaults,   \* a session may fail (process returns Err)
    SessionHangs,    \* a session may never return
    SharedShard,     \* TRUE: all endpoints hash to one DashMap shard
    EvictUnlocated   \* a session may return an object it did not write

VARIABLES
    inbox,      \* the ReplicationMessage channel
    sent,       \* every message sent so far (history)
    queue,      \* the DashMap: endpoint -> sequence of directions
    rpc,        \* receive task: "recv" | "alter"
    rmsg,       \* the message the receive task holds
    ppc,        \* process task: "sleep" | "batch" | "session" | "hung" | "apply"
                \*   | "check" | "remove" | "dead"
    cur,        \* the endpoint whose session runs
    toVisit,    \* endpoints in the map when the batch began
    visited,    \* endpoints process has run a session for
    results,    \* process' result: sequence of <<endpoint, set of directions>>
    isEmpty,    \* the local is_empty of the result loop
    located     \* objects with a location in the cache

vars == <<inbox, sent, queue, rpc, rmsg, ppc, cur, toVisit, visited, results,
          isEmpty, located>>
procVars == <<ppc, cur, toVisit, visited, results, isEmpty>>

Direction == [dir : {"pull", "push"}, obj : Objects]
Message == [ep : Endpoints, d : Direction]
Pull(o) == [dir |-> "pull", obj |-> o]

Without(f, S) == Restrict(f, DOMAIN f \ S)

Init ==
    /\ inbox = <<>> /\ sent = {}
    /\ queue = [e \in {} |-> <<>>]
    /\ rpc = "recv" /\ rmsg = CHOOSE m \in Message : TRUE
    /\ ppc = "sleep" /\ cur = CHOOSE e \in Endpoints : TRUE
    /\ toVisit = {} /\ visited = {}
    /\ results = <<>> /\ isEmpty = FALSE
    /\ located \in SUBSET Objects

-----------------------------------------------------------------------------
(* Producers of replication requests (outside this file).                  *)

Send(m) ==
    /\ Cardinality(sent) < MaxIntents /\ m \notin sent
    /\ inbox' = Append(inbox, m) /\ sent' = sent \cup {m}
    /\ UNCHANGED <<queue, rpc, rmsg, procVars, located>>

-----------------------------------------------------------------------------
(* Receive task (lines 103-119).                                           *)

\* The iteration of process() holds a read guard on the shard of the
\* endpoint whose session is running (or hung), so a write to an entry of
\* that shard waits.  contains_key only reads and is not held up.
WriteBlocked(e) == ppc \in {"session", "hung"} /\ (SharedShard \/ cur = e)

\* No entry for the endpoint: insert a new list.  Only this task inserts,
\* so the check and the insert are one step.
ReceiveNew ==
    /\ rpc = "recv" /\ inbox # <<>>
    /\ Head(inbox).ep \notin DOMAIN queue
    /\ ~WriteBlocked(Head(inbox).ep)
    /\ queue' = (Head(inbox).ep :> <<Head(inbox).d>>) @@ queue
    /\ inbox' = Tail(inbox)
    /\ UNCHANGED <<sent, rpc, rmsg, procVars, located>>

\* contains_key found the entry; the alter comes in a later step.
ReceiveCheck ==
    /\ rpc = "recv" /\ inbox # <<>>
    /\ Head(inbox).ep \in DOMAIN queue
    /\ rpc' = "alter" /\ rmsg' = Head(inbox) /\ inbox' = Tail(inbox)
    /\ UNCHANGED <<sent, queue, procVars, located>>

\* alter appends the direction; on a key removed meanwhile it does nothing.
ReceiveAlter ==
    /\ rpc = "alter" /\ ~WriteBlocked(rmsg.ep)
    /\ queue' = IF rmsg.ep \in DOMAIN queue
                THEN [queue EXCEPT ![rmsg.ep] = Append(@, rmsg.d)]
                ELSE queue
    /\ rpc' = "recv"
    /\ UNCHANGED <<inbox, sent, rmsg, procVars, located>>

-----------------------------------------------------------------------------
(* Process task (lines 122-149) and the loop of process() over endpoints. *)

\* The 30 s sleep ends: process() starts iterating the live map.
Tick ==
    /\ ppc = "sleep"
    /\ ppc' = "batch" /\ toVisit' = DOMAIN queue /\ visited' = {}
    /\ UNCHANGED <<inbox, sent, queue, rpc, rmsg, cur, results, isEmpty, located>>

\* Objects the session for endpoint e pulls: the Pull directions of its
\* list when the iteration reaches it (lines 170-176).
PullsOf(e) == {queue[e][k].obj : k \in {k \in DOMAIN queue[e] : queue[e][k].dir = "pull"}}

\* The iteration reaches e and its pull session starts.
SessionStart(e) ==
    /\ ppc = "batch" /\ e \in DOMAIN queue \ visited
    /\ ppc' = "session" /\ cur' = e
    /\ UNCHANGED <<inbox, sent, queue, rpc, rmsg, toVisit, visited, results,
                   isEmpty, located>>

\* The session returns Ok: it wrote some pulled objects and returns the
\* objects of finished_objects; sound sessions return only objects that
\* have a location (PullSession shows the code does not guarantee it).
SessionReturn ==
    /\ ppc = "session"
    /\ \E W \in SUBSET PullsOf(cur) : \E S \in SUBSET PullsOf(cur) :
          /\ located' = located \cup W
          /\ EvictUnlocated \/ S \subseteq located'
          /\ results' = Append(results, <<cur, {Pull(o) : o \in S}>>)
    /\ visited' = visited \cup {cur} /\ ppc' = "batch"
    /\ UNCHANGED <<inbox, sent, queue, rpc, rmsg, cur, toVisit, isEmpty>>

\* The session fails (a `?` or the finalizer's abort): process returns Err,
\* the earlier endpoints' results are dropped, and the `?` at line 128 ends
\* the process task.
SessionFails ==
    /\ SessionFaults /\ ppc = "session"
    /\ \E W \in SUBSET PullsOf(cur) : located' = located \cup W
    /\ ppc' = "dead" /\ results' = <<>>
    /\ UNCHANGED <<inbox, sent, queue, rpc, rmsg, cur, toVisit, visited, isEmpty>>

\* The session never returns (PullSession: an empty object, a full chunk
\* queue, a broken stream): the iteration keeps its shard guard for good.
SessionHang ==
    /\ SessionHangs /\ ppc = "session"
    /\ ppc' = "hung"
    /\ UNCHANGED <<inbox, sent, queue, rpc, rmsg, cur, toVisit, visited, results,
                   isEmpty, located>>

\* The iteration ends once the endpoints present at its start are visited
\* (an entry inserted meanwhile may or may not be reached).
BatchEnd ==
    /\ ppc = "batch" /\ toVisit \subseteq visited
    /\ ppc' = IF results = <<>> THEN "sleep" ELSE "apply"
    /\ UNCHANGED <<inbox, sent, queue, rpc, rmsg, cur, toVisit, visited, results,
                   isEmpty, located>>

Current == Head(results)

\* queue.alter: drop every direction the session returned (line 131).
ApplyResult ==
    /\ ppc = "apply"
    /\ LET e == Current[1] IN
       queue' = IF e \in DOMAIN queue
                THEN [queue EXCEPT ![e] = SelectSeq(@, LAMBDA d : d \notin Current[2])]
                ELSE queue
    /\ ppc' = "check"
    /\ UNCHANGED <<inbox, sent, rpc, rmsg, cur, toVisit, visited, results,
                   isEmpty, located>>

\* queue.get: is the entry now empty (lines 138-143)?
CheckEmpty ==
    /\ ppc = "check"
    /\ isEmpty' = (Current[1] \in DOMAIN queue /\ queue[Current[1]] = <<>>)
    /\ ppc' = "remove"
    /\ UNCHANGED <<inbox, sent, queue, rpc, rmsg, cur, toVisit, visited, results,
                   located>>

\* queue.remove if it was empty (lines 144-146); next result or sleep.
RemoveIfEmpty ==
    /\ ppc = "remove"
    /\ queue' = IF isEmpty THEN Without(queue, {Current[1]}) ELSE queue
    /\ results' = Tail(results) /\ isEmpty' = FALSE
    /\ ppc' = IF Tail(results) = <<>> THEN "sleep" ELSE "apply"
    /\ UNCHANGED <<inbox, sent, rpc, rmsg, cur, toVisit, visited, located>>

-----------------------------------------------------------------------------

Next ==
    \/ \E m \in Message : Send(m)
    \/ ReceiveNew \/ ReceiveCheck \/ ReceiveAlter
    \/ Tick \/ BatchEnd \/ ApplyResult \/ CheckEmpty \/ RemoveIfEmpty
    \/ \E e \in Endpoints : SessionStart(e)
    \/ SessionReturn \/ SessionFails \/ SessionHang

\* Both tasks are scheduled whenever they can run and the timer fires.  A
\* running session ends one way or another: it returns, fails, or is stuck
\* for good (SessionHang).  Producers need not send, and failures are not
\* forced.
Fairness ==
    /\ WF_vars(ReceiveNew) /\ WF_vars(ReceiveCheck) /\ WF_vars(ReceiveAlter)
    /\ WF_vars(Tick) /\ WF_vars(BatchEnd) /\ WF_vars(ApplyResult)
    /\ WF_vars(CheckEmpty) /\ WF_vars(RemoveIfEmpty)
    /\ WF_vars(\E e \in Endpoints : SessionStart(e))
    /\ WF_vars(SessionReturn \/ SessionFails \/ SessionHang)

Spec == Init /\ [][Next]_vars /\ Fairness

-----------------------------------------------------------------------------
(* Properties.                                                             *)

\* A request is still somewhere on its way: in the channel, in the hands of
\* the receive task, or in its endpoint's list.
Pending(m) ==
    \/ m \in Range(inbox)
    \/ rpc = "alter" /\ rmsg = m
    \/ m.ep \in DOMAIN queue /\ m.d \in Range(queue[m.ep])

\* No replication request is dropped: each one stays queued until its
\* object has a location (the queue's entries are the only record of what
\* is still to replicate).  The receive task's contains_key/alter and the
\* process task's get/remove race on the same DashMap entry.
IntentNotLost ==
    \A m \in sent : Pending(m) \/ (m.d.dir = "pull" /\ m.d.obj \in located)

\* The receive task keeps handling requests, whatever happens to the
\* sessions of the process task: each request sent is eventually taken off
\* the channel and its alter or insert done.  Its insert and alter take the
\* shard write lock that process()'s batch.iter() holds across a session.
Unhandled(m) == m \in Range(inbox) \/ (rpc = "alter" /\ rmsg = m)

RequestsHandled ==
    \A m \in Message : Unhandled(m) ~> ~Unhandled(m)

\* Every endpoint with queued requests eventually gets a pull session
\* (the loop of run's process task ticks every 30 s for ever).
EndpointServed ==
    \A e \in Endpoints : (e \in DOMAIN queue) ~> (e \in visited \/ e \notin DOMAIN queue)

=============================================================================
