----------------------------- MODULE PullSession -----------------------------
(***************************************************************************)
(* One pull-replication session of the data proxy with one remote          *)
(* endpoint: ReplicationHandler::process for a single endpoint and         *)
(* ReplicationHandler::load_into_backend                                   *)
(* (src/src/replication/replication_handler.rs).                           *)
(*                                                                         *)
(* Four tasks of the proxy run concurrently and talk over channels:        *)
(*   - the response demux reads the peer's frames (ObjectInfo, Chunk,      *)
(*     Finish), feeds per-object chunk channels and the sync ledger and    *)
(*     acknowledges every frame;                                           *)
(*   - the sync ledger collects Info/Chunk markers and hands a snapshot    *)
(*     to the finalizer when it receives Finish;                           *)
(*   - the backend driver repeatedly walks a snapshot of the object        *)
(*     handler map and loads every object whose info has arrived, through  *)
(*     the chunk validator of load_into_backend, into the backend;         *)
(*   - the finalizer (the body of process itself) compares the ledger with *)
(*     the announced chunk counts and sends Finish or Abort.               *)
(* The remote proxy is the environment: it sends every ObjectInfo once,    *)
(* each object's chunks in index order, goes back to an index on a         *)
(* RetryChunk request, and ends the stream after Finish or Abort.          *)
(* Payloads, checksums and the transformer chain are abstracted to a       *)
(* chunk index and a flag telling whether its MD5 matches.                 *)
(***************************************************************************)
EXTENDS Naturals, Sequences, FiniteSets, SequencesExt, Functions

CONSTANTS
    Objects,         \* ids of the objects pulled from the endpoint
    NoObj,           \* placeholder for "no object"
    MinChunks,       \* smallest chunk count an ObjectInfo announces
    MaxChunks,       \* largest chunk count an ObjectInfo announces
    ChunkQueueCap,   \* capacity of a per-object chunk channel (code: 100)
    MaxBatchPasses,  \* driver passes before it gives up (code: 20)
    MaxRetries,      \* retry_counter limit of load_into_backend (code: 5)
    MaxCorrupt,      \* chunk deliveries whose checksum the network may spoil
    MaxResends,      \* RetryChunk requests the peer honours
    BackendFaults,   \* TRUE: backend and metadata-server calls may fail
    StreamFaults,    \* TRUE: the response stream may break
    SharedShard      \* TRUE: all map entries fall into one DashMap shard

ASSUME /\ Objects # {} /\ NoObj \notin Objects
       /\ MinChunks \in Nat /\ MaxChunks \in Nat /\ MinChunks <= MaxChunks
       /\ ChunkQueueCap \in Nat \ {0}
       /\ {MaxBatchPasses, MaxRetries, MaxCorrupt, MaxResends} \subseteq Nat
       /\ BackendFaults \in BOOLEAN /\ StreamFaults \in BOOLEAN
       /\ SharedShard \in BOOLEAN

VARIABLES
    \* the remote data proxy (environment)
    chunksOf,   \* chunk count of each object on the peer (fixed)
    peerInfo,   \* objects whose ObjectInfo the peer has sent
    peerNext,   \* next chunk index the peer sends for each object
    peerRead,   \* number of request frames the peer has consumed
    peerDone,   \* the peer has ended the response stream
    corrupt,    \* corrupt deliveries left
    resends,    \* RetryChunk requests the peer still honours
    \* the bidirectional stream
    resp,       \* response frames not yet read by the demux
    req,        \* every request frame the proxy sent, in order
    \* response demux
    demux,      \* "run" | "done"
    infoCount,  \* `counter`: ObjectInfo frames handled
    startQ,     \* messages in the start channel (capacity 1)
    guard,      \* object whose map Ref the demux holds across send().await
    \* object handler map and per-object chunk channels
    hmap,       \* object -> [chunks, synced] for every entry of the map
    objQ,       \* object -> chunks waiting in its channel
    \* sync ledger
    ledger,     \* the ledger's set `sync`
    finishQ,    \* snapshots waiting in the finish channel
    \* backend driver
    dpc,        \* "wait_start" | "pass" | "next" | "load" | "unmap" | "idle" | "failed"
    passes,     \* `batch_counter`
    pending,    \* object -> map entry: snapshot entries this pass has still to take
    cur,        \* object being loaded
    curChunks,  \* its `max_chunks`
    \* chunk validator of load_into_backend
    vpc,        \* "idle" | "run" | "ok" | "err"
    expected,   \* `expected`
    retries,    \* `retry_counter`
    \* finalizer and the session's result
    fpc,        \* "wait" | "sent" | "error"
    finished,   \* `finished_objects`: object -> already-synced flag
    outcome,    \* "running" | "ok" | "error": what process returns
    \* cache, backend and metadata server
    located,    \* the cache holds a location for the object
    written,    \* chunk indices written to the backend, in order
    status,     \* replication status at the metadata server
    committed   \* objects this session upserted into the cache

peerVars == <<chunksOf, peerInfo, peerNext, peerRead, peerDone, corrupt, resends>>
demuxVars == <<demux, infoCount, startQ, guard>>
syncVars == <<ledger, finishQ>>
driverVars == <<dpc, passes, pending, cur, curChunks>>
valVars == <<vpc, expected, retries>>
storeVars == <<located, written, status, committed>>
proxyVars == <<req, demuxVars, hmap, objQ, syncVars, driverVars, valVars, fpc,
               finished, outcome, storeVars>>
vars == <<peerVars, resp, req, demuxVars, hmap, objQ, syncVars, driverVars,
          valVars, fpc, finished, outcome, storeVars>>

-----------------------------------------------------------------------------
(* Frames and markers.                                                     *)

InfoFrame(o) == [type |-> "info", obj |-> o, idx |-> chunksOf[o], ok |-> TRUE]
ChunkFrame(o, i, ok) == [type |-> "chunk", obj |-> o, idx |-> i, ok |-> ok]
FinishFrame == [type |-> "finish", obj |-> NoObj, idx |-> 0, ok |-> TRUE]

Request(t, o, i) == [type |-> t, obj |-> o, idx |-> i]

Mark(k, o, n) == [kind |-> k, obj |-> o, n |-> n]
FinishMark == Mark("finish", NoObj, 0)

\* Insert or overwrite the entries of S in the map f with value v.
Upsert(f, S, v) == [x \in DOMAIN f \cup S |-> IF x \in S THEN v ELSE f[x]]

\* Remove the entries of S from the map f.
Without(f, S) == Restrict(f, DOMAIN f \ S)

-----------------------------------------------------------------------------
(* Initial state: process has sent the InitMessage, marked every object    *)
(* Running at the metadata server and filled the object handler map.       *)

Init ==
    /\ chunksOf \in [Objects -> MinChunks..MaxChunks]
    /\ located \in [Objects -> BOOLEAN]
    /\ peerInfo = {} /\ peerNext = [o \in Objects |-> 0]
    /\ peerRead = 0 /\ peerDone = FALSE
    /\ corrupt = MaxCorrupt /\ resends = MaxResends
    /\ resp = <<>>
    /\ req = <<Request("init", NoObj, 0)>>
    /\ demux = "run" /\ infoCount = 0 /\ startQ = 0 /\ guard = NoObj
    /\ hmap = [o \in Objects |-> [chunks |-> 0, synced |-> FALSE]]
    /\ objQ = [o \in Objects |-> <<>>]
    /\ ledger = {} /\ finishQ = <<>>
    /\ dpc = "wait_start" /\ passes = 0
    /\ pending = [o \in {} |-> 0] /\ cur = NoObj /\ curChunks = 0
    /\ vpc = "idle" /\ expected = 0 /\ retries = 0
    /\ fpc = "wait" /\ finished = [o \in {} |-> FALSE] /\ outcome = "running"
    /\ written = [o \in Objects |-> <<>>]
    /\ status = [o \in Objects |-> "Running"]
    /\ committed = {}

-----------------------------------------------------------------------------
(* The peer (environment, not code of this repository).                    *)

PeerSendInfo(o) ==
    /\ ~peerDone /\ o \notin peerInfo
    /\ peerInfo' = peerInfo \cup {o}
    /\ resp' = Append(resp, InfoFrame(o))
    /\ UNCHANGED <<chunksOf, peerNext, peerRead, peerDone, corrupt, resends,
                   proxyVars>>

PeerSendChunk(o) ==
    /\ ~peerDone /\ o \in peerInfo /\ peerNext[o] < chunksOf[o]
    /\ \E ok \in IF corrupt > 0 THEN BOOLEAN ELSE {TRUE} :
         /\ resp' = Append(resp, ChunkFrame(o, peerNext[o], ok))
         /\ corrupt' = IF ok THEN corrupt ELSE corrupt - 1
    /\ peerNext' = [peerNext EXCEPT ![o] = @ + 1]
    /\ UNCHANGED <<chunksOf, peerInfo, peerRead, peerDone, resends, proxyVars>>

\* The peer acts on RetryChunk, Abort and Finish; acknowledgements and
\* RetryObjectId requests it reads past without effect.
Acted(f) == f.type \in {"retry_chunk", "abort", "finish"}

\* Index of the next request frame the peer acts on, 0 if there is none.
NextActed ==
    LET ks == {k \in peerRead + 1..Len(req) : Acted(req[k])}
    IN IF ks = {} THEN 0 ELSE Min(ks)

\* RetryChunk(o, i): the peer goes back and sends o's chunks again from i.
PeerResend ==
    /\ ~peerDone /\ NextActed # 0 /\ req[NextActed].type = "retry_chunk"
    /\ peerRead' = NextActed
    /\ IF resends > 0
       THEN /\ peerNext' = [peerNext EXCEPT ![req[NextActed].obj] = req[NextActed].idx]
            /\ resends' = resends - 1
       ELSE UNCHANGED <<peerNext, resends>>
    /\ UNCHANGED <<chunksOf, peerInfo, peerDone, corrupt, resp, proxyVars>>

\* Abort or Finish: the peer sends its Finish and ends the stream.
PeerStop ==
    /\ ~peerDone /\ NextActed # 0 /\ req[NextActed].type \in {"abort", "finish"}
    /\ peerRead' = NextActed
    /\ peerDone' = TRUE
    /\ resp' = Append(resp, FinishFrame)
    /\ UNCHANGED <<chunksOf, peerInfo, peerNext, corrupt, resends, proxyVars>>

PeerNext ==
    \/ \E o \in Objects : PeerSendInfo(o) \/ PeerSendChunk(o)
    \/ PeerResend \/ PeerStop

-----------------------------------------------------------------------------
(* Sync ledger (the task spawned at line 358).  Its channel is FIFO and    *)
(* the set it builds is read only when Finish arrives, so a marker sent    *)
(* is modelled as inserted at once, and the snapshot handed to the         *)
(* finalizer as taken when Finish is sent: every marker sent before        *)
(* Finish, and none sent after it.                                         *)

SyncSend(m) == ledger' = ledger \cup {m}

SyncSendFinish ==
    /\ finishQ' = Append(finishQ, ledger)
    /\ UNCHANGED ledger

-----------------------------------------------------------------------------
(* Response demux (the task spawned at line 244).                          *)

\* ObjectInfo: record Info in the ledger, store the chunk count and the
\* synced flag in the map, acknowledge, and send the one start signal.
DemuxObjectInfo ==
    /\ demux = "run" /\ resp # <<>> /\ Head(resp).type = "info"
    /\ LET o == Head(resp).obj
           n == Head(resp).idx
       IN /\ SyncSend(Mark("info", o, n))
          /\ hmap' = IF o \in DOMAIN hmap
                     THEN [hmap EXCEPT ![o] = [chunks |-> n, synced |-> TRUE]]
                     ELSE hmap
          /\ req' = Append(req, Request("info_ack", o, 0))
    /\ infoCount' = infoCount + 1
    /\ startQ' = IF infoCount + 1 = 1 THEN 1 ELSE startQ
    /\ resp' = Tail(resp)
    /\ UNCHANGED <<peerVars, demux, guard, objQ, finishQ, driverVars, valVars,
                   fpc, finished, outcome, storeVars>>

\* Mutant: the channel is unbounded (no back-pressure from the writer).
DemuxChunkUnbounded ==
    /\ demux = "run" /\ resp # <<>> /\ Head(resp).type = "chunk"
    /\ LET c == Head(resp) IN
       /\ c.obj \in DOMAIN hmap
       /\ objQ' = [objQ EXCEPT ![c.obj] = Append(@, [idx |-> c.idx, ok |-> c.ok])]
       /\ SyncSend(Mark("chunk", c.obj, c.idx))
       /\ req' = Append(req, Request("chunk_ack", c.obj, c.idx))
    /\ resp' = Tail(resp) /\ guard' = NoObj
    /\ UNCHANGED <<peerVars, demux, infoCount, startQ, hmap, finishQ, driverVars,
                   valVars, fpc, finished, outcome, storeVars>>

\* Chunk of an object in the map: `data_map.get` takes a Ref to the entry
\* (a read lock on its shard), the chunk is forwarded into the object's
\* channel, recorded and acknowledged, and the Ref is dropped at the end of
\* the block.  Taking the Ref and a send that does not wait are one step.
DemuxChunk ==
    /\ demux = "run" /\ resp # <<>> /\ Head(resp).type = "chunk"
    /\ LET c == Head(resp) IN
       /\ c.obj \in DOMAIN hmap /\ guard \in {NoObj, c.obj}
       /\ Len(objQ[c.obj]) < ChunkQueueCap
       /\ objQ' = [objQ EXCEPT ![c.obj] = Append(@, [idx |-> c.idx, ok |-> c.ok])]
       /\ SyncSend(Mark("chunk", c.obj, c.idx))
       /\ req' = Append(req, Request("chunk_ack", c.obj, c.idx))
    /\ resp' = Tail(resp) /\ guard' = NoObj
    /\ UNCHANGED <<peerVars, demux, infoCount, startQ, hmap, finishQ, driverVars,
                   valVars, fpc, finished, outcome, storeVars>>

\* The channel is full: the demux waits in `send().await` and keeps the
\* Ref, so the entry's shard stays read-locked while it waits.
DemuxBlock ==
    /\ demux = "run" /\ resp # <<>> /\ Head(resp).type = "chunk"
    /\ guard = NoObj /\ Head(resp).obj \in DOMAIN hmap
    /\ Len(objQ[Head(resp).obj]) = ChunkQueueCap
    /\ guard' = Head(resp).obj
    /\ UNCHANGED <<peerVars, resp, req, demux, infoCount, startQ, hmap, objQ,
                   syncVars, driverVars, valVars, fpc, finished, outcome,
                   storeVars>>

\* Chunk of an object that has no map entry: ask for the object again.
DemuxUnknownChunk ==
    /\ demux = "run" /\ resp # <<>> /\ Head(resp).type = "chunk"
    /\ Head(resp).obj \notin DOMAIN hmap /\ guard = NoObj
    /\ req' = Append(req, Request("retry_object", Head(resp).obj, 0))
    /\ resp' = Tail(resp)
    /\ UNCHANGED <<peerVars, demuxVars, hmap, objQ, syncVars, driverVars,
                   valVars, fpc, finished, outcome, storeVars>>

DemuxFinish ==
    /\ demux = "run" /\ resp # <<>> /\ Head(resp).type = "finish"
    /\ demux' = "done"
    /\ resp' = Tail(resp)
    /\ UNCHANGED <<peerVars, req, infoCount, startQ, guard, hmap, objQ, syncVars,
                   driverVars, valVars, fpc, finished, outcome, storeVars>>

\* The response stream fails: `message().await?` ends the demux task.
DemuxStreamError ==
    /\ StreamFaults /\ demux = "run" /\ ~peerDone /\ guard = NoObj
    /\ demux' = "done" /\ peerDone' = TRUE /\ resp' = <<>>
    /\ UNCHANGED <<chunksOf, peerInfo, peerNext, peerRead, corrupt, resends,
                   req, infoCount, startQ, guard, hmap, objQ, syncVars, driverVars,
                   valVars, fpc, finished, outcome, storeVars>>

-----------------------------------------------------------------------------
(* Backend driver (the task spawned at line 386).                          *)

DriverStart ==
    /\ dpc = "wait_start" /\ startQ = 1
    /\ startQ' = 0 /\ dpc' = "pass" /\ passes' = 0
    /\ UNCHANGED <<peerVars, resp, req, demux, infoCount, guard, hmap, objQ, syncVars,
                   pending, cur, curChunks, valVars, fpc, finished, outcome,
                   storeVars>>

\* The demux ended before it sent the start signal: the receive loop ends.
DriverNoStart ==
    /\ dpc = "wait_start" /\ startQ = 0 /\ demux = "done"
    /\ dpc' = "idle"
    /\ UNCHANGED <<peerVars, resp, req, demuxVars, hmap, objQ, syncVars, passes,
                   pending, cur, curChunks, valVars, fpc, finished, outcome,
                   storeVars>>

\* One pass: snapshot the map (entries are cloned, so an ObjectInfo that
\* arrives later in the pass is not seen by it).  The entries are then taken
\* one by one, in the map's iteration order, which the model leaves open.
DriverPass ==
    /\ dpc = "pass"
    /\ pending' = hmap
    /\ passes' = passes + 1
    /\ dpc' = "next"
    /\ UNCHANGED <<peerVars, resp, req, demuxVars, hmap, objQ, syncVars, cur,
                   curChunks, valVars, fpc, finished, outcome, storeVars>>

\* cache.resources.get finds no entry for the object: `?` on "Object not
\* found" ends the driver task before the location or synced flag is read.
DriverObjectNotFound(o) ==
    /\ BackendFaults /\ dpc = "next" /\ o \in DOMAIN pending
    /\ dpc' = "failed"
    /\ UNCHANGED <<peerVars, resp, req, demuxVars, hmap, objQ, syncVars, passes,
                   pending, cur, curChunks, valVars, fpc, finished, outcome,
                   storeVars>>

\* The object already has a location in the cache: mark it already synced;
\* its entry is then removed from the map (DriverUnmap).
DriverSkipLocated(o) ==
    /\ dpc = "next" /\ o \in DOMAIN pending /\ located[o]
    /\ finished' = Upsert(finished, {o}, TRUE)
    /\ pending' = Without(pending, {o})
    /\ cur' = o /\ dpc' = "unmap"
    /\ UNCHANGED <<peerVars, resp, req, demuxVars, hmap, objQ, syncVars, passes,
                   curChunks, valVars, fpc, outcome, storeVars>>

\* Its ObjectInfo had not arrived when the pass began: skip it.
DriverSkipUnsynced(o) ==
    /\ dpc = "next" /\ o \in DOMAIN pending /\ ~located[o]
    /\ ~pending[o].synced
    /\ pending' = Without(pending, {o})
    /\ UNCHANGED <<peerVars, resp, req, demuxVars, hmap, objQ, syncVars, dpc,
                   passes, cur, curChunks, valVars, fpc, finished, outcome,
                   storeVars>>

\* Mutant: the cache lookup for an existing location is skipped.
DriverLoadIgnoreLocated(o) ==
    /\ dpc = "next" /\ o \in DOMAIN pending
    /\ pending[o].synced
    /\ cur' = o /\ curChunks' = pending[o].chunks
    /\ pending' = Without(pending, {o})
    /\ dpc' = "load"
    /\ vpc' = "run" /\ expected' = 0 /\ retries' = 0
    /\ UNCHANGED <<peerVars, resp, req, demuxVars, hmap, objQ, syncVars, passes,
                   fpc, finished, outcome, storeVars>>

\* initialize_location succeeded: load_into_backend starts its validator.
DriverLoad(o) ==
    /\ dpc = "next" /\ o \in DOMAIN pending /\ ~located[o]
    /\ pending[o].synced
    /\ cur' = o /\ curChunks' = pending[o].chunks
    /\ pending' = Without(pending, {o})
    /\ dpc' = "load"
    /\ vpc' = "run" /\ expected' = 0 /\ retries' = 0
    /\ UNCHANGED <<peerVars, resp, req, demuxVars, hmap, objQ, syncVars, passes,
                   fpc, finished, outcome, storeVars>>

\* initialize_location failed: `?` ends the driver task.
DriverLoadFails(o) ==
    /\ BackendFaults /\ dpc = "next" /\ o \in DOMAIN pending /\ ~located[o]
    /\ pending[o].synced
    /\ dpc' = "failed"
    /\ UNCHANGED <<peerVars, resp, req, demuxVars, hmap, objQ, syncVars, passes,
                   pending, cur, curChunks, valVars, fpc, finished, outcome,
                   storeVars>>

\* End of a pass with an empty map: tell the ledger to finish.
DriverFinish ==
    /\ dpc = "next" /\ DOMAIN pending = {} /\ DOMAIN hmap = {}
    /\ SyncSendFinish
    /\ dpc' = "idle"
    /\ UNCHANGED <<peerVars, resp, req, demuxVars, hmap, objQ,
                   passes, pending, cur, curChunks, valVars, fpc, finished,
                   outcome, storeVars>>

\* End of a pass after more than MaxBatchPasses passes: Abort, then Finish.
DriverGiveUp ==
    /\ dpc = "next" /\ DOMAIN pending = {} /\ DOMAIN hmap # {}
    /\ passes > MaxBatchPasses
    /\ req' = Append(req, Request("abort", NoObj, 0))
    /\ SyncSendFinish
    /\ dpc' = "idle"
    /\ UNCHANGED <<peerVars, resp, demuxVars, hmap, objQ,
                   passes, pending, cur, curChunks, valVars, fpc, finished,
                   outcome, storeVars>>

DriverRepeat ==
    /\ dpc = "next" /\ DOMAIN pending = {} /\ DOMAIN hmap # {}
    /\ passes <= MaxBatchPasses
    /\ dpc' = "pass"
    /\ UNCHANGED <<peerVars, resp, req, demuxVars, hmap, objQ, syncVars, passes,
                   pending, cur, curChunks, valVars, fpc, finished, outcome,
                   storeVars>>

-----------------------------------------------------------------------------
(* Chunk validator of load_into_backend (the task spawned at line 617).    *)

\* Ask the peer for chunk i again, or give up after MaxRetries retries.
RetryOrGiveUp(i) ==
    \/ /\ retries > MaxRetries
       /\ vpc' = "err"
       /\ UNCHANGED <<req, retries>>
    \/ /\ retries <= MaxRetries
       /\ req' = Append(req, Request("retry_chunk", cur, i))
       /\ retries' = retries + 1
       /\ UNCHANGED vpc

\* A chunk other than the expected one: request the expected one.
ValidatorOutOfOrder ==
    /\ vpc = "run" /\ objQ[cur] # <<>>
    /\ Head(objQ[cur]).idx # expected
    /\ objQ' = [objQ EXCEPT ![cur] = Tail(@)]
    /\ RetryOrGiveUp(expected)
    /\ UNCHANGED <<peerVars, resp, demuxVars, hmap, syncVars, driverVars,
                   expected, fpc, finished, outcome, storeVars>>

\* The expected chunk with a wrong MD5: `expected` has already been
\* incremented (line 660) when the chunk is sent back for a retry.
ValidatorBadChecksum ==
    /\ vpc = "run" /\ objQ[cur] # <<>>
    /\ Head(objQ[cur]).idx = expected /\ ~Head(objQ[cur]).ok
    /\ objQ' = [objQ EXCEPT ![cur] = Tail(@)]
    /\ expected' = expected + 1
    /\ RetryOrGiveUp(Head(objQ[cur]).idx)
    /\ UNCHANGED <<peerVars, resp, demuxVars, hmap, syncVars, driverVars,
                   fpc, finished, outcome, storeVars>>

\* Mutant: the end test compares the index, not the count, with max_chunks.
ValidatorAcceptOffByOne ==
    /\ vpc = "run" /\ objQ[cur] # <<>>
    /\ Head(objQ[cur]).idx = expected /\ Head(objQ[cur]).ok
    /\ LET i == Head(objQ[cur]).idx IN
       /\ written' = [written EXCEPT ![cur] = Append(@, i)]
       /\ SyncSend(Mark("chunk", cur, i))
       /\ vpc' = IF i = curChunks THEN "ok" ELSE "run"
    /\ objQ' = [objQ EXCEPT ![cur] = Tail(@)]
    /\ expected' = expected + 1
    /\ UNCHANGED <<peerVars, resp, req, demuxVars, hmap, finishQ,
                   driverVars, retries, fpc, finished, outcome, located,
                   status, committed>>

\* The expected chunk, intact: write it, record it in the ledger, and end
\* the validator after the last chunk.
ValidatorAccept ==
    /\ vpc = "run" /\ objQ[cur] # <<>>
    /\ Head(objQ[cur]).idx = expected /\ Head(objQ[cur]).ok
    /\ LET i == Head(objQ[cur]).idx IN
       /\ written' = [written EXCEPT ![cur] = Append(@, i)]
       /\ SyncSend(Mark("chunk", cur, i))
       /\ vpc' = IF i + 1 = curChunks THEN "ok" ELSE "run"
    /\ objQ' = [objQ EXCEPT ![cur] = Tail(@)]
    /\ expected' = expected + 1
    /\ UNCHANGED <<peerVars, resp, req, demuxVars, hmap, finishQ,
                   driverVars, retries, fpc, finished, outcome, located,
                   status, committed>>

-----------------------------------------------------------------------------
(* End of load_into_backend and the rest of the driver's loop body.  The   *)
(* writer's input ends when the validator returns, whether Ok or Err.      *)

\* Mutant: the map entry is kept after the upsert.
DriverCommitKeepEntry ==
    /\ dpc = "load" /\ vpc \in {"ok", "err"}
    /\ located' = [located EXCEPT ![cur] = TRUE]
    /\ committed' = committed \cup {cur}
    /\ status' = [status EXCEPT ![cur] = "Finished"]
    /\ dpc' = "next" /\ vpc' = "idle" /\ cur' = NoObj
    /\ UNCHANGED <<peerVars, resp, req, demuxVars, hmap, objQ, syncVars, passes,
                   pending, curChunks, expected, retries, fpc, finished,
                   outcome, written>>

\* The writer finished and the hashes are read: upsert the location into
\* the cache, report Finished; the map entry is removed next (DriverUnmap).
DriverCommit ==
    /\ dpc = "load" /\ vpc \in {"ok", "err"}
    /\ located' = [located EXCEPT ![cur] = TRUE]
    /\ committed' = committed \cup {cur}
    /\ status' = [status EXCEPT ![cur] = "Finished"]
    /\ dpc' = "unmap" /\ vpc' = "idle"
    /\ UNCHANGED <<peerVars, resp, req, demuxVars, hmap, objQ, syncVars, passes,
                   pending, cur, curChunks, expected, retries, fpc, finished,
                   outcome, written>>

\* `object_handler_map.remove` write-locks the entry's shard, so it waits
\* while the demux holds a Ref into that shard: always for the same key,
\* and for any key when the objects share a shard (SharedShard).
MapWritable(o) == guard = NoObj \/ (guard # o /\ ~SharedShard)

\* Remove the entry of an object skipped or committed.
DriverUnmap ==
    /\ dpc = "unmap" /\ MapWritable(cur)
    /\ hmap' = Without(hmap, {cur})
    /\ dpc' = "next" /\ cur' = NoObj
    /\ UNCHANGED <<peerVars, resp, req, demuxVars, objQ, syncVars, passes,
                   pending, curChunks, valVars, fpc, finished, outcome,
                   storeVars>>

\* The writer failed, so a hash is missing: `?` ends the driver task.
DriverWriteFails ==
    /\ BackendFaults /\ dpc = "load" /\ vpc \in {"ok", "err"}
    /\ dpc' = "failed" /\ vpc' = "idle"
    /\ UNCHANGED <<peerVars, resp, req, demuxVars, hmap, objQ, syncVars, passes,
                   pending, cur, curChunks, expected, retries, fpc, finished,
                   outcome, storeVars>>

\* The location is upserted but the Finished status update fails.
DriverStatusFails ==
    /\ BackendFaults /\ dpc = "load" /\ vpc \in {"ok", "err"}
    /\ located' = [located EXCEPT ![cur] = TRUE]
    /\ committed' = committed \cup {cur}
    /\ dpc' = "failed" /\ vpc' = "idle"
    /\ UNCHANGED <<peerVars, resp, req, demuxVars, hmap, objQ, syncVars, passes,
                   pending, cur, curChunks, expected, retries, fpc, finished,
                   outcome, written, status>>

-----------------------------------------------------------------------------
(* Finalizer: the loop over finish_receiver in process (line 509).         *)

Snapshot == Head(finishQ)
ChunkCount(o) == Cardinality({m \in Snapshot : m.kind = "chunk" /\ m.obj = o})
InfoMarks == {m \in Snapshot : m.kind = "info"}
AlreadySynced(o) == o \in DOMAIN finished /\ finished[o]
Shortfall == {m \in InfoMarks : m.n # ChunkCount(m.obj) /\ ~AlreadySynced(m.obj)}
Complete == {m.obj : m \in {m \in InfoMarks : m.n = ChunkCount(m.obj)}}

\* Every announced object has its chunks: mark them and send Finish.
FinalizeOk ==
    /\ fpc = "wait" /\ finishQ # <<>> /\ Shortfall = {}
    /\ finished' = Upsert(finished, Complete, FALSE)
    /\ req' = Append(req, Request("finish", NoObj, 0))
    /\ fpc' = "sent" /\ finishQ' = Tail(finishQ)
    /\ UNCHANGED <<peerVars, resp, demuxVars, hmap, objQ, ledger,
                   driverVars, valVars, outcome, storeVars>>

\* An object is short of chunks: send Abort and return an error.
FinalizeAbort ==
    /\ fpc = "wait" /\ finishQ # <<>> /\ Shortfall # {}
    /\ req' = Append(req, Request("abort", NoObj, 0))
    /\ fpc' = "error" /\ outcome' = "error" /\ finishQ' = Tail(finishQ)
    /\ UNCHANGED <<peerVars, resp, demuxVars, hmap, objQ, ledger,
                   driverVars, valVars, finished, storeVars>>

\* Every sender of the sync channel is gone, so the finish channel closes
\* and process returns finished_objects for this endpoint.
SessionEnd ==
    /\ outcome = "running" /\ fpc # "error"
    /\ demux = "done" /\ dpc \in {"idle", "failed"}
    /\ finishQ = <<>>
    /\ outcome' = "ok"
    /\ UNCHANGED <<peerVars, resp, req, demuxVars, hmap, objQ, syncVars,
                   driverVars, valVars, fpc, finished, storeVars>>

\* The objects process hands back for eviction from the queue.
Result == IF outcome = "ok" THEN DOMAIN finished ELSE {}

Terminated == outcome # "running" /\ UNCHANGED vars

-----------------------------------------------------------------------------

Next ==
    \/ PeerNext
    \/ DemuxObjectInfo \/ DemuxChunk \/ DemuxBlock \/ DemuxUnknownChunk \/ DemuxFinish
    \/ DemuxStreamError
    \/ DriverStart \/ DriverNoStart \/ DriverPass
    \/ \E o \in Objects : \/ DriverSkipLocated(o) \/ DriverSkipUnsynced(o)
                          \/ DriverLoad(o) \/ DriverLoadFails(o)
                          \/ DriverObjectNotFound(o)
    \/ DriverFinish \/ DriverGiveUp \/ DriverRepeat
    \/ ValidatorOutOfOrder \/ ValidatorBadChecksum \/ ValidatorAccept
    \/ DriverCommit \/ DriverUnmap \/ DriverWriteFails \/ DriverStatusFails
    \/ FinalizeOk \/ FinalizeAbort \/ SessionEnd
    \/ Terminated

\* Every task of the proxy is scheduled by tokio whenever it can run, and
\* the peer keeps serving the stream.  Failures are never forced.
Fairness ==
    /\ WF_vars(PeerNext)
    /\ WF_vars(DemuxObjectInfo) /\ WF_vars(DemuxChunk) /\ WF_vars(DemuxBlock)
    /\ WF_vars(DemuxUnknownChunk) /\ WF_vars(DemuxFinish)
    /\ WF_vars(DriverStart) /\ WF_vars(DriverNoStart) /\ WF_vars(DriverPass)
    /\ WF_vars(\E o \in Objects : \/ DriverSkipLocated(o)
                                  \/ DriverSkipUnsynced(o) \/ DriverLoad(o))
    /\ WF_vars(DriverFinish) /\ WF_vars(DriverGiveUp) /\ WF_vars(DriverRepeat)
    /\ WF_vars(ValidatorOutOfOrder) /\ WF_vars(ValidatorBadChecksum)
    /\ WF_vars(ValidatorAccept) /\ WF_vars(DriverCommit) /\ WF_vars(DriverUnmap)
    /\ WF_vars(FinalizeOk) /\ WF_vars(FinalizeAbort) /\ WF_vars(SessionEnd)

Spec == Init /\ [][Next]_vars /\ Fairness

-----------------------------------------------------------------------------
(* Properties.                                                             *)

TypeOK ==
    /\ chunksOf \in [Objects -> MinChunks..MaxChunks]
    /\ peerInfo \subseteq Objects /\ peerNext \in [Objects -> 0..MaxChunks]
    /\ peerRead \in 0..Len(req) /\ peerDone \in BOOLEAN
    /\ demux \in {"run", "done"} /\ startQ \in 0..1
    /\ DOMAIN hmap \subseteq Objects
    /\ \A o \in DOMAIN hmap : hmap[o] \in [chunks : 0..MaxChunks, synced : BOOLEAN]
    /\ \A o \in Objects : Len(objQ[o]) <= ChunkQueueCap
    /\ finishQ \in Seq(SUBSET ledger) /\ Len(finishQ) <= 1
    /\ dpc \in {"wait_start", "pass", "next", "load", "unmap", "idle", "failed"}
    /\ passes \in 0..MaxBatchPasses + 1
    /\ DOMAIN pending \subseteq Objects
    /\ \A o \in DOMAIN pending : pending[o] \in [chunks : 0..MaxChunks, synced : BOOLEAN]
    /\ dpc \in {"load", "unmap"} => cur \in Objects
    /\ guard \in Objects \cup {NoObj}
    /\ vpc \in {"idle", "run", "ok", "err"} /\ retries \in 0..MaxRetries + 1
    /\ fpc \in {"wait", "sent", "error"} /\ outcome \in {"running", "ok", "error"}
    /\ DOMAIN finished \subseteq Objects /\ finished \in [DOMAIN finished -> BOOLEAN]
    /\ located \in [Objects -> BOOLEAN] /\ committed \subseteq Objects
    /\ written \in [Objects -> Seq(0..MaxChunks - 1)]
    /\ status \in [Objects -> {"Running", "Finished"}]

\* An object the session upserts into the cache (and reports Finished)
\* holds exactly its chunks 0 .. n-1, n the count its ObjectInfo announced.
CommittedIntact ==
    \A o \in committed : written[o] = [i \in 1..chunksOf[o] |-> i - 1]

\* finished_objects marks an object "already synced" (which exempts it
\* from the finalizer's chunk count) only if it had a location before the
\* session: an object this session wrote is never marked so.
AlreadySyncedOnlyPreLocated ==
    \A o \in DOMAIN finished : finished[o] => o \notin committed

\* Every object process hands back for eviction from the replication queue
\* has a location in the cache.
EvictedImpliesLocated == \A o \in Result : located[o]

\* The session ends: process returns for this endpoint.
SessionTerminates == <>(outcome # "running")


-----------------------------------------------------------------------------
(* Refinement: the session implements the abstract store behaviour of      *)
(* PullStore.  The peer's chunk counts are the abstract chunk counts, and  *)
(* the store variables are mapped unchanged.                               *)

Store == INSTANCE PullStore WITH chunks <- chunksOf

\* Seen from the cache and the backend, a session is a PullStore run: each
\* not yet located object receives its chunks once each and in order, its
\* location is upserted once and only after the last chunk (the validator
\* of load_into_backend ends after index max_chunks - 1 and the driver
\* upserts only then), and nothing is written after process has returned.
ImplementsPullStore == Store!Spec

=============================================================================
