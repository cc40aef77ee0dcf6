# TLA+ models of the Aruna DataProxy

These TLA+ modules, with the TLC configurations that check them, cover the
concurrent, arithmetic and authorization parts of the DataProxy
(`src/src/...`): pull replication between two proxies, the byte-range
helpers, and the S3 access gate with the JWT check of gRPC calls. `PROJECT.json`
lists every component, run, mutant, finding and hazard. Its `map` gives, for
each definition, the source lines it translates.

## The system and its parts

| Part | Source | Kind |
|---|---|---|
| Replication scheduler | `replication/replication_handler.rs` 95-154 | two tokio tasks sharing a `DashMap` |
| Pull session (C6) and writer pipeline (C7) | `replication_handler.rs` 159-780 | five tasks over channels, plus a bidirectional gRPC stream |
| Range helpers | `data_server/utils/ranges.rs` | pure u64 arithmetic |
| Token engine, resource resolver, access gate (C2, C4, C5) | `auth/auth.rs`, `caching/auth.rs` | decision procedures over cache lookups |
| S3 backend adapter (C8) | `data_backends/s3_backend.rs` | I/O against the AWS SDK |
| Presign signer, bundler web server, S3 server bootstrap, gRPC proxy service | the remaining files | formatting, HTTP glue, stubs |

How they interact:
- Producers send `ReplicationMessage`s to the scheduler's receive task.
- Every 30 s the scheduler's process task runs `process` over the queued endpoints: one pull session per endpoint.
- A pull session streams ObjectInfo and Chunk frames from the remote proxy. It validates every chunk and writes it through the writer pipeline into the S3 backend.
- It then records the new location in the cache (upsert) and the status in the metadata server.
- It returns the objects it finished, and the scheduler drops them from its queue.

## Modules

### `PullSession.tla` (instantiated by `MC_PullSession.tla`)

This module models one `process` session for one endpoint, together with `load_into_backend`. Its variables fall into groups, one per concurrent actor:

- **Peer** (the environment): `chunksOf`, `peerInfo`, `peerNext`, `peerRead`, `peerDone`, and the fault budgets `corrupt` and `resends`.
  - The remote side of the protocol has no implementation in this tree; the gRPC service returns `Unimplemented`.
  - Its four actions are therefore taken from the wire protocol of the spec and are marked `spec_modelled`.
- **Stream**: `resp` holds the response frames not yet read. `req` holds every request frame, in order.
- **Response demux** (task at lines 244-355): `demux`, `infoCount`, `startQ`.
  - The object handler map is `hmap`, an object → `[chunks, synced]` map. The per-object chunk channels, of capacity `ChunkQueueCap`, are `objQ`.
  - Actions: `DemuxObjectInfo`, `DemuxChunk`, `DemuxBlock`, `DemuxUnknownChunk`, `DemuxFinish`, `DemuxStreamError`.
  - `guard` is the DashMap `Ref` that `data_map.get` (line 298) returns. The demux holds it across `entry.0.send(chunk).await`. `DemuxBlock` takes it when the object's channel is full; `DemuxChunk` sends once there is room, then releases it.
  - While the `Ref` is held, `remove` on the same shard waits for it (`MapWritable`). `SharedShard` says whether all entries share one shard. It is TRUE in every configuration: with a handful of entries that is the likely layout.
- **Sync ledger** (lines 358-376): `ledger` and `finishQ`.
  - The ledger's set is read only when Finish arrives, so a marker is modelled as inserted when it is sent.
  - The finalizer gets the set as it was at Finish.
- **Backend driver** (lines 386-502): `dpc`, `passes`, `pending`, `cur`, `curChunks`.
  - One action per branch of the loop over a clone of the handler map: `DriverPass`, `DriverObjectNotFound` (the `?` on "Object not found" when the cache has no entry, lines 407-413, under `BackendFaults`), `DriverSkipLocated`, `DriverSkipUnsynced`, `DriverLoad`/`DriverLoadFails`, `DriverCommit`, `DriverUnmap`, `DriverWriteFails`, `DriverStatusFails`, `DriverFinish`, `DriverGiveUp`, `DriverRepeat`.
- **Chunk validator** of `load_into_backend` (lines 604-719): `vpc`, `expected`, `retries`.
  - `DriverUnmap` is the `object_handler_map.remove` of lines 420 and 471. It is a step of its own because it can block on the demux's `Ref`.
  - Actions: `ValidatorOutOfOrder`, `ValidatorBadChecksum`, `ValidatorAccept`, and `RetryOrGiveUp` for the retry counter.
  - The writer's transformer chain is reduced to the sequence `written[o]` of chunk indices it receives, plus failure.
- **Finalizer** (lines 509-602): `fpc`, `finished`, `outcome`.
  - Actions: `FinalizeOk`, `FinalizeAbort`, `SessionEnd`.
  - The operators `ChunkCount`, `Shortfall` and `Complete` are the counting of lines 516-573.
- **Store**:
  - `located` is the cache's location fact. Initially any subset of objects is already located.
  - `committed` records the upserts. `status` is the metadata server's status.

Payloads are reduced to the chunk index and one bit: does the MD5 match.

### `PullStore.tla`: what a session promises (refined by `PullSession`)

An abstract specification of a session, seen from the cache and the backend. It has the same store variables, `written`, `committed`, `located` and `outcome`, and the chunk counts are a variable `chunks`.

- `WriteChunk(o)` appends the next index of an object that is not located.
- `Commit(o)` upserts the location of a completely written object.
- `End` returns `ok` or `error`. Nothing is written or committed after it.

`PullSession` contains `Store == INSTANCE PullStore WITH chunks <- chunksOf`; the other variables map to themselves. `ImplementsPullStore == Store!Spec` is checked as a PROPERTY in `pull_reliable`. Every step of the detailed session is a `PullStore` step or a stutter. `pull_skip` shows that a lossy network breaks this (a commit without a chunk), which is why the refinement is checked on the reliable configuration only.

### `AuthHandler.tla`

This module models `AuthHandler` of `auth/auth.rs`.

- **Access gate**:
  - `check_access` dispatches to `HandleRoot`, `HandleBucket` and `HandleObject`. Each is an operator whose `IF` chain follows the handler's early returns in source order.
  - The reserved buckets `objects`/`bundles` give `MethodNotAllowed` for writes, and a panic (`todo!()`) for reads.
- **Resource resolver**:
  - `PrefixIntoResourceStates` models the resolution of a path's prefixes. Besides the well-formed contents, the cache may hold a resource of another type (`Unspec`, refused with `NoSuchKey`) or an object above a dataset (refused by `validate` with `InternalError`); these are `BadContents`.
  - `handle_object` reads the object's location twice: `fail_partial_sync` looks at the resolution, and `GetLocation` is the later `cache.get_location` after the rule engine. A call's `reloc` input says whether a pull session committed a location (`upsert_object`, the only location writer in this tree) between the two reads.
  - `ResourceStates` (`validate`, `disallow_missing`, `fail_partial_sync`, `check_permissions`) is not in this tree. It is modelled from spec §3 and §4.4 (`spec_modelled` in the map).
- **Token check**:
  - `GetTokenFromMd` reads the `Authorization: Bearer` header; `ExtractClaims` and `CheckToken` follow `check_permissions`.
  - The EdDSA signature is reduced to "the key named by `kid` signed it". `From<u8>` for `Action` panics on a byte above 4.
  - The intent claim `"<target>_<byte>"` is a record `[target, byte, sep]`. `DecodeIntent` follows `Intent::deserialize` of both files:
    - a target that is not a ULID is a serde error;
    - a string with no underscore panics at `split[1]`;
    - a byte above 255 is a serde error;
    - any other byte goes through the engine's `From<u8>`.

    The metadata server's tokens include one malformed intent of each kind (`Malformed`).
  - `caching/auth.rs` is a second `AuthHandler` with its own `Action` numbering (`CacheActionOf`: 2 is `CreateSecrets`, above 2 panics). `CacheCheckToken` follows its `check_permissions`: a known kid, a readable cache lock, `CacheExtractClaims`, then only `CreateSecrets` for `self_id` passes.
    - `CacheExtractClaims` sets no audience. jsonwebtoken 8.x ignores an unset audience and 9.x refuses a token that carries one. No release is pinned, so each cached call takes both behaviours as an input (`laxAud`), along with a poisoned lock.
  - Tokens are those the proxies mint (`SignImpersonatingToken`, `SignNotificationToken`, `SignDataproxyToken`), those of the metadata server, and forgeries.
- **State**: the handler keeps no state, so a call carries the cache contents it reads:
  - the resolved slots of its path and the key's permission on each;
  - what its credentials resolve to;
  - the rule engine's verdict.

  The state machine `Idle → busy(call, result) → Idle` lets TLC enumerate every call (`AccessStep` enumerates them with nested `\E`, so no set of calls is built): every prefix-closed hierarchy of up to three prefixes, every object class and location, every permission vector, both methods, four kinds of credentials, and both rule verdicts.

### `ReplicationScheduler.tla` (instantiated by `MC_ReplicationScheduler.tla`)

This module models `ReplicationHandler::run`.

- **Receive task**: `ReceiveNew`, `ReceiveCheck`, `ReceiveAlter`.
  - The code's `contains_key` and `alter` are two separate steps, so an entry removed in between makes the alter a no-op.
- **Process task**: `Tick`, `SessionStart(e)`, then `SessionReturn`, `SessionFails` or `SessionHang`, `BatchEnd`, `ApplyResult`, `CheckEmpty`, `RemoveIfEmpty`.
  - The `get` (is-empty) and the `remove` are also two separate steps.
  - `process` iterates the map with `batch.iter()` (line 167) and awaits each session inside the loop, so the iterator's read guard on the current endpoint's shard is held for the whole session. `WriteBlocked(e)` says so: while a session runs or hangs, the receive task's `insert` and `alter` on that shard cannot take their step. `contains_key` only reads and goes through. `SharedShard` says whether both endpoints share a shard.
- **Queue**: `queue` is the `DashMap` of endpoint → directions.
- **Producers**: `Send(m)` (environment, `spec_modelled`).
- **Sessions**: a session is abstracted to its outcome.
  - It locates some of the endpoint's pulled objects.
  - It returns some of them as finished: only located ones, unless `EvictUnlocated`.
  - It may fail when `SessionFaults` is set, and never return when `SessionHangs` is set (the hangs `pull_empty`, `pull_hol` and the broken stream show).
  - `PullSession` is the detailed model of a session.

### `Ranges.tla`

This module models `calculate_ranges` (without the footer branch, whose `FooterParser` is in the external `aruna_file` crate), `aruna_range_from_s3range` and `calculate_content_length_from_range`.

- Operators work on `Width`-bit unsigned words.
- An overflowing `-` or `+=` has two outcomes: a wrap (release build) or `Panic` (debug build).
- `as i64` is the two's-complement reinterpretation.
- `RfcBytes` is the reference: the byte set RFC 7233 §2.1 selects for the same header.
- A one-step state machine (`RangedGet`) lets TLC enumerate every header and content length.

## Runs

| Run | Checks | Result |
|---|---|---|
| `pull_reliable` | `AlreadySyncedOnlyPreLocated`, `SessionTerminates`, `ImplementsPullStore` (refinement) | pass, about 172k states |
| `pull_faults` | `TypeOK` (queues within capacity, every task in a state of the code) under corruption, resends, stream breaks, cache misses and backend failures | pass, about 170k states |
| `pull_evict` | `EvictedImpliesLocated` | **violated**: an object never written is returned for eviction |
| `pull_skip` | `CommittedIntact` | **violated**: a corrupted chunk is skipped and the object committed without it |
| `pull_empty` | `SessionTerminates` with zero-chunk objects | **violated**: the validator waits for ever |
| `pull_hol` | `SessionTerminates` with a full chunk queue | **violated**: head-of-line deadlock between the demux and the driver (this configuration also reaches the shard-lock deadlock below) |
| `sched_blocked` | `RequestsHandled` with sessions that may hang | **violated**: a hung session keeps `batch.iter()`'s shard guard, and the receive task's next `alter` on that shard waits for ever |
| `sched_lost` | `IntentNotLost` | **violated**: the get/remove and contains_key/alter races drop a request |
| `sched_dead` | `EndpointServed` with failing sessions | **violated**: one failed session ends the batch loop for good |
| `auth_gate` | `TypeOK` (no partial replica is ever served, even with a commit between the two location reads), `AuthorizedByPermission`, `TokenAcceptedOnlyIfAddressed` (both token engines), `PanicOnlyOnVerifiedToken` | pass, about 40k states |
| `auth_anon` | `PrivateNeedsCredentials` | **violated**: without usable credentials `handle_object` skips `require_object` and `check_permissions`, so a private object is served on the rules' verdict alone |
| `ranges_rfc` | `RangeMatchesRfc` | **violated**: open, suffix and overlong ranges end past the object, and a long suffix underflows |

The project also reaches three hangs that no listed run reports on its own:

- **Shard-lock deadlock**: with the `faults` configuration, `MaxCorrupt = 1` and no other fault, `(dpc = "unmap") ~> (dpc = "next")` is violated after 23 steps. The validator accepts the last chunk, then `DriverCommit` reports the object Finished. A resent chunk fills its queue, and `DemuxBlock` takes the `Ref` of that object. `DriverUnmap` then waits for it forever. One object is enough.
- **Broken stream**: with `StreamFaults = TRUE` and no other fault, `SessionTerminates` is violated after 8 steps. `DemuxStreamError` ends the demux, and the validator of the next object waits on a channel whose sender is still in the map.
- **Cache engine and minted tokens**: `TokenAccepted /\ "poisoned" \in DOMAIN call => call.tok \notin Minted` is violated in `auth_gate`. The cache engine accepts this proxy's own impersonation token (byte 2, target self) as `CreateSecrets`.

`PROJECT.json` lists them as hazards.

Deadlock checking is off only where the system really can stop:

- `pull_faults`, `pull_skip`, `pull_empty` and `pull_hol` reach the hangs above. In `pull_skip`, a resent chunk that arrives after the validator returned can cause the shard-lock deadlock.
- `sched_blocked` and `sched_dead` can stop: a hung session blocks both tasks, and a failed session ends the process task.

`PROJECT.json` gives each finding with its source line and what the spec says instead. Every property of a passing run has a mutant: a plausible bug in the mapped code that TLC catches under that run's configuration.

## Bounds, and why they are enough

- **Objects and chunks**:
  - Two objects of one or two chunks make every cross-object interleaving possible. These include another object's chunks arriving while the driver loads one, and one object being located already.
  - One object of up to three chunks lets a corrupted chunk be followed by a later one, and a resend arrive after the validator has moved on.
- **Chunk queue capacity** is 100 in the code. It becomes 2 (1 in `pull_hol`): only "full" versus "not full" matters, and capacity 1 against two-chunk objects reaches the full case that the code reaches with more than 100 chunks.
- **`MaxBatchPasses`** is 20, as in the code, in the reliable runs, so a give-up happens only as in the code. It is 3 in the fault runs, to keep them small.
- **Retries**: `MaxRetries` is 5 as in the code, or 2 in the fault runs. Fault budgets (`MaxCorrupt`, `MaxResends`) of 1 to 3 reach the err branch of `RetryOrGiveUp`.
- **Scheduler**: two endpoints, two objects and up to three messages give two endpoints with queued requests, and requests arriving while a batch runs. `sched_blocked` needs only two messages: a second request for the endpoint whose session hangs.
- **Ranges**: `Width` is 4 and `MaxLen` is 6.
  - Lengths are kept below `2^(Width-1)`, as real objects are far below `2^63`. Otherwise `as i64` would turn a legal length negative, which is an artifact of the small width.
  - Every header kind, every boundary (empty object, range at the last byte, suffix longer than the object) and the u64 wrap are covered.

- **Auth**:
  - Paths of up to three prefixes reach a project, a dataset and an object, and every position a missing slot can take.
  - Three proxies are enough: this one, a peer that mints tokens, and a third proxy that is only ever a target.
  - Action bytes 0..5 include the first byte that panics in each engine (3 and 5), and 256 is the first that is not a u8.
  - Kids include one the cache does not know and one that is not a number.

Symmetry is used only in `sched_lost`, whose property is a safety invariant.

## Fairness

- Every tokio task of the proxy gets weak fairness on each of its actions: a runnable task is eventually polled.
- The peer gets weak fairness on its next step, because the remote proxy keeps serving the stream.
- The scheduler's 30 s timer fires (WF on `Tick`). A running session is eventually resolved (WF on `SessionReturn \/ SessionFails \/ SessionHang`): it returns, fails, or is stuck for good. This does not assume that sessions return, because `SessionHang` is one of the outcomes.
- Failure actions are never fair: nothing forces a failure.
- Producers (`Send`) are not fair.

## Not modelled

- **C1 resource cache and C3 rule engine**: not in this source tree. Only the location fact is kept.
- **Callers of `caching/auth.rs`**: nothing in this tree calls it, so the model checks each engine on its own, not which engine serves which call.
- **Rule engine contents, CORS headers**: the rule engine is not in this tree, so its verdict is an input. CORS headers do not affect a decision.
- **Presign signer** (`presign_handler/signer.rs`): nothing in this tree calls it, and spec §1 puts it out of scope. `verify_sign_url` checks only the HMAC and never compares the expiry with the clock. This is a one-line omission in a pure function, not a state machine.
- **C8 S3 backend adapter** (`data_backends/s3_backend.rs`): S3 SDK calls with no state of their own. Its one decision is `check_and_create_bucket`, which checks and then creates. It can only go wrong between concurrent callers. Those callers are the S3 request handlers, which are not in this tree. A repeated `create_bucket` also gets a different answer from each S3 implementation. This is listed as a hazard.
- **Bundler web server, S3 server bootstrap, gRPC proxy service**: HTTP glue, server construction or stubs, with no state a model checker adds anything to.
- **Writer transformer chain** (compression, encryption, hashing): reduced to the chunk indices written.

## Plan for later work

1. Use `PullStore` in place of the scheduler's session abstraction, so that the scheduler and the session compose.
2. Configurations of their own for the shard-lock deadlock and the broken-stream hang. Today they are reproduced by hand, as described under Runs.
3. A check that a credentialed PUT of a new object is refused (`require_object`), against spec §4.5.
