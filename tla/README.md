# TLA+ models of the Bitkey inheritance and mempool services

This directory holds TLA+ models of the parts of this repository whose
correctness depends on the order of concurrent steps. It also holds the TLC
configurations that check them. Everything is flat here: modules (`*.tla`),
configurations (`*.cfg`), this file and `PROJECT.json`. `PROJECT.json` is
machine-readable. It holds the component list, the runs, the mutants, the map
from each definition to the source lines it models, the findings and the
hazards.

Run a check from this directory with `tlc -workers 2 -config <cfg> <module>`.

## 1. Inventory

### 1.1 Inheritance claims (spec.md; integration tests under `src/`)

The claim handlers, the claim store and the completion pipeline are not under
`src/`. What `src/` does contain is
`server/src/tests/recovery/inheritance/inheritance_integration_tests.rs`, which
pins each handler's responses, the order of its checks and its effects:
statuses, notifications, stored packages, keys and transactions, and the number
of broadcasts. The claim model is written from those tests and from spec.md.
Definitions whose code is absent from both are marked `spec_modelled` in the
map.

| Component | State | Operations | Correctness |
|---|---|---|---|
| Claim state machine | claim status, relationship, creation time, delay end, revision | start, cancel, lock, complete | at most one active (Pending/Locked) claim per relationship; lock only after the delay; only forward transitions |
| Authorization policy | relationship endorsement, beneficiary account type | role and account checks of each handler | lite accounts get 403; an external actor gets 401 on cancel and 400 on update |
| Completion pipeline | broadcast log, stored transaction | signature count, sanctions screen, broadcast, persist | nothing is broadcast on a refused request; a Completed claim holds a transaction that was broadcast; the stored transaction reflects the newest broadcast (RBF) |
| Claim store | records with a revision | conditional write (create on a fresh id, update on the revision read), Conflict | no lost update; a failed write changes nothing |
| Package upload | package per relationship | upload | only for an endorsed relationship of the caller |
| Notification dispatcher | scheduled notices | schedule on start/cancel | one initiated and one completed notice per claim; one canceled notice per cancel |

These parts interact in two ways. Every handler reads a claim, checks it
against the policy, and stages a new record. Complete also calls the
broadcaster. The staged record is then written conditionally on the revision
the handler read. Several requests can be in flight at once, so the read and
the write of one request can straddle the writes of another.

### 1.2 Mempool indexer (`mempool_indexer/src/service/get_stale_txs.rs`, `repository/persist.rs`)

| Component | State | Operations | Correctness |
|---|---|---|---|
| Staleness refresh | transaction records with `expiring_at`, the in-memory watermark `stale_txs_expiring_after` under an `RwLock`, `current_mempool_txids` | `get_stale_txs` (read clock, lock, fetch, advance watermark, unlock, intersect with mempool, `update_expiry` per `WRITE_BATCH_MAX` chunk) | a record is never refreshed twice for one expiry; a departed transaction is refreshed at most once; the watermark passes no record that was not fetched |
| Record insertion | records | `persist_batch` | a conversion error writes nothing |

### 1.3 Recovery service (`recovery/src/repository/update_recovery_action.rs`, `recovery/src/service/social/relationship/get_recovery_relationships.rs`)

| Component | State | Operations | Correctness |
|---|---|---|---|
| Recovery action repository | recovery items keyed by (account id, initiation time) holding `recovery_action` and `updated_at` | `update_recovery_action`: clock read and attribute conversion, then one unconditional `update_item` | none checked (see below) |
| Recovery relationship listing | the account's four relationship lists, each relationship's roles | `get_recovery_relationships` (fetch, `filter_by_role` on each list, `From` conversion); the registry's create/accept/endorse/delete (from spec.md) | none checked (see below) |

Both recovery modules are kept without a run. `update_recovery_action` is a
single unconditional `update_item` that sets both attributes at once: the
stored pair always comes from one call, the last applied wins, and its
`updated_at` may be older than the one it overwrites, since `cur_time` is read
before the await. Nothing in the repository promises more, so no property of
it is worth a run. `get_recovery_relationships` is a pure filter of one read;
a unit test covers it completely.

### 1.4 Not modelled

- **`wsm-common/src/messages/api.rs`**: request and response data types only.
  Nothing in it changes state.
- **`wca/src/commands/sign_sighash.rs`**: `derive_and_sign` builds one
  command, yields it, and maps the single response it is resumed with to a
  signature or an error. No state survives the call. Whether the response
  belongs to the command depends on the NFC transport and the firmware,
  neither of which is in this repository. A model would only restate the
  status-to-error table.
- **The notification dispatcher's delivery**: delivery is external to the
  repository.

## 2. Plan

The modules are listed in order of importance.

1. **`ClaimLifecycle`** (done) is the abstract claim specification. Each
   request is one atomic step. A claim is created Pending with its delay end
   fixed from its creation time. A relationship has at most one active claim.
   Lock requires the delay to have elapsed. Transitions only move forward.
2. **`InheritanceClaims`** (done) is the detailed engine. Request handlers are
   processes (`Procs`), and each process moves through `idle` → (`broadcast`)
   → `commit`.
   - One action per handler reads state and evaluates the handler's checks in
     the tests' order. It either replies with an error or stages a write.
   - `BroadcastTransaction` calls the broadcaster. The call may fail
     (`TransactionBroadcasterTrait::broadcast` returns a `Result`); a
     failure replies 500 and writes nothing.
   - `PersistInheritanceClaim` is the store's conditional write. When the
     condition fails it replies Conflict.
   - The environment endorses relationships, rotates keysets and advances the
     clock.
   - The module refines `ClaimLifecycle` through
     `INSTANCE ClaimLifecycle WITH` a mapping of the stored claims. The
     mapping is checked as the property `ImplementsClaimLifecycle`.
3. **`MempoolStaleTxs`** (done) models `get_stale_txs` as a stream per worker,
   plus `persist_batch`, mempool churn, restart and the clock.
4. **`RecoveryActionStore`** (done, no run) models concurrent
   `update_recovery_action` calls: the clock read before the await and the
   unconditional write.
5. **`RelationshipFilter`** (done, no run) models `filter_by_role` as a
   RECURSIVE operator.
6. **`MempoolStaleTxs`, extended** (done): a count of refreshes of
   transactions outside the mempool, for the stale-snapshot hazard. A
   liveness property that every record still in the mempool is eventually
   refreshed was not added: the watermark skip and the restart already break
   it (see Findings), and nothing in the repository says a failed batch is
   retried.
7. **`SignSighash`**: dropped; see §1.4.

## 3. Modules and correspondence to the code

### `InheritanceClaims`

- **State.**
  - `claims` is a function from claim ids to records, or `NoValue`. Each
    record holds `rel`, `status`, `createdAt`, `delayEnd`, `dest`, `rev`,
    `canceledAt`, `pkg`, `keys` and `tx`.
  - `endorsed`, `packages` and `keyset` are per-relationship state.
  - `req` holds each handler's program counter, the record it staged and the
    revision it read.
  - `notices` is the sequence of notifications scheduled, and `broadcasts` is
    the broadcaster's log.
- **Error paths.** Each handler has an error operator (`StartError`,
  `CancelError`, `LockError`, `UpdateError`, `CompleteError`) that lists its
  checks as a `CASE` in the order the tests reveal. For example, lock by a
  lite account is 403 before anything else; cancel by an external actor is
  401; re-cancelling a canceled claim is 200 with no write; complete with more
  than one signature per input is 500; a sanctioned output is 451 with zero
  broadcasts.
- **Replies.** `"Write"` means the handler stages its write. Every other code
  is an immediate reply that changes nothing.
- **Store writes.** `WriteAllowed` is spec.md §4.2: a create succeeds only
  when the id is fresh, and an update only when the record's revision is the
  one the handler read. Nothing conditions a create on the relationship's
  other claims, which is the finding of `claims_unconditioned_start`.
- **Sources.** The start rule that only an endorsed relationship's beneficiary
  may start, and cancel's 403 for a lite account, are spec.md §4.1; no test
  covers them. `UpdateError` follows `update_inheritance_claim_test`, which
  is `#[ignore]`d as not required for V1.
- **Faulty variants.** Operators named `...NoActiveCheck`, `...AnyStatus`,
  `...NoDelay`, `...IgnoringRevision`, `...IgnoringFailure`,
  `...NoAddressCheck` and `...RewritesCanceled` are plausible bugs of the
  adjacent definition. They are used only by the mutants in `PROJECT.json`.

### `MempoolStaleTxs`

- **State.**
  - `records` holds each record's `expiring_at`, counted in ticks with `GRAN`
    ticks per second.
  - `expiringAfter` is the watermark and `guard` is the holder of its write
    lock.
  - `wk[w]` is one stream's position. It records the `now` it read, the
    watermark it used, the records it fetched and the batches left to do.
  - `seen` and `refreshed` are history variables for the properties: the
    records fetched and the records refreshed.
  - `departedRefreshes[t]` counts the refreshes of `t` made while `t` was out
    of the mempool, since it last left.
- **Actions.** The actions follow the code's `await` points:
  - `BeginGetStaleTxs` reads the clock (line 21).
  - `AcquireWatermark` takes the write lock (lines 22-23).
  - `FetchExpiringTransactions` fetches, advances the watermark by `GRAN`
    (one second), releases the lock and takes the early return
    (lines 24-39).
  - `FilterByMempool` intersects with the mempool snapshot and chunks the
    result (lines 41-55).
  - `UpdateExpiry` handles one batch. The batch either succeeds (`Refresh`,
    lines 59-60) or is logged and skipped (lines 61-66); the loop goes on
    with the next batch either way (lines 57-67).
  - `Restart(F)` loses the watermark and every stream; the `update_expiry`
    requests already sent by the streams in `F` are applied.
  - `DropStream` is the consumer dropping the stream while it is suspended
    (`try_stream!` runs only when polled). The write guard goes with it, the
    remaining batches are dropped, and an `update_expiry` already in flight
    may or may not have been applied. Whether the consumer, outside `src/`,
    ever drops it is left open; the step is not fair.
- **Assumed semantics.** `fetch_expiring_transactions` is not in `src/`. It
  is modelled as returning the records whose expiry lies between the
  watermark and the present (`FetchExpiring`, spec_modelled).

### `RecoveryActionStore`

- **State.** `store` maps each composite key to an item or `NoValue`. An item
  is `[recovery, action, updatedAt]`; `recovery` is FALSE for an item that
  `update_item` created on an absent key. `call[c]` is one invocation.
- **Actions.** `UpdateRecoveryAction` covers lines 21-28: the conversions,
  which may fail, and the `cur_time` read. `SendUpdateItem` covers lines
  30-55: the write (`Written`), or `DatabaseError` either with nothing written
  or after DynamoDB applied the write and the response was lost.

### `RelationshipFilter`

- **State.** `lists` holds the four `RecoveryRelationshipsForAccount` lists,
  `roles` holds each relationship's roles, and `resp` holds the last response.
- **Actions.** `GetRecoveryRelationships(role)` covers lines 57-81: the
  fetch's error returned by `?`, or the filtered output. It uses
  `FilterByRole` (lines 84-92) and `ToOutput` (lines 33-42). The registry
  actions are spec_modelled.

## 4. Runs

| Run | Config | Expect | Shows |
|---|---|---|---|
| claims_serial | MC_ClaimsSerial.cfg | pass | every handler and error path over a full and a lite relationship keeps the invariants, refines `ClaimLifecycle` |
| claims_concurrent | MC_ClaimsConcurrent.cfg | pass | two interleaved handlers on one claim, with conflicting writes and failing broadcasts, schedule the right notices, move claims only forward and complete a claim only with a broadcast transaction |
| claims_unconditioned_start | MC_ClaimsUnconditionedStart.cfg | violation | with the per-record conditions of spec.md §4.2, concurrent starts create two active claims |
| claims_cancel_during_sweep | MC_ClaimsCancelDuringSweep.cfg | violation | a cancel committing between complete's broadcast and its write leaves a swept claim Canceled |
| claims_concurrent_fee_bump | MC_ClaimsConcurrentFeeBump.cfg | violation | concurrent fee bumps store an older transaction than the last broadcast |
| mempool_refresh | MC_MempoolStaleTxs.cfg | pass | concurrent streams, with failures, drops and restarts, never refresh a record twice for one expiry, and refresh a departed transaction at most once |
| mempool_watermark_skip | MC_MempoolWatermarkSkip.cfg | violation | the `+1 s` watermark passes a record expiring in that second after the fetch |

### Properties

**Claims.**
- `OneActiveClaimPerRelationship`: a relationship never has two claims that
  are Pending or Locked. It holds with one request at a time
  (`claims_serial`) and fails with two (`claims_unconditioned_start`).
- `NoticesMatchLifecycle`: each created claim has exactly one
  period-initiated notice and one period-completed notice. Each canceled
  claim has exactly one canceled notice. The notices' times match the stored
  delay end and cancel time.
- `LifecycleStep` is an action property about each write to a stored
  claim. The status only moves forward. The relationship and the delay end
  never change. A canceled claim is never touched. Once the claim is Locked
  its package and keyset never change, and once it is Completed only its
  transaction (a fee bump) changes. The destination changes only while the claim is Pending
  or Locked. It does not check the delay or the presence of a package at
  lock; the delay is checked by the refinement.
- `StoredTxWasBroadcast`: a Completed claim holds a transaction the
  broadcaster was given for that claim, so a failed broadcast never leads to
  a write.
- `ImplementsClaimLifecycle`: this is the refinement. The abstract `Start`
  takes a creation time anywhere in `0..now`: the handler reads the clock
  before its write commits, and the model admits that earlier time rather
  than checking it.

**Mempool.**
- `RefreshedOnce`: no `<<txid, expiring_at>>` is refreshed twice.
- `DepartedRefreshedAtMostOnce`: the mempool snapshot is stale by the time
  `update_expiry` runs, so a departed transaction can be refreshed once more;
  it is never refreshed a second time while it stays out.
- `NoRecordPassedUnseen`: every record whose expiry lies below the watermark
  was fetched at that expiry.

Each property of a passing run has a mutant in `PROJECT.json`: a plausible bug
of a mapped definition under which TLC finds that property violated.

### Findings

- **Creates are not protected (spec gap).** spec.md requires one active claim
  per relationship. Its conditional writes protect one record, and a create
  has none (`claims_unconditioned_start`).
- **Complete is not atomic (spec gap).** Complete's external effect, the
  broadcast, precedes its conditional write, so a concurrent cancel yields a
  Canceled claim whose funds were swept (`claims_cancel_during_sweep`).
- **The newest transaction is not always stored (spec gap).** spec.md
  section 8 says the stored transaction is the newest one. Concurrent fee
  bumps break this (`claims_concurrent_fee_bump`).
- **The watermark skips records (code bug, `get_stale_txs.rs:26`).** The
  watermark `max + 1 s` skips records that expire inside that second after
  the fetch. Such a record is never refreshed (`mempool_watermark_skip`).
  This rests on two assumptions. The first is the assumed retrieval window of
  `fetch_expiring_transactions`. The second is that `expiring_at` has
  sub-second precision: it is an `OffsetDateTime`, and `GRAN = 2` models a
  half-second. With whole-second expiries the skipped second would be empty.

## 5. Bounds

**Claims, common to both runs.**
- Two claim ids are enough for a second claim after a cancel, and for two
  competing creates.
- `DELAY = 1` with `MaxTime = 1` puts a lock both before and after the delay
  end.
- Two broadcasts allow a fee bump.
- Address `a2` is sanctioned. Transaction `t3` has two signatures on an
  input, and `t4` pays `a2`.

**claims_serial.**
- There is one handler.
- There are two relationships, one with a full beneficiary and one with a lite
  beneficiary.
- The lite relationship is held fixed by the constraint
  `OtherRelationshipsUntouched`. Its only purpose is to exercise the 403
  paths.
- `MaxRev = 4` allows start, lock, complete and a fee bump on one claim.
- There is one key rotation.

**claims_concurrent.**
- There are two handlers, and they are symmetric (`MCSymmetry`). The run
  checks only safety, so symmetry is sound.
- There is one relationship.
- Only well-formed transactions are used, because the error paths are already
  covered serially.
- `MaxRev = 3`.

**Mempool.**
- There are two transactions and two workers.
- `WRITE_BATCH_MAX = 1`, so a fetch of two records yields two batches.
- `GRAN = 2` makes the one-second step two ticks. This is the smallest value
  at which a record can fall strictly inside the skipped second.
- `TTL = 2`. The workers are symmetric (`WorkerSymmetry`). The transactions
  are not, because `SetToSeq` chooses an order.
- `MaxTime = 4` in `mempool_refresh`. This is the least clock at which a
  record persisted at 0 is refreshed at 2 and is due again at 4, which a
  second refresh of a departed transaction needs. `mempool_watermark_skip`
  uses `MaxTime = 3`.

## 6. Fairness

No run checks a liveness property, so no fairness is assumed and every
specification is `Init /\ [][Next]_vars`. The liveness questions the code
raises are settled without one. A request replies on every path of its
handler, the broadcast and the write each end in a reply, and the mempool
stream releases the watermark's write guard when it is dropped (RAII),
including on the `?` path of a fetch error.
