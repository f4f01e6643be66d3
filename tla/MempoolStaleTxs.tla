--------------------------- MODULE MempoolStaleTxs ---------------------------
(***************************************************************************)
(* The mempool indexer's refresh of expiring transaction records          *)
(* (Service::get_stale_txs) and the insertion of new records              *)
(* (MempoolIndexerRepository::persist_batch).                              *)
(*                                                                         *)
(* A record carries the time at which it expires.  get_stale_txs keeps an *)
(* in-memory watermark, stale_txs_expiring_after, behind a write lock held *)
(* across the fetch: it fetches the records expiring from the watermark   *)
(* on, moves the watermark one second past the newest expiry fetched,     *)
(* releases the lock, keeps the records whose transaction is still in the *)
(* mempool and refreshes their expiry in batches of WRITE_BATCH_MAX; a    *)
(* failed batch is only logged.  Time is counted in ticks, GRAN per second.*)
(***************************************************************************)
EXTENDS Integers, Sequences, SequencesExt, FiniteSets

CONSTANTS
  TxIds,            \* transaction ids
  Workers,          \* concurrent invocations of get_stale_txs
  WRITE_BATCH_MAX,  \* records per update_expiry batch
  GRAN,             \* ticks per second
  TTL,              \* expiry extension given by persist and update_expiry, in ticks
  MaxTime,          \* bound on the clock
  NoValue

ASSUME WRITE_BATCH_MAX \in Nat \ {0} /\ GRAN \in Nat \ {0} /\ TTL \in Nat \ {0}

VARIABLES
  records,        \* [TxIds -> expiring_at or NoValue]: the persisted TransactionRecords
  mempool,        \* current_mempool_txids
  expiringAfter,  \* stale_txs_expiring_after: the watermark, NoValue until set
  guard,          \* holder of the watermark's write lock, or NoValue
  now,
  wk,             \* [Workers -> state of one get_stale_txs stream]
  seen,           \* history: every <<txid, expiring_at>> fetched
  refreshed,      \* history: every <<txid, expiring_at>> whose expiry was updated
  departedRefreshes \* [TxIds -> Nat]: refreshes of a transaction while out
                  \* of the mempool, since it last left

hist == <<seen, refreshed, departedRefreshes>>

vars == <<records, mempool, expiringAfter, guard, now, wk, hist>>

Done == [pc |-> "idle", now |-> 0, after |-> 0, txs |-> {}, batches |-> <<>>]

\* The records fetch_expiring_transactions returns: expiring from `after`
\* up to the present.
FetchExpiring(after) ==
  {<<t, records[t]>> : t \in {u \in TxIds : records[u] # NoValue
                                             /\ after <= records[u]
                                             /\ records[u] <= now}}

\* tx_records_to_update.chunks(WRITE_BATCH_MAX), in some order of the records.
ChunksOf(s, n) ==
  [i \in 1..((Len(s) + n - 1) \div n) |->
     SubSeq(s, (i - 1) * n + 1, IF i * n < Len(s) THEN i * n ELSE Len(s))]

\* get_stale_txs, up to the write lock: the clock is read first.
BeginGetStaleTxs(w) ==
  /\ wk[w].pc = "idle"
  /\ wk' = [wk EXCEPT ![w] = [Done EXCEPT !.pc = "lock", !.now = now]]
  /\ UNCHANGED <<records, mempool, expiringAfter, guard, now, hist>>

\* Faulty variant: the watermark is read without taking the write lock.
AcquireWithoutLock(w) ==
  /\ wk[w].pc = "lock"
  /\ wk' = [wk EXCEPT ![w].pc = "fetch",
                      ![w].after = IF expiringAfter = NoValue THEN wk[w].now
                                   ELSE expiringAfter]
  /\ UNCHANGED <<records, mempool, expiringAfter, guard, now, hist>>

\* write_guard = stale_txs_expiring_after.write(); unwrap_or(now).
AcquireWatermark(w) ==
  /\ wk[w].pc = "lock"
  /\ guard = NoValue
  /\ guard' = w
  /\ wk' = [wk EXCEPT ![w].pc = "fetch",
                      ![w].after = IF expiringAfter = NoValue THEN wk[w].now
                                   ELSE expiringAfter]
  /\ UNCHANGED <<records, mempool, expiringAfter, now, hist>>

NextWatermark(txs) == Max({e[2] : e \in txs}) + GRAN

\* fetch_expiring_transactions under the lock, the watermark update, the
\* release of the lock, and the early return when nothing is expiring.
\* A fetch error ends the stream; the lock is released on the way out.
FetchExpiringTransactions(w) ==
  /\ wk[w].pc = "fetch"
  /\ \/ LET txs == FetchExpiring(wk[w].after) IN
          /\ expiringAfter' = IF txs = {} THEN expiringAfter ELSE NextWatermark(txs)
          /\ seen' = seen \cup txs
          /\ wk' = [wk EXCEPT ![w].pc = IF txs = {} THEN "idle" ELSE "snapshot",
                              ![w].txs = txs]
     \/ /\ wk' = [wk EXCEPT ![w] = Done]
        /\ UNCHANGED <<expiringAfter, seen>>
  /\ guard' = IF guard = w THEN NoValue ELSE guard
  /\ UNCHANGED <<records, mempool, now, refreshed, departedRefreshes>>

\* Faulty variant: every fetched record is kept, whatever the mempool holds.
FilterIgnoringMempool(w) ==
  /\ wk[w].pc = "snapshot"
  /\ LET keep == wk[w].txs
         bs == ChunksOf(SetToSeq(keep), WRITE_BATCH_MAX)
     IN wk' = [wk EXCEPT ![w].pc = IF bs = <<>> THEN "idle" ELSE "update",
                         ![w].batches = bs]
  /\ UNCHANGED <<records, mempool, expiringAfter, guard, now, hist>>

\* Intersect with current_mempool_txids and split into batches.
FilterByMempool(w) ==
  /\ wk[w].pc = "snapshot"
  /\ LET keep == {e \in wk[w].txs : e[1] \in mempool}
         bs == ChunksOf(SetToSeq(keep), WRITE_BATCH_MAX)
     IN wk' = [wk EXCEPT ![w].pc = IF bs = <<>> THEN "idle" ELSE "update",
                         ![w].batches = bs]
  /\ UNCHANGED <<records, mempool, expiringAfter, guard, now, hist>>

\* A successful update_expiry of batch b: new expiries, and the count of
\* refreshes of departed transactions.
Refresh(b) ==
  LET ts == {b[i][1] : i \in DOMAIN b} IN
  /\ records' = [t \in TxIds |-> IF t \in ts THEN now + TTL ELSE records[t]]
  /\ refreshed' = refreshed \o b
  /\ departedRefreshes' = [t \in TxIds |-> IF t \in ts /\ t \notin mempool
                                           THEN departedRefreshes[t] + 1
                                           ELSE departedRefreshes[t]]

\* update_expiry on one batch of the records as fetched: on success the
\* records are given a new expiry; on failure the batch is logged and skipped.
UpdateExpiry(w) ==
  /\ wk[w].pc = "update"
  /\ LET b == Head(wk[w].batches) IN
     \/ Refresh(b)
     \/ UNCHANGED <<records, refreshed, departedRefreshes>>
  /\ wk' = [wk EXCEPT ![w].batches = Tail(@),
                      ![w].pc = IF Len(wk[w].batches) = 1 THEN "idle" ELSE "update"]
  /\ UNCHANGED <<mempool, expiringAfter, guard, now, seen>>

\* persist_batch: the indexer writes records for transactions it has newly
\* seen; a conversion error fails the whole batch before anything is written.
PersistBatch(S) ==
  /\ S # {}
  /\ \A t \in S : t \in mempool /\ records[t] = NoValue
  /\ records' = [t \in TxIds |-> IF t \in S THEN now + TTL ELSE records[t]]
  /\ UNCHANGED <<mempool, expiringAfter, guard, now, wk, hist>>

\* Transactions enter and leave the node's mempool.
MempoolChange(t) ==
  /\ mempool' = (mempool \ {t}) \cup ({t} \ mempool)
  /\ departedRefreshes' = [departedRefreshes EXCEPT ![t] = IF t \in mempool THEN 0 ELSE @]
  /\ UNCHANGED <<records, expiringAfter, guard, now, wk, seen, refreshed>>

\* The consumer drops the stream while it is suspended (try_stream! runs
\* only when polled): at the write lock, at an await or after a yield.  The
\* write guard is released with it and the remaining batches are never
\* sent; an update_expiry request already in flight may have been applied.
DropStream(w) ==
  /\ wk[w].pc # "idle"
  /\ guard' = IF guard = w THEN NoValue ELSE guard
  /\ wk' = [wk EXCEPT ![w] = Done]
  /\ \/ UNCHANGED <<records, refreshed, departedRefreshes>>
     \/ /\ wk[w].pc = "update"
        /\ Refresh(Head(wk[w].batches))
  /\ UNCHANGED <<mempool, expiringAfter, now, seen>>

\* The process restarts: the in-memory watermark and all streams are lost.
\* The update_expiry requests of the streams in F were already sent and
\* are applied.
Restart(F) ==
  /\ \A w \in F : wk[w].pc = "update"
  /\ expiringAfter' = NoValue
  /\ guard' = NoValue
  /\ wk' = [w \in Workers |-> Done]
  /\ IF F = {} THEN UNCHANGED <<records, refreshed, departedRefreshes>>
     ELSE LET ws == SetToSeq(F) IN
          Refresh(FlattenSeq([i \in DOMAIN ws |-> Head(wk[ws[i]].batches)]))
  /\ UNCHANGED <<mempool, now, seen>>

Tick ==
  /\ now < MaxTime
  /\ now' = now + 1
  /\ UNCHANGED <<records, mempool, expiringAfter, guard, wk, hist>>

Init ==
  /\ records = [t \in TxIds |-> NoValue]
  /\ mempool = {}
  /\ expiringAfter = NoValue
  /\ guard = NoValue
  /\ now = 0
  /\ wk = [w \in Workers |-> Done]
  /\ seen = {}
  /\ refreshed = <<>>
  /\ departedRefreshes = [t \in TxIds |-> 0]

Next ==
  \/ \E w \in Workers :
       \/ BeginGetStaleTxs(w) \/ AcquireWatermark(w) \/ FetchExpiringTransactions(w)
       \/ FilterByMempool(w) \/ UpdateExpiry(w)
  \/ \E S \in SUBSET TxIds : PersistBatch(S)
  \/ \E t \in TxIds : MempoolChange(t)
  \/ \E w \in Workers : DropStream(w)
  \/ \E F \in SUBSET Workers : Restart(F)
  \/ Tick

Spec == Init /\ [][Next]_vars

-----------------------------------------------------------------------------
(* Properties.                                                             *)

\* No record is refreshed twice for the same expiry: two streams running at
\* once never fetch the same expiring record, because the watermark is read
\* and advanced past what was fetched under one hold of the write lock.
RefreshedOnce == IsInjective(refreshed)

\* The watermark only passes records that were fetched: a record whose
\* expiry lies below stale_txs_expiring_after was fetched at that expiry,
\* so it was refreshed or found to have left the mempool.
NoRecordPassedUnseen ==
  expiringAfter # NoValue =>
    \A t \in TxIds :
      records[t] # NoValue /\ records[t] < expiringAfter => <<t, records[t]>> \in seen

\* The mempool snapshot is taken after the fetch and used later still, so a
\* transaction that has left the mempool may be refreshed once more; it is
\* never refreshed twice while it stays out, as its next expiry is fetched
\* against a fresh snapshot.
DepartedRefreshedAtMostOnce ==
  \A t \in TxIds : t \notin mempool => departedRefreshes[t] <= 1
=============================================================================
