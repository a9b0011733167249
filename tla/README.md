# A verification project for Redpanda Connect

Redpanda Connect is a stream processor: a pipeline of an input, processors and
outputs, put together from a large catalogue of connectors on top of the
benthos engine (an external dependency).  Most connectors are thin adapters of
a client library.  What can go wrong in ways a test hardly reaches is in the
few parts that keep state between a read and its acknowledgement: readers that
commit offsets, leases and checkpoints, committers that retry, and the small
concurrency helpers below them.  Those are what this project models.

## Inventory

| Component | State it keeps | Operations | Hard behaviour | What makes it correct |
|---|---|---|---|---|
| Ordered Kafka reader (`kafka/franz_reader_ordered.go`) | per partition a cache of queued batches, bytes held, batches pending dispatch, a checkpointer, a revoked flag; the partitions paused in kgo | poll loop, `addRecords`/`push`, `pop`, `onAck`, dispatch signals, rebalance callbacks, `Close` | poll loop, pipeline and callbacks interleave; late acks after a revoke; back pressure | at-least-once, order per partition, exact byte accounting, no starvation |
| Unordered Kafka reader (`kafka/franz_reader_unordered.go`) | per partition a batcher, its timer goroutine, a checkpointer, a revoked flag; one mutex over all | poll loop, `addRecord`/`add`, `loop`, `sendBatch`, `onAck`, rebalance callbacks, `Close` | blocking sends under a mutex, two flushing goroutines, shutdown | at-least-once, bounded pending messages, no deadlock, `Close` ends |
| Dispatch signals (`internal/dispatch`) | closures on a message context | `TriggerSignal` | may run never, late or often | order of batches |
| Kinesis input (`aws/kinesis/input*.go`) | leases and sequences in DynamoDB; per process a rebalancing loop and a consumer with a record batcher per shard | claim, steal, checkpoint, yield, delete; pull, flush, acknowledge | conditional writes, clocks, half-done claims, two consumers of a shard, closed shards | every shard consumed, sequence never skips records, nothing deleted before it is delivered |
| Iceberg output (`iceberg/router.go`, `writer.go`, `committer.go`), `asyncroutine.Batcher` | a writer per table, the committer's cached table, request queue | route, write, submit, commit, reload and retry, clean up, close | commits of unknown outcome, close against submit | every file in the table exactly once and in storage; every call returns |
| Spanner change streams (`gcp/enterprise/changestreams`, `input_spanner_*.go`, `internal/ack`) | partition rows with state and watermark, a cached minimum, a batcher per partition with its acknowledgements | set up, schedule, query, batch, flush, acknowledge, finish, recover | parents before children, cached minimum, restart between any two rows, batchers that outlive a connection | no message and no partition lost, order of records, the end is reached |
| Snowflake streaming (`snowflake`), `internal/pool` | pools of channels and clients | acquire, release, reset, open, append, commit | reset while items are out | capacity kept, nobody waits for ever |
| CDC inputs (PostgreSQL, Oracle, MySQL, MongoDB, SQL Server, DynamoDB) | acknowledged position | read, ack, checkpoint | out-of-order acks, restart | position only over delivered changes |
| Redpanda migrator, legacy sarama input, `singleton`, `ack.Once`, `Periodic` | small | | | |
| Other connectors, codecs, CLI, licences, MCP, plugins | none of interest, or I/O only | | | |

`PROJECT.json` lists every component with its sources and status, and the
hazards, each at its line.

Interaction.  The engine calls an input's `Connect`, `ReadBatch` and `Close`
and, from other goroutines and in any order, the acknowledgement function of
each batch; a failed delivery is retried inside the engine
(`service.AutoRetryNacks`), so that an acknowledgement always means delivery.
A Kafka reader runs a poll loop of its own and hands callbacks to the kgo
client, which runs them from its own goroutine when the consumer group is
rebalanced and commits marked offsets from another.

## Plan

1. **Kafka** (modelled, safety proved).  `KgoGroup`, `FranzReaderOrdered`,
   `FranzReaderUnordered` and their proofs.
2. **Kinesis leases** (modelled, safety proved): `KinesisInput`.
3. **Iceberg committer** on `asyncroutine.Batcher` (modelled, safety proved):
   exactly-once registration of files under commits of unknown outcome; every
   call returns.
4. **Spanner change streams** (modelled, safety proved): `SpannerInput`.
5. **Abstract specification** `AtLeastOnceInput` (done), which both Kafka readers
   and the Kinesis input implement; the three refinements are proved.
6. **Sums** (proved): the byte and message counts of the two readers, on
   `SumProofs`.
7. The pools with Snowflake streaming, then CDC positions (PostgreSQL first).

## Modules

| Module | Models |
|---|---|
| `KgoGroup` | external: the coordinator and the kgo client as the readers use them; the two properties every reader must have |
| `KgoGroupProofs` | lemmas about it that the proofs of both readers share |
| `SumProofs` | lemmas about sums over finite sets that the proofs of both readers share |
| `FranzReaderOrdered` | `franz_reader_ordered.go` and `dispatch/detect.go` in every process of a group |
| `FranzReaderOrderedProofs` | theorems about it |
| `MCFranzReaderOrdered` | its model-checking instances |
| `FranzReaderUnordered` | `franz_reader_unordered.go` in every process of a group |
| `FranzReaderUnorderedProofs` | theorems about it |
| `MCFranzReaderUnordered` | its model-checking instances |
| `Batcher` | `asyncroutine/batcher.go`: the goroutine, `Submit`, `Close` |
| `IcebergCommitter` | extends it: the writing of one table by `iceberg/router.go`, `writer.go`, `committer.go` |
| `IcebergCommitterProofs` | theorems about it |
| `MCIcebergCommitter` | its model-checking instances |
| `KinesisInput` | `aws/kinesis/input.go`, `input_checkpointer.go`, `input_record_batcher.go` in every process that shares a stream |
| `KinesisInputProofs` | theorems about it |
| `MCKinesisInput` | its model-checking instances |
| `SpannerInput` | `changestreams` (subscriber, handler, metadata table), `input_spanner_cdc.go`, `input_spanner_partition_batcher.go`, `ack/once.go` |
| `SpannerInputProofs` | theorems about it |
| `MCSpannerInput` | its model-checking instance |
| `AtLeastOnceInput` | abstract: what an input promises that stores how far it got |

### KgoGroup

`owner`, `committed` and `fenced` belong to the coordinator; `assigned`,
`position`, `head` (the uncommitted map), `sent` and `callback` to the kgo
client of a process; `delivered` is a history variable.  kgo is not part of
this repository: its behaviour is taken from the readers' calls and from their
comments (a late `MarkCommitRecords` re-creates a partition's entry; the entry
is dropped when the revoke callback returns).  The coordinator accepts the
offsets of any member it has not fenced.

`RebalanceInPollWindow` says whether a partition may be taken away while the
poll loop holds records of it that it has not filed.  kgo allows it (the readers
do not ask for `BlockRebalanceOnPoll`).  The passing runs and the theorems about
offsets and dispatch set it to FALSE, and the run `ordered_window` shows what happens
otherwise.

### FranzReaderOrdered

One action is one critical section of a mutex.

| Code | Model |
|---|---|
| `partitionState.topics` | `tracked`, and the last element of `caches[c][p]`; earlier elements are removed caches whose batches may still be in flight |
| `partitionCache.cache`, the batches popped | one sequence `recs` with the index `ends` of the last record of each batch, and `out` |
| `checkpointer` | derived: batches are tracked in pop order, so that the released record is the last of the acknowledged prefix (`Resolved`) |
| `pendingDispatch`, its key, `dispatchCounter` | `pending`, `BatchID` (the first offset of the batch), `fired` |
| `cacheSize` | `cacheSize` |
| the loop of `Connect` | `Poll`, `FileRecords` (once per partition), `PauseFetch`, `Resume`, `LoopExit` |
| `ReadBatch`, `pop` | `Pop` |
| `CtxOnTriggerSignal` closure | `Dispatch` |
| `onAck` | `Ack` |
| rebalance callbacks | `Assign`, `Revoke`, `Lost`, `RemoveTopicPartitions`, `Returned` |
| `Close`, deferred `Client.Close` | `Close`, `CloseClient`, `Restart` |

`push` is checked as what it does to the ends of batches (`PushEnds`): which
records join the last queued batch and where the rest is cut.

A dispatch signal comes before the acknowledgement of its batch or not at all: the
only caller of `TriggerSignal` is the Kafka writer (`franz_writer.go:653`), which
signals while the write is under way.

`pendingDispatch` tells batches apart by their first offset, which is enough as long
as no offset is twice in a cache.  Inside the poll window one can be: records polled
before a revocation are filed into a new cache, and when the partition comes back to
the same process, the cache gets them again.  The acknowledgement of the first copy
then deletes the entry of the second, and a third batch is handed out before the
second reached an output: with one process, one partition of two records, batches
and fetches of one record and one disruption, TLC finds `OrderedDispatch` violated
in 21 states.

### FranzReaderUnordered

A tracker is the batcher's content (`queue`), a batch the timer goroutine has
flushed and not tracked yet (`flushed`), the batches in the order of their
`Track` (`log`), which of them were received and acknowledged, and where the
timer goroutine is.  `mut` is the checkpointTracker's mutex, which is held
across steps: by `addRecord` from `AddRecord` over the blocking send to
`RecordAdded`, and by `removeTopicPartitions` from `LockForRemove` over the wait
for each tracker's goroutine to `UnlockAfterRemove`.  A send on the unbuffered
`batchChan` is one step with the `ReadBatch` that receives it
(`ReadBatchOfAdd`, `ReadBatchOfLoop`) or is given up (`SendCancelled`,
`LoopStopped`).

`BatchCount` is the count of the batch policy and `TimedFlush` says whether it
has a period; no policy is `BatchCount = 1` without a period.  Flushing and
tracking by `add` are one step, since the poll loop is the only goroutine that
fills the batcher; by the timer goroutine they are two (`FlushTimer`,
`TrackFlushed`), since it releases `batcherLock` in between.

`close` of a tracker returns early when the callback's context ends, and its error is
ignored.  The model has no such return: kgo's callbacks run with the client's own
context, which `Client.Close` cancels only after leaving the group has run them.

### Batcher and IcebergCommitter

`Batcher` has the state of one batcher (`requestChan`, the `batch` that
`dequeueAll` collects, where the goroutine is, whether it is cancelled, and the
response channel of every request) and a formula for each step; its user says
what happens between `StartCall` and `Reply`, and when `Submit` and `Close` run.

`IcebergCommitter` follows concurrent calls of `Route` for one table.  `pc` says
where a call is, and with it who holds `entry.mu`: `Readers` are inside
`writer.Write`, `Exclusive` is inside `createWriter` or `closeWriter`.  `job` is
the commit that holds `commitMu`: who asked for it, its files, the iterations of
`commitLocked` so far, whether the table was reloaded, and what comes next.

| Code | Model |
|---|---|
| `writeWithRetry`, `doWrite` | `Route`, `LoadWriterTable`, `LoadCommitterTable`, `LoadFails`, `RetryOnce` |
| `closeWriter`, `Batcher.Close` | `LockForClose`, `Closed` |
| `writer.Write`, `cleanupFiles` | `WriteDataFiles`, `WriteFails`, `cleanupFiles` |
| `Commit`, `Submit` | `Submit`, `Response` |
| `doCommit`, `commitRowDelta` | `doCommit`, `commitRowDelta`, `Staged` |
| `commitLocked` | `Try`, `StageFails`, `Reload`, `Fatal`, `Exhausted` |
| the batcher's goroutine | `Collect`, and `Reply` in `Finish` |

A file is a call and the number of its attempt, since every attempt uses a fresh
name; the data and delete files of a batch are one file.  The catalog is
external: it accepts a commit based on the current snapshot, and the reply may be
lost after the commit was applied, before it is, or with it (`CommitError`, `pending`,
`LateLanding`).  `LandedConflict` says whether `ErrCommitFailed` may be reported
for a commit that landed.  The tests of the committer assume so for appends
(`commitLandThenFail`), the comment in `commitLocked` denies it; the append run
allows it and the keyed run does not, since `commitRowDelta` relies on it.

### KinesisInput

Processes meet only in the table.  A row has the sequence, the owner and whether
its lease ended less than two lease periods ago, the age at which its owner is
taken for dead; a call to DynamoDB is one step, so
that everything may happen between the two halves of `Claim`.

| Code | Model |
|---|---|
| `ListShards`, `AllClaims`, choice of claims | `Scan`: decided at once, tried later |
| `Claim` | `Claim` (conditional write), `ClaimFails` (another error, the write carried out or not), `Reread` (after the grace period), `RereadFails` |
| `runExplicitShards` | the same loop, with its claims from the configuration and failed ones tried again |
| `runConsumer` | `RunConsumer`, `RunConsumerFails`; then `Pull`, `RefreshIterator`, `FlushMessage`, `Send`, `Commit`, `FinishedReturn` |
| the deferred function of a consumer | `Delete`, `Yield`, `CloseConsumer`, each with its way to fail |
| `ackFn` | `Resolve` and `StoreAcked`, two steps as in the code |
| `checkpoint.Capped` (external) | `flight`, `TrackBlocks`, `Releasable`: released in the order of `Track` |
| process identity | `clientID`, fresh in every process |

The batch policy is a choice of how much of the buffer is flushed.  A lease of a
living process expires as a fault: the code renews it in each commit period, but
a flush that waits at the checkpoint limit with `k.ctx`, or a finished consumer
that waits for its acknowledgements, does not.

### SpannerInput

Rows of the metadata table, the subscriber's loop, one goroutine per partition
and the batcher that `spannerPartitionBatcherFactory` keeps for it.  A partition
has a fixed sequence of records, each with a number of modifications; a batch of
the policy's count may cut a record in the middle, in which case its watermark is
that of the last completed one, or none (`BatchWatermark`).  A goroutine goes
from `wait` (parents) over `read`, `end` (the callback without a record), `close`
(`WaitAcks`), `mark` and `finish`, one step per call to the table.  A row's
`CreatedAt` is taken as early as it can be, the worst case for the search for new
partitions.  A lost connection (`Abort`) keeps the batchers, as the factory does;
a crash loses them.  Of the stream itself the model assumes what Spanner promises:
children start after the last record of each parent, siblings together, and a
partition is split or merged, never both at once.

Three things are stated as exceptions, because the code does not give more:

- A batch's acknowledgement stores its watermark even if earlier batches of the
  partition are pending or rejected.  After a restart their messages are not read
  again.  The history variable `overtaken` holds exactly these messages, and
  `AtLeastOnce` says that no other message is ever lost.  Without the exception
  TLC finds a lost message in a dozen steps: two batches in flight, the second
  acknowledged, a crash.
- A batcher that outlives its connection has no flusher in the next one, which
  then blocks on a nil channel when the policy has a period, or it keeps an
  acknowledgement with an error, which fails every later callback.
  `EventuallyFinished` is claimed for runs without such a batcher.
- A batcher that outlives its connection keeps `s.last`.  When the connection is
  lost while a record is cut into batches, Iter's deferred function has set it to
  that record, and what emit was offering, messages of earlier records included,
  is gone.  The new connection reads these again from the stored watermark, and if
  one of them fills a batch in the middle, that batch carries the commit timestamp
  of the stale record: its acknowledgement stores a watermark past messages nobody
  has delivered.  This came up in the attempt to prove `AtLeastOnce` without a
  hypothesis; TLC confirms it in 17 steps (one partition, two records of 3
  modifications, batches of 2, no period, one lost connection).  With a period such
  a batcher takes no record (the exception above), and batches of one message hold
  no other record.  `StaleBatchersIdle` in the proofs says so, and the run has a
  period.

### AtLeastOnceInput

Per source a stored position and a set of confirmed records.  Records are
confirmed in any order; a step may store positions, each behind confirmed records
only, and unless `Rewinds` never before the old one.  `KgoGroup` instantiates it
with the group's committed offsets (`Rewinds` is FALSE, which adds
`CommitNeverRewinds` to `AtLeastOnce`), `KinesisInput` with the sequences in the
table, which a late `Yield` or an old acknowledgement may move back.  Ownership,
caches, leases, marks and checkpointers are all hidden by the mapping.  The
Spanner input does not implement it, see above.

## Runs

| Run | Bounds | Checks |
|---|---|---|
| `ordered` | 2 processes, 1 partition, 3 records of sizes 1, 1, 3, buffer 3, batches up to 2, fetches up to 2 records, 1 disruption | type, at-least-once, marks only for owned partitions, order, byte accounting, batch sizes, the inductive invariant, offsets never move back, refinement of `AtLeastOnceInput` |
| `ordered_live` | 1 process, 2 partitions of 2 records, buffer 1, 1 disruption, fairness | the buffer bound, and that everything is committed in the end |
| `ordered_window` | as `ordered` with 2 records, rebalances in the poll window | finds `AtLeastOnce` violated |
| `unordered` | 2 processes, 1 partition of 5 records, batches of 2, limit 3, 1 disruption | type, at-least-once, marks, bounded pending messages, offsets never move back, refinement of `AtLeastOnceInput` |
| `unordered_live` | 1 process, 1 partition of 3 records, batches of 2 and a timer, 1 disruption, fairness | `Close` ends even if nobody reads, rebalance callbacks end, no goroutine outlives its tracker, every record is delivered in the end |
| `unordered_race` | 2 processes, 3 records, batches of 2 and a timer | finds `AtLeastOnce` violated |
| `iceberg_append` | 2 appends, batches of 2, 3 retries, 2 faults, conflicts may have landed | files registered once, reported writes in the table and in storage, batcher closed only when unused |
| `iceberg_keyed` | 2 appends and a keyed batch, a channel of 1 place, 2 retries, 1 fault, fairness | type, files registered once, reported writes, every call returns |
| `iceberg_cleanup` | 1 append, 1 keyed batch, 2 faults | finds `NoDanglingReference` violated |
| `kinesis` | 2 processes, one balancing and one with listed shards, a shard of 2 records that may be closed and an idle one, limit 2, 2 consumers per shard and process, 1 fault | type, at-least-once, refinement of `AtLeastOnceInput`, items deleted only when delivered, sequences never erased |
| `kinesis_orphan` | 2 balancing processes, 1 shard of 2 records, 1 fault, fairness | finds `EventuallyConsumed` violated |
| `spanner` | 4 partitions (a root, split, merged), up to 3 messages each, one record after the end, batches of 2 with a timer, 2 batches in flight, 2 faults, fairness | type, at-least-once, children after parents, no partition overlooked, the end not reported early, all partitions finished |

A disruption is an eviction, a revocation, a close or a crash.  One is enough
for a batch to be in flight at an old owner while a new one reads, commits and
overtakes it: all mutants that touch revocation are found with it.  Two
processes are needed for that, and more add nothing since a partition has one
owner.  The record counts are the smallest at which a batch is filled up, one is
cut and one is oversized (ordered), and at which two full batches and an
incomplete one exist together (unordered).  The policy of `unordered` has a count
and no period, so that `PendingBounded` allows one incomplete batch there; with a
period it allows two, which the theorem covers.

The buffer bound, the resume logic and starvation need two partitions, which is
why `ordered_live` has them; a callback that revokes two partitions at once in
the unordered reader is outside the bounds.

A fault of the Iceberg runs is a lost reply, a failed load, reload, staging or
write, a cancelled call, or a commit or schema change by another process.  Two of
them with three retries give a lost reply followed by a failed reload and then a
conflict, the longest way in which a retry can meet its own files; failures of a
cancelled context are not counted.  Two appends make a batch that succeeds or
fails together, and a call that closes the writer of another.  These runs do not
report deadlock: all calls end, which `RouteReturns` shows.

A fault of the Kinesis runs is a crash, a close, a lease of a living process that
expires, an expired iterator or a failed call, a claim's calls included.  One of them, with leases of dead
processes that expire for free, gives a half-done claim, a second consumer of the
same process, a late yield and a finished consumer at shutdown.  Two shards are
needed for a theft (a client with two more than another).  The diamond of the
Spanner run has a partition with two parents and siblings created together; two
faults give a crash during recovery from a crash.  Its faults are crashes, lost
connections and nacks.  The Spanner run checks deadlock: a connection that ended is
always made again.

**Fairness.**  The goroutines of a reader keep running (weak fairness of the
loop, of the timer goroutines, of the callbacks and of the shutdown); a poll of
a partition with records returns some of them again and again (strong fairness
of `PollSome`, since the stall timeout may return an empty poll now and then);
kgo commits periodically and the coordinator hands out free partitions; a
`sync.Mutex` starves nobody (strong fairness of `LockForRemove`).  In the ordered
reader the pipeline reads and acknowledges, because `ReadBatch` polls with a
back-off and `AutoRetryNacks` retries.  In the unordered reader that is a
premise of `RevokeCompletes` and `EventuallyDelivered`: `CloseCompletes` holds
although the pipeline may stop reading.  Dispatch signals and disruptions are never promised.  In the
Iceberg model the goroutines of a call and of the batcher keep running and the
catalog answers, if only with an error (weak fairness); locks need no more, since
calls and attempts are finite.  In the Kinesis model loops, consumers and the
pipeline keep running, a closed process is started again and a lease nobody renews
runs out; in the Spanner model the subscriber, its goroutines and the pipeline keep
running (all weak).  The timed flushes of the unordered reader are among the steps of
its timer goroutines, whose timer always fires; those of the Kinesis and Spanner
batchers are never promised.

### What the violated runs show

- `ordered_window`: records are polled, the partition is revoked and its cache
  forgotten, then the records are filed into a new cache that is not revoked.
  Their acknowledgement marks an offset that autocommit sends for a partition
  another process owns, past a record that process has not delivered.  In the
  unordered reader the window is wider, since `addRecord` blocks in a send while
  the rest of the fetch waits.
- `unordered_race`: the timer goroutine flushes a batch, the poll loop flushes
  and tracks the next one first, its acknowledgement releases its offset.  The
  premise of the checkpointer, that batches are tracked in the order of their
  offsets, fails whenever a batch policy has a period as well as a count or size.
  For the same reason the live run claims that every record is delivered, and not
  that the last offset is committed: a batch tracked late can be the last one
  released, with a lower offset.
- `iceberg_cleanup`: a keyed commit lands and its reply is lost; `commitRowDelta`
  returns an error and `writer.Write` removes a file that the current snapshot
  references.  Appends get there as well, when retries run out or when the call
  is cancelled while the batcher's goroutine is about to commit its file.
- `kinesis_orphan`: a client claims a shard and dies before a sequence is stored.
  When its lease has expired another one claims the shard: the write of the new
  owner succeeds, then `getCheckpoint` fails for want of a sequence, and no
  consumer is started.  The item now has a living owner without a consumer, its
  lease expires, and every later claim ends the same way.  A theft before the first
  checkpoint, a closed shard whose consumer was shut down with records left, and a
  process with listed shards that crashed (its claims require an item without an
  owner) also end with a shard nobody consumes.

## Proofs

All theorems hold for every value of the constants: any number of processes,
partitions, shards, calls, records, retries and faults, any sizes and limits.  The
inductive invariants behind them were model-checked first, on the instances named.

Four hypotheses appear, each a condition on the constants.  What happens without
them is shown by the violated runs, or described above:

| Hypothesis | Says | Without it |
|---|---|---|
| `~RebalanceInPollWindow` | no rebalance while the loop holds unfiled records | `ordered_window`, and for the order of dispatch `FranzReaderOrdered` above |
| `OneFlusher` | the poll loop or the timer flushes, not both | `unordered_race` |
| `HonestConflicts` | a catalog that reports a conflict for a commit that landed is met with appends only | `commitRowDelta` retries such a commit and registers its file twice |
| `StaleBatchersIdle` | the Spanner batch policy has a period, or batches of one message | see `SpannerInput` above |

Assumptions on constants are the `ASSUME`s of the models: naturals where something
is counted, positive sizes and limits, a name for "no client" that is no client, a
finite set of Kinesis clients (they draw their identifiers in turn), calls
that are not called like the two other holders of `commitMu`, and the shape of a
Spanner stream.

### Kafka readers

`KgoGroupProofs` has what both readers need of the client and the coordinator: the
types of what they exchange; that a commit stores only marks of a client that is not
fenced (`CommitEffect`); `Ownership`, an inductive invariant by which a client that
is not fenced owns what it is assigned and has marked at least what is committed;
and that every step of the group maps to a step of `AtLeastOnceInput` or a stutter,
given at-least-once delivery (`GroupSteps`).

Ordered reader:

- `TypeCorrect`: the inductive invariant `TypeInv` adds to `TypeOK` that batches end
  at records of their cache, that only popped records are acknowledged, and that a
  tracked partition has a cache; without them an acknowledgement could mark
  something that is no offset.
- `NoGapsInvariant`, `AtLeastOnceDelivery`, `MarksAreOwned`, under
  `~RebalanceInPollWindow`.  `AtLeastOnce` is not inductive: a commit copies a mark,
  a mark comes from the acknowledged prefix of a cache, and a cache gets its records
  from a fetch at the client's position.  `NoGaps` says that this chain has no hole:
  what is below a mark is delivered; the records of a cache are consecutive from
  where the partition was taken up, below which all is delivered; the tracked cache
  and the fetched records form one run up to the position; a cache that may still
  mark is the tracked one; and the partitions the loop holds records of are tracked
  and not being taken away.  The last part is where the hypothesis is used.
- `CommitsGoForward`, `ImplementsAtLeastOnceInput`, under the same: from `NoGaps` and
  `Ownership`.
- `DispatchInOrder`, under the same: a batch in flight that is not dispatched is the
  last one handed out, and waits (`DispatchInv`).  A signal or an acknowledgement must
  not end the wait of another batch, which is where `NoGaps` is needed: it keeps the
  offsets of a cache apart, and with them the keys of its batches.
  These invariants were checked on the instance of `ordered` (642,534 states without
  symmetry) and with 2 records, fetches of 1 and two disruptions (3,230,399).
- `SizesAreExact` and `BatchesAreBounded`, without a hypothesis.  `SizeInv` says of
  every cache, removed ones included, that its size is the sum over the records it
  holds, that a batch in flight is held as a whole (or an acknowledgement would
  subtract too much), and that it is `Cut`: its last record and the last one handed
  out end a batch, and no batch of several records is too large.  The first part of
  `Cut` is what makes the size push goes on with that of the last queued batch.
- `BuffersAreBounded`, without a hypothesis.  `BufferInv`: a partition whose tracked
  cache has reached its limit is paused or about to be, and no record of it is on its
  way; a fetch has at most `FetchMax` records; outside of filing nothing is about to
  be paused.  A rebalance in the poll window does not break it, since the records that
  outlive their cache get a new, empty one.
  Both invariants were checked with rebalances in the poll window: 2 partitions of 2
  records (689,261 states), 4 records in fetches of 2 (271,220), 2 processes (159,766).

Unordered reader:

- `TypeCorrect` and `NoSendAfterClose`, without a hypothesis.  For the second the
  invariant follows the mutex from `LockForRemove` to `UnlockAfterRemove`: a tracker
  leaves the map only after its goroutine has stopped, and no goroutine is left when
  the reader is.
- `NoGapsInvariant`, `AtLeastOnceDelivery`, `MarksAreOwned`, `CommitsGoForward`,
  `ImplementsAtLeastOnceInput`, under `~RebalanceInPollWindow`
  and `OneFlusher`.  Its `NoGaps` has the batcher's queue and the flushed batch in
  the chain as well, and the order of the log (`InOrder`).  With two flushers that order is
  lost, which is `unordered_race`.  Checked on three policies: a count (614,537
  states), a timer alone (1,549,496), none (238,159).
- `PendingIsBounded`, without a hypothesis.  `LoadInv`: no tracker is above the limit,
  the one in the map not even with all that was fetched for it; that one has room for
  a whole fetch when one may come (it is not paused or about to be, and nothing is on
  its way to it); batches in the batcher and in the hands of the timer goroutine are
  incomplete; between fetches the loop holds nothing.  An early form of
  `PendingBounded` counted one incomplete batch.  Its proof failed for a policy with a
  count and a period, and TLC found the state: the timer goroutine has flushed an
  incomplete batch and not tracked it yet, while the batcher gathers the next one.
  `pauseFetch` sees neither.  Checked with batches of 2 and a period, limit 1, 1
  disruption, rebalances in the poll window (3,111,800 states), and batches of 3,
  limit 2, fetches of 2 (30,069).

Sums.  `MapThenSumSet` is a fold by a recursive function over subsets, of which the
provers know nothing but the equation, and only if such a function exists.
`SumProofs` shows that it exists, is unique and natural, and from there that sums are
additive, monotone and bounded by the number of elements times the largest one.  Where
one would use induction it takes a smallest counterexample over the cardinality.  The
recursive function in `PushEnds`, which cuts a fetch into batches, is shown to exist
and to keep its invariant in the same way, over the number of records.

### Kinesis input

`TypeCorrect`, `AtLeastOnceDelivery`, `ItemsKept`, `SequencesKept`,
`ImplementsAtLeastOnceInput`, without a hypothesis.

- `DeliveryInv`: for every consumer, of which a shard may have many, what it has
  released or stored is behind delivered records only; each of its batches, its
  buffer and its iterator have everything before them delivered, in flight ahead of
  them or in the buffer ahead of them; a finished consumer has pulled the shard to
  its end and, unless its process closes, has flushed it.  The sequence a loop has
  claimed a shard with is covered too: it is used after an arbitrary delay.
- `SequenceInv`: while an item has no sequence at most one holder (a loop that has
  claimed it, or a consumer) can write to it, and none while it has no client; once
  it has one, no holder has an empty one.  This is why a late `Yield` does not erase
  a sequence.

Checked with one fault and two shards (701,593 states) and with two faults and one
shard (370,041).

### Iceberg output

- `TypeCorrect`, and `ClosedBatcherUnused` from `LockInv` (who holds `entry.mu` and
  `commitMu`, and that a writer exists while somebody reads under the lock).
- `RegisteredAtMostOnce` and `AckedAreWritten`, under `HonestConflicts`.  `FileInv`:
  a file that is still to be handed over is nowhere, a request is in one place only,
  what is confirmed is in the table, a call keeps its file until it cleans up, and a
  cached table of the current snapshot knows all registered files.  `CommitInv`: a
  commit without a reply that could still be applied, and the commit under way as
  long as it could be accepted, hold no registered file.

Checked on the instances of `iceberg_append` (1,410,184 states) and `iceberg_keyed`
(96,840).

### Spanner input

- `TypeCorrect`, `SearchFindsAll`, `SearchEndsComplete`, without a hypothesis, for
  any graph of splits and merges.  `GraphInv`: a running partition has finished
  parents; a row's watermark is before the end and not after the start of any child;
  siblings are created together; the children of a finished partition have rows; and
  no partition that is still to be scheduled starts before the cached minimum.  The
  last one survives although the minimum is old, because a partition nobody knows of
  starts after the watermark of an unfinished ancestor: the argument goes to the
  earliest partition without a row (a least element, not an induction).
- `AtLeastOnceDelivery`, `ParentsFirst`, under `StaleBatchersIdle`.  `DataInv`: no
  message before a stored watermark is left out; the watermark of a batch in flight
  or on offer is behind nothing that this batch and earlier ones leave out; what a
  goroutine has read is in its batcher or settled.  `TypeInv` is not inductive
  alone: that a goroutine's query starts at a record needs the bounds on watermarks
  in `GraphInv`.

Checked on the diamond with a period (64,094 states) and with batches of one message
(84,168), and on a line of two partitions with three faults: with a period (25,357),
with batches of one message (1,321,996), and without either (89,423, the first two
invariants only).

### Only model-checked

- All liveness (`EventuallyCommitted`, `EventuallyDelivered`, `CloseCompletes`,
  `RevokeCompletes`, `RouteReturns`, `EventuallyFinished`) and the violated runs: the prover handles
  neither fairness nor ENABLED.

Every invariant and every action property of the passing runs is stated by a theorem.

## Not modelled

Consumption without a consumer group (nothing is committed), poll errors (they
only delay the loop), processors inside a batch policy, the expiry of a callback's
context (see `FranzReaderUnordered`), lag metrics, configuration parsing; of the Iceberg output `Router.Close`
(it closes writers the way a failed call does), creation of namespaces and tables,
schema changes made by the process itself, compaction by others, parquet; of the Kinesis input several
streams in one input, `start_from_oldest: false` (records from before the first
checkpoint are skipped on purpose), `auto_replay_nacks: false` (its acknowledgement function
ignores the error, so that a rejected batch counts as delivered) and the limit of one page in `ListShards` and
`Scan`; of the Spanner input heartbeats, streams without an end timestamp, the
filter of modification types, failing flushes of a batch policy, transient errors
that the client library retries, and two processes on one metadata table, which
the code does not support.  A retry of an Iceberg commit adds files of an older
schema to a reloaded table, since the check for `StaleSchemaError` runs once before
the loop; the model shows the steps, but no property is about schemas.  The pools and
Snowflake streaming, the CDC inputs and the legacy Kafka input are left for later
(see the plan); the remaining components are adapters of client libraries, codecs,
configuration and command line without state of interest between calls.
