------------------------ MODULE FranzReaderUnordered ------------------------
(***************************************************************************)
(* The unordered Kafka reader, src/internal/impl/kafka/                    *)
(* franz_reader_unordered.go, as every process of a consumer group runs it. *)
(*                                                                         *)
(* A process has four kinds of actors: the poll loop (Connect), the        *)
(* pipeline (ReadBatch and the acknowledgements), the kgo client with its  *)
(* rebalance callbacks (KgoGroup) and, for every partitionTracker with a   *)
(* batch policy, a goroutine that flushes batches on a timer (loop).       *)
(*                                                                         *)
(* The checkpointTracker's mutex is held across a whole addRecord, the     *)
(* blocking send on the unbuffered batchChan included, and across a whole  *)
(* removeTopicPartitions, the wait for a tracker's goroutine included; mut *)
(* says who holds it.  The two mutexes of a partitionTracker are held for  *)
(* one action each.                                                        *)
(***************************************************************************)
EXTENDS KgoGroup, Sequences, FiniteSetsExt

CONSTANTS
    BatchCount,       \* batching.count: a batch is flushed when it is this long
    TimedFlush,       \* does the batch policy have a period?
    CheckpointLimit,  \* checkpoint_limit
    FetchMax          \* bound: records of one partition in one fetch

ASSUME PolicyAssumption ==
    /\ BatchCount \in Nat \ {0}
    /\ TimedFlush \in BOOLEAN
    /\ CheckpointLimit \in Nat \ {0}
    /\ FetchMax \in Nat \ {0}

VARIABLES
    softStop,   \* clients whose Close has been called
    pc,         \* where the poll loop of a client is
    mut,        \* who holds the mutex of the client's checkpointTracker
    adding,     \* the partition whose record the poll loop is adding
    fetch,      \* [Clients -> [Partitions -> Seq(Offsets)]]: polled, not added
    pausing,    \* pauseTopicPartitions of the current iteration
    paused,     \* the partitions whose fetching the kgo client has paused
    tracked,    \* [Clients -> SUBSET Partitions]: the keys of checkpointTracker
    trackers    \* [Clients -> [Partitions -> Seq(Tracker)]]: every tracker of
                \* the process, the one of the map last

readerVars == <<softStop, pc, mut, adding, fetch, pausing, paused, tracked, trackers>>
vars == <<groupVars, readerVars>>

NoPartition == "none"
NoRecord == -1

Batch == [recs : SUBSET Offsets, top : Offsets]
Empty == [recs |-> {}, top |-> NoRecord]

Tracker == [queue   : [recs : SUBSET Offsets, top : Offsets \cup {NoRecord}],
                                     \* the batcher and topBatchRecord
            flushed : [recs : SUBSET Offsets, top : Offsets \cup {NoRecord}],
                                     \* sendBatch and sendRecord of loop()
            log     : Seq(Batch),    \* batches in the order of their Track
            out     : SUBSET Nat,    \* those ReadBatch has received
            acked   : SUBSET Nat,    \* those whose onAck has run
            byAdd   : Nat,           \* the one add is sending, or 0
            byLoop  : Nat,           \* the one loop() is sending, or 0
            loop    : {"wait", "track", "send", "stopped"},
            closing : BOOLEAN,       \* shutSig's soft stop
            revoked : BOOLEAN]

\* Without a batch policy there is no batcher and loop() returns at once.
Batching == BatchCount > 1 \/ TimedFlush

newPartitionTracker ==
    [queue |-> Empty, flushed |-> Empty, log |-> <<>>, out |-> {}, acked |-> {},
     byAdd |-> 0, byLoop |-> 0, loop |-> IF Batching THEN "wait" ELSE "stopped",
     closing |-> FALSE, revoked |-> FALSE]

\* The tracker of p, and its index, when p is tracked.
Current(c, p) == Len(trackers[c][p])
TrackerOf(c, p) == trackers[c][p][Current(c, p)]

Fetched(c) == {p \in Partitions : fetch[c][p] # <<>>}

TypeOK ==
    /\ GroupTypeOK
    /\ softStop \in SUBSET Clients
    /\ pc \in [Clients -> {"poll", "file", "send", "check", "resume", "exit",
                           "close", "stopped"}]
    /\ mut \in [Clients -> {"free", "loop", "callback"}]
    /\ adding \in [Clients -> Partitions \cup {NoPartition}]
    /\ fetch \in [Clients -> [Partitions -> Seq(Offsets)]]
    /\ pausing \in [Clients -> SUBSET Partitions]
    /\ paused \in [Clients -> SUBSET Partitions]
    /\ tracked \in [Clients -> SUBSET Partitions]
    /\ trackers \in [Clients -> [Partitions -> Seq(Tracker)]]

NoFetch == [p \in Partitions |-> <<>>]

\* A process that has just connected: newCheckpointTracker, a new client and a
\* poll loop about to make its first poll.
Init ==
    /\ GroupInit
    /\ softStop = {}
    /\ pc = [c \in Clients |-> "poll"]
    /\ mut = [c \in Clients |-> "free"]
    /\ adding = [c \in Clients |-> NoPartition]
    /\ fetch = [c \in Clients |-> NoFetch]
    /\ pausing = [c \in Clients |-> {}]
    /\ paused = [c \in Clients |-> {}]
    /\ tracked = [c \in Clients |-> {}]
    /\ trackers = [c \in Clients |-> NoFetch]

-----------------------------------------------------------------------------
(* The checkpointer (checkpoint.Uncapped) of a tracker.                    *)

\* Track: the batch goes to the end of the log.
Track(t, b) == [t EXCEPT !.log = Append(@, b)]

\* Wrong on purpose: any acknowledged batch releases its own offset.
ResolvedAny(t) == t.acked

\* The tracked batches with no unacknowledged batch before them.
Resolved(t) == {i \in t.acked : 1 .. i \subseteq t.acked}

\* Pending: the messages from the first unresolved batch on, the acknowledged
\* ones behind it included.
Pending(t) ==
    MapThenSumSet(LAMBDA i : Cardinality(t.log[i].recs),
                  (1 .. Len(t.log)) \ Resolved(t))

\* Wrong on purpose: batches are counted instead of messages.
pauseFetchBatches(t) == Cardinality((1 .. Len(t.log)) \ Resolved(t)) >= CheckpointLimit

\* partitionTracker.pauseFetch, and the result of add.
pauseFetch(t) == Pending(t) >= CheckpointLimit

-----------------------------------------------------------------------------
(* The poll loop.                                                          *)

\* What the client can give: records of a partition that is assigned, not
\* paused and not being taken away.
Fetchable(c) == (assigned[c] \ paused[c]) \ callback[c].parts

\* PollFetches returns up to FetchMax records of each partition; none at all
\* when the stall context expires first.
PollFetches(c, count) ==
    /\ pc[c] = "poll"
    /\ c \notin softStop
    /\ \A p \in Partitions :
          IF p \in Fetchable(c) THEN position[c][p] + count[p] <= NumRecords
                                ELSE count[p] = 0
    /\ fetch' = [fetch EXCEPT ![c] = [p \in Partitions |->
                    [i \in 1 .. count[p] |-> position[c][p] + i - 1]]]
    /\ position' = [position EXCEPT ![c] = [p \in Partitions |-> @[p] + count[p]]]
    /\ pc' = [pc EXCEPT ![c] = "file"]
    /\ UNCHANGED <<owner, committed, fenced, assigned, head, sent, callback,
                   delivered, disruptions,
                   softStop, mut, adding, pausing, paused, tracked, trackers>>

Poll(c) == \E count \in [Partitions -> 0 .. FetchMax] : PollFetches(c, count)

\* partitionTracker.add up to the send: the record enters the batcher, and the
\* batch it completes is tracked with it as the batch's offset.
add(t, r) ==
    LET recs == t.queue.recs \cup {r} IN
    IF Cardinality(recs) >= BatchCount
    THEN LET b == [recs |-> recs, top |-> r] IN
         [Track(t, b) EXCEPT !.queue.recs = {}, !.byAdd = Len(t.log) + 1]
    ELSE [t EXCEPT !.queue = [recs |-> recs, top |-> r]]

\* checkpointTracker.addRecord for the next record of p, which makes a tracker
\* for a partition that has none and keeps the mutex.
AddRecord(c, p) ==
    LET known == p \in tracked[c]
        t == add(IF known THEN TrackerOf(c, p) ELSE newPartitionTracker,
                 Head(fetch[c][p]))
    IN  /\ pc[c] = "file"
        /\ fetch[c][p] # <<>>
        /\ mut[c] = "free"
        /\ mut' = [mut EXCEPT ![c] = "loop"]
        /\ adding' = [adding EXCEPT ![c] = p]
        /\ fetch' = [fetch EXCEPT ![c][p] = Tail(@)]
        /\ tracked' = [tracked EXCEPT ![c] = @ \cup {p}]
        /\ trackers' = [trackers EXCEPT ![c][p] =
                          IF known THEN [@ EXCEPT ![Current(c, p)] = t]
                                   ELSE Append(@, t)]
        /\ pc' = [pc EXCEPT ![c] = IF t.byAdd = 0 THEN "check" ELSE "send"]
        /\ UNCHANGED <<groupVars, softStop, pausing, paused>>

\* Wrong on purpose: the send of add does not watch the soft stop.
SendCancelledNever(c) == FALSE

\* sendBatch gives up on a batch it has tracked once the soft stop is signalled;
\* add ignores the error.
SendCancelled(c) ==
    LET p == adding[c] IN
    /\ pc[c] = "send"
    /\ c \in softStop
    /\ trackers' = [trackers EXCEPT ![c][p][Current(c, p)].byAdd = 0]
    /\ pc' = [pc EXCEPT ![c] = "check"]
    /\ UNCHANGED <<groupVars, softStop, mut, adding, fetch, pausing, paused, tracked>>

\* The end of addRecord: the caller learns whether to pause the partition, and
\* the mutex is released.
RecordAdded(c) ==
    /\ pc[c] = "check"
    /\ pausing' = [pausing EXCEPT ![c] =
                     IF pauseFetch(TrackerOf(c, adding[c])) THEN @ \cup {adding[c]} ELSE @]
    /\ mut' = [mut EXCEPT ![c] = "free"]
    /\ adding' = [adding EXCEPT ![c] = NoPartition]
    /\ pc' = [pc EXCEPT ![c] = "file"]
    /\ UNCHANGED <<groupVars, softStop, fetch, paused, tracked, trackers>>

\* All records of the fetch are added: PauseFetchPartitions.
PauseFetch(c) ==
    /\ pc[c] = "file"
    /\ Fetched(c) = {}
    /\ paused' = [paused EXCEPT ![c] = @ \cup pausing[c]]
    /\ pausing' = [pausing EXCEPT ![c] = {}]
    /\ pc' = [pc EXCEPT ![c] = "resume"]
    /\ UNCHANGED <<groupVars, softStop, mut, adding, fetch, tracked, trackers>>

\* Wrong on purpose: a partition without a tracker stays paused.
StaysPausedUntracked(c, p) == p \in tracked[c] => pauseFetch(TrackerOf(c, p))

\* checkpointTracker.pauseFetch: false for a partition without a tracker.
StaysPaused(c, p) == p \in tracked[c] /\ pauseFetch(TrackerOf(c, p))

\* ResumeFetchPartitions for the paused partitions that may be fetched again.
Resume(c) ==
    /\ pc[c] = "resume"
    /\ mut[c] = "free"
    /\ paused' = [paused EXCEPT ![c] = {p \in @ : StaysPaused(c, p)}]
    /\ pc' = [pc EXCEPT ![c] = "poll"]
    /\ UNCHANGED <<groupVars, softStop, mut, adding, fetch, pausing, tracked, trackers>>

\* The loop sees the soft stop after a poll, whose records it drops.
LoopExit(c) ==
    /\ c \in softStop
    /\ pc[c] = "poll"
    /\ pc' = [pc EXCEPT ![c] = "exit"]
    /\ UNCHANGED <<groupVars, softStop, mut, adding, fetch, pausing, paused, tracked,
                   trackers>>

-----------------------------------------------------------------------------
(* The goroutine of a tracker: partitionTracker.loop.                      *)

SetTracker(c, p, g, t) == trackers' = [trackers EXCEPT ![c][p][g] = t]

\* The flush timer fires and the batcher is not empty: the batch is taken out
\* of it under batcherLock, which is released again.
FlushTimer(c, p, g) ==
    LET t == trackers[c][p][g] IN
    /\ TimedFlush
    /\ t.loop = "wait"
    /\ t.queue.recs # {}
    /\ SetTracker(c, p, g, [t EXCEPT !.flushed = t.queue, !.queue = Empty, !.loop = "track"])
    /\ UNCHANGED <<groupVars, softStop, pc, mut, adding, fetch, pausing, paused, tracked>>

\* sendBatch, called by loop() without batcherLock, tracks the batch.
TrackFlushed(c, p, g) ==
    LET t == trackers[c][p][g] IN
    /\ t.loop = "track"
    /\ SetTracker(c, p, g, [Track(t, t.flushed) EXCEPT
                              !.flushed = Empty, !.byLoop = Len(t.log) + 1, !.loop = "send"])
    /\ UNCHANGED <<groupVars, softStop, pc, mut, adding, fetch, pausing, paused, tracked>>

\* Wrong on purpose: loop() watches its soft stop only while it sends.
MayStopSending(t) == t.closing /\ t.loop = "send"

\* loop() sees the soft stop of its tracker while it waits for the timer or for
\* a reader of its batch.
MayStop(t) == t.closing /\ t.loop \in {"wait", "send"}

LoopStopped(c, p, g) ==
    LET t == trackers[c][p][g] IN
    /\ MayStop(t)
    /\ SetTracker(c, p, g, [t EXCEPT !.loop = "stopped", !.byLoop = 0])
    /\ UNCHANGED <<groupVars, softStop, pc, mut, adding, fetch, pausing, paused, tracked>>

-----------------------------------------------------------------------------
(* The pipeline.                                                           *)

\* ReadBatch receives the batch a poll loop is sending.
ReadBatchOfAdd(c) ==
    LET p == adding[c]
        t == TrackerOf(c, p)
    IN  /\ pc[c] = "send"
        /\ SetTracker(c, p, Current(c, p), [t EXCEPT !.out = @ \cup {t.byAdd}, !.byAdd = 0])
        /\ pc' = [pc EXCEPT ![c] = "check"]
        /\ UNCHANGED <<groupVars, softStop, mut, adding, fetch, pausing, paused, tracked>>

\* ReadBatch receives the batch a tracker's goroutine is sending.
ReadBatchOfLoop(c, p, g) ==
    LET t == trackers[c][p][g] IN
    /\ t.loop = "send"
    /\ SetTracker(c, p, g, [t EXCEPT !.out = @ \cup {t.byLoop}, !.byLoop = 0, !.loop = "wait"])
    /\ UNCHANGED <<groupVars, softStop, pc, mut, adding, fetch, pausing, paused, tracked>>

\* Wrong on purpose: the caller adds one as well as MarkCommitRecords.
commitFnNext(c, p, offset) == MarkCommitRecords(c, p, offset + 1)

commitFn(c, p, offset) == MarkCommitRecords(c, p, offset)

\* onAck of the i-th tracked batch, under checkpointerLock.  Nothing is marked
\* for a revoked tracker.
Ack(c, p, g, i) ==
    LET t == trackers[c][p][g]
        r == [t EXCEPT !.acked = @ \cup {i}]
    IN  /\ i \in t.out \ t.acked
        /\ SetTracker(c, p, g, r)
        /\ delivered' = [delivered EXCEPT ![p] = @ \cup t.log[i].recs]
        /\ IF r.revoked \/ Resolved(r) = {}
           THEN head' = head
           ELSE commitFn(c, p, r.log[Max(Resolved(r))].top)
        /\ UNCHANGED <<owner, committed, fenced, assigned, position, sent, callback,
                       disruptions,
                       softStop, pc, mut, adding, fetch, pausing, paused, tracked>>

-----------------------------------------------------------------------------
(* Rebalance callbacks, shutdown and restart.                              *)

\* There is no OnPartitionsAssigned callback.
Assign(c, p) ==
    /\ pc[c] \notin {"exit", "close", "stopped"}
    /\ AssignPartition(c, p)
    /\ UNCHANGED readerVars

\* The poll loop holds no record of these partitions, or the environment is
\* allowed to take them away all the same.
OutsidePollWindow(c, parts) ==
    RebalanceInPollWindow \/ parts \cap Fetched(c) = {}

Revoke(c, parts) ==
    /\ disruptions < MaxDisruptions
    /\ disruptions' = disruptions + 1
    /\ OutsidePollWindow(c, parts)
    /\ OnPartitionsRevoked(c, parts)
    /\ UNCHANGED readerVars

Lost(c) ==
    /\ OutsidePollWindow(c, Partitions)
    /\ OnPartitionsLost(c)
    /\ UNCHANGED readerVars

\* The partitions being removed whose tracker is still in the map, and those of
\* them whose tracker has been told to stop.
Leaving(c) == callback[c].parts \cap tracked[c]
Closing(c) == {p \in Leaving(c) : TrackerOf(c, p).closing}

\* removeTopicPartitions waits for the mutex of the checkpointTracker.
LockForRemove(c) ==
    /\ callback[c].stage = "remove"
    /\ mut[c] = "free"
    /\ mut' = [mut EXCEPT ![c] = "callback"]
    /\ UNCHANGED <<groupVars, softStop, pc, adding, fetch, pausing, paused, tracked,
                   trackers>>

\* Wrong on purpose: the tracker is closed but may still mark offsets.
markRevokedNot(t) == t

markRevoked(t) == [t EXCEPT !.revoked = TRUE]

\* One turn of removeTopicPartitions' inner loop: markRevoked, then close, which
\* triggers the soft stop of the tracker and waits for its goroutine.
RemovePartition(c, p) ==
    /\ mut[c] = "callback"
    /\ p \in Leaving(c) /\ Closing(c) = {}
    /\ SetTracker(c, p, Current(c, p), [markRevoked(TrackerOf(c, p)) EXCEPT !.closing = TRUE])
    /\ UNCHANGED <<groupVars, softStop, pc, mut, adding, fetch, pausing, paused, tracked>>

\* Wrong on purpose: close only triggers the soft stop.
CloseReturnsAtOnce(t) == TRUE

\* partitionTracker.close returns when the goroutine has stopped.
CloseReturns(t) == t.loop = "stopped"

\* close has returned, and the tracker is deleted from the map.
PartitionRemoved(c, p) ==
    /\ mut[c] = "callback"
    /\ p \in Closing(c)
    /\ CloseReturns(TrackerOf(c, p))
    /\ tracked' = [tracked EXCEPT ![c] = @ \ {p}]
    /\ UNCHANGED <<groupVars, softStop, pc, mut, adding, fetch, pausing, paused, trackers>>

\* removeTopicPartitions, and with it the callback, is done.
UnlockAfterRemove(c) ==
    /\ mut[c] = "callback"
    /\ Leaving(c) = {}
    /\ mut' = [mut EXCEPT ![c] = "free"]
    /\ callback' = [callback EXCEPT ![c].stage = "clean"]
    /\ UNCHANGED <<owner, committed, fenced, assigned, position, head, sent,
                   delivered, disruptions,
                   softStop, pc, adding, fetch, pausing, paused, tracked, trackers>>

Returned(c) == CallbackReturned(c) /\ UNCHANGED readerVars

Thrown(c) == Evict(c) /\ UNCHANGED readerVars

Committer(c) ==
    /\ pc[c] \notin {"exit", "close", "stopped"} \/ assigned[c] # {}
    /\ AutoCommit(c)
    /\ UNCHANGED readerVars

\* Close triggers the soft stop.
Close(c) ==
    /\ disruptions < MaxDisruptions
    /\ disruptions' = disruptions + 1
    /\ c \notin softStop
    /\ softStop' = softStop \cup {c}
    /\ UNCHANGED <<owner, committed, fenced, assigned, position, head, sent,
                   callback, delivered,
                   pc, mut, adding, fetch, pausing, paused, tracked, trackers>>

\* Client.Close, deferred by the loop: the client leaves the group and its
\* partitions are revoked.
CloseClient(c) ==
    /\ pc[c] = "exit"
    /\ OnPartitionsRevoked(c, assigned[c])
    /\ UNCHANGED <<disruptions, readerVars>>

\* checkpointTracker.close, after Client.Close: every remaining tracker is told
\* to stop.  Nothing contends for the mutex any more.
CloseTrackers(c) ==
    /\ pc[c] = "exit"
    /\ assigned[c] = {} /\ callback[c] = Idle
    /\ mut[c] = "free"
    /\ trackers' = [trackers EXCEPT ![c] = [p \in Partitions |->
          IF p \in tracked[c] THEN [@[p] EXCEPT ![Current(c, p)].closing = TRUE] ELSE @[p]]]
    /\ pc' = [pc EXCEPT ![c] = "close"]
    /\ UNCHANGED <<groupVars, softStop, mut, adding, fetch, pausing, paused, tracked>>

\* Every tracker has stopped: batchChan is closed and HasStopped is triggered.
Stopped(c) ==
    /\ pc[c] = "close"
    /\ \A p \in tracked[c] : CloseReturns(TrackerOf(c, p))
    /\ pc' = [pc EXCEPT ![c] = "stopped"]
    /\ UNCHANGED <<groupVars, softStop, mut, adding, fetch, pausing, paused, tracked,
                   trackers>>

ReaderGone(c) ==
    /\ softStop' = softStop \ {c}
    /\ pc' = [pc EXCEPT ![c] = "poll"]
    /\ mut' = [mut EXCEPT ![c] = "free"]
    /\ adding' = [adding EXCEPT ![c] = NoPartition]
    /\ fetch' = [fetch EXCEPT ![c] = NoFetch]
    /\ pausing' = [pausing EXCEPT ![c] = {}]
    /\ paused' = [paused EXCEPT ![c] = {}]
    /\ tracked' = [tracked EXCEPT ![c] = {}]
    /\ trackers' = [trackers EXCEPT ![c] = NoFetch]

\* A closed process is started again.
Restart(c) ==
    /\ pc[c] = "stopped"
    /\ ProcessGone(c)
    /\ ReaderGone(c)
    /\ UNCHANGED disruptions

\* A process dies, its batches with it, and a new one takes its place.
Crash(c) ==
    /\ disruptions < MaxDisruptions
    /\ disruptions' = disruptions + 1
    /\ ProcessGone(c)
    /\ ReaderGone(c)

-----------------------------------------------------------------------------

LoopStep(c) ==
    \/ Poll(c)
    \/ \E p \in Partitions : AddRecord(c, p)
    \/ SendCancelled(c)
    \/ RecordAdded(c)
    \/ PauseFetch(c)
    \/ Resume(c)
    \/ LoopExit(c)

TrackerStep(c, p, g) ==
    FlushTimer(c, p, g) \/ TrackFlushed(c, p, g) \/ LoopStopped(c, p, g)

ReadBatch(c) ==
    \/ ReadBatchOfAdd(c)
    \/ \E p \in Partitions : \E g \in 1 .. Current(c, p) : ReadBatchOfLoop(c, p, g)

AckSome(c, p) ==
    \E g \in 1 .. Current(c, p) : \E i \in trackers[c][p][g].out : Ack(c, p, g, i)

RemoveStep(c) ==
    \/ LockForRemove(c)
    \/ \E p \in Partitions : RemovePartition(c, p) \/ PartitionRemoved(c, p)
    \/ UnlockAfterRemove(c)
    \/ Returned(c)

RebalanceStep(c) ==
    \/ \E p \in Partitions : Assign(c, p)
    \/ \E parts \in SUBSET Partitions : Revoke(c, parts)
    \/ Lost(c)
    \/ Thrown(c)
    \/ Committer(c)

CloseStep(c) == CloseClient(c) \/ CloseTrackers(c) \/ Stopped(c)

ProcessStep(c) == Close(c) \/ CloseStep(c) \/ Restart(c) \/ Crash(c)

Next ==
    \E c \in Clients :
        \/ LoopStep(c)
        \/ \E p \in Partitions : \E g \in 1 .. Current(c, p) : TrackerStep(c, p, g)
        \/ ReadBatch(c)
        \/ \E p \in Partitions : AckSome(c, p)
        \/ RemoveStep(c)
        \/ RebalanceStep(c)
        \/ ProcessStep(c)

Spec == Init /\ [][Next]_vars

\* What the reader's own goroutines, kgo and the coordinator keep doing.  The
\* flush timer is a ticker; the poll loop and the rebalance callbacks contend
\* for a sync.Mutex, which starves nobody, hence the strong fairness of taking
\* it.  A poll of partitions with records returns some of them now and then.
PollSome(c) ==
    \E count \in [Partitions -> 0 .. FetchMax] :
        (\E p \in Partitions : count[p] > 0) /\ PollFetches(c, count)

Fairness ==
    \A c \in Clients :
        /\ WF_vars(LoopStep(c)) /\ SF_vars(PollSome(c))
        /\ WF_vars(RemoveStep(c)) /\ SF_vars(LockForRemove(c))
        /\ WF_vars(Lost(c)) /\ WF_vars(Committer(c))
        /\ WF_vars(CloseStep(c)) /\ WF_vars(Restart(c))
        /\ \A p \in Partitions :
              /\ WF_vars(Assign(c, p))
              /\ WF_vars(\E g \in 1 .. Current(c, p) : TrackerStep(c, p, g))

\* The reader with fair goroutines; the pipeline may stop reading at any point.
FairSpec == Spec /\ Fairness

\* The pipeline reads again and again, and a batch is retried until it is
\* delivered (service.AutoRetryNacks).
PipelineFairness ==
    \A c \in Clients :
        /\ SF_vars(ReadBatch(c))
        /\ \A p \in Partitions : WF_vars(AckSome(c, p))

-----------------------------------------------------------------------------
(* Properties.                                                             *)

\* The messages a tracker holds: tracked and not yet committable, in the batcher,
\* and on their way from the batcher to the checkpointer.
Load(t) == Pending(t) + Cardinality(t.queue.recs) + Cardinality(t.flushed.recs)

\* The messages the checkpoint limit does not see: an incomplete batch, and with
\* a period a second one, which loop() has flushed and not yet tracked.
Unseen == (BatchCount - 1) * (IF TimedFlush THEN 2 ELSE 1)

\* checkpoint_limit: the messages of a partition that were handed to the
\* pipeline and are not yet committable, and those not yet handed to it, stay
\* below the limit plus one fetch and the incomplete batches, whatever the
\* interleaving of polls, timed flushes, acks and rebalances.
PendingBounded ==
    \A c \in Clients, p \in Partitions : \A g \in 1 .. Current(c, p) :
        Load(trackers[c][p][g]) < CheckpointLimit + FetchMax + Unseen

\* Nothing sends on batchChan once the reader has closed it: the goroutine of a
\* tracker that is no longer in the map has stopped, and when the reader is
\* stopped so has every other (a send on a closed channel panics).
RemovedTrackersStopped ==
    \A c \in Clients, p \in Partitions : \A g \in 1 .. Current(c, p) :
        (p \in tracked[c] /\ g = Current(c, p) => pc[c] = "stopped")
            => trackers[c][p][g].loop = "stopped"

\* No step moves a committed offset back.
CommitNeverRewinds ==
    [][\A p \in Partitions : committed'[p] >= committed[p]]_vars

\* Close always ends, even when the pipeline no longer reads: the poll loop
\* leaves a blocked send and the trackers' goroutines leave theirs.
CloseCompletes ==
    \A c \in Clients : c \in softStop ~> c \notin softStop

\* A rebalance callback always returns when the pipeline keeps reading: neither
\* the mutex that a blocked addRecord holds nor the wait for a tracker's
\* goroutine keeps the group waiting for ever.
RevokeCompletes ==
    PipelineFairness => \A c \in Clients : callback[c] # Idle ~> callback[c] = Idle

\* Once rebalances and crashes stop, every record is delivered when the pipeline
\* keeps reading: what kgo has paused is resumed, across a revocation too, an
\* incomplete batch waits for the timer only, and a batch whose send was given up
\* is read again.  The exception is a record behind the committed offset, which
\* nobody reads again: two flushing goroutines can lose it, see AtLeastOnce.
EventuallyDelivered ==
    PipelineFairness =>
        <>[](\A p \in Partitions : \A r \in Offsets :
                r \in delivered[p] \/ r < committed[p])
=============================================================================
