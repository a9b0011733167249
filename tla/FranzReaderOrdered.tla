------------------------- MODULE FranzReaderOrdered -------------------------
(***************************************************************************)
(* The ordered Kafka reader, src/internal/impl/kafka/                      *)
(* franz_reader_ordered.go, as every process of a consumer group runs it.  *)
(*                                                                         *)
(* A process has three kinds of actors: the poll loop (Connect, lines      *)
(* 531-649), the pipeline that calls ReadBatch and acknowledges batches,   *)
(* and the kgo client with its rebalance callbacks (KgoGroup).  They share *)
(* the partitionState, a map from partition to partitionCache guarded by   *)
(* mutexes: one action below is one critical section.                      *)
(*                                                                         *)
(* A partitionCache is modelled by the records ever pushed to it, in push  *)
(* order, with the index of the last record of every batch: batch e holds  *)
(* the records after the previous end up to e.  Batches up to out have     *)
(* been popped.  The checkpoint.Uncapped of the cache needs no state of    *)
(* its own, since batches are tracked in the order they are popped.        *)
(***************************************************************************)
EXTENDS KgoGroup, Sequences, FiniteSetsExt

CONSTANTS
    RecordSize,    \* [Offsets -> Nat], bytes of key and value of a record
    BufferSize,    \* partition_buffer_bytes
    MaxBatchSize,  \* max_yield_batch_bytes
    FetchMax       \* bound: records of one partition in one fetch

ASSUME SizesAssumption ==
    /\ RecordSize \in [Offsets -> Nat]
    /\ BufferSize \in Nat \ {0}
    /\ MaxBatchSize \in Nat
    /\ FetchMax \in Nat \ {0}

VARIABLES
    softStop,   \* clients whose Close has been called
    pc,         \* where the poll loop of a client is
    fetch,      \* [Clients -> [Partitions -> Seq(Offsets)]]: polled, not filed
    pausing,    \* pauseTopicPartitions of the current iteration
    paused,     \* the partitions whose fetching the kgo client has paused
    tracked,    \* [Clients -> SUBSET Partitions]: the keys of partitionState
    caches,     \* [Clients -> [Partitions -> Seq(Cache)]]: every cache of the
                \* process, the tracked one last
    cacheSize   \* partitionCache.cacheSize of each of them

readerVars == <<softStop, pc, fetch, pausing, paused, tracked, caches, cacheSize>>
vars == <<groupVars, readerVars>>

Cache == [base    : Positions,        \* history: where the partition was taken up
          recs    : Seq(Offsets),     \* records pushed so far
          ends    : SUBSET Nat,       \* indices of the last record of each batch
          out     : Nat,              \* index up to which batches are popped
          acked   : SUBSET Nat,       \* indices of acknowledged records
          fired   : SUBSET Nat,       \* indices of records whose dispatch signal fired
          pending : SUBSET Offsets,   \* pendingDispatch
          revoked : BOOLEAN]

newPartitionCache(start) ==
    [base |-> start, recs |-> <<>>, ends |-> {}, out |-> 0, acked |-> {},
     fired |-> {}, pending |-> {}, revoked |-> FALSE]

\* The indices of the records of the batch of cache k that ends at e.
BatchOf(k, e) == {i \in 1 .. e : \A x \in k.ends : x < e => x < i}

\* The key of that batch in pendingDispatch: the offset of its first record.
BatchID(k, e) == k.recs[Min(BatchOf(k, e))]

\* The batches that were handed to the pipeline and not acknowledged yet.
InFlight(k) == {e \in k.ends : e <= k.out /\ e \notin k.acked}

\* Bytes of the records of k at these indices.
Bytes(k, indices) == MapThenSumSet(LAMBDA i : RecordSize[k.recs[i]], indices)

\* The index of the cache that partitionState maps p to, when p is tracked.
Current(c, p) == Len(caches[c][p])

Fetched(c) == {p \in Partitions : fetch[c][p] # <<>>}

TypeOK ==
    /\ GroupTypeOK
    /\ softStop \in SUBSET Clients
    /\ pc \in [Clients -> {"poll", "file", "resume", "exit"}]
    /\ fetch \in [Clients -> [Partitions -> Seq(Offsets)]]
    /\ pausing \in [Clients -> SUBSET Partitions]
    /\ paused \in [Clients -> SUBSET Partitions]
    /\ tracked \in [Clients -> SUBSET Partitions]
    /\ caches \in [Clients -> [Partitions -> Seq(Cache)]]

NoFetch == [p \in Partitions |-> <<>>]

\* A process that has just connected: newPartitionState, a new client and a
\* poll loop about to make its first poll.
Init ==
    /\ GroupInit
    /\ softStop = {}
    /\ pc = [c \in Clients |-> "poll"]
    /\ fetch = [c \in Clients |-> NoFetch]
    /\ pausing = [c \in Clients |-> {}]
    /\ paused = [c \in Clients |-> {}]
    /\ tracked = [c \in Clients |-> {}]
    /\ caches = [c \in Clients |-> NoFetch]
    /\ cacheSize = [c \in Clients |-> NoFetch]

-----------------------------------------------------------------------------
(* The poll loop.                                                          *)

\* What the client can give for p: a run of records from its position on, for
\* a partition that is assigned, not paused and not being taken away.
Fetchable(c) == (assigned[c] \ paused[c]) \ callback[c].parts

\* PollFetches returns up to FetchMax records of each partition; none at all
\* when the stall context expires first.
PollFetches(c, count) ==
    /\ pc[c] = "poll"
    /\ c \notin softStop
    /\ \A p \in Partitions :
          IF p \in Fetchable(c) THEN position[c][p] + count[p] <= NumRecords
                                ELSE count[p] = 0
    /\ fetch' = [fetch EXCEPT ![c] = [p \in Partitions |->
                    [i \in 1 .. count[p] |-> position[c][p] + i - 1]]]
    /\ position' = [position EXCEPT ![c] = [p \in Partitions |-> @[p] + count[p]]]
    /\ pc' = [pc EXCEPT ![c] = "file"]
    /\ UNCHANGED <<owner, committed, fenced, assigned, head, sent, callback,
                   delivered, disruptions,
                   softStop, pausing, paused, tracked, caches, cacheSize>>

Poll(c) == \E count \in [Partitions -> 0 .. FetchMax] : PollFetches(c, count)

\* Wrong on purpose: push never cuts what one fetch brought.
PushEndsUncut(k, recs) == k.ends \cup {Len(k.recs) + Len(recs)}

\* partitionCache.push: where the batches of cache k end once the records recs
\* are appended.  The new records first fill up the last queued batch, as long
\* as it is below MaxBatchSize, and the rest is cut into batches that exceed
\* MaxBatchSize only when they hold a single record.
PushEnds(k, recs) ==
    LET all == k.recs \o recs
        old == Len(k.recs)
        Size(i) == RecordSize[all[i]]
        Joins(b, i) ==
            IF i <= old THEN (i - 1) \notin k.ends
            ELSE /\ b.size + Size(i) <= MaxBatchSize
                 /\ b.first > old \/ b.size < MaxBatchSize
        batch[i \in (k.out + 1) .. Len(all)] ==
            IF i = k.out + 1 \/ ~Joins(batch[i - 1], i)
            THEN [first |-> i, size |-> Size(i)]
            ELSE [batch[i - 1] EXCEPT !.size = @ + Size(i)]
    IN  {e \in k.ends : e <= k.out} \cup
        {i \in (k.out + 1) .. Len(all) :
            i = Len(all) \/ batch[i + 1].first = i + 1}

push(k, recs) == [k EXCEPT !.recs = @ \o recs, !.ends = PushEnds(k, recs)]

\* batchWithRecords.size, as recordsToBatch adds it up.
SumSizes(recs) == MapThenSumSet(LAMBDA i : RecordSize[recs[i]], 1 .. Len(recs))

\* partitionState.addRecords for the polled records of p, which makes a cache
\* for a partition that has none.
addRecords(c, p, recs) ==
    LET known == p \in tracked[c]
        g     == Current(c, p)
        size  == (IF known THEN cacheSize[c][p][g] ELSE 0) + SumSizes(recs)
    IN  /\ tracked' = [tracked EXCEPT ![c] = @ \cup {p}]
        /\ IF known
           THEN /\ caches' = [caches EXCEPT ![c][p][g] = push(caches[c][p][g], recs)]
                /\ cacheSize' = [cacheSize EXCEPT ![c][p][g] = size]
           ELSE /\ caches' = [caches EXCEPT ![c][p] =
                                Append(@, push(newPartitionCache(recs[1]), recs))]
                /\ cacheSize' = [cacheSize EXCEPT ![c][p] = Append(@, size)]
        /\ pausing' = [pausing EXCEPT ![c] =
                        IF size >= BufferSize THEN @ \cup {p} ELSE @]

\* One call of the EachPartition callback of the loop.
FileRecords(c, p) ==
    /\ pc[c] = "file"
    /\ fetch[c][p] # <<>>
    /\ addRecords(c, p, fetch[c][p])
    /\ fetch' = [fetch EXCEPT ![c][p] = <<>>]
    /\ UNCHANGED <<groupVars, softStop, pc, paused>>

\* All partitions of the fetch are filed: PauseFetchPartitions.
PauseFetch(c) ==
    /\ pc[c] = "file"
    /\ Fetched(c) = {}
    /\ paused' = [paused EXCEPT ![c] = @ \cup pausing[c]]
    /\ pausing' = [pausing EXCEPT ![c] = {}]
    /\ pc' = [pc EXCEPT ![c] = "resume"]
    /\ UNCHANGED <<groupVars, softStop, fetch, tracked, caches, cacheSize>>

\* Wrong on purpose: batches in flight do not count against the buffer.
pauseFetchQueued(c, p) ==
    /\ p \in tracked[c]
    /\ caches[c][p][Current(c, p)].out < Len(caches[c][p][Current(c, p)].recs)
    /\ cacheSize[c][p][Current(c, p)] >= BufferSize

\* partitionState.pauseFetch.
pauseFetch(c, p) == p \in tracked[c] /\ cacheSize[c][p][Current(c, p)] >= BufferSize

\* partitionState.tallyActivePartitions(paused) > 0.  Paused partitions are
\* subtracted whether they are tracked or not.
SomeActive(c) == Cardinality(tracked[c]) > Cardinality(paused[c])

\* The noActivePartitions loop: it resumes what has room again, and goes back
\* to polling when that was something or when some partition is active;
\* otherwise it looks again after a back-off, which changes nothing.
Resumable(c) == {p \in paused[c] : ~pauseFetch(c, p)}

CanPoll(c) == Resumable(c) # {} \/ SomeActive(c)

Resume(c) ==
    /\ pc[c] = "resume"
    /\ CanPoll(c)
    /\ paused' = [paused EXCEPT ![c] = @ \ Resumable(c)]
    /\ pc' = [pc EXCEPT ![c] = "poll"]
    /\ UNCHANGED <<groupVars, softStop, fetch, pausing, tracked, caches, cacheSize>>

\* The loop sees the soft stop, after a poll (whose records are dropped) or
\* while it waits for an active partition.  A pass that has begun to file
\* records finishes it.
LoopExit(c) ==
    /\ c \in softStop
    /\ pc[c] = "poll" \/ (pc[c] = "resume" /\ ~CanPoll(c))
    /\ pc' = [pc EXCEPT ![c] = "exit"]
    /\ UNCHANGED <<groupVars, softStop, fetch, pausing, paused, tracked, caches,
                   cacheSize>>

-----------------------------------------------------------------------------
(* The pipeline.                                                           *)

\* Wrong on purpose: a batch may overtake one that waits to be dispatched.
MayPopAlways(k) == TRUE

\* pop refuses while a batch is pending dispatch.
MayPop(k) == k.pending = {}

\* ReadBatch, through partitionCache.pop: the oldest queued batch of a tracked
\* partition, unless one is still waiting to be dispatched.
Pop(c, p) ==
    LET g == Current(c, p)
        k == caches[c][p][g]
    IN  /\ p \in tracked[c]
        /\ MayPop(k)
        /\ \E e \in k.ends :
              /\ e > k.out
              /\ \A x \in k.ends : x > k.out => e <= x
              /\ caches' = [caches EXCEPT ![c][p][g] =
                    [k EXCEPT !.out = e, !.pending = @ \cup {BatchID(k, e)}]]
        /\ UNCHANGED <<groupVars, softStop, pc, fetch, pausing, paused, tracked,
                       cacheSize>>

\* An output calls dispatch.TriggerSignal for record i: the last record of a
\* batch to do so lets the next batch be popped.
Dispatch(c, p, g, e, i) ==
    LET k == caches[c][p][g] IN
    /\ e \in InFlight(k)
    /\ i \in BatchOf(k, e) \ k.fired
    /\ caches' = [caches EXCEPT ![c][p][g] =
          [k EXCEPT !.fired = @ \cup {i},
                    !.pending = IF BatchOf(k, e) \subseteq k.fired \cup {i}
                                THEN @ \ {BatchID(k, e)} ELSE @]]
    /\ UNCHANGED <<groupVars, softStop, pc, fetch, pausing, paused, tracked,
                   cacheSize>>

\* Wrong on purpose: any acknowledged batch releases its own offset.
ResolvedAny(k) == {e \in k.ends : e \in k.acked}

\* The ends of the batches below which everything is acknowledged: what the
\* checkpointer can release.
Resolved(k) == {e \in k.ends : 1 .. e \subseteq k.acked}

\* Wrong on purpose: the bytes of a delivered batch stay accounted for.
ReleasedNothing(k, e) == 0

\* What onAck gives back to the buffer.
ReleasedBytes(k, e) == Bytes(k, BatchOf(k, e))

\* Wrong on purpose: the caller adds one as well as MarkCommitRecords.
commitFnNext(c, p, offset) == MarkCommitRecords(c, p, offset + 1)

\* Wrong on purpose: the commitFn of a reader without a consumer group.
commitFnNone(c, p, offset) == head' = head

\* The commitFn of the caches.
commitFn(c, p, offset) == MarkCommitRecords(c, p, offset)

\* onAck of the batch that ends at e, under the cache's mutex.  Nothing is
\* marked for a revoked cache.
Ack(c, p, g, e) ==
    LET k == caches[c][p][g]
        r == [k EXCEPT !.acked   = @ \cup BatchOf(k, e),
                       !.fired   = @ \ BatchOf(k, e),
                       !.pending = @ \ {BatchID(k, e)}]
    IN  /\ e \in InFlight(k)
        /\ caches' = [caches EXCEPT ![c][p][g] = r]
        /\ cacheSize' = [cacheSize EXCEPT ![c][p][g] = @ - ReleasedBytes(k, e)]
        /\ delivered' = [delivered EXCEPT ![p] =
                            @ \cup {k.recs[i] : i \in BatchOf(k, e)}]
        /\ IF r.revoked \/ Resolved(r) = {}
           THEN head' = head
           ELSE \E h \in Resolved(r) :
                  /\ \A x \in Resolved(r) : x <= h
                  /\ commitFn(c, p, r.recs[h])
        /\ UNCHANGED <<owner, committed, fenced, assigned, position, sent, callback,
                       disruptions,
                       softStop, pc, fetch, pausing, paused, tracked>>

-----------------------------------------------------------------------------
(* Rebalance callbacks, shutdown and restart.                              *)

\* OnPartitionsAssigned: addRecords with no batch, so that the partition is
\* tracked from the start.
Assign(c, p) ==
    /\ pc[c] # "exit"
    /\ AssignPartition(c, p)
    /\ tracked' = [tracked EXCEPT ![c] = @ \cup {p}]
    /\ IF p \in tracked[c]
       THEN UNCHANGED <<caches, cacheSize>>
       ELSE /\ caches' = [caches EXCEPT ![c][p] =
                            Append(@, newPartitionCache(committed[p]))]
            /\ cacheSize' = [cacheSize EXCEPT ![c][p] = Append(@, 0)]
    /\ UNCHANGED <<softStop, pc, fetch, pausing, paused>>

\* The poll loop holds no record of these partitions, or the environment is
\* allowed to take them away all the same.
OutsidePollWindow(c, parts) ==
    RebalanceInPollWindow \/ parts \cap Fetched(c) = {}

Revoke(c, p) ==
    /\ disruptions < MaxDisruptions
    /\ disruptions' = disruptions + 1
    /\ OutsidePollWindow(c, {p})
    /\ OnPartitionsRevoked(c, {p})
    /\ UNCHANGED readerVars

Lost(c) ==
    /\ OutsidePollWindow(c, Partitions)
    /\ OnPartitionsLost(c)
    /\ UNCHANGED readerVars

\* Wrong on purpose: a removed cache is only forgotten.
markRevokedNot(k) == k

markRevoked(k) == [k EXCEPT !.revoked = TRUE]

\* removeTopicPartitions, the last statement of both callbacks: every tracked
\* cache is marked revoked under its mutex and forgotten.
RemoveTopicPartitions(c) ==
    /\ callback[c].stage = "remove"
    /\ LET gone == callback[c].parts \cap tracked[c] IN
       /\ tracked' = [tracked EXCEPT ![c] = @ \ gone]
       /\ caches' = [caches EXCEPT ![c] = [p \in Partitions |->
             IF p \in gone
             THEN [caches[c][p] EXCEPT ![Current(c, p)] = markRevoked(caches[c][p][Current(c, p)])]
             ELSE caches[c][p]]]
    /\ callback' = [callback EXCEPT ![c].stage = "clean"]
    /\ UNCHANGED <<owner, committed, fenced, assigned, position, head, sent,
                   delivered, disruptions,
                   softStop, pc, fetch, pausing, paused, cacheSize>>

Returned(c) == CallbackReturned(c) /\ UNCHANGED readerVars

Thrown(c) == Evict(c) /\ UNCHANGED readerVars

Committer(c) ==
    /\ pc[c] # "exit" \/ assigned[c] # {}
    /\ AutoCommit(c)
    /\ UNCHANGED readerVars

\* Close triggers the soft stop.
Close(c) ==
    /\ disruptions < MaxDisruptions
    /\ disruptions' = disruptions + 1
    /\ c \notin softStop
    /\ softStop' = softStop \cup {c}
    /\ UNCHANGED <<owner, committed, fenced, assigned, position, head, sent,
                   callback, delivered,
                   pc, fetch, pausing, paused, tracked, caches, cacheSize>>

\* Client.Close, deferred by the loop: the client leaves the group and its
\* partitions are revoked.
CloseClient(c) ==
    /\ pc[c] = "exit"
    /\ OnPartitionsRevoked(c, assigned[c])
    /\ UNCHANGED <<disruptions, readerVars>>

ReaderGone(c) ==
    /\ softStop' = softStop \ {c}
    /\ pc' = [pc EXCEPT ![c] = "poll"]
    /\ fetch' = [fetch EXCEPT ![c] = NoFetch]
    /\ pausing' = [pausing EXCEPT ![c] = {}]
    /\ paused' = [paused EXCEPT ![c] = {}]
    /\ tracked' = [tracked EXCEPT ![c] = {}]
    /\ caches' = [caches EXCEPT ![c] = NoFetch]
    /\ cacheSize' = [cacheSize EXCEPT ![c] = NoFetch]

\* A closed process is started again.
Restart(c) ==
    /\ pc[c] = "exit"
    /\ assigned[c] = {}
    /\ ProcessGone(c)
    /\ ReaderGone(c)
    /\ UNCHANGED disruptions

\* A process dies, its batches with it, and a new one takes its place.
Crash(c) ==
    /\ disruptions < MaxDisruptions
    /\ disruptions' = disruptions + 1
    /\ ProcessGone(c)
    /\ ReaderGone(c)

-----------------------------------------------------------------------------

LoopStep(c) ==
    \/ Poll(c)
    \/ \E p \in Partitions : FileRecords(c, p)
    \/ PauseFetch(c)
    \/ Resume(c)
    \/ LoopExit(c)

PipelineStep(c) ==
    \E p \in Partitions :
        \/ Pop(c, p)
        \/ \E g \in 1 .. Current(c, p) : \E e \in caches[c][p][g].ends :
              \/ \E i \in 1 .. e : Dispatch(c, p, g, e, i)
              \/ Ack(c, p, g, e)

RebalanceStep(c) ==
    \/ \E p \in Partitions : Assign(c, p) \/ Revoke(c, p)
    \/ Lost(c)
    \/ RemoveTopicPartitions(c)
    \/ Returned(c)
    \/ Thrown(c)
    \/ Committer(c)

ProcessStep(c) == Close(c) \/ CloseClient(c) \/ Restart(c) \/ Crash(c)

Next ==
    \E c \in Clients :
        LoopStep(c) \/ PipelineStep(c) \/ RebalanceStep(c) \/ ProcessStep(c)

Spec == Init /\ [][Next]_vars

\* What the code's own goroutines and its environment keep doing.  The loop
\* never stops by itself, a poll of partitions that have records returns some
\* of them again and again, ReadBatch retries with a back-off, a batch is
\* retried until it is delivered (service.AutoRetryNacks), kgo commits every
\* commit_period and runs its callbacks to their end, and the coordinator
\* hands out free partitions.  Evictions, revocations, closes, crashes and
\* dispatch signals are never promised.
PollSome(c) ==
    \E count \in [Partitions -> 0 .. FetchMax] :
        (\E p \in Partitions : count[p] > 0) /\ PollFetches(c, count)

AckSome(c, p) ==
    \E g \in 1 .. Current(c, p) : \E e \in caches[c][p][g].ends : Ack(c, p, g, e)

Fairness ==
    \A c \in Clients :
        /\ WF_vars(LoopStep(c))
        /\ SF_vars(PollSome(c))
        /\ WF_vars(Lost(c)) /\ WF_vars(RemoveTopicPartitions(c)) /\ WF_vars(Returned(c))
        /\ WF_vars(Committer(c))
        /\ WF_vars(CloseClient(c)) /\ WF_vars(Restart(c))
        /\ \A p \in Partitions :
              /\ WF_vars(Pop(c, p))
              /\ WF_vars(AckSome(c, p))
              /\ WF_vars(Assign(c, p))

FairSpec == Spec /\ Fairness

-----------------------------------------------------------------------------
(* Properties.                                                             *)

AllCaches(P(_, _, _)) ==
    \A c \in Clients, p \in Partitions : \A g \in 1 .. Current(c, p) : P(c, p, g)

\* Batches end at records of the cache, and only popped records are acknowledged.
CacheShape(k) ==
    /\ k.out <= Len(k.recs)
    /\ k.ends \subseteq 1 .. Len(k.recs)
    /\ k.acked \subseteq 1 .. k.out

\* What the checkpointer's view of a partition rests on: the records of a cache
\* are consecutive from where the partition was taken up, everything before is
\* delivered, and so is everything acknowledged.
CacheSound(c, p, g) ==
    LET k == caches[c][p][g] IN
    /\ CacheShape(k)
    /\ \A i \in 1 .. Len(k.recs) : k.recs[i] = k.base + i - 1
    /\ Below(k.base) \subseteq delivered[p]
    /\ \A i \in k.acked : k.recs[i] \in delivered[p]

\* A cache that may still mark offsets is the tracked one of its partition.
LiveCacheTracked(c, p, g) ==
    ~caches[c][p][g].revoked => p \in tracked[c] /\ g = Current(c, p)

\* The tracked cache and the records on their way to it form one run up to the
\* client's position.
TrackedSound(c, p) ==
    LET k == caches[c][p][Current(c, p)]
        n == Len(k.recs)
    IN  /\ p \in assigned[c]
        /\ Current(c, p) > 0
        /\ k.base + n + Len(fetch[c][p]) = position[c][p]
        /\ \A i \in 1 .. Len(fetch[c][p]) : fetch[c][p][i] = k.base + n + i - 1

MarkSound(c, p) ==
    head[c][p] # NoMark => p \in assigned[c] /\ Below(head[c][p]) \subseteq delivered[p]

\* How the poll loop and the rebalance callbacks share the partitions.
LoopSound(c) ==
    /\ pc[c] # "file" => Fetched(c) = {}
    /\ Fetched(c) \subseteq tracked[c] \ callback[c].parts
    /\ assigned[c] \ callback[c].parts \subseteq tracked[c]
    /\ callback[c].stage = "none" => callback[c].parts = {}
    /\ callback[c].stage = "clean" => callback[c].parts \cap tracked[c] = {}

CellSound(c, p) ==
    /\ MarkSound(c, p)
    /\ p \in tracked[c] => TrackedSound(c, p)
    /\ \A g \in 1 .. Current(c, p) : CacheSound(c, p, g) /\ LiveCacheTracked(c, p, g)

\* The argument for AtLeastOnce, as an inductive invariant: a client's marks,
\* its caches and the records on their way to them never leave a gap.
NoGaps ==
    /\ AtLeastOnce
    /\ \A c \in Clients : LoopSound(c)
    /\ \A c \in Clients, p \in Partitions : CellSound(c, p)

\* "Only one batch of records of a given partition will ever be processed at a
\* time": while a record of an in-flight batch has not reached an output's
\* dispatch, no later batch of the same cache has been handed out.
OrderedDispatch ==
    AllCaches(LAMBDA c, p, g :
        LET k == caches[c][p][g] IN
        \A e \in InFlight(k) :
            (\E x \in InFlight(k) : x > e) => BatchOf(k, e) \subseteq k.fired)

\* cacheSize, which decides on pausing and resuming, counts exactly the bytes
\* of the records that are queued or in flight, across push, pop and any order
\* of acknowledgements.
CacheSizeExact ==
    AllCaches(LAMBDA c, p, g :
        LET k == caches[c][p][g] IN
        cacheSize[c][p][g] = Bytes(k, (1 .. Len(k.recs)) \ k.acked))

LargestRecord == Max({RecordSize[r] : r \in Offsets} \cup {0})

\* partition_buffer_bytes: a partition that has reached its buffer limit is not
\* polled again before it has room, so that a cache overshoots its limit by less
\* than one fetch, whatever the interleaving of polls, acks and rebalances.
BufferBounded ==
    AllCaches(LAMBDA c, p, g :
        cacheSize[c][p][g] < BufferSize + FetchMax * LargestRecord)

\* max_yield_batch_bytes: push never lets a batch of several records exceed the
\* limit, however the records arrived.
BatchesBounded ==
    AllCaches(LAMBDA c, p, g :
        LET k == caches[c][p][g] IN
        \A e \in k.ends :
            Cardinality(BatchOf(k, e)) > 1 => Bytes(k, BatchOf(k, e)) <= MaxBatchSize)

\* No step moves a committed offset back: a client that lost a partition never
\* overwrites what a later owner committed.
CommitNeverRewinds ==
    [][\A p \in Partitions : committed'[p] >= committed[p]]_vars

\* Once rebalances and crashes stop, every record is delivered and committed,
\* whatever was paused, revoked or in flight before.
EventuallyCommitted ==
    <>[](\A p \in Partitions : committed[p] = NumRecords)
=============================================================================
