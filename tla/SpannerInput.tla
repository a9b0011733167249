---------------------------- MODULE SpannerInput ----------------------------
(***************************************************************************)
(* The Spanner change stream input, src/internal/impl/gcp/enterprise:      *)
(* the subscriber with its handler and its metadata table (changestreams), *)
(* the reader that batches its records (input_spanner_cdc.go) and the      *)
(* partition batchers (input_spanner_partition_batcher.go).                *)
(*                                                                         *)
(* A change stream is a graph of partitions: Spanner splits and merges     *)
(* them, and the last record of a partition names its children.  One       *)
(* process reads them, a goroutine per partition, and keeps a row per      *)
(* partition in a table: its state and the watermark to resume from.  One  *)
(* call to the table is one step.                                          *)
(*                                                                         *)
(* Timestamps are numbers; 0 is the zero time.  Record i of a partition    *)
(* commits at Start + i - 1 and has Mods[p][i] modifications, each of      *)
(* which becomes a message.                                                *)
(***************************************************************************)
EXTENDS Integers, Sequences, FiniteSets, FiniteSetsExt, SequencesExt

CONSTANTS
    Partitions,
    Parents,    \* [Partitions -> SUBSET Partitions]: none for a root
    Start,      \* [Partitions -> Nat]: StartTimestamp
    Mods,       \* [Partitions -> Seq(Nat)]
    End,        \* EndTimestamp, exclusive
    BatchSize,  \* the count of the batch policy
    Periodic,   \* does the batch policy have a period?
    MaxInFlight,\* bound: batches of a partition that the pipeline has at a time
    MaxFaults   \* bound: crashes, stops, failed calls and nacks, together

Children(p) == {c \in Partitions : p \in Parents[c]}
Timestamp(p, i) == Start[p] + i - 1

\* Children start after the last record of each parent, those of one partition
\* together.  A partition is split or merged, never both at once: parents that
\* have a child in common have all children in common.  Records from End on are
\* returned, and skipped.
ASSUME SpannerAssumption ==
    /\ Parents \in [Partitions -> SUBSET Partitions]
    /\ Start \in [Partitions -> Nat \ {0}]
    /\ Mods \in [Partitions -> Seq(Nat \ {0})]
    /\ \A p \in Partitions : \A c, d \in Children(p) :
          Start[c] = Start[d] /\ Start[c] > Start[p] /\ Start[c] > Timestamp(p, Len(Mods[p]))
    /\ \A p, q \in Partitions : Children(p) \cap Children(q) # {} => Children(p) = Children(q)
    /\ \A p \in Partitions : Parents[p] = {} => Start[p] < End
    /\ End \in Nat /\ BatchSize \in Nat \ {0} /\ MaxInFlight \in Nat \ {0} /\ MaxFaults \in Nat
    /\ Periodic \in BOOLEAN

ZeroTime == 0
Roots == {p \in Partitions : Parents[p] = {}}

\* The commit timestamp of a row: some time after the record that names the
\* partition, here as early as can be, which is the worst case for the search
\* of new partitions.
CreatedAt(p) == Start[p] + 1

\* Modification m of record i.
Messages(p) == {<<i, m>> : i \in DOMAIN Mods[p], m \in 1 .. Max({0} \cup Range(Mods[p]))}
Due(p) == {x \in Messages(p) : x[2] <= Mods[p][x[1]] /\ Timestamp(p, x[1]) < End}

VARIABLES
    row,           \* the table: [Partitions -> Row]
    conn,          \* Connect and Run: "down", "setup", "running"
    ended,         \* detectNewPartitionsLoop has returned
    minWatermark,  \* the cached value, ZeroTime if there is none
    resumed,       \* partitions found interrupted by Run
    reader,        \* [Partitions -> Reader]: the goroutines
    batcher,       \* [Partitions -> Batcher]
    delivered,     \* history: messages an output confirmed
    overtaken,     \* history: undelivered messages of a batch, pending or rejected,
                   \* that the watermark of a later one has passed
    faults

tableVars == <<row>>
subscriberVars == <<conn, ended, minWatermark, resumed>>
history == <<delivered, overtaken>>
vars == <<row, conn, ended, minWatermark, resumed, reader, batcher, delivered, overtaken, faults>>

Row == [state : {"ABSENT", "CREATED", "SCHEDULED", "RUNNING", "FINISHED"}, watermark : Nat]

\* A goroutine: rec is the next record of its query, of which mod modifications
\* are batched.
Reader == [pc : {"none", "wait", "read", "end", "close", "mark", "finish"}, rec : Nat, mod : Nat]
NoReader == [pc |-> "none", rec |-> 0, mod |-> 0]

Batch(msgs, wm) == [msgs |-> msgs, watermark |-> wm]

\* forPartition creates a batcher when there is none.  It is kept by the
\* factory, across connections too, until Close removes it.
NoBatcher ==
    [cached |-> FALSE,
     stale  |-> FALSE,   \* its connection, and periodic flusher, are gone
     buf    |-> <<>>,
     last   |-> 0,       \* the last record with messages in buf
     first  |-> TRUE,    \* Iter has not used the watermark of last
     out    |-> <<>>,    \* the batch that emit offers to ReadBatch
     flight |-> <<>>,    \* acks: the batches that are not acknowledged
     nacked |-> {}]      \* acks: the messages of those with an error

Init ==
    /\ row = [p \in Partitions |-> [state |-> "ABSENT", watermark |-> ZeroTime]]
    /\ conn = "down" /\ ended = FALSE /\ minWatermark = ZeroTime /\ resumed = {}
    /\ reader = [p \in Partitions |-> NoReader]
    /\ batcher = [p \in Partitions |-> NoBatcher]
    /\ delivered = [p \in Partitions |-> {}]
    /\ overtaken = [p \in Partitions |-> {}]
    /\ faults = 0

Fault == faults < MaxFaults /\ faults' = faults + 1

-----------------------------------------------------------------------------
(* The metadata table: Store.                                              *)

InState(S) == {p \in Partitions : row[p].state \in S}

\* Wrong on purpose: the watermark starts at the time the row is written.
NewRowNow(p) == [state |-> "CREATED", watermark |-> CreatedAt(p)]

\* toPartitionMetadata
NewRow(p) == [state |-> "CREATED", watermark |-> Start[p]]

\* Create inserts all rows or, if one exists, none; the caller ignores that.
Create(S) ==
    row' = IF S \subseteq InState({"ABSENT"})
           THEN [p \in Partitions |-> IF p \in S THEN NewRow(p) ELSE row[p]]
           ELSE row

\* updatePartitionStatus: only rows that are in the expected state.
Updated(S, from, to) ==
    [p \in Partitions |-> IF p \in S /\ row[p].state = from THEN [row[p] EXCEPT !.state = to] ELSE row[p]]

\* Wrong on purpose: new partitions do not count.
GetRunningMinWatermark ==
    Min({row[p].watermark : p \in InState({"SCHEDULED", "RUNNING"})} \cup
        IF InState({"SCHEDULED", "RUNNING"}) = {} THEN {ZeroTime} ELSE {})

GetUnfinishedMinWatermark ==
    LET unfinished == InState({"CREATED", "SCHEDULED", "RUNNING"})
    IN  IF unfinished = {} THEN ZeroTime ELSE Min({row[p].watermark : p \in unfinished})

GetPartitionsCreatedAfter(t) == {p \in InState({"CREATED"}) : CreatedAt(p) > t}

\* Wrong on purpose: scheduled partitions are not taken up again.
GetRunningPartitions == InState({"RUNNING"})

GetInterruptedPartitions == InState({"SCHEDULED", "RUNNING"})

\* Wrong on purpose: one finished parent is enough.
CheckAnyFinished(S) == S = {} \/ S \cap InState({"FINISHED"}) # {}

\* The cache of finished tokens is never wrong: FINISHED is final.
CheckPartitionsFinished(S) == S \subseteq InState({"FINISHED"})

-----------------------------------------------------------------------------
(* The subscriber.                                                         *)

\* Connect makes a new subscriber; ReadBatch asks for it when the last has
\* stopped.
Connect ==
    /\ conn = "down"
    /\ conn' = "setup"
    /\ ended' = FALSE /\ minWatermark' = ZeroTime /\ resumed' = {}
    /\ UNCHANGED <<tableVars, reader, batcher, history, faults>>

\* Setup: handleRootPartitions creates the rows of the roots one by one.
CreateRoot(p) ==
    /\ conn = "setup"
    /\ p \in Roots \cap InState({"ABSENT"})
    /\ Create({p})
    /\ UNCHANGED <<subscriberVars, reader, batcher, history, faults>>

\* schedule starts a goroutine for each partition of a group.
Scheduled(S) == [p \in Partitions |-> IF p \in S THEN [NoReader EXCEPT !.pc = "wait"] ELSE reader[p]]

\* Run first takes up what the process before it left, which is no longer CREATED.
Run ==
    /\ conn = "setup"
    /\ Roots \cap InState({"ABSENT"}) = {}
    /\ conn' = "running"
    /\ resumed' = GetInterruptedPartitions
    /\ reader' = Scheduled(GetInterruptedPartitions)
    /\ UNCHANGED <<tableVars, ended, minWatermark, batcher, history, faults>>

\* groupPartitionsByCreatedAt: the partitions of S that come first.
FirstGroup(S) == {p \in S : \A q \in S : CreatedAt(p) <= CreatedAt(q)}

EndOfStream(min) == min = ZeroTime \/ min > End

\* One turn of detectNewPartitions, with the cached minimum or a fresh one,
\* that schedules one group: the turns of a list of several are turns of their
\* own, with the minimum cached.
DetectNewPartitions ==
    /\ conn = "running"
    /\ ~ended
    /\ \E min \in {GetUnfinishedMinWatermark} \cup ({minWatermark} \ {ZeroTime}) :
          LET group == FirstGroup(GetPartitionsCreatedAfter(min)) IN
          /\ minWatermark' = IF min = ZeroTime THEN minWatermark ELSE min
          /\ \/ EndOfStream(min) /\ ended' = TRUE /\ UNCHANGED <<row, reader>>
             \/ /\ ~EndOfStream(min)
                /\ row' = Updated(group, "CREATED", "SCHEDULED")
                /\ reader' = Scheduled(group)
                /\ UNCHANGED ended
    /\ UNCHANGED <<conn, resumed, batcher, history, faults>>

\* Every goroutine of the error group has returned: Run does, the client is
\* closed, and ReadBatch reports a lost connection.
RunReturns ==
    /\ conn = "running"
    /\ ended
    /\ \A p \in Partitions : reader[p] = NoReader
    /\ conn' = "down"
    /\ UNCHANGED <<tableVars, ended, minWatermark, resumed, reader, batcher, history, faults>>

\* What a lost connection leaves of a batcher: what emit was offering is gone,
\* and a record that was being batched is the last one, as Iter's deferred
\* function has it.
Disconnected(p) ==
    [batcher[p] EXCEPT !.out = <<>>, !.stale = batcher[p].cached, !.first = TRUE,
                       !.last = IF reader[p].mod > 0 THEN reader[p].rec ELSE @]

\* An error of one goroutine, or Close, cancels the context of all; the factory
\* keeps the batchers.
Abort ==
    /\ conn' = "down"
    /\ reader' = [p \in Partitions |-> NoReader]
    /\ batcher' = [p \in Partitions |-> Disconnected(p)]
    /\ UNCHANGED <<tableVars, ended, minWatermark, resumed, history>>

Stop == conn # "down" /\ Fault /\ Abort

Crash ==
    /\ Fault
    /\ conn' = "down"
    /\ reader' = [p \in Partitions |-> NoReader]
    /\ batcher' = [p \in Partitions |-> NoBatcher]
    /\ UNCHANGED <<tableVars, ended, minWatermark, resumed, history>>

-----------------------------------------------------------------------------
(* A goroutine: waitForParentPartitionsToFinish and queryChangeStream.     *)

At(p, pc) == reader[p].pc = pc

\* The query starts at the watermark, inclusive: its first record.
FirstRecord(p) == IF row[p].watermark < Start[p] THEN 1
                  ELSE Min({row[p].watermark - Start[p], Len(Mods[p])}) + 1

\* UpdateToRunning.  Another reader of the partition would have set RunningAt.
QueryChangeStream(p) ==
    /\ At(p, "wait")
    /\ CheckPartitionsFinished(Parents[p])
    /\ row[p].state = "SCHEDULED" \/ (p \in resumed /\ row[p].state = "RUNNING")
    /\ row' = Updated({p}, "SCHEDULED", "RUNNING")
    /\ reader' = [reader EXCEPT ![p] = [pc |-> "read", rec |-> FirstRecord(p), mod |-> 0]]
    /\ UNCHANGED <<subscriberVars, batcher, history, faults>>

\* A callback gets through to onDataChangeRecord: with a period it is passed to
\* the flusher's goroutine, which a batcher of an earlier connection has lost.
Served(p) == ~(Periodic /\ batcher[p].stale)

\* Wrong on purpose: a batch takes all of a record.
TakenAll(p) == Mods[p][reader[p].rec] - reader[p].mod

\* How many modifications of the record go into the batch.
Taken(p) == Min({BatchSize - Len(batcher[p].buf), Mods[p][reader[p].rec] - reader[p].mod})

\* Iter: the watermark that a full batch carries, that of the last record it
\* completes.
BatchWatermark(p, done) ==
    IF done THEN Timestamp(p, reader[p].rec)
    ELSE IF batcher[p].first /\ batcher[p].last # 0 THEN Timestamp(p, batcher[p].last)
    ELSE ZeroTime

\* tryClaim: records come in the order of their timestamps, and stop before End.
TryClaim(t) == t < End

SkipRecord(p) ==
    /\ At(p, "read") /\ reader[p].rec <= Len(Mods[p])
    /\ ~TryClaim(Timestamp(p, reader[p].rec))
    /\ batcher[p].out = <<>>
    /\ reader' = [reader EXCEPT ![p].rec = @ + 1]
    /\ UNCHANGED <<tableVars, subscriberVars, batcher, history, faults>>

\* The callback takes the record, or what is left of it after a batch was full.
OnDataChangeRecord(p) ==
    LET b == batcher[p]
        r == reader[p]
        n == Taken(p)
        buf == b.buf \o [j \in 1 .. n |-> <<r.rec, r.mod + j>>]
        full == Len(buf) >= BatchSize
        done == r.mod + n = Mods[p][r.rec]
    IN  /\ At(p, "read") /\ r.rec <= Len(Mods[p])
        /\ TryClaim(Timestamp(p, r.rec))
        /\ Served(p)
        /\ b.out = <<>>
        /\ r.mod = 0 => b.nacked = {}
        /\ batcher' = [batcher EXCEPT ![p] =
              [b EXCEPT !.cached = TRUE,
                        !.buf = IF full THEN <<>> ELSE buf,
                        !.out = IF full THEN <<Batch(buf, BatchWatermark(p, done))>> ELSE <<>>,
                        !.first = done \/ (@ /\ b.last = 0),
                        !.last = IF ~done THEN @ ELSE IF full THEN 0 ELSE r.rec]]
        /\ reader' = [reader EXCEPT ![p] = IF done THEN [r EXCEPT !.rec = @ + 1, !.mod = 0]
                                           ELSE [r EXCEPT !.mod = @ + n]]
        /\ UNCHANGED <<tableVars, subscriberVars, history, faults>>

\* Flush: nothing, unless a record has messages in the batch.
Flushed(p) ==
    LET b == batcher[p] IN
    IF b.last = 0 THEN [b EXCEPT !.cached = TRUE]
    ELSE [b EXCEPT !.cached = TRUE, !.buf = <<>>, !.last = 0,
                   !.out = IF b.buf = <<>> THEN <<>> ELSE <<Batch(b.buf, Timestamp(p, b.last))>>]

\* The timer of the batcher; the flusher's goroutine serves one call at a time.
PeriodicFlush(p) ==
    /\ Periodic
    /\ At(p, "read") /\ reader[p].mod = 0
    /\ batcher[p].cached /\ ~batcher[p].stale
    /\ batcher[p].out = <<>> /\ batcher[p].last # 0
    /\ batcher[p].nacked = {}
    /\ batcher' = [batcher EXCEPT ![p] = Flushed(p)]
    /\ UNCHANGED <<tableVars, subscriberVars, reader, history, faults>>

\* ReadBatch takes what emit offers.
ReadBatch(p) ==
    /\ batcher[p].out # <<>>
    /\ Len(batcher[p].flight) < MaxInFlight
    /\ batcher' = [batcher EXCEPT ![p].flight = @ \o batcher[p].out, ![p].out = <<>>]
    /\ UNCHANGED <<tableVars, subscriberVars, reader, history, faults>>

\* The last record of a partition, unless the query ends before it.
HandleChildPartitionsRecords(p) ==
    /\ At(p, "read") /\ reader[p].rec > Len(Mods[p])
    /\ batcher[p].out = <<>>
    /\ Create({c \in Children(p) : TryClaim(Start[c])})
    /\ reader' = [reader EXCEPT ![p].pc = "end"]
    /\ UNCHANGED <<subscriberVars, batcher, history, faults>>

\* The callback without a record flushes the rest.
EndOfPartition(p) ==
    /\ At(p, "end")
    /\ Served(p)
    /\ batcher[p].nacked = {}
    /\ batcher' = [batcher EXCEPT ![p] = Flushed(p)]
    /\ reader' = [reader EXCEPT ![p].pc = "close"]
    /\ UNCHANGED <<tableVars, subscriberVars, history, faults>>

\* Wrong on purpose: acknowledgements are not waited for.
AckErrorOnly(p) == batcher[p].out = <<>> /\ batcher[p].nacked = {}

\* WaitAcks has returned, without an error.
WaitAcks(p) == batcher[p].out = <<>> /\ batcher[p].flight = <<>> /\ batcher[p].nacked = {}

\* The end of the callback: Close.
CloseBatcher(p) ==
    /\ At(p, "close")
    /\ WaitAcks(p)
    /\ batcher' = [batcher EXCEPT ![p] = NoBatcher]
    /\ reader' = [reader EXCEPT ![p].pc = "mark"]
    /\ UNCHANGED <<tableVars, subscriberVars, history, faults>>

\* AckError, at the start of a callback, or WaitAcks find an error: the
\* goroutine fails, and with it all others.
CallbackFails(p) ==
    /\ batcher[p].nacked # {}
    /\ batcher[p].out = <<>>
    /\ \/ At(p, "read") /\ reader[p].rec <= Len(Mods[p]) /\ reader[p].mod = 0
          /\ TryClaim(Timestamp(p, reader[p].rec)) /\ Served(p)
       \/ At(p, "end") /\ Served(p)
       \/ At(p, "close") /\ batcher[p].flight = <<>>
    /\ Abort
    /\ UNCHANGED faults

\* The last timestamp the handler has claimed.
LastClaimed(p) ==
    Max({Start[p]} \cup {t \in {Timestamp(p, i) : i \in DOMAIN Mods[p]} \cup
                               {Start[c] : c \in Children(p)} : TryClaim(t)})

UpdateWatermark(p) ==
    /\ At(p, "mark")
    /\ row' = [row EXCEPT ![p].watermark = LastClaimed(p)]
    /\ reader' = [reader EXCEPT ![p].pc = "finish"]
    /\ UNCHANGED <<subscriberVars, batcher, history, faults>>

UpdateToFinished(p) ==
    /\ At(p, "finish")
    /\ row' = Updated({p}, "RUNNING", "FINISHED")
    /\ reader' = [reader EXCEPT ![p] = NoReader]
    /\ UNCHANGED <<subscriberVars, batcher, history, faults>>

-----------------------------------------------------------------------------
(* The pipeline.                                                           *)

\* The messages of batch k, and those that its watermark passes although no
\* output has confirmed them.
Settled(p, k) == Range(batcher[p].flight[k].msgs)
Earlier(p, k) ==
    {x \in batcher[p].nacked \cup UNION {Settled(p, j) : j \in 1 .. k - 1} :
        Timestamp(p, x[1]) < batcher[p].flight[k].watermark}

\* An output confirms a batch, in any order.  The watermark is stored unless
\* the last update was less than a second ago, or the call fails, which it
\* does without a subscriber.
Ack(p, k) ==
    LET wm == batcher[p].flight[k].watermark IN
    /\ batcher' = [batcher EXCEPT ![p].flight = RemoveAt(@, k)]
    /\ delivered' = [delivered EXCEPT ![p] = @ \cup Settled(p, k)]
    /\ \/ UNCHANGED row
          /\ overtaken' = [overtaken EXCEPT ![p] = @ \ Settled(p, k)]
       \/ /\ conn # "down" /\ wm # ZeroTime
          /\ row' = [row EXCEPT ![p].watermark = wm]
          /\ overtaken' = [overtaken EXCEPT ![p] = (@ \cup Earlier(p, k)) \ delivered'[p]]
    /\ UNCHANGED <<subscriberVars, reader, faults>>

\* With auto_replay_nacks off a rejected batch is dropped: its error makes the
\* next callback fail, and a later query returns its messages again.
Nack(p, k) ==
    /\ Fault
    /\ batcher' = [batcher EXCEPT ![p].flight = RemoveAt(@, k), ![p].nacked = @ \cup Settled(p, k)]
    /\ UNCHANGED <<tableVars, subscriberVars, reader, history>>

-----------------------------------------------------------------------------

ReaderStep(p) ==
    \/ QueryChangeStream(p)
    \/ SkipRecord(p)
    \/ OnDataChangeRecord(p)
    \/ HandleChildPartitionsRecords(p)
    \/ EndOfPartition(p)
    \/ CloseBatcher(p)
    \/ CallbackFails(p)
    \/ UpdateWatermark(p)
    \/ UpdateToFinished(p)

SubscriberStep ==
    \/ Connect
    \/ \E p \in Partitions : CreateRoot(p)
    \/ Run
    \/ DetectNewPartitions
    \/ RunReturns

Next ==
    \/ SubscriberStep
    \/ \E p \in Partitions :
          \/ ReaderStep(p)
          \/ PeriodicFlush(p)
          \/ ReadBatch(p)
          \/ \E k \in DOMAIN batcher[p].flight : Ack(p, k) \/ Nack(p, k)
    \/ Stop
    \/ Crash

Spec == Init /\ [][Next]_vars

\* The loop looks for partitions again and again, goroutines run, and the
\* pipeline reads and settles batches.  Crashes, stops and nacks are never
\* promised, nor is the flush of a batch by its timer.
Fairness ==
    /\ WF_vars(SubscriberStep)
    /\ \A p \in Partitions :
          /\ WF_vars(ReaderStep(p))
          /\ WF_vars(ReadBatch(p))
          /\ WF_vars(\E k \in DOMAIN batcher[p].flight : Ack(p, k))

FairSpec == Spec /\ Fairness

-----------------------------------------------------------------------------
(* Properties.                                                             *)

TypeOK ==
    /\ row \in [Partitions -> Row]
    /\ conn \in {"down", "setup", "running"} /\ ended \in BOOLEAN
    /\ minWatermark \in Nat /\ resumed \subseteq Partitions
    /\ reader \in [Partitions -> Reader]
    /\ \A p \in Partitions :
          /\ conn # "running" => reader[p] = NoReader
          /\ Len(batcher[p].buf) < BatchSize
          /\ \A x \in Range(batcher[p].out \o batcher[p].flight) :
                Len(x.msgs) \in 1 .. BatchSize /\ x.watermark \in Nat
          /\ batcher[p].buf # <<>> /\ reader[p].mod = 0 => batcher[p].last # 0
          /\ delivered[p] \cup overtaken[p] \subseteq Messages(p)
    /\ faults \in 0 .. MaxFaults

Unfinished == InState({"CREATED", "SCHEDULED", "RUNNING"})

\* Partitions that the stream has before End.
Expected == {p \in Partitions : Start[p] < End}

\* A query that somebody will still run returns the message: the partition is
\* not finished and its watermark not past the record, or it is not known yet
\* and one of its parents is still to be read to the end.
Unread(p, x) ==
    IF row[p].state = "ABSENT"
    THEN p \in Roots \/ Parents[p] \cap (Unfinished \cup InState({"ABSENT"})) # {}
    ELSE p \in Unfinished /\ row[p].watermark <= Timestamp(p, x[1])

\* "It persists the state of the stream partitions to the metadata table in
\* order to resume from the last record processed": whatever crashes or stops,
\* a message is delivered or will be read again, from its own partition or
\* through the parents that announce it.  The one exception is a message whose
\* batch was overtaken: the acknowledgement of a later batch of the partition
\* stores its watermark without a look at earlier ones, pending or rejected.
\* It takes a policy with a period, or batches of one message.  Otherwise a
\* batcher that outlives its connection may offer the watermark of a record it
\* had begun, with a batch of an earlier one that is read again.
AtLeastOnce ==
    \A p \in Expected : \A x \in Due(p) :
        x \in delivered[p] \cup overtaken[p] \/ Unread(p, x)

\* "Records returned from child partitions should be processed only after
\* records from all parent partitions have been processed": once a message of a
\* child is handed out, nothing of a parent is still to come.
ChildAfterParents ==
    \A c \in Expected :
        delivered[c] # {} \/ batcher[c].flight # <<>> \/ batcher[c].out # <<>> =>
            \A p \in Parents[c] :
                /\ Due(p) \subseteq delivered[p] \cup overtaken[p]
                /\ batcher[p].flight = <<>> /\ batcher[p].out = <<>>

\* The search for new partitions asks for rows created after a minimum that may
\* be old; no row that waits to be scheduled is ever at or before it.
NoneOverlooked ==
    \A p \in InState({"CREATED"}) : conn # "down" => CreatedAt(p) > minWatermark

\* The loop that schedules partitions returns only when there is nothing left
\* to schedule, now or later: every partition of the stream is finished.
EndsComplete ==
    ended /\ conn = "running" => Expected \subseteq InState({"FINISHED"})

\* Every partition of the stream is read to its end, in spite of crashes and
\* failed calls, as long as no connection is lost that leaves a batcher behind:
\* the next one finds it without the goroutine of its flusher, or with the
\* error of its acknowledgements, and never gets past it.
EventuallyFinished ==
    [](\A p \in Partitions : ~batcher[p].stale) =>
        \A p \in Expected : <>(row[p].state = "FINISHED")
=============================================================================
