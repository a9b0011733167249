---------------------------- MODULE KinesisInput ----------------------------
(***************************************************************************)
(* The Kinesis input, src/internal/impl/aws/kinesis (input.go,             *)
(* input_checkpointer.go, input_record_batcher.go), as every process that  *)
(* shares a stream and its DynamoDB table runs it.                         *)
(*                                                                         *)
(* A process has a rebalancing loop that claims shards (runBalancedShards, *)
(* or runExplicitShards when its shards are listed), a consumer goroutine  *)
(* per claimed shard (runConsumer), and the pipeline that acknowledges     *)
(* their batches.  Processes only meet in the table: one item per shard,   *)
(* with the last acknowledged sequence, the client that holds the shard    *)
(* and the end of its lease.  One call to the table is one step.           *)
(*                                                                         *)
(* The records of a shard are numbered from 1, and the sequence number of  *)
(* a record is its number.  start_from_oldest has its default, true.       *)
(***************************************************************************)
EXTENDS Integers, Sequences, FiniteSets, FiniteSetsExt

CONSTANTS
    Clients,          \* processes
    ExplicitClients,  \* those whose configuration lists the shards
    Shards,
    NumRecords,       \* [Shards -> Nat]
    CheckpointLimit,  \* checkpoint_limit
    MaxConsumers,     \* bound: consumers a process may run on one shard
    Resharded,        \* bound: the shards that may be closed
    MaxFaults         \* bound: crashes, closes, slow clients and failed calls, together

ASSUME KinesisAssumption ==
    /\ IsFiniteSet(Clients)
    /\ ExplicitClients \subseteq Clients
    /\ NumRecords \in [Shards -> Nat]
    /\ Resharded \subseteq Shards
    /\ CheckpointLimit \in Nat \ {0}
    /\ MaxConsumers \in Nat \ {0}
    /\ MaxFaults \in Nat

Records(s) == 1 .. NumRecords[s]
NoSeq == 0       \* the empty sequence number: the attribute is missing
NoClient == 0    \* the ClientID attribute is missing
Slots == 1 .. MaxConsumers

VARIABLES
    \* the stream and the table
    closed,     \* shards that were split or merged: they get no more records
    row,        \* [Shards -> Row]
    \* the processes
    clientID,   \* [Clients -> Nat]: a new process draws a new identifier
    lastID,     \* the last identifier drawn
    stopping,   \* clients whose k.ctx is cancelled
    loop,       \* [Clients -> Loop]
    consumer,   \* [Clients -> [Shards -> [Slots -> Consumer]]]
    \* the rest of the world
    delivered,  \* history: [Shards -> SUBSET Nat], what outputs have confirmed
    faults

tableVars == <<closed, row>>
processVars == <<clientID, lastID, stopping>>
vars == <<closed, row, clientID, lastID, stopping, loop, consumer, delivered, faults>>

\* An item of the table; fresh is false once the lease ended more than two
\* lease periods ago, the age at which runBalancedShards takes the owner for dead.
Row == [exists : BOOLEAN, seq : Nat, client : Nat, fresh : BOOLEAN]
Absent == [exists |-> FALSE, seq |-> NoSeq, client |-> NoClient, fresh |-> FALSE]

\* A rebalancing loop: the shards it is about to claim, each with the client it
\* takes it from, and the claim it is working on.
Loop == [pc : {"scan", "claim", "reread", "start", "exit"},
         todo : SUBSET (Shards \X Nat),
         shard : SUBSET Shards,    \* the shard being claimed, at most one
         seq : Nat,                \* startingSequence
         steal : BOOLEAN]

\* A consumer goroutine and its record batcher.
Consumer == [state  : {"none", "consuming", "finished", "drained", "yielding"},
             iter   : Nat,           \* the record the shard iterator is at
             buffer : Seq(Nat),      \* pulled, not flushed: pending and batchPolicy
             flight : Seq([batch : Seq(Nat), done : BOOLEAN]),
                                     \* the checkpointer: tracked, not released
             unsent : BOOLEAN,       \* pendingMsg holds the last batch of flight
             top    : Nat,           \* the highest sequence the checkpointer released
             stores : SUBSET Nat,    \* released by an ackFn that has not stored it yet
             acked  : Nat]           \* ackedSequence

newConsumer(seq) ==
    [state |-> "consuming", iter |-> seq, buffer |-> <<>>, flight |-> <<>>,
     unsent |-> FALSE, top |-> NoSeq, stores |-> {}, acked |-> seq]

\* No consumer, or one whose goroutine has returned: acknowledgements that come
\* after that confirm deliveries, but their sequences are stored nowhere.
NoConsumer == [newConsumer(NoSeq) EXCEPT !.state = "none"]

\* Where the loop of a process begins: runExplicitShards has its claims from
\* the configuration, runBalancedShards looks for them.
Started(c) ==
    [pc |-> IF c \in ExplicitClients THEN "claim" ELSE "scan",
     todo |-> IF c \in ExplicitClients THEN Shards \X {NoClient} ELSE {},
     shard |-> {}, seq |-> NoSeq, steal |-> FALSE]

NoConsumers == [s \in Shards |-> [i \in Slots |-> NoConsumer]]

Init ==
    /\ closed = {}
    /\ row = [s \in Shards |-> Absent]
    /\ clientID = CHOOSE id \in [Clients -> 1 .. Cardinality(Clients)] :
                      \A c, d \in Clients : id[c] = id[d] => c = d
    /\ lastID = Cardinality(Clients)
    /\ stopping = {}
    /\ loop = [c \in Clients |-> Started(c)]
    /\ consumer = [c \in Clients |-> NoConsumers]
    /\ delivered = [s \in Shards |-> {}]
    /\ faults = 0

Fault == faults < MaxFaults /\ faults' = faults + 1

-----------------------------------------------------------------------------
(* The table: awsKinesisCheckpointer.                                      *)

\* Checkpoint: PutItem on the condition that the client still has the shard.
\* The item is replaced: an empty sequence removes the attribute, and a final
\* checkpoint removes the client.
Checkpointed(c, seq, final) ==
    [exists |-> TRUE, seq |-> seq, client |-> IF final THEN NoClient ELSE clientID[c],
     fresh |-> ~final]

Owns(c, s) == row[s].client = clientID[c]

FinalCheckpoint(c, s, seq) ==
    row' = IF Owns(c, s) THEN [row EXCEPT ![s] = Checkpointed(c, seq, TRUE)] ELSE row

\* Yield: an unconditional update of the sequence, or nothing when it is empty.
Yielded(s, seq) ==
    IF seq = NoSeq THEN row ELSE [row EXCEPT ![s].exists = TRUE, ![s].seq = seq]

\* A process is at work on a shard it owns: claiming it, or consuming it.
Alive(s) ==
    \E c \in Clients :
        /\ Owns(c, s)
        /\ loop[c].shard = {s} \/ \E i \in Slots : consumer[c][s][i] # NoConsumer

\* Time passes.  It is a fault when the client only is slow: a consumer renews
\* its lease in each commit_period, but not while it waits for room to track a
\* timed batch (input.go:664) or for the acknowledgements of a finished shard.
LeaseExpires(s) ==
    /\ row[s].client # NoClient
    /\ row[s].fresh
    /\ IF Alive(s) THEN Fault ELSE faults' = faults
    /\ row' = [row EXCEPT ![s].fresh = FALSE]
    /\ UNCHANGED <<closed, processVars, loop, consumer, delivered>>

\* The stream is resharded.
CloseShard(s) ==
    /\ s \in Resharded \ closed
    /\ closed' = closed \cup {s}
    /\ UNCHANGED <<row, processVars, loop, consumer, delivered, faults>>

-----------------------------------------------------------------------------
(* The rebalancing loop: runBalancedShards and runExplicitShards.          *)

ClaimsOf(id) == {s \in Shards : row[s].client = id}

\* Open shards that nobody holds and shards, open or not, of clients whose
\* lease ended too long ago, this client's own included.
Unclaimed ==
    {<<s, NoClient>> : s \in {x \in Shards \ closed : row[x].client = NoClient}}
    \cup {<<s, row[s].client>> : s \in {x \in Shards : row[x].client # NoClient /\ ~row[x].fresh}}

\* The other clients that hold at least two shards more than this one.
Victims(c) ==
    {id \in {row[s].client : s \in Shards} \ {NoClient, clientID[c]} :
        Cardinality(ClaimsOf(id)) > Cardinality(ClaimsOf(clientID[c])) + 1}

\* ListShards and AllClaims: the claims to try are decided here, and tried
\* later.  Without unclaimed shards, a random shard of every victim.
Scan(c) ==
    /\ loop[c].pc = "scan"
    /\ c \notin stopping
    /\ \/ /\ Unclaimed # {}
          /\ loop' = [loop EXCEPT ![c].pc = "claim", ![c].todo = Unclaimed, ![c].steal = FALSE]
       \/ /\ Unclaimed = {} /\ Victims(c) # {}
          /\ \E pick \in [Victims(c) -> Shards] :
                /\ \A id \in Victims(c) : pick[id] \in ClaimsOf(id)
                /\ loop' = [loop EXCEPT ![c].pc = "claim", ![c].steal = TRUE,
                                        ![c].todo = {<<pick[id], id>> : id \in Victims(c)}]
    /\ UNCHANGED <<tableVars, processVars, consumer, delivered, faults>>

\* Wrong on purpose: the shard of the last claim is not forgotten.
OnwardsWithShard(c, todo) ==
    [loop[c] EXCEPT !.todo = todo, !.seq = NoSeq,
                    !.pc = IF todo # {} THEN "claim" ELSE "scan"]

\* The loop after a claim that leaves it with todo.
Onwards(c, todo) ==
    [loop[c] EXCEPT !.todo = todo, !.shard = {}, !.seq = NoSeq,
                    !.pc = CASE todo # {} -> "claim"
                             [] c \in ExplicitClients -> "exit"
                             [] OTHER -> "scan"]

\* A failed claim: runExplicitShards tries it again a second later.
Failed(c, t) == Onwards(c, IF c \in ExplicitClients THEN loop[c].todo ELSE loop[c].todo \ {t})

\* The first half of Claim: the item gets its new owner if it still has the
\* client it is taken from, or none.
Claim(c, t) ==
    LET s == t[1]  from == t[2] IN
    /\ loop[c].pc = "claim"
    /\ c \notin stopping
    /\ t \in loop[c].todo
    /\ IF row[s].client = from
       THEN /\ row' = [row EXCEPT ![s] = Checkpointed(c, row[s].seq, FALSE)]
            /\ loop' = [loop EXCEPT
                  ![c].pc = IF from = NoClient THEN "start" ELSE "reread",
                  ![c].shard = {s},
                  ![c].seq = IF from = NoClient THEN row[s].seq ELSE NoSeq,
                  ![c].todo = loop[c].todo \ {t}]
       ELSE /\ c \notin ExplicitClients
            /\ loop' = [loop EXCEPT ![c] = Failed(c, t)]
            /\ row' = row
    /\ UNCHANGED <<closed, processVars, consumer, delivered, faults>>

\* The owner write fails for another reason, and may have been carried out.
ClaimFails(c, t) ==
    LET s == t[1]  from == t[2] IN
    /\ Fault
    /\ loop[c].pc = "claim"
    /\ c \notin stopping
    /\ t \in loop[c].todo
    /\ \/ row' = row
       \/ /\ row[s].client = from
          /\ row' = [row EXCEPT ![s] = Checkpointed(c, row[s].seq, FALSE)]
    /\ loop' = [loop EXCEPT ![c] = Failed(c, t)]
    /\ UNCHANGED <<closed, processVars, consumer, delivered>>

\* Wrong on purpose: an item without a sequence is as good as an empty one.
SequenceOptional(s) == TRUE

\* getCheckpoint succeeds: the item has a sequence number.
HasSequence(s) == row[s].seq # NoSeq

\* The second half, after the grace period: getCheckpoint fails for an item
\* without a sequence number, though the item already has its new owner.
Reread(c) ==
    /\ loop[c].pc = "reread"
    /\ c \notin stopping
    /\ \E s \in loop[c].shard :
          loop' = [loop EXCEPT ![c] =
              IF HasSequence(s)
              THEN [@ EXCEPT !.pc = "start", !.seq = row[s].seq]
              ELSE Onwards(c, loop[c].todo)]
    /\ UNCHANGED <<tableVars, processVars, consumer, delivered, faults>>

\* GetItem fails for another reason.
RereadFails(c) ==
    /\ Fault
    /\ loop[c].pc = "reread"
    /\ c \notin stopping
    /\ loop' = [loop EXCEPT ![c] = Onwards(c, loop[c].todo)]
    /\ UNCHANGED <<tableVars, processVars, consumer, delivered>>

\* runConsumer.  After a theft no other shard is stolen in the same round.
RunConsumer(c) ==
    /\ loop[c].pc = "start"
    /\ c \notin stopping
    /\ \E s \in loop[c].shard : \E i \in Slots :
          /\ consumer[c][s][i] = NoConsumer
          /\ \A j \in Slots : j < i => consumer[c][s][j] # NoConsumer
          /\ consumer' = [consumer EXCEPT ![c][s][i] = newConsumer(loop[c].seq)]
    /\ loop' = [loop EXCEPT ![c] = Onwards(c, IF loop[c].steal THEN {} ELSE loop[c].todo)]
    /\ UNCHANGED <<tableVars, processVars, delivered, faults>>

\* runConsumer fails before its goroutine starts, always when k.ctx is
\* cancelled: the shard is handed back with the sequence it was claimed with.
RunConsumerFails(c) ==
    /\ loop[c].pc = "start"
    /\ IF c \in stopping THEN faults' = faults ELSE Fault
    /\ \E s \in loop[c].shard :
          /\ FinalCheckpoint(c, s, loop[c].seq)
          /\ loop' = [loop EXCEPT ![c] = Onwards(c,
                loop[c].todo \cup (IF c \in ExplicitClients THEN {<<s, NoClient>>} ELSE {}))]
    /\ UNCHANGED <<closed, processVars, consumer, delivered>>

\* The loop sees the cancelled context; a claim in its grace period keeps the
\* item it has taken.
LoopExit(c) ==
    /\ c \in stopping
    /\ loop[c].pc \in {"scan", "claim", "reread"}
    /\ loop' = [loop EXCEPT ![c] = [pc |-> "exit", todo |-> {}, shard |-> {}, seq |-> NoSeq,
                                    steal |-> FALSE]]
    /\ UNCHANGED <<tableVars, processVars, consumer, delivered, faults>>

-----------------------------------------------------------------------------
(* A consumer: runConsumer and awsKinesisRecordBatcher.                    *)

Running(c, s, i) == consumer[c][s][i].state \in {"consuming", "finished"}

\* Wrong on purpose: the sequence up to which records were pulled.
GetPulledSequence(k) == k.iter

GetSequence(k) == k.acked

\* Consumer i of c on s becomes k; nothing else of the processes changes.
Become(c, s, i, k) ==
    /\ consumer' = [consumer EXCEPT ![c][s][i] = k]
    /\ UNCHANGED <<closed, processVars, loop>>

\* getRecords: some more records.  The end of a closed shard has no next
\* iterator, which ends the consumption.
Pull(c, s, i) ==
    LET k == consumer[c][s][i] IN
    /\ k.state = "consuming"
    /\ c \notin stopping
    /\ \E next \in k.iter .. NumRecords[s] :
          /\ next > k.iter \/ s \in closed
          /\ Become(c, s, i,
                [k EXCEPT !.iter = next,
                          !.buffer = @ \o [j \in 1 .. next - k.iter |-> k.iter + j],
                          !.state = IF s \in closed /\ next = NumRecords[s]
                                    THEN "finished" ELSE @])
    /\ UNCHANGED <<row, delivered, faults>>

\* ExpiredIteratorException: the new iterator starts after the acknowledged
\* sequence, or at the oldest record while there is none.
RefreshIterator(c, s, i) ==
    LET k == consumer[c][s][i] IN
    /\ k.state = "consuming"
    /\ c \notin stopping
    /\ Fault
    /\ Become(c, s, i, [k EXCEPT !.iter = GetSequence(k)])
    /\ UNCHANGED <<row, delivered>>

\* The records the checkpointer counts against its limit.
InFlight(k) == MapThenSumSet(LAMBDA j : Len(k.flight[j].batch), DOMAIN k.flight)

\* Capped.Track would wait for room for n records.
TrackBlocks(k, n) == InFlight(k) > 0 /\ InFlight(k) + n > CheckpointLimit

\* FlushMessage: the batch policy decides how much is flushed.
FlushMessage(c, s, i) ==
    LET k == consumer[c][s][i] IN
    /\ Running(c, s, i)
    /\ ~k.unsent
    /\ \E n \in 1 .. Len(k.buffer) :
          /\ ~TrackBlocks(k, n)
          /\ Become(c, s, i,
                [k EXCEPT !.flight = Append(@, [batch |-> SubSeq(k.buffer, 1, n), done |-> FALSE]),
                          !.buffer = SubSeq(@, n + 1, Len(@)),
                          !.unsent = TRUE])
    /\ UNCHANGED <<row, delivered, faults>>

\* ReadBatch takes the message from msgChan.
Send(c, s, i) ==
    LET k == consumer[c][s][i] IN
    /\ Running(c, s, i)
    /\ k.unsent
    /\ Become(c, s, i, [k EXCEPT !.unsent = FALSE])
    /\ UNCHANGED <<row, delivered, faults>>

\* The checkpointer releases the batches before the first unresolved one.
Releasable(flight) ==
    {m \in DOMAIN flight : \A j \in 1 .. m : flight[j].done}

LastOf(batch) == batch[Len(batch)]

\* The first half of an ackFn: the batch is resolved, and the highest released
\* sequence read, new or not.
Resolve(c, s, i, j) ==
    LET k == consumer[c][s][i]
        flight == [k.flight EXCEPT ![j].done = TRUE]
        m == Max(Releasable(flight) \cup {0})
        top == IF m = 0 THEN k.top ELSE LastOf(flight[m].batch)
    IN  /\ ~k.flight[j].done
        /\ ~(k.unsent /\ j = Len(k.flight))
        /\ Become(c, s, i,
              [k EXCEPT !.flight = SubSeq(flight, m + 1, Len(flight)),
                        !.top = top,
                        !.stores = @ \cup ({top} \ {NoSeq})])
        /\ delivered' = [delivered EXCEPT ![s] = @ \cup {k.flight[j].batch[x] : x \in DOMAIN k.flight[j].batch}]
        /\ UNCHANGED <<row, faults>>

\* The second half: the sequence is stored, in whatever order the locks are had.
StoreAcked(c, s, i, top) ==
    LET k == consumer[c][s][i] IN
    /\ top \in k.stores
    /\ Become(c, s, i, [k EXCEPT !.acked = top, !.stores = @ \ {top}])
    /\ UNCHANGED <<row, delivered, faults>>

\* The commit timer: Checkpoint, which also renews the lease, or finds the
\* shard taken.
Commit(c, s, i) ==
    LET k == consumer[c][s][i] IN
    /\ Running(c, s, i)
    /\ c \notin stopping
    /\ IF Owns(c, s)
       THEN /\ row' = [row EXCEPT ![s] = Checkpointed(c, GetSequence(k), FALSE)]
            /\ Become(c, s, i, k)
       ELSE /\ row' = row
            /\ Become(c, s, i, [k EXCEPT !.state = "yielding"])
    /\ UNCHANGED <<delivered, faults>>

\* The goroutine of a finished consumer returns with nothing left to flush.
\* With k.ctx cancelled a flush that had to wait also returns nothing.
FinishedReturn(c, s, i) ==
    LET k == consumer[c][s][i] IN
    /\ k.state = "finished"
    /\ ~k.unsent
    /\ k.buffer = <<>> \/ (c \in stopping /\ TrackBlocks(k, Len(k.buffer)))
    /\ Become(c, s, i, [k EXCEPT !.state = "drained"])
    /\ UNCHANGED <<row, delivered, faults>>

\* What the deferred function of a consumer's goroutine leaves behind: a
\* cancelled k.ctx, or a fault, makes the call fail.
CallFails(c) == IF c \in stopping THEN faults' = faults ELSE Fault

\* Wrong on purpose: the batcher of a finished shard is closed at once.
ClosesAtOnce(k) == TRUE

\* Close(blocked) of the batcher of a finished shard returns when ackedWG is at
\* zero: every tracked batch is resolved and its ackFn has returned.
AllAcked(k) == k.flight = <<>> /\ k.stores = {}

\* Finished: the item is deleted once everything is acknowledged.
Delete(c, s, i) ==
    LET k == consumer[c][s][i] IN
    /\ k.state = "drained"
    /\ AllAcked(k)
    /\ \/ c \notin stopping /\ row' = [row EXCEPT ![s] = Absent] /\ faults' = faults
       \/ CallFails(c) /\ row' = row
    /\ Become(c, s, i, NoConsumer)
    /\ UNCHANGED delivered

Yield(c, s, i) ==
    LET k == consumer[c][s][i] IN
    /\ k.state = "yielding"
    /\ \/ c \notin stopping /\ row' = Yielded(s, GetSequence(k)) /\ faults' = faults
       \/ CallFails(c) /\ row' = row
    /\ Become(c, s, i, NoConsumer)
    /\ UNCHANGED delivered

\* Closing: the final checkpoint does not depend on k.ctx.
CloseConsumer(c, s, i) ==
    /\ c \in stopping
    /\ Running(c, s, i)
    /\ \/ FinalCheckpoint(c, s, GetSequence(consumer[c][s][i])) /\ faults' = faults
       \/ Fault /\ row' = row
    /\ Become(c, s, i, NoConsumer)
    /\ UNCHANGED delivered

-----------------------------------------------------------------------------
(* Processes.                                                              *)

Close(c) ==
    /\ Fault
    /\ c \notin stopping
    /\ stopping' = stopping \cup {c}
    /\ UNCHANGED <<tableVars, clientID, lastID, loop, consumer, delivered>>

\* A new process, with a new identifier, in the place of the old one.
NewProcess(c) ==
    /\ lastID' = lastID + 1
    /\ clientID' = [clientID EXCEPT ![c] = lastID + 1]
    /\ stopping' = stopping \ {c}
    /\ loop' = [loop EXCEPT ![c] = Started(c)]
    /\ consumer' = [consumer EXCEPT ![c] = NoConsumers]
    /\ UNCHANGED <<tableVars, delivered>>

\* A closed process, all of whose goroutines have returned, is started again.
Restart(c) ==
    /\ c \in stopping
    /\ loop[c].pc = "exit"
    /\ consumer[c] = NoConsumers
    /\ NewProcess(c)
    /\ UNCHANGED faults

Crash(c) == Fault /\ NewProcess(c)

-----------------------------------------------------------------------------

LoopStep(c) ==
    \/ Scan(c)
    \/ \E t \in loop[c].todo : Claim(c, t) \/ ClaimFails(c, t)
    \/ Reread(c)
    \/ RereadFails(c)
    \/ RunConsumer(c)
    \/ RunConsumerFails(c)
    \/ LoopExit(c)

ConsumerStep(c, s, i) ==
    \/ Pull(c, s, i)
    \/ FlushMessage(c, s, i)
    \/ Send(c, s, i)
    \/ FinishedReturn(c, s, i)
    \/ Delete(c, s, i)
    \/ Yield(c, s, i)
    \/ CloseConsumer(c, s, i)

PipelineStep(c, s, i) ==
    \/ \E j \in DOMAIN consumer[c][s][i].flight : Resolve(c, s, i, j)
    \/ \E top \in consumer[c][s][i].stores : StoreAcked(c, s, i, top)

ProcessStep(c) == Close(c) \/ Restart(c) \/ Crash(c)

StreamStep(s) == LeaseExpires(s) \/ CloseShard(s)

Next ==
    \/ \E c \in Clients :
          \/ LoopStep(c)
          \/ \E s \in Shards, i \in Slots :
                \/ ConsumerStep(c, s, i)
                \/ Commit(c, s, i)
                \/ RefreshIterator(c, s, i)
                \/ PipelineStep(c, s, i)
          \/ ProcessStep(c)
    \/ \E s \in Shards : StreamStep(s)

Spec == Init /\ [][Next]_vars

\* The loops look at the stream again and again, a consumer's goroutine is
\* never done before its shard is, the pipeline reads and acknowledges (nacks
\* are retried), a lease that nobody renews runs out, and a process that was
\* closed is started again.  Crashes, closes, slow clients, failing calls,
\* expired iterators and reshardings are never promised.
Fairness ==
    /\ \A c \in Clients :
          /\ WF_vars(LoopStep(c))
          /\ WF_vars(Restart(c))
          /\ \A s \in Shards, i \in Slots :
                /\ WF_vars(ConsumerStep(c, s, i))
                /\ WF_vars(Commit(c, s, i))
                /\ WF_vars(PipelineStep(c, s, i))
    /\ \A s \in Shards : WF_vars(~Alive(s) /\ LeaseExpires(s))

FairSpec == Spec /\ Fairness

-----------------------------------------------------------------------------
(* Properties.                                                             *)

TypeOK ==
    /\ closed \subseteq Shards
    /\ row \in [Shards -> Row]
    /\ clientID \in [Clients -> Nat] /\ lastID \in Nat
    /\ stopping \subseteq Clients
    /\ DOMAIN loop = Clients
    /\ \A c \in Clients :
          /\ loop[c].pc \in {"scan", "claim", "reread", "start", "exit"}
          /\ loop[c].todo \subseteq Shards \X Nat
          /\ loop[c].shard \subseteq Shards
          /\ loop[c].shard # {} <=> loop[c].pc \in {"reread", "start"}
    /\ \A c \in Clients, s \in Shards, i \in Slots :
          consumer[c][s][i] \in Consumer
    /\ delivered \in [Shards -> SUBSET Nat]
    /\ faults \in 0 .. MaxFaults

\* "Redpanda Connect will not store a consumed sequence unless it is
\* acknowledged at the output level, which ensures at-least-once delivery
\* guarantees": whoever claims the shard next starts behind no undelivered record.
AtLeastOnce ==
    \A s \in Shards : 1 .. row[s].seq \subseteq delivered[s]

Stream == INSTANCE AtLeastOnceInput
             WITH Sources <- Shards,
                  Length <- NumRecords,
                  Rewinds <- TRUE,
                  resume <- [s \in Shards |-> row[s].seq],
                  confirmed <- delivered

\* Any run of the processes on a stream, with its thefts, expired leases, late
\* yields, crashes and failed calls, is a run of an input whose stored position
\* is always one up to which everything is confirmed, though it may go back.
ImplementsInput == Stream!Spec

\* A claimed shard's item disappears only when every record of the shard is
\* delivered: nobody claims a closed shard without an item again.
DeletedWhenDelivered ==
    [][\A s \in Shards : row[s].exists /\ ~row'[s].exists => Records(s) \subseteq delivered[s]]_vars

\* Once a sequence is stored the item keeps one, although every checkpoint
\* replaces the item and the consumer may have nothing to put into it.
SequenceKept ==
    [][\A s \in Shards :
          row[s].seq # NoSeq /\ row'[s].seq = NoSeq => Records(s) \subseteq delivered[s]]_vars

\* lease_period: a client that "has failed to update a shard checkpoint is
\* assumed to be inactive", and another one takes over from the stored sequence
\* "during restarts": every record of every shard is delivered in the end.
EventuallyConsumed ==
    \A s \in Shards : <>(Records(s) \subseteq delivered[s])
=============================================================================
