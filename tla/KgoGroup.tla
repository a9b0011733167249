------------------------------ MODULE KgoGroup ------------------------------
(***************************************************************************)
(* What the two Kafka readers (franz_reader_ordered.go and                 *)
(* franz_reader_unordered.go) use of franz-go and of the group coordinator. *)
(* Neither is part of this repository: the model is taken from the calls   *)
(* the readers make and from what their comments say of them               *)
(* (franz_reader_ordered.go, lines 296-303 and 322-330).                   *)
(*                                                                         *)
(* A consumer group reads Partitions.  Every partition holds the records   *)
(* 0 .. NumRecords-1.  The coordinator keeps the owner and the committed   *)
(* offset of a partition (the offset at which the next owner starts); a    *)
(* client keeps the partitions it believes it owns, its fetch position and *)
(* its uncommitted map, which MarkCommitRecords advances and autocommit    *)
(* sends.                                                                  *)
(***************************************************************************)
EXTENDS Integers, FiniteSets

CONSTANTS
    Clients,        \* processes of the consumer group
    Partitions,     \* partitions of the subscribed topic
    NumRecords,     \* records in every partition
    MaxDisruptions, \* bound: evictions, revocations, closes and crashes, together
    RebalanceInPollWindow  \* may a partition be taken away while the poll loop
                           \* holds records of it that it has not filed yet?

ASSUME NumRecordsAssumption == NumRecords \in Nat
ASSUME DisruptionsAssumption == MaxDisruptions \in Nat
ASSUME WindowAssumption == RebalanceInPollWindow \in BOOLEAN
ASSUME NoClientAssumption == "none" \notin Clients

Offsets == 0 .. (NumRecords - 1)
Positions == 0 .. NumRecords
NoClient == "none"
NoMark == -1

VARIABLES
    \* the coordinator
    owner,        \* [Partitions -> Clients \cup {NoClient}]
    committed,    \* [Partitions -> Positions]
    fenced,       \* clients the coordinator threw out and that do not know it yet
    \* the kgo client of each process
    assigned,     \* [Clients -> SUBSET Partitions]
    position,     \* [Clients -> [Partitions -> Positions]]: next offset to fetch
    head,         \* [Clients -> [Partitions -> Positions \cup {NoMark}]]: uncommitted
    sent,         \* what the client last committed, or found committed
    callback,     \* the rebalance callback the client is running
    \* the rest of the world
    delivered,    \* history: records whose delivery an output confirmed
    disruptions   \* number of evictions, revocations, closes and crashes so far

groupVars == <<owner, committed, fenced, assigned, position, head, sent,
               callback, delivered, disruptions>>

Idle == [stage |-> "none", parts |-> {}]

GroupTypeOK ==
    /\ owner \in [Partitions -> Clients \cup {NoClient}]
    /\ committed \in [Partitions -> Positions]
    /\ fenced \in SUBSET Clients
    /\ assigned \in [Clients -> SUBSET Partitions]
    /\ position \in [Clients -> [Partitions -> Positions]]
    /\ head \in [Clients -> [Partitions -> Positions \cup {NoMark}]]
    /\ sent \in [Clients -> [Partitions -> Positions \cup {NoMark}]]
    /\ callback \in [Clients -> [stage : {"none", "remove", "clean"},
                                 parts : SUBSET Partitions]]
    /\ delivered \in [Partitions -> SUBSET Offsets]
    /\ disruptions \in 0 .. MaxDisruptions

GroupInit ==
    /\ owner = [p \in Partitions |-> NoClient]
    /\ committed = [p \in Partitions |-> 0]
    /\ fenced = {}
    /\ assigned = [c \in Clients |-> {}]
    /\ position = [c \in Clients |-> [p \in Partitions |-> 0]]
    /\ head = [c \in Clients |-> [p \in Partitions |-> NoMark]]
    /\ sent = [c \in Clients |-> [p \in Partitions |-> NoMark]]
    /\ callback = [c \in Clients |-> Idle]
    /\ delivered = [p \in Partitions |-> {}]
    /\ disruptions = 0

-----------------------------------------------------------------------------
(* The kgo client's side of a commit.                                      *)

\* Client.MarkCommitRecords: the uncommitted head of the record's partition
\* only moves forward, and an entry is created when there is none.
MarkCommitRecords(c, p, offset) ==
    head' = [head EXCEPT ![c][p] = IF @ < offset + 1 THEN offset + 1 ELSE @]

\* The partitions for which a commit of client c has something to send.
Dirty(c) == {p \in Partitions : head[c][p] # NoMark /\ head[c][p] # sent[c][p]}

\* The effect of a commit of c's marked offsets.  The coordinator takes the
\* offsets of any member it has not fenced, whoever owns the partition.
CommitMarkedOffsets(c) ==
    IF c \in fenced
    THEN UNCHANGED <<committed, sent>>
    ELSE /\ committed' = [p \in Partitions |->
                            IF p \in Dirty(c) THEN head[c][p] ELSE committed[p]]
         /\ sent' = [sent EXCEPT ![c] = [p \in Partitions |->
                            IF p \in Dirty(c) THEN head[c][p] ELSE sent[c][p]]]

\* kgo.AutoCommitInterval: the client's own goroutine commits periodically.
AutoCommit(c) ==
    /\ c \notin fenced
    /\ Dirty(c) # {}
    /\ CommitMarkedOffsets(c)
    /\ UNCHANGED <<owner, fenced, assigned, position, head, callback, delivered,
                   disruptions>>

-----------------------------------------------------------------------------
(* Assignment and revocation.  The reader's part of every callback is in   *)
(* the reader's module; kgo runs the callbacks of a client one at a time.  *)

\* The coordinator gives an unowned partition to a member, which starts at
\* the committed offset.
AssignPartition(c, p) ==
    /\ owner[p] = NoClient
    /\ c \notin fenced
    /\ callback[c] = Idle
    /\ p \notin assigned[c]
    /\ owner' = [owner EXCEPT ![p] = c]
    /\ assigned' = [assigned EXCEPT ![c] = @ \cup {p}]
    /\ position' = [position EXCEPT ![c][p] = committed[p]]
    /\ head' = [head EXCEPT ![c][p] = committed[p]]
    /\ sent' = [sent EXCEPT ![c][p] = committed[p]]
    /\ UNCHANGED <<committed, fenced, callback, delivered, disruptions>>

\* The coordinator throws a client out of the group (a missed session
\* timeout): its partitions are free before the client learns of it.
Evict(c) ==
    /\ disruptions < MaxDisruptions
    /\ c \notin fenced
    /\ assigned[c] # {}
    /\ callback[c] = Idle
    /\ disruptions' = disruptions + 1
    /\ fenced' = fenced \cup {c}
    /\ owner' = [p \in Partitions |-> IF owner[p] = c THEN NoClient ELSE owner[p]]
    /\ UNCHANGED <<committed, assigned, position, head, sent, callback, delivered>>

\* kgo stops fetching the partitions and enters OnPartitionsRevoked, whose
\* first statement is CommitMarkedOffsets; a commit error is only logged.
OnPartitionsRevoked(c, parts) ==
    /\ callback[c] = Idle
    /\ c \notin fenced
    /\ parts # {} /\ parts \subseteq assigned[c]
    /\ callback' = [callback EXCEPT ![c] = [stage |-> "remove", parts |-> parts]]
    /\ \/ CommitMarkedOffsets(c)
       \/ UNCHANGED <<committed, sent>>
    /\ UNCHANGED <<owner, fenced, assigned, position, head, delivered>>

\* kgo enters OnPartitionsLost: nothing is committed.
OnPartitionsLost(c) ==
    /\ callback[c] = Idle
    /\ c \in fenced
    /\ callback' = [callback EXCEPT ![c] = [stage |-> "remove", parts |-> assigned[c]]]
    /\ UNCHANGED <<owner, committed, fenced, assigned, position, head, sent,
                   delivered, disruptions>>

\* The callback has returned: kgo drops the partitions from its uncommitted
\* map and lets the group continue without them.
CallbackReturned(c) ==
    /\ callback[c].stage = "clean"
    /\ LET parts == callback[c].parts IN
       /\ head' = [head EXCEPT ![c] = [p \in Partitions |->
                        IF p \in parts THEN NoMark ELSE @[p]]]
       /\ sent' = [sent EXCEPT ![c] = [p \in Partitions |->
                        IF p \in parts THEN NoMark ELSE @[p]]]
       /\ assigned' = [assigned EXCEPT ![c] = @ \ parts]
       /\ owner' = [p \in Partitions |->
                        IF p \in parts /\ owner[p] = c THEN NoClient ELSE owner[p]]
       /\ position' = [position EXCEPT ![c] = [p \in Partitions |->
                        IF p \in parts THEN 0 ELSE @[p]]]
    /\ fenced' = fenced \ {c}
    /\ callback' = [callback EXCEPT ![c] = Idle]
    /\ UNCHANGED <<committed, delivered, disruptions>>

\* The process is gone, and with it everything its client held; the
\* coordinator frees its partitions.
ProcessGone(c) ==
    /\ owner' = [p \in Partitions |-> IF owner[p] = c THEN NoClient ELSE owner[p]]
    /\ fenced' = fenced \ {c}
    /\ assigned' = [assigned EXCEPT ![c] = {}]
    /\ head' = [head EXCEPT ![c] = [p \in Partitions |-> NoMark]]
    /\ sent' = [sent EXCEPT ![c] = [p \in Partitions |-> NoMark]]
    /\ position' = [position EXCEPT ![c] = [p \in Partitions |-> 0]]
    /\ callback' = [callback EXCEPT ![c] = Idle]
    /\ UNCHANGED <<committed, delivered>>

-----------------------------------------------------------------------------
(* Properties of any reader on top of this client.                         *)

\* Every record below an offset.
Below(offset) == {r \in Offsets : r < offset}

\* At-least-once delivery: the offset at which the group would resume never
\* lies behind a record whose delivery no output has confirmed ("the offset
\* is only allowed to be committed when all messages of prior offsets have
\* also been delivered", the readers' checkpointing and commit callbacks).
AtLeastOnce ==
    \A p \in Partitions : Below(committed[p]) \subseteq delivered[p]

\* The records of a partition numbered from 1, as AtLeastOnceInput does.
Group == INSTANCE AtLeastOnceInput
            WITH Sources <- Partitions,
                 Length <- [p \in Partitions |-> NumRecords],
                 Rewinds <- FALSE,
                 resume <- committed,
                 confirmed <- [p \in Partitions |-> {r + 1 : r \in delivered[p]}]

\* Any run of the group, with its rebalances, evictions, crashes and failed
\* commits, is a run of an input that moves one position per partition forward
\* over confirmed records: what a reader marks and kgo commits in between is
\* invisible to the group.
ImplementsInput == Group!Spec

\* No offset outlives a revoke: outside the callback that takes a partition
\* away, a client holds marked offsets only for partitions it believes it
\* owns (the claim of markRevoked's comment).
MarksOnlyOwned ==
    \A c \in Clients : \A p \in Partitions :
        head[c][p] # NoMark => p \in assigned[c]
=============================================================================
