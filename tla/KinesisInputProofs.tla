------------------------- MODULE KinesisInputProofs -------------------------
(***************************************************************************)
(* Theorems about KinesisInput, for any finite set of processes, any       *)
(* shards, records and limits and any number of faults.                    *)
(***************************************************************************)
EXTENDS KinesisInput, FiniteSetTheorems, SequenceTheorems, TLAPS

\* A loop has a shard in its hands exactly while it rereads its item or starts
\* its consumer, and then just one.
LoopOK(l) ==
    /\ l.shard # {} <=> l.pc \in {"reread", "start"}
    /\ \A s, z \in l.shard : s = z

\* The inductive invariant behind TypeOK.
TypeInv ==
    /\ closed \subseteq Shards
    /\ row \in [Shards -> Row]
    /\ clientID \in [Clients -> Nat \ {NoClient}] /\ lastID \in Nat
    /\ stopping \subseteq Clients
    /\ loop \in [Clients -> Loop] /\ \A c \in Clients : LoopOK(loop[c])
    /\ consumer \in [Clients -> [Shards -> [Slots -> Consumer]]]
    /\ delivered \in [Shards -> SUBSET Nat]
    /\ faults \in 0 .. MaxFaults

-----------------------------------------------------------------------------
(* What a consumer has in its hands: nothing is skipped.                   *)

\* Everything up to record n of a shard is in D.
Covered(n, D) == 1 .. n \subseteq D

RecordsOf(batch) == {batch[x] : x \in DOMAIN batch}

\* The records of the first m batches in flight.
Tracked(flight, m) == UNION {RecordsOf(flight[j].batch) : j \in 1 .. m}

\* The first x records of a buffer.
Buffered(buffer, x) == {buffer[y] : y \in 1 .. x}

\* Batches in flight are not empty and hold records of the shard; a resolved
\* one is delivered, and whatever precedes the last record of a batch is
\* delivered or in a batch that is not released later.
FlightSound(flight, s, D) ==
    \A j \in 1 .. Len(flight) :
        /\ flight[j].batch \in Seq(Records(s)) /\ flight[j].batch # <<>>
        /\ flight[j].done => RecordsOf(flight[j].batch) \subseteq D
        /\ Covered(LastOf(flight[j].batch), D \cup Tracked(flight, j))

\* A record in the buffer has everything before it delivered, in flight or
\* ahead of it in the buffer.
BufferSound(buffer, flight, s, D) ==
    /\ buffer \in Seq(Records(s))
    /\ \A x \in 1 .. Len(buffer) :
          Covered(buffer[x], D \cup Tracked(flight, Len(flight)) \cup Buffered(buffer, x))

\* Consumer k of shard s, of whose records D are delivered: what it may store
\* is delivered up to there, and it has not pulled past anything that is not
\* delivered, in flight or in its buffer.
Sound(k, s, D) ==
    /\ k.iter <= NumRecords[s]
    /\ Covered(k.acked, D)
    /\ Covered(k.top, D)
    /\ \A t \in k.stores : Covered(t, D) /\ t # NoSeq
    /\ FlightSound(k.flight, s, D)
    /\ BufferSound(k.buffer, k.flight, s, D)
    /\ Covered(k.iter, D \cup Tracked(k.flight, Len(k.flight))
                         \cup Buffered(k.buffer, Len(k.buffer)))

\* A finished consumer has pulled its shard to the end, and has flushed it
\* before its item is deleted unless its process is one of those that close.
Ended(c, s, k, closing) ==
    /\ k.state \in {"finished", "drained"} => k.iter = NumRecords[s]
    /\ k.state = "drained" => k.buffer = <<>> \/ c \in closing

\* The inductive invariant behind AtLeastOnce: AtLeastOnce itself, the same for
\* the sequence a loop has claimed a shard with, and sound consumers.
DeliveryInv ==
    /\ AtLeastOnce
    /\ \A s \in Shards : delivered[s] \subseteq Records(s)
    /\ \A c \in Clients : \A s \in loop[c].shard : Covered(loop[c].seq, delivered[s])
    /\ \A c \in Clients, s \in Shards, i \in Slots :
          /\ Sound(consumer[c][s][i], s, delivered[s])
          /\ Ended(c, s, consumer[c][s][i], stopping)

-----------------------------------------------------------------------------
(* Who may put an empty sequence into an item.                             *)

\* Slot 0 stands for the loop of c, once it has claimed s.
Holds(c, s, i) ==
    IF i = 0 THEN loop[c].pc = "start" /\ s \in loop[c].shard
             ELSE consumer[c][s][i] # NoConsumer

HeldSeq(c, s, i) == IF i = 0 THEN loop[c].seq ELSE consumer[c][s][i].acked

Holders == 0 .. MaxConsumers

\* At most one loop or consumer holds s.
SingleHolder(s) ==
    \A c, d \in Clients, i, j \in Holders :
        Holds(c, s, i) /\ Holds(d, s, j) => c = d /\ i = j

\* Unless the shard is delivered: while its item has no sequence at most one
\* holder can give it one, and none while the item has no client; once it has a
\* sequence, every holder has one.
SequenceSafe(s) ==
    \/ Records(s) \subseteq delivered[s]
    \/ /\ row[s].seq # NoSeq
       /\ \A c \in Clients, i \in Holders : Holds(c, s, i) => HeldSeq(c, s, i) # NoSeq
    \/ /\ row[s].seq = NoSeq
       /\ SingleHolder(s)
       /\ row[s].client = NoClient => \A c \in Clients, i \in Holders : ~Holds(c, s, i)

SequenceInv == \A s \in Shards : SequenceSafe(s)

USE KinesisAssumption DEF NoSeq, NoClient, Slots

-----------------------------------------------------------------------------
(* Types.                                                                  *)

\* A new consumer is a consumer, and so is none.
LEMMA NewConsumerType ==
    /\ \A seq \in Nat : newConsumer(seq) \in Consumer
    /\ NoConsumer \in Consumer
    /\ \A seq \in Nat : newConsumer(seq) # NoConsumer
    /\ NoConsumer.state = "none" /\ NoConsumer.iter = 0 /\ NoConsumer.buffer = <<>>
    /\ NoConsumer.flight = <<>> /\ NoConsumer.top = 0 /\ NoConsumer.stores = {}
    /\ NoConsumer.acked = 0
  <1>1. ASSUME NEW seq \in Nat PROVE newConsumer(seq) \in Consumer
    BY DEF newConsumer, Consumer
  <1>2. NoConsumer \in Consumer
    <2>1. PICK k \in Consumer : k = newConsumer(NoSeq)
      BY <1>1
    <2>2. [k EXCEPT !.state = "none"] \in Consumer
      BY DEF Consumer
    <2> QED BY <2>1, <2>2 DEF NoConsumer
  <1>3. /\ NoConsumer.state = "none" /\ NoConsumer.iter = 0 /\ NoConsumer.buffer = <<>>
        /\ NoConsumer.flight = <<>> /\ NoConsumer.top = 0 /\ NoConsumer.stores = {}
        /\ NoConsumer.acked = 0
    BY DEF newConsumer, NoConsumer
  <1>4. \A seq \in Nat : newConsumer(seq).state = "consuming"
    BY DEF newConsumer
  <1> QED BY <1>1, <1>2, <1>3, <1>4

\* A fresh process has no consumers and a loop at its start.
LEMMA FreshType ==
    /\ NoConsumers \in [Shards -> [Slots -> Consumer]]
    /\ \A s \in Shards, i \in Slots : NoConsumers[s][i] = NoConsumer
    /\ \A c : Started(c) \in Loop /\ Started(c).shard = {} /\ Started(c).pc \in {"scan", "claim"}
  <1>1. /\ NoConsumers \in [Shards -> [Slots -> Consumer]]
        /\ \A s \in Shards, i \in Slots : NoConsumers[s][i] = NoConsumer
    BY NewConsumerType DEF NoConsumers
  <1>2. ASSUME NEW c
        PROVE  Started(c) \in Loop /\ Started(c).shard = {} /\ Started(c).pc \in {"scan", "claim"}
    BY DEF Started, Loop
  <1> QED BY <1>1, <1>2

\* The processes draw identifiers of their own at the start.
LEMMA InitialIDs ==
    ASSUME NEW ids,
           ids = CHOOSE id \in [Clients -> 1 .. Cardinality(Clients)] :
                     \A c, d \in Clients : id[c] = id[d] => c = d
    PROVE  ids \in [Clients -> 1 .. Cardinality(Clients)]
  <1>1. Cardinality(Clients) \in Nat /\ ExistsBijection(1 .. Cardinality(Clients), Clients)
    BY FS_CardinalityType
  <1>2. PICK f \in Bijection(1 .. Cardinality(Clients), Clients) : TRUE
    BY <1>1 DEF ExistsBijection
  <1>3. /\ f \in [1 .. Cardinality(Clients) -> Clients]
        /\ \A c \in Clients : \E n \in 1 .. Cardinality(Clients) : f[n] = c
    BY <1>2 DEF Bijection, Injection, Surjection
  <1> DEFINE id == [c \in Clients |-> CHOOSE n \in 1 .. Cardinality(Clients) : f[n] = c]
  <1>4. \A c \in Clients : id[c] \in 1 .. Cardinality(Clients) /\ f[id[c]] = c
    BY <1>3
  <1>5. id \in [Clients -> 1 .. Cardinality(Clients)]
        /\ \A c, d \in Clients : id[c] = id[d] => c = d
    BY <1>4
  <1> HIDE DEF id
  <1> QED BY <1>5

\* The inductive invariant is as strong as TypeOK.
LEMMA TypeInvTypeOK == TypeInv => TypeOK
  <1> SUFFICES ASSUME TypeInv PROVE TypeOK
    OBVIOUS
  <1>1. DOMAIN loop = Clients
    BY DEF TypeInv
  <1>2. ASSUME NEW c \in Clients
        PROVE  /\ loop[c].pc \in {"scan", "claim", "reread", "start", "exit"}
               /\ loop[c].todo \subseteq Shards \X Nat
               /\ loop[c].shard \subseteq Shards
               /\ loop[c].shard # {} <=> loop[c].pc \in {"reread", "start"}
    BY DEF TypeInv, Loop, LoopOK
  <1>3. \A c \in Clients, s \in Shards, i \in Slots : consumer[c][s][i] \in Consumer
    BY DEF TypeInv
  <1>4. clientID \in [Clients -> Nat]
    BY DEF TypeInv
  <1> QED BY <1>1, <1>2, <1>3, <1>4 DEF TypeInv, TypeOK

\* Every process starts well-typed.
LEMMA TypeInit == Init => TypeInv
  <1> SUFFICES ASSUME Init PROVE TypeInv
    OBVIOUS
  <1>1. Cardinality(Clients) \in Nat
    BY FS_CardinalityType
  <1>2. clientID \in [Clients -> 1 .. Cardinality(Clients)]
    BY InitialIDs DEF Init
  <1>3. clientID \in [Clients -> Nat \ {0}]
    BY <1>1, <1>2
  <1>4. row \in [Shards -> Row]
    BY DEF Init, Row, Absent
  <1>5. loop \in [Clients -> Loop] /\ \A c \in Clients : LoopOK(loop[c])
    BY FreshType DEF Init, LoopOK
  <1>6. consumer \in [Clients -> [Shards -> [Slots -> Consumer]]]
    BY FreshType DEF Init
  <1>7. faults \in 0 .. MaxFaults
    BY DEF Init
  <1>8. delivered \in [Shards -> SUBSET Nat]
    BY DEF Init
  <1> QED BY <1>1, <1>3, <1>4, <1>5, <1>6, <1>7, <1>8 DEF Init, TypeInv

\* Consumer i of c on s becomes k, and every other one is as it was.
ConsumerBecomes(c, s, i, k) ==
    /\ consumer' \in [Clients -> [Shards -> [Slots -> Consumer]]]
    /\ consumer'[c][s][i] = k
    /\ \A d \in Clients, z \in Shards, j \in Slots :
          d # c \/ z # s \/ j # i => consumer'[d][z][j] = consumer[d][z][j]

\* A step replaces one consumer of one process.
LEMMA ConsumerUpdate ==
    ASSUME TypeInv, NEW c \in Clients, NEW s \in Shards, NEW i \in Slots, NEW k \in Consumer,
           consumer' = [consumer EXCEPT ![c][s][i] = k]
    PROVE  ConsumerBecomes(c, s, i, k)
  BY DEF TypeInv, ConsumerBecomes

\* A step replaces the loop of one process.
LEMMA LoopUpdate ==
    ASSUME TypeInv, NEW c \in Clients, NEW l \in Loop, LoopOK(l),
           loop' = [loop EXCEPT ![c] = l]
    PROVE  /\ loop' \in [Clients -> Loop]
           /\ \A d \in Clients : LoopOK(loop'[d])
           /\ loop'[c] = l
           /\ \A d \in Clients : d # c => loop'[d] = loop[d]
  BY DEF TypeInv

\* A step replaces one item of the table.
LEMMA RowUpdate ==
    ASSUME TypeInv, NEW s \in Shards, NEW r \in Row, row' = [row EXCEPT ![s] = r]
    PROVE  /\ row' \in [Shards -> Row]
           /\ row'[s] = r
           /\ \A z \in Shards : z # s => row'[z] = row[z]
  BY DEF TypeInv

\* What a checkpoint puts into an item.
LEMMA CheckpointedType ==
    ASSUME TypeInv, NEW c \in Clients, NEW seq \in Nat, NEW final \in BOOLEAN
    PROVE  /\ Checkpointed(c, seq, final) \in Row
           /\ Checkpointed(c, seq, final).seq = seq
           /\ Checkpointed(c, seq, final).exists
           /\ Checkpointed(c, seq, final).client = IF final THEN NoClient ELSE clientID[c]
  BY DEF TypeInv, Checkpointed, Row

\* A final checkpoint either finds another owner or hands the shard back.
LEMMA FinalCheckpointEffect ==
    ASSUME TypeInv, NEW c \in Clients, NEW s \in Shards, NEW seq \in Nat,
           FinalCheckpoint(c, s, seq)
    PROVE  /\ row' \in [Shards -> Row]
           /\ \A z \in Shards : z # s => row'[z] = row[z]
           /\ \/ row'[s] = row[s]
              \/ row'[s].exists /\ row'[s].seq = seq /\ row'[s].client = NoClient
  <1>1. CASE Owns(c, s)
    <2>1. row' = [row EXCEPT ![s] = Checkpointed(c, seq, TRUE)]
      BY <1>1 DEF FinalCheckpoint
    <2>2. /\ Checkpointed(c, seq, TRUE) \in Row /\ Checkpointed(c, seq, TRUE).seq = seq
          /\ Checkpointed(c, seq, TRUE).exists /\ Checkpointed(c, seq, TRUE).client = NoClient
      BY CheckpointedType
    <2> QED BY <2>1, <2>2, RowUpdate
  <1>2. CASE ~Owns(c, s)
    BY <1>2 DEF FinalCheckpoint, TypeInv
  <1> QED BY <1>1, <1>2

\* Yield stores a sequence, if there is one.
LEMMA YieldedEffect ==
    ASSUME TypeInv, NEW s \in Shards, NEW seq \in Nat, row' = Yielded(s, seq)
    PROVE  /\ row' \in [Shards -> Row]
           /\ \A z \in Shards : z # s => row'[z] = row[z]
           /\ \/ row'[s] = row[s]
              \/ /\ seq # NoSeq
                 /\ row'[s].exists /\ row'[s].seq = seq /\ row'[s].client = row[s].client
  <1>1. CASE seq = NoSeq
    BY <1>1 DEF Yielded, TypeInv
  <1>2. CASE seq # NoSeq
    <2> DEFINE r == [row[s] EXCEPT !.exists = TRUE, !.seq = seq]
    <2>1. row[s] \in Row
      BY DEF TypeInv
    <2>2. r \in Row /\ r.exists /\ r.seq = seq /\ r.client = row[s].client
      BY <2>1 DEF Row
    <2>3. row' = [row EXCEPT ![s] = r]
      BY <1>2, <2>1 DEF Yielded, TypeInv
    <2> HIDE DEF r
    <2> QED BY <1>2, <2>2, <2>3, RowUpdate
  <1> QED BY <1>1, <1>2

\* What a step of a consumer that leaves the table and the deliveries alone
\* makes of it.
KeepsTable(c, s, i, k) ==
    /\ k \in Consumer
    /\ consumer' = [consumer EXCEPT ![c][s][i] = k]
    /\ UNCHANGED <<closed, row, clientID, lastID, stopping, loop, delivered>>
    /\ faults' \in 0 .. MaxFaults

\* Records pulled after iterator it, up to next.
Run(it, next) == [j \in 1 .. next - it |-> it + j]

LEMMA RunType ==
    ASSUME NEW it \in Nat, NEW next \in Nat, it <= next
    PROVE  /\ Run(it, next) \in Seq(Nat)
           /\ Len(Run(it, next)) = next - it
           /\ \A j \in 1 .. next - it : Run(it, next)[j] = it + j
  <1>1. next - it \in Nat /\ \A j \in 1 .. next - it : it + j \in Nat
    OBVIOUS
  <1>2. PICK n \in Nat : n = next - it
    BY <1>1
  <1> DEFINE f == [j \in 1 .. n |-> it + j]
  <1>3. f \in [1 .. n -> Nat] /\ Run(it, next) = f
    BY <1>1, <1>2 DEF Run
  <1>4. f \in Seq(Nat) /\ Len(f) = n
    BY <1>3
  <1> QED BY <1>2, <1>3, <1>4

LEMMA PullEffect ==
    ASSUME TypeInv, NEW c \in Clients, NEW s \in Shards, NEW i \in Slots, Pull(c, s, i)
    PROVE  \E next \in Nat : \E st \in {"consuming", "finished"} :
              LET k == consumer[c][s][i] IN
              /\ k.iter <= next /\ next <= NumRecords[s]
              /\ st = "finished" => next = NumRecords[s]
              /\ k.state = "consuming"
              /\ KeepsTable(c, s, i, [k EXCEPT !.iter = next, !.buffer = @ \o Run(k.iter, next), !.state = st])
  <1> DEFINE k == consumer[c][s][i]
  <1>1. k \in Consumer /\ k.state = "consuming" /\ NumRecords[s] \in Nat
    BY DEF Pull, TypeInv
  <1>2. PICK next \in k.iter .. NumRecords[s] :
           Become(c, s, i, [k EXCEPT !.iter = next,
                          !.buffer = @ \o [j \in 1 .. next - k.iter |-> k.iter + j],
                          !.state = IF s \in closed /\ next = NumRecords[s]
                                    THEN "finished" ELSE @])
    BY DEF Pull
  <1>3. k.iter \in Nat /\ k.buffer \in Seq(Nat)
    BY <1>1 DEF Consumer
  <1>10. next \in Nat /\ k.iter <= next /\ next <= NumRecords[s]
    BY <1>1, <1>2, <1>3
  <1>4. Run(k.iter, next) \in Seq(Nat)
    BY <1>3, <1>10, RunType
  <1>5. PICK st \in {"consuming", "finished"} :
           /\ st = IF s \in closed /\ next = NumRecords[s] THEN "finished" ELSE k.state
           /\ st = "finished" => next = NumRecords[s]
    BY <1>1
  <1>6. [k EXCEPT !.iter = next, !.buffer = @ \o Run(k.iter, next), !.state = st] \in Consumer
    <2>1. k.buffer \o Run(k.iter, next) \in Seq(Nat)
      BY <1>3, <1>4
    <2> QED BY <1>1, <1>10, <2>1 DEF Consumer
  <1>7. consumer' = [consumer EXCEPT ![c][s][i] =
                        [k EXCEPT !.iter = next, !.buffer = @ \o Run(k.iter, next), !.state = st]]
    BY <1>1, <1>2, <1>5 DEF Become, Run
  <1>8. UNCHANGED <<closed, row, clientID, lastID, stopping, loop, delivered, faults>>
    BY <1>2 DEF Pull, Become, processVars
  <1> HIDE DEF k
  <1>9. KeepsTable(c, s, i, [k EXCEPT !.iter = next, !.buffer = @ \o Run(k.iter, next), !.state = st])
    BY <1>6, <1>7, <1>8 DEF KeepsTable, TypeInv
  <1> QED BY <1>1, <1>10, <1>5, <1>9 DEF k

LEMMA RefreshEffect ==
    ASSUME TypeInv, NEW c \in Clients, NEW s \in Shards, NEW i \in Slots, RefreshIterator(c, s, i)
    PROVE  /\ consumer[c][s][i].state = "consuming"
           /\ KeepsTable(c, s, i, [consumer[c][s][i] EXCEPT !.iter = consumer[c][s][i].acked])
  <1>1. consumer[c][s][i] \in Consumer
    BY DEF TypeInv
  <1>2. PICK k \in Consumer : k = consumer[c][s][i]
    BY <1>1
  <1>3. [k EXCEPT !.iter = k.acked] \in Consumer
    BY DEF Consumer
  <1>4. /\ k.state = "consuming"
        /\ consumer' = [consumer EXCEPT ![c][s][i] = [k EXCEPT !.iter = k.acked]]
    BY <1>2 DEF RefreshIterator, Become, GetSequence
  <1>5. /\ UNCHANGED <<closed, row, clientID, lastID, stopping, loop, delivered>>
        /\ faults < MaxFaults /\ faults' = faults + 1
    BY DEF RefreshIterator, Become, processVars, Fault
  <1>6. faults' \in 0 .. MaxFaults
    BY <1>5 DEF TypeInv
  <1> QED BY <1>2, <1>3, <1>4, <1>5, <1>6 DEF KeepsTable

\* The first n records of the buffer become a batch.
Flushed(k, n) ==
    [k EXCEPT !.flight = Append(@, [batch |-> SubSeq(k.buffer, 1, n), done |-> FALSE]),
              !.buffer = SubSeq(@, n + 1, Len(@)),
              !.unsent = TRUE]

LEMMA FlushedType ==
    ASSUME NEW k \in Consumer, NEW n \in 1 .. Len(k.buffer)
    PROVE  /\ Flushed(k, n) \in Consumer
           /\ Flushed(k, n).flight = Append(k.flight, [batch |-> SubSeq(k.buffer, 1, n), done |-> FALSE])
           /\ Flushed(k, n).buffer = SubSeq(k.buffer, n + 1, Len(k.buffer))
           /\ Flushed(k, n).iter = k.iter /\ Flushed(k, n).acked = k.acked
           /\ Flushed(k, n).top = k.top /\ Flushed(k, n).stores = k.stores
           /\ Flushed(k, n).state = k.state
  <1>1. k.buffer \in Seq(Nat) /\ k.flight \in Seq([batch : Seq(Nat), done : BOOLEAN])
    BY DEF Consumer
  <1>2. SubSeq(k.buffer, 1, n) \in Seq(Nat)
    BY <1>1
  <1>3. SubSeq(k.buffer, n + 1, Len(k.buffer)) \in Seq(Nat)
    BY <1>1
  <1>4. Append(k.flight, [batch |-> SubSeq(k.buffer, 1, n), done |-> FALSE])
           \in Seq([batch : Seq(Nat), done : BOOLEAN])
    BY <1>1, <1>2
  <1>5. Flushed(k, n) \in Consumer
    BY <1>3, <1>4 DEF Flushed, Consumer
  <1> QED BY <1>5 DEF Flushed, Consumer

LEMMA FlushEffect ==
    ASSUME TypeInv, NEW c \in Clients, NEW s \in Shards, NEW i \in Slots, FlushMessage(c, s, i)
    PROVE  /\ Running(c, s, i)
           /\ \E n \in 1 .. Len(consumer[c][s][i].buffer) :
                 KeepsTable(c, s, i, Flushed(consumer[c][s][i], n))
  <1>1. PICK k \in Consumer : k = consumer[c][s][i]
    BY DEF TypeInv
  <1>2. PICK n \in 1 .. Len(k.buffer) : consumer' = [consumer EXCEPT ![c][s][i] = Flushed(k, n)]
    BY <1>1 DEF FlushMessage, Become, Flushed
  <1>3. UNCHANGED <<closed, row, clientID, lastID, stopping, loop, delivered, faults>>
    BY DEF FlushMessage, Become, processVars
  <1>4. Flushed(k, n) \in Consumer
    BY FlushedType
  <1>5. KeepsTable(c, s, i, Flushed(k, n))
    BY <1>2, <1>3, <1>4 DEF KeepsTable, TypeInv
  <1> QED BY <1>1, <1>5 DEF FlushMessage

LEMMA SendEffect ==
    ASSUME TypeInv, NEW c \in Clients, NEW s \in Shards, NEW i \in Slots, Send(c, s, i)
    PROVE  /\ Running(c, s, i)
           /\ KeepsTable(c, s, i, [consumer[c][s][i] EXCEPT !.unsent = FALSE])
  <1>1. PICK k \in Consumer : k = consumer[c][s][i]
    BY DEF TypeInv
  <1>2. [k EXCEPT !.unsent = FALSE] \in Consumer
    BY DEF Consumer
  <1>3. consumer' = [consumer EXCEPT ![c][s][i] = [k EXCEPT !.unsent = FALSE]]
    BY <1>1 DEF Send, Become
  <1>4. UNCHANGED <<closed, row, clientID, lastID, stopping, loop, delivered, faults>>
    BY DEF Send, Become, processVars
  <1> QED BY <1>1, <1>2, <1>3, <1>4 DEF KeepsTable, TypeInv, Send

LEMMA StoreEffect ==
    ASSUME TypeInv, NEW c \in Clients, NEW s \in Shards, NEW i \in Slots, NEW t,
           StoreAcked(c, s, i, t)
    PROVE  /\ t \in consumer[c][s][i].stores
           /\ KeepsTable(c, s, i, [consumer[c][s][i] EXCEPT !.acked = t, !.stores = @ \ {t}])
  <1>1. PICK k \in Consumer : k = consumer[c][s][i]
    BY DEF TypeInv
  <1>2. t \in k.stores
    BY <1>1 DEF StoreAcked
  <1>3. [k EXCEPT !.acked = t, !.stores = @ \ {t}] \in Consumer
    BY <1>2 DEF Consumer
  <1>4. consumer' = [consumer EXCEPT ![c][s][i] = [k EXCEPT !.acked = t, !.stores = @ \ {t}]]
    BY <1>1 DEF StoreAcked, Become
  <1>5. UNCHANGED <<closed, row, clientID, lastID, stopping, loop, delivered, faults>>
    BY DEF StoreAcked, Become, processVars
  <1> QED BY <1>1, <1>2, <1>3, <1>4, <1>5 DEF KeepsTable, TypeInv

LEMMA FinishedEffect ==
    ASSUME TypeInv, NEW c \in Clients, NEW s \in Shards, NEW i \in Slots, FinishedReturn(c, s, i)
    PROVE  /\ consumer[c][s][i].state = "finished"
           /\ consumer[c][s][i].buffer = <<>> \/ c \in stopping
           /\ KeepsTable(c, s, i, [consumer[c][s][i] EXCEPT !.state = "drained"])
  <1>1. PICK k \in Consumer : k = consumer[c][s][i]
    BY DEF TypeInv
  <1>2. [k EXCEPT !.state = "drained"] \in Consumer
    BY DEF Consumer
  <1>3. /\ consumer' = [consumer EXCEPT ![c][s][i] = [k EXCEPT !.state = "drained"]]
        /\ k.state = "finished" /\ (k.buffer = <<>> \/ c \in stopping)
    BY <1>1 DEF FinishedReturn, Become
  <1>4. UNCHANGED <<closed, row, clientID, lastID, stopping, loop, delivered, faults>>
    BY DEF FinishedReturn, Become, processVars
  <1> QED BY <1>1, <1>2, <1>3, <1>4 DEF KeepsTable, TypeInv

\* What a step of a consumer that may write its item leaves alone.
WritesItem(c, s, i, k) ==
    /\ k \in Consumer
    /\ consumer' = [consumer EXCEPT ![c][s][i] = k]
    /\ row' \in [Shards -> Row] /\ \A z \in Shards : z # s => row'[z] = row[z]
    /\ UNCHANGED <<closed, clientID, lastID, stopping, loop, delivered>>
    /\ faults' \in 0 .. MaxFaults

\* A call may fail as long as faults are left.
LEMMA FaultType ==
    ASSUME TypeInv, Fault \/ faults' = faults
    PROVE  faults' \in 0 .. MaxFaults
  BY DEF TypeInv, Fault

LEMMA CommitEffect ==
    ASSUME TypeInv, NEW c \in Clients, NEW s \in Shards, NEW i \in Slots, Commit(c, s, i)
    PROVE  /\ Running(c, s, i)
           /\ \/ /\ WritesItem(c, s, i, consumer[c][s][i])
                 /\ row'[s].exists /\ row'[s].seq = consumer[c][s][i].acked
                 /\ row'[s].client # NoClient
              \/ KeepsTable(c, s, i, [consumer[c][s][i] EXCEPT !.state = "yielding"])
  <1>1. PICK k \in Consumer : k = consumer[c][s][i]
    BY DEF TypeInv
  <1>2. k.acked \in Nat /\ [k EXCEPT !.state = "yielding"] \in Consumer
    BY DEF Consumer
  <1>3. UNCHANGED <<closed, clientID, lastID, stopping, loop, delivered, faults>> /\ Running(c, s, i)
    BY DEF Commit, Become, processVars
  <1>4. CASE Owns(c, s)
    <2> DEFINE r == Checkpointed(c, k.acked, FALSE)
    <2>1. r \in Row /\ r.exists /\ r.seq = k.acked /\ r.client = clientID[c]
      BY <1>2, CheckpointedType
    <2>2. clientID[c] # NoClient
      BY DEF TypeInv
    <2>3. row' = [row EXCEPT ![s] = r] /\ consumer' = [consumer EXCEPT ![c][s][i] = k]
      BY <1>1, <1>4 DEF Commit, Become, GetSequence
    <2> HIDE DEF r
    <2>4. row' \in [Shards -> Row] /\ row'[s] = r /\ \A z \in Shards : z # s => row'[z] = row[z]
      BY <2>1, <2>3, RowUpdate
    <2>5. WritesItem(c, s, i, k)
      BY <1>3, <2>3, <2>4 DEF WritesItem, TypeInv
    <2> QED BY <1>1, <1>3, <2>1, <2>2, <2>4, <2>5
  <1>5. CASE ~Owns(c, s)
    <2>1. row' = row /\ consumer' = [consumer EXCEPT ![c][s][i] = [k EXCEPT !.state = "yielding"]]
      BY <1>1, <1>5 DEF Commit, Become
    <2>2. KeepsTable(c, s, i, [k EXCEPT !.state = "yielding"])
      BY <1>2, <1>3, <2>1 DEF KeepsTable, TypeInv
    <2> QED BY <1>1, <1>3, <2>2
  <1> QED BY <1>4, <1>5

LEMMA DeleteEffect ==
    ASSUME TypeInv, NEW c \in Clients, NEW s \in Shards, NEW i \in Slots, Delete(c, s, i)
    PROVE  /\ consumer[c][s][i].state = "drained" /\ consumer[c][s][i].flight = <<>>
           /\ WritesItem(c, s, i, NoConsumer)
           /\ c \notin stopping \/ row' = row
           /\ row' = row \/ (row'[s].seq = NoSeq /\ row'[s].client = NoClient)
  <1>1. /\ consumer[c][s][i].state = "drained" /\ consumer[c][s][i].flight = <<>>
        /\ consumer' = [consumer EXCEPT ![c][s][i] = NoConsumer]
        /\ UNCHANGED <<closed, clientID, lastID, stopping, loop, delivered>>
    BY DEF Delete, AllAcked, Become, processVars
  <1>2. Absent \in Row /\ Absent.seq = NoSeq /\ Absent.client = NoClient
    BY DEF Absent, Row
  <1>3. faults' \in 0 .. MaxFaults
    BY FaultType DEF Delete, CallFails
  <1>4. CASE c \notin stopping /\ row' = [row EXCEPT ![s] = Absent]
    <2>1. row' \in [Shards -> Row] /\ row'[s] = Absent /\ \A z \in Shards : z # s => row'[z] = row[z]
      BY <1>2, <1>4, RowUpdate
    <2>2. WritesItem(c, s, i, NoConsumer)
      BY <1>1, <1>3, <2>1, NewConsumerType DEF WritesItem
    <2> QED BY <1>1, <1>2, <1>4, <2>1, <2>2
  <1>5. CASE row' = row
    <2>1. WritesItem(c, s, i, NoConsumer)
      BY <1>1, <1>3, <1>5, NewConsumerType DEF WritesItem, TypeInv
    <2> QED BY <1>1, <1>5, <2>1
  <1> QED BY <1>4, <1>5 DEF Delete

LEMMA YieldEffect ==
    ASSUME TypeInv, NEW c \in Clients, NEW s \in Shards, NEW i \in Slots, Yield(c, s, i)
    PROVE  /\ consumer[c][s][i].state = "yielding"
           /\ WritesItem(c, s, i, NoConsumer)
           /\ \/ row'[s] = row[s]
              \/ /\ consumer[c][s][i].acked # NoSeq
                 /\ row'[s].exists /\ row'[s].seq = consumer[c][s][i].acked
                 /\ row'[s].client = row[s].client
  <1>1. /\ consumer[c][s][i].state = "yielding"
        /\ consumer' = [consumer EXCEPT ![c][s][i] = NoConsumer]
        /\ UNCHANGED <<closed, clientID, lastID, stopping, loop, delivered>>
    BY DEF Yield, Become, processVars
  <1>2. consumer[c][s][i].acked \in Nat
    BY SMTT(60) DEF TypeInv, Consumer
  <1>3. faults' \in 0 .. MaxFaults
    BY FaultType DEF Yield, CallFails
  <1>4. CASE row' = Yielded(s, consumer[c][s][i].acked)
    <2>1. /\ row' \in [Shards -> Row] /\ \A z \in Shards : z # s => row'[z] = row[z]
          /\ \/ row'[s] = row[s]
             \/ /\ consumer[c][s][i].acked # NoSeq
                /\ row'[s].exists /\ row'[s].seq = consumer[c][s][i].acked
                /\ row'[s].client = row[s].client
      BY <1>2, <1>4, YieldedEffect
    <2>2. WritesItem(c, s, i, NoConsumer)
      BY <1>1, <1>3, <2>1, NewConsumerType DEF WritesItem
    <2> QED BY <1>1, <2>1, <2>2
  <1>5. CASE row' = row
    <2>1. WritesItem(c, s, i, NoConsumer)
      BY <1>1, <1>3, <1>5, NewConsumerType DEF WritesItem, TypeInv
    <2> QED BY <1>1, <1>5, <2>1
  <1> QED BY <1>4, <1>5 DEF Yield, GetSequence

LEMMA CloseEffect ==
    ASSUME TypeInv, NEW c \in Clients, NEW s \in Shards, NEW i \in Slots, CloseConsumer(c, s, i)
    PROVE  /\ Running(c, s, i)
           /\ WritesItem(c, s, i, NoConsumer)
           /\ \/ row'[s] = row[s]
              \/ /\ row'[s].exists /\ row'[s].seq = consumer[c][s][i].acked
                 /\ row'[s].client = NoClient
  <1>1. /\ Running(c, s, i)
        /\ consumer' = [consumer EXCEPT ![c][s][i] = NoConsumer]
        /\ UNCHANGED <<closed, clientID, lastID, stopping, loop, delivered>>
    BY DEF CloseConsumer, Become, processVars
  <1>2. consumer[c][s][i].acked \in Nat
    BY SMTT(60) DEF TypeInv, Consumer
  <1>3. faults' \in 0 .. MaxFaults
    BY FaultType DEF CloseConsumer
  <1>4. CASE FinalCheckpoint(c, s, consumer[c][s][i].acked)
    <2>1. /\ row' \in [Shards -> Row] /\ \A z \in Shards : z # s => row'[z] = row[z]
          /\ \/ row'[s] = row[s]
             \/ /\ row'[s].exists /\ row'[s].seq = consumer[c][s][i].acked
                /\ row'[s].client = NoClient
      BY <1>2, <1>4, FinalCheckpointEffect
    <2>2. WritesItem(c, s, i, NoConsumer)
      BY <1>1, <1>3, <2>1, NewConsumerType DEF WritesItem
    <2> QED BY <1>1, <2>1, <2>2
  <1>5. CASE row' = row
    <2>1. WritesItem(c, s, i, NoConsumer)
      BY <1>1, <1>3, <1>5, NewConsumerType DEF WritesItem, TypeInv
    <2> QED BY <1>1, <1>5, <2>1
  <1> QED BY <1>4, <1>5 DEF CloseConsumer, GetSequence

\* A nonempty set of naturals has a least element.
LEMMA LeastNatural ==
    ASSUME NEW T \in SUBSET Nat, T # {}
    PROVE  \E x \in T : \A y \in T : x <= y
  <1>1. PICK x \in T : \A y \in T : ~(<<y, x>> \in OpToRel(<, Nat))
    BY NatLessThanWellFounded, WFMin
  <1>2. \A y \in T : ~(y < x)
    BY <1>1 DEF OpToRel
  <1>3. x \in Nat /\ \A y \in T : y \in Nat
    OBVIOUS
  <1>4. ASSUME NEW y \in T PROVE x <= y
    BY <1>2, <1>3
  <1> QED BY <1>1, <1>4

\* A nonempty set of naturals up to n has a greatest one, which is its Max.
LEMMA MaxNatural ==
    ASSUME NEW n \in Nat, NEW T \in SUBSET (0 .. n), T # {}
    PROVE  Max(T) \in T /\ \A y \in T : y <= Max(T)
  <1> DEFINE U == {n - y : y \in T}
  <1>1. U \in SUBSET Nat /\ U # {}
    OBVIOUS
  <1>2. PICK u \in U : \A v \in U : u <= v
    BY <1>1, LeastNatural
  <1>3. PICK x \in T : u = n - x
    BY <1>2
  <1>4. \A y \in T : n - x <= n - y
    BY <1>2, <1>3
  <1>5. \A y \in T : x >= y
    BY <1>4
  <1> HIDE DEF U
  <1>6. Max(T) \in T /\ \A y \in T : Max(T) >= y
    BY <1>5 DEF Max
  <1> QED BY <1>6

Batches == [batch : Seq(Nat), done : BOOLEAN]

\* The checkpointer releases some number of batches, all of them resolved.
LEMMA ReleasableMax ==
    ASSUME NEW flight \in Seq(Batches)
    PROVE  LET m == Max(Releasable(flight) \cup {0}) IN
           m \in 0 .. Len(flight) /\ \A j \in 1 .. m : flight[j].done
  <1> DEFINE T == Releasable(flight) \cup {0}
  <1>1. Len(flight) \in Nat /\ DOMAIN flight = 1 .. Len(flight)
    OBVIOUS
  <1>2. T \in SUBSET (0 .. Len(flight)) /\ T # {}
    BY <1>1 DEF Releasable
  <1>3. PICK m \in T : m = Max(T)
    <2> HIDE DEF T
    <2> QED BY <1>1, <1>2, MaxNatural
  <1>4. m \in 0 .. Len(flight)
    BY <1>2
  <1>5. \A j \in 1 .. m : flight[j].done
    BY <1>1 DEF Releasable
  <1> QED BY <1>3, <1>4, <1>5

\* Consumer k once batch j is resolved and the first m batches are released.
Resolved(k, j, m) ==
    LET flight == [k.flight EXCEPT ![j].done = TRUE]
        top == IF m = 0 THEN k.top ELSE LastOf(flight[m].batch)
    IN  [k EXCEPT !.flight = SubSeq(flight, m + 1, Len(flight)),
                  !.top = top,
                  !.stores = @ \cup ({top} \ {NoSeq})]

\* Resolving a batch changes nothing but its mark.
LEMMA MarkedDone ==
    ASSUME NEW flight \in Seq(Batches), NEW j \in 1 .. Len(flight)
    PROVE  LET new == [flight EXCEPT ![j].done = TRUE] IN
           /\ new \in Seq(Batches) /\ Len(new) = Len(flight)
           /\ \A q \in 1 .. Len(flight) :
                 new[q].batch = flight[q].batch /\ (new[q].done <=> q = j \/ flight[q].done)
  <1> DEFINE b == [flight[j] EXCEPT !.done = TRUE]
  <1>1. flight[j] \in Batches /\ \A q \in 1 .. Len(flight) : flight[q] \in Batches
    OBVIOUS
  <1>2. b \in Batches /\ b.batch = flight[j].batch /\ b.done
    BY <1>1 DEF Batches
  <1> DEFINE new == [flight EXCEPT ![j] = b]
  <1>3. new = [flight EXCEPT ![j].done = TRUE]
    OBVIOUS
  <1> HIDE DEF b
  <1>4. new \in Seq(Batches) /\ Len(new) = Len(flight)
        /\ \A q \in 1 .. Len(flight) : new[q] = IF q = j THEN b ELSE flight[q]
    BY <1>2, ExceptSeq
  <1> HIDE DEF new
  <1> QED BY <1>2, <1>3, <1>4

\* Nonempty batches keep Resolved a consumer: the released sequence is a record.
LEMMA ResolvedType ==
    ASSUME NEW k \in Consumer, NEW j \in 1 .. Len(k.flight), NEW m \in 0 .. Len(k.flight),
           \A q \in 1 .. Len(k.flight) : k.flight[q].batch # <<>>
    PROVE  LET r == Resolved(k, j, m)
               top == IF m = 0 THEN k.top ELSE LastOf(k.flight[m].batch)
           IN  /\ r \in Consumer
               /\ r.iter = k.iter /\ r.buffer = k.buffer /\ r.acked = k.acked /\ r.state = k.state
               /\ r.top = top /\ r.stores = k.stores \cup ({top} \ {NoSeq})
               /\ r.flight \in Seq(Batches)
               /\ Len(r.flight) = Len(k.flight) - m
               /\ \A q \in 1 .. Len(k.flight) - m :
                     /\ r.flight[q].batch = k.flight[q + m].batch
                     /\ r.flight[q].done <=> q + m = j \/ k.flight[q + m].done
  <1> DEFINE new == [k.flight EXCEPT ![j].done = TRUE]
             top == IF m = 0 THEN k.top ELSE LastOf(new[m].batch)
             rest == SubSeq(new, m + 1, Len(new))
  <1>1. k.flight \in Seq(Batches) /\ k.top \in Nat /\ k.stores \in SUBSET Nat
    BY DEF Consumer, Batches
  <1>2. /\ new \in Seq(Batches) /\ Len(new) = Len(k.flight)
        /\ \A q \in 1 .. Len(k.flight) :
              new[q].batch = k.flight[q].batch /\ (new[q].done <=> q = j \/ k.flight[q].done)
    BY <1>1, MarkedDone, SMTT(60)
  <1>3. /\ rest \in Seq(Batches) /\ Len(rest) = Len(k.flight) - m
        /\ \A q \in 1 .. Len(k.flight) - m : rest[q] = new[q + m]
    <2> HIDE DEF new
    <2>1. Len(new) \in Nat /\ m + 1 \in 1 .. Len(new) + 1
      BY <1>1, <1>2
    <2>2. rest \in Seq(Batches)
      BY <1>2, <2>1
    <2>3. Len(rest) = Len(new) - m
      BY <1>2, <2>1
    <2>4. \A q \in 1 .. Len(new) - m : rest[q] = new[q + m]
      BY <1>2, <2>1
    <2> QED BY <1>2, <2>2, <2>3, <2>4
  <1>4. top = IF m = 0 THEN k.top ELSE LastOf(k.flight[m].batch)
    BY <1>2
  <1>5. top \in Nat
    <2>1. CASE m = 0
      BY <1>1, <2>1
    <2>2. CASE m # 0
      <3>1. m \in 1 .. Len(k.flight)
        BY <1>1, <2>2
      <3>4. k.flight[m] \in Batches
        BY <1>1, <3>1
      <3>2. PICK b \in Seq(Nat) : b = k.flight[m].batch /\ b # <<>>
        BY <3>1, <3>4 DEF Batches
      <3>3. b[Len(b)] \in Nat
        BY <3>2, SMTT(60)
      <3> QED BY <1>4, <2>2, <3>2, <3>3 DEF LastOf
    <2> QED BY <2>1, <2>2
  <1>6. Resolved(k, j, m) = [k EXCEPT !.flight = rest, !.top = top,
                                      !.stores = k.stores \cup ({top} \ {NoSeq})]
    BY DEF Resolved
  <1>7. \A q \in 1 .. Len(k.flight) - m :
              /\ q + m \in 1 .. Len(k.flight)
              /\ rest[q].batch = k.flight[q + m].batch
              /\ rest[q].done <=> q + m = j \/ k.flight[q + m].done
    <2> HIDE DEF new, rest
    <2>1. ASSUME NEW q \in 1 .. Len(k.flight) - m PROVE q + m \in 1 .. Len(k.flight)
      BY <1>1
    <2> QED BY <1>2, <1>3, <2>1
  <1> HIDE DEF new, top, rest
  <1>8. k.stores \cup ({top} \ {NoSeq}) \in SUBSET Nat
    BY <1>1, <1>5
  <1>9. Resolved(k, j, m) \in Consumer
    BY <1>3, <1>5, <1>6, <1>8 DEF Consumer, Batches
  <1>10. Resolved(k, j, m).flight = rest
    BY <1>6 DEF Consumer
  <1>11. /\ Resolved(k, j, m).iter = k.iter /\ Resolved(k, j, m).buffer = k.buffer
         /\ Resolved(k, j, m).acked = k.acked /\ Resolved(k, j, m).state = k.state
         /\ Resolved(k, j, m).top = top
         /\ Resolved(k, j, m).stores = k.stores \cup ({top} \ {NoSeq})
    BY <1>6 DEF Consumer
  <1> QED BY <1>3, <1>4, <1>7, <1>9, <1>10, <1>11

\* An acknowledgement: some batch is resolved, some resolved batches are
\* released, and the records of the batch are delivered.
LEMMA ResolveEffect ==
    ASSUME TypeInv, NEW c \in Clients, NEW s \in Shards, NEW i \in Slots,
           NEW j \in DOMAIN consumer[c][s][i].flight, Resolve(c, s, i, j),
           FlightSound(consumer[c][s][i].flight, s, delivered[s])
    PROVE  LET k == consumer[c][s][i] IN
           \E m \in 0 .. Len(k.flight) :
              /\ j \in 1 .. Len(k.flight)
              /\ \A q \in 1 .. m : q = j \/ k.flight[q].done
              /\ Resolved(k, j, m) \in Consumer
              /\ consumer' = [consumer EXCEPT ![c][s][i] = Resolved(k, j, m)]
              /\ delivered' = [delivered EXCEPT ![s] = @ \cup RecordsOf(k.flight[j].batch)]
              /\ UNCHANGED <<closed, row, clientID, lastID, stopping, loop, faults>>
  <1>1. PICK k \in Consumer : k = consumer[c][s][i]
    BY DEF TypeInv
  <1> DEFINE new == [k.flight EXCEPT ![j].done = TRUE]
             m == Max(Releasable(new) \cup {0})
  <1>2. k.flight \in Seq(Batches) /\ j \in 1 .. Len(k.flight)
    <2>1. k.flight \in Seq(Batches)
      BY DEF Consumer, Batches
    <2> QED BY <1>1, <2>1
  <1>3. /\ new \in Seq(Batches) /\ Len(new) = Len(k.flight)
        /\ \A q \in 1 .. Len(k.flight) : new[q].done <=> q = j \/ k.flight[q].done
    BY <1>2, MarkedDone
  <1>4. m \in 0 .. Len(k.flight) /\ \A q \in 1 .. m : new[q].done
    BY <1>3, ReleasableMax
  <1>5. \A q \in 1 .. Len(k.flight) : k.flight[q].batch # <<>>
    BY <1>1 DEF FlightSound
  <1>6. consumer' = [consumer EXCEPT ![c][s][i] = Resolved(k, j, m)]
    <2>1. consumer' = [consumer EXCEPT ![c][s][i] = Resolved(consumer[c][s][i], j,
              Max(Releasable([consumer[c][s][i].flight EXCEPT ![j].done = TRUE]) \cup {0}))]
      BY DEF Resolve, Become, Resolved
    <2> QED BY <1>1, <2>1
  <1>7. /\ delivered' = [delivered EXCEPT ![s] = @ \cup RecordsOf(k.flight[j].batch)]
        /\ UNCHANGED <<closed, row, clientID, lastID, stopping, loop, faults>>
    BY <1>1 DEF Resolve, Become, processVars, RecordsOf
  <1> HIDE DEF new, m
  <1>8. \A q \in 1 .. m : q = j \/ k.flight[q].done
    <2>1. ASSUME NEW q \in 1 .. m PROVE q \in 1 .. Len(k.flight)
      BY <1>2, <1>4
    <2> QED BY <1>3, <1>4, <2>1
  <1>9. Resolved(k, j, m) \in Consumer
    BY <1>2, <1>4, <1>5, ResolvedType
  <1> QED BY <1>1, <1>2, <1>4, <1>6, <1>7, <1>8, <1>9

-----------------------------------------------------------------------------
(* A sound consumer stays sound whatever it does.                          *)

\* A covered sequence is the number of a record, or none.
LEMMA CoveredBound ==
    ASSUME NEW n \in Nat, NEW N \in Nat, NEW D \in SUBSET (1 .. N), Covered(n, D)
    PROVE  n <= N
  <1>1. CASE n = 0
    BY <1>1
  <1>2. CASE n # 0
    <2>1. n \in 1 .. n
      BY <1>2
    <2> QED BY <2>1 DEF Covered
  <1> QED BY <1>1, <1>2

\* More deliveries never hurt.
LEMMA SoundMono ==
    ASSUME NEW k, NEW s, NEW D, NEW E, D \subseteq E, Sound(k, s, D)
    PROVE  Sound(k, s, E)
  <1>1. \A n, X : Covered(n, D \cup X) => Covered(n, E \cup X)
    BY DEF Covered
  <1>2. \A n : Covered(n, D) => Covered(n, E)
    BY DEF Covered
  <1>3. FlightSound(k.flight, s, E)
    BY <1>1 DEF Sound, FlightSound
  <1>4. \A n, X, Y : Covered(n, D \cup X \cup Y) => Covered(n, E \cup X \cup Y)
    BY DEF Covered
  <1>5. BufferSound(k.buffer, k.flight, s, E)
    BY <1>4 DEF Sound, BufferSound
  <1> QED BY <1>2, <1>3, <1>4, <1>5 DEF Sound

\* Soundness does not look at the state of the goroutine, nor at unsent.
LEMMA SoundSame ==
    ASSUME NEW k, NEW r, NEW s, NEW D, Sound(k, s, D),
           r.iter = k.iter, r.buffer = k.buffer, r.flight = k.flight, r.top = k.top,
           r.stores = k.stores, r.acked = k.acked
    PROVE  Sound(r, s, D)
  BY DEF Sound

\* A consumer that starts at a delivered sequence is sound, and so is none.
LEMMA SoundNew ==
    ASSUME NEW s \in Shards, NEW D \in SUBSET Records(s), NEW seq \in Nat, Covered(seq, D)
    PROVE  Sound(newConsumer(seq), s, D) /\ Sound(NoConsumer, s, D)
  <1>1. ASSUME NEW k, NEW n \in Nat, Covered(n, D), k.iter = n, k.acked = n, k.top = 0,
               k.stores = {}, k.flight = <<>>, k.buffer = <<>>
        PROVE  Sound(k, s, D)
    <2>1. n <= NumRecords[s]
      BY <1>1, CoveredBound DEF Records
    <2>2. Covered(0, D)
      BY DEF Covered
    <2>3. FlightSound(k.flight, s, D)
      BY <1>1 DEF FlightSound
    <2>4. BufferSound(k.buffer, k.flight, s, D)
      BY <1>1 DEF BufferSound
    <2>5. Covered(k.iter, D \cup Tracked(k.flight, Len(k.flight))
                             \cup Buffered(k.buffer, Len(k.buffer)))
      BY <1>1 DEF Covered
    <2>6. k.iter <= NumRecords[s] /\ Covered(k.acked, D) /\ Covered(k.top, D)
          /\ \A x \in k.stores : Covered(x, D) /\ x # NoSeq
      BY <1>1, <2>1, <2>2
    <2> QED BY <2>3, <2>4, <2>5, <2>6 DEF Sound
  <1>2. Sound(newConsumer(seq), s, D)
    BY <1>1 DEF newConsumer
  <1>3. Covered(0, D)
    BY DEF Covered
  <1> QED BY <1>1, <1>2, <1>3, NewConsumerType

\* A stored sequence becomes the acknowledged one.
LEMMA SoundStore ==
    ASSUME NEW k \in Consumer, NEW s, NEW D, Sound(k, s, D), NEW t \in k.stores
    PROVE  Sound([k EXCEPT !.acked = t, !.stores = @ \ {t}], s, D)
  <1>1. PICK r \in Consumer : r = [k EXCEPT !.acked = t, !.stores = @ \ {t}]
    BY DEF Consumer
  <1>2. /\ r.acked = t /\ r.stores = k.stores \ {t} /\ r.iter = k.iter /\ r.top = k.top
        /\ r.flight = k.flight /\ r.buffer = k.buffer
    BY <1>1 DEF Consumer
  <1>3. Sound(r, s, D)
    BY <1>2 DEF Sound
  <1> QED BY <1>1, <1>3

\* The iterator may always go back to the acknowledged sequence, whatever is
\* in the buffer.
LEMMA SoundRefresh ==
    ASSUME NEW s \in Shards, NEW k \in Consumer, NEW D \in SUBSET Records(s), Sound(k, s, D)
    PROVE  Sound([k EXCEPT !.iter = k.acked], s, D)
  <1>1. PICK r \in Consumer : r = [k EXCEPT !.iter = k.acked]
    BY DEF Consumer
  <1>2. /\ r.acked = k.acked /\ r.stores = k.stores /\ r.iter = k.acked /\ r.top = k.top
        /\ r.flight = k.flight /\ r.buffer = k.buffer
    BY <1>1 DEF Consumer
  <1>3. Covered(k.acked, D) /\ k.acked \in Nat
    BY DEF Sound, Consumer
  <1>4. k.acked <= NumRecords[s]
    BY <1>3, CoveredBound DEF Records
  <1>5. \A X, Y : Covered(k.acked, D \cup X \cup Y)
    BY <1>3 DEF Covered
  <1>6. Sound(r, s, D)
    BY <1>2, <1>4, <1>5 DEF Sound
  <1> QED BY <1>1, <1>6

\* Pulled records follow each other, and the iterator had everything before it
\* in hand.
LEMMA SoundPull ==
    ASSUME NEW s \in Shards, NEW k \in Consumer, NEW D, Sound(k, s, D),
           NEW next \in Nat, k.iter <= next, next <= NumRecords[s], NEW st \in {"consuming", "finished"}
    PROVE  Sound([k EXCEPT !.iter = next, !.buffer = @ \o Run(k.iter, next), !.state = st], s, D)
  <1> DEFINE run == Run(k.iter, next)
             buf == k.buffer \o run
             before == D \cup Tracked(k.flight, Len(k.flight))
  <1>1. /\ k.iter \in Nat /\ NumRecords[s] \in Nat /\ k.buffer \in Seq(Records(s))
        /\ Len(k.buffer) \in Nat
    BY DEF Sound, BufferSound, Consumer
  <1>2. /\ run \in Seq(Nat) /\ Len(run) = next - k.iter
        /\ \A j \in 1 .. next - k.iter : run[j] = k.iter + j
    BY <1>1, RunType
  <1>3. run \in Seq(Records(s))
    <2> HIDE DEF run
    <2>1. ASSUME NEW j \in 1 .. Len(run) PROVE run[j] \in Records(s)
      <3>1. j \in 1 .. next - k.iter /\ run[j] = k.iter + j
        BY <1>2
      <3>2. k.iter + j \in 1 .. NumRecords[s]
        BY <1>1, <3>1
      <3> QED BY <3>1, <3>2 DEF Records
    <2> QED BY <1>2, <2>1
  <1>4. /\ buf \in Seq(Records(s)) /\ Len(buf) = Len(k.buffer) + (next - k.iter)
        /\ \A x \in 1 .. Len(k.buffer) : buf[x] = k.buffer[x]
        /\ \A j \in 1 .. next - k.iter : buf[Len(k.buffer) + j] = k.iter + j
    <2> HIDE DEF run
    <2>1. buf \in Seq(Records(s)) /\ Len(buf) = Len(k.buffer) + Len(run)
      BY <1>1, <1>3
    <2>2. \A x \in 1 .. Len(k.buffer) : buf[x] = k.buffer[x]
      BY <1>1, <1>3
    <2>3. \A j \in 1 .. Len(run) : buf[Len(k.buffer) + j] = run[j]
      BY <1>1, <1>3
    <2> QED BY <1>1, <1>2, <2>1, <2>2, <2>3
  <1> HIDE DEF run, buf
  <1>5. ASSUME NEW x \in 1 .. Len(k.buffer)
        PROVE  Buffered(buf, x) = Buffered(k.buffer, x)
    <2>1. ASSUME NEW y \in 1 .. x PROVE buf[y] = k.buffer[y]
      BY <1>1, <1>4
    <2> QED BY <2>1 DEF Buffered
  <1>6. ASSUME NEW x \in Len(k.buffer) .. Len(buf)
        PROVE  Buffered(k.buffer, Len(k.buffer)) \subseteq Buffered(buf, x)
    <2>1. ASSUME NEW y \in 1 .. Len(k.buffer) PROVE k.buffer[y] = buf[y] /\ y \in 1 .. x
      BY <1>1, <1>4
    <2> QED BY <2>1 DEF Buffered
  <1>7. ASSUME NEW j \in 0 .. next - k.iter
        PROVE  Covered(k.iter + j, before \cup Buffered(buf, Len(k.buffer) + j))
    <2> SUFFICES ASSUME NEW y \in 1 .. k.iter + j
                 PROVE  y \in before \cup Buffered(buf, Len(k.buffer) + j)
      BY DEF Covered
    <2>1. CASE y <= k.iter
      <3>1. y \in before \cup Buffered(k.buffer, Len(k.buffer))
        BY <1>1, <2>1 DEF Sound, Covered
      <3>2. Len(k.buffer) + j \in Len(k.buffer) .. Len(buf)
        BY <1>1, <1>4, SMTT(60)
      <3> QED BY <1>6, <3>1, <3>2
    <2>2. CASE y > k.iter
      <3>4. y - k.iter \in 1 .. j /\ y = k.iter + (y - k.iter)
        BY <1>1, <2>2
      <3>1. PICK q \in 1 .. j : y = k.iter + q
        BY <3>4
      <3>5. q \in 1 .. next - k.iter
        BY <1>1
      <3>2. buf[Len(k.buffer) + q] = y /\ Len(k.buffer) + q \in 1 .. Len(k.buffer) + j
        BY <1>1, <1>4, <3>1, <3>5, SMTT(60)
      <3>3. y \in Buffered(buf, Len(k.buffer) + j)
        BY <3>2 DEF Buffered
      <3> QED BY <3>3
    <2> QED BY <1>1, <2>1, <2>2
  <1>8. BufferSound(buf, k.flight, s, D)
    <2> SUFFICES ASSUME NEW x \in 1 .. Len(buf)
                 PROVE  Covered(buf[x], before \cup Buffered(buf, x))
      BY <1>4 DEF BufferSound
    <2>1. CASE x <= Len(k.buffer)
      <3>1. x \in 1 .. Len(k.buffer)
        BY <1>1, <2>1
      <3> QED BY <1>4, <1>5, <3>1 DEF Sound, BufferSound
    <2>2. CASE x > Len(k.buffer)
      <3>1. x - Len(k.buffer) \in 1 .. next - k.iter /\ x = Len(k.buffer) + (x - Len(k.buffer))
        BY <1>1, <1>4, <2>2
      <3>2. PICK j \in 1 .. next - k.iter : x = Len(k.buffer) + j
        BY <3>1
      <3>3. j \in 0 .. next - k.iter /\ buf[x] = k.iter + j
        BY <1>1, <1>4, <3>2
      <3>4. Covered(k.iter + j, before \cup Buffered(buf, Len(k.buffer) + j))
        BY <1>7, <3>3
      <3> QED BY <3>2, <3>3, <3>4
    <2> QED BY <1>1, <2>1, <2>2
  <1>9. Covered(next, before \cup Buffered(buf, Len(buf)))
    <2>1. next - k.iter \in 0 .. next - k.iter /\ k.iter + (next - k.iter) = next
      BY <1>1
    <2> QED BY <1>4, <1>7, <2>1
  <1>10. buf \in Seq(Nat)
    BY <1>1, <1>2 DEF buf, Consumer
  <1>11. PICK r \in Consumer : r = [k EXCEPT !.iter = next, !.buffer = buf, !.state = st]
    BY <1>10 DEF Consumer
  <1>12. /\ r.acked = k.acked /\ r.stores = k.stores /\ r.iter = next /\ r.top = k.top
         /\ r.flight = k.flight /\ r.buffer = buf
    BY <1>11 DEF Consumer
  <1>13. Sound(r, s, D)
    BY <1>8, <1>9, <1>12 DEF Sound
  <1> QED BY <1>11, <1>13 DEF buf, run

\* Flushing moves the front of the buffer behind the batches in flight.
LEMMA SoundFlush ==
    ASSUME NEW s \in Shards, NEW k \in Consumer, NEW D, Sound(k, s, D),
           NEW n \in 1 .. Len(k.buffer)
    PROVE  Sound(Flushed(k, n), s, D)
  <1> DEFINE b == [batch |-> SubSeq(k.buffer, 1, n), done |-> FALSE]
             fl == Append(k.flight, b)
             buf == SubSeq(k.buffer, n + 1, Len(k.buffer))
             L == Len(k.flight)
  <1>1. /\ k.buffer \in Seq(Records(s)) /\ Len(k.buffer) \in Nat /\ n \in Nat
        /\ k.flight \in Seq(Batches) /\ L \in Nat
    BY DEF Sound, BufferSound, Consumer, Batches
  <1>2. /\ SubSeq(k.buffer, 1, n) \in Seq(Records(s)) /\ Len(SubSeq(k.buffer, 1, n)) = n
        /\ \A x \in 1 .. n : SubSeq(k.buffer, 1, n)[x] = k.buffer[x]
    BY <1>1
  <1>3. /\ buf \in Seq(Records(s)) /\ Len(buf) = Len(k.buffer) - n
        /\ \A x \in 1 .. Len(k.buffer) - n : buf[x] = k.buffer[x + n]
    <2>1. buf \in Seq(Records(s))
      BY <1>1
    <2>2. Len(buf) = Len(k.buffer) - n
      BY <1>1
    <2>3. \A x \in 1 .. Len(k.buffer) - n : buf[x] = k.buffer[x + n]
      BY <1>1
    <2> QED BY <2>1, <2>2, <2>3
  <1>4. /\ Len(fl) = L + 1 /\ fl[L + 1] = b
        /\ \A j \in 1 .. L : fl[j] = k.flight[j]
    BY <1>1
  <1>5. b.batch \in Seq(Records(s)) /\ b.batch # <<>> /\ ~b.done /\ LastOf(b.batch) = k.buffer[n]
        /\ RecordsOf(b.batch) = Buffered(k.buffer, n)
    <2>1. DOMAIN b.batch = 1 .. n /\ \A x \in 1 .. n : b.batch[x] = k.buffer[x]
      BY <1>2
    <2>2. RecordsOf(b.batch) = Buffered(k.buffer, n)
      <3> HIDE DEF b
      <3> QED BY <2>1 DEF RecordsOf, Buffered
    <2>3. b.batch # <<>> /\ LastOf(b.batch) = k.buffer[n]
      BY <1>1, <1>2 DEF LastOf
    <2> QED BY <1>2, <2>2, <2>3
  <1> HIDE DEF b, fl, buf
  <1>6. ASSUME NEW j \in 1 .. L PROVE Tracked(fl, j) = Tracked(k.flight, j)
    <2>1. ASSUME NEW q \in 1 .. j PROVE fl[q] = k.flight[q]
      BY <1>1, <1>4
    <2> QED BY <2>1 DEF Tracked
  <1>7. Tracked(fl, L + 1) = Tracked(k.flight, L) \cup Buffered(k.buffer, n)
    <2>1. ASSUME NEW q \in 1 .. L PROVE fl[q] = k.flight[q]
      BY <1>4
    <2>2. 1 .. L + 1 = (1 .. L) \cup {L + 1}
      BY <1>1
    <2> QED BY <1>4, <1>5, <2>1, <2>2, SMTT(60) DEF Tracked
  <1>8. FlightSound(fl, s, D)
    <2> SUFFICES ASSUME NEW j \in 1 .. L + 1
                 PROVE  /\ fl[j].batch \in Seq(Records(s)) /\ fl[j].batch # <<>>
                        /\ fl[j].done => RecordsOf(fl[j].batch) \subseteq D
                        /\ Covered(LastOf(fl[j].batch), D \cup Tracked(fl, j))
      BY <1>4 DEF FlightSound
    <2>1. CASE j \in 1 .. L
      BY <1>4, <1>6, <2>1 DEF Sound, FlightSound
    <2>2. CASE j = L + 1
      <3>1. Covered(k.buffer[n], D \cup Tracked(k.flight, L) \cup Buffered(k.buffer, n))
        BY DEF Sound, BufferSound
      <3>2. Covered(LastOf(fl[j].batch), D \cup Tracked(fl, j))
        BY <1>4, <1>5, <1>7, <2>2, <3>1 DEF Covered
      <3> QED BY <1>4, <1>5, <2>2, <3>2
    <2> QED BY <1>1, <2>1, <2>2, SMTT(60)
  <1>9. ASSUME NEW x \in 0 .. Len(k.buffer) - n
        PROVE  Buffered(k.buffer, x + n) \subseteq Buffered(k.buffer, n) \cup Buffered(buf, x)
    <2> SUFFICES ASSUME NEW y \in 1 .. x + n
                 PROVE  k.buffer[y] \in Buffered(k.buffer, n) \cup Buffered(buf, x)
      BY DEF Buffered
    <2>1. CASE y <= n
      BY <1>1, <2>1 DEF Buffered
    <2>2. CASE y > n
      <3>1. y - n \in 1 .. x /\ y - n \in 1 .. Len(k.buffer) - n /\ (y - n) + n = y
        BY <1>1, <2>2
      <3>2. buf[y - n] = k.buffer[y]
        BY <1>3, <3>1
      <3> QED BY <3>1, <3>2 DEF Buffered
    <2> QED BY <1>1, <2>1, <2>2
  <1>10. BufferSound(buf, fl, s, D)
    <2> SUFFICES ASSUME NEW x \in 1 .. Len(buf)
                 PROVE  Covered(buf[x], D \cup Tracked(fl, Len(fl)) \cup Buffered(buf, x))
      BY <1>3 DEF BufferSound
    <2>1. x + n \in 1 .. Len(k.buffer) /\ buf[x] = k.buffer[x + n] /\ x \in 0 .. Len(k.buffer) - n
      BY <1>1, <1>3
    <2>2. Covered(k.buffer[x + n], D \cup Tracked(k.flight, L) \cup Buffered(k.buffer, x + n))
      BY <2>1 DEF Sound, BufferSound
    <2> QED BY <1>4, <1>7, <1>9, <2>1, <2>2 DEF Covered
  <1>11. Covered(k.iter, D \cup Tracked(fl, Len(fl)) \cup Buffered(buf, Len(buf)))
    <2>1. Len(buf) \in 0 .. Len(k.buffer) - n /\ Len(buf) + n = Len(k.buffer)
      BY <1>1, <1>3
    <2>2. Covered(k.iter, D \cup Tracked(k.flight, L) \cup Buffered(k.buffer, Len(k.buffer)))
      BY DEF Sound
    <2>3. Buffered(k.buffer, Len(k.buffer)) \subseteq Buffered(k.buffer, n) \cup Buffered(buf, Len(buf))
      BY <1>9, <2>1
    <2> QED BY <1>4, <1>7, <2>2, <2>3 DEF Covered
  <1>12. /\ Flushed(k, n).flight = fl /\ Flushed(k, n).buffer = buf
         /\ Flushed(k, n).iter = k.iter /\ Flushed(k, n).acked = k.acked
         /\ Flushed(k, n).top = k.top /\ Flushed(k, n).stores = k.stores
    BY FlushedType DEF b, fl, buf
  <1> QED BY <1>8, <1>10, <1>11, <1>12 DEF Sound

\* The heart of at-least-once delivery: releasing batches in order keeps the
\* highest released sequence below everything that is not delivered.
LEMMA SoundResolve ==
    ASSUME NEW s \in Shards, NEW k \in Consumer, NEW D, Sound(k, s, D),
           NEW j \in 1 .. Len(k.flight), NEW m \in 0 .. Len(k.flight),
           \A q \in 1 .. m : q = j \/ k.flight[q].done
    PROVE  Sound(Resolved(k, j, m), s, D \cup RecordsOf(k.flight[j].batch))
  <1> DEFINE E == D \cup RecordsOf(k.flight[j].batch)
             r == Resolved(k, j, m)
             L == Len(k.flight)
             top == IF m = 0 THEN k.top ELSE LastOf(k.flight[m].batch)
  <1>1. L \in Nat /\ m \in Nat /\ m <= L /\ \A q \in 1 .. L : k.flight[q].batch # <<>>
    <2>1. L \in Nat
      BY DEF Consumer
    <2>2. \A q \in 1 .. L : k.flight[q].batch # <<>>
      BY DEF Sound, FlightSound
    <2>3. m \in Nat /\ m <= L
      BY <2>1
    <2> QED BY <2>1, <2>2, <2>3
  <1>2. /\ r.iter = k.iter /\ r.buffer = k.buffer /\ r.acked = k.acked
        /\ r.top = top /\ r.stores = k.stores \cup ({top} \ {NoSeq})
        /\ Len(r.flight) = L - m
        /\ \A q \in 1 .. L - m : /\ r.flight[q].batch = k.flight[q + m].batch
                                 /\ r.flight[q].done <=> q + m = j \/ k.flight[q + m].done
    BY <1>1, ResolvedType
  <1> HIDE DEF r
  <1>3. ASSUME NEW q \in 1 .. m PROVE RecordsOf(k.flight[q].batch) \subseteq E
    <2>1. q \in 1 .. L
      BY <1>1
    <2> QED BY <2>1 DEF Sound, FlightSound
  <1>4. ASSUME NEW x \in 0 .. L - m
        PROVE  D \cup Tracked(k.flight, x + m) \subseteq E \cup Tracked(r.flight, x)
    <2> SUFFICES ASSUME NEW q \in 1 .. x + m, NEW y \in RecordsOf(k.flight[q].batch)
                 PROVE  y \in E \cup Tracked(r.flight, x)
      BY DEF Tracked
    <2>1. CASE q <= m
      <3>1. q \in 1 .. m
        BY <1>1, <2>1
      <3> QED BY <1>3, <3>1
    <2>2. CASE q > m
      <3>1. q - m \in 1 .. x /\ q - m \in 1 .. L - m /\ (q - m) + m = q
        BY <1>1, <2>2
      <3>2. r.flight[q - m].batch = k.flight[q].batch
        BY <1>2, <3>1
      <3> QED BY <3>1, <3>2 DEF Tracked
    <2> QED BY <1>1, <2>1, <2>2
  <1>5. Covered(top, E)
    <2>1. CASE m = 0
      BY <2>1 DEF Sound, Covered
    <2>2. CASE m # 0
      <3>1. m \in 1 .. L
        BY <1>1, <2>2
      <3>2. Covered(LastOf(k.flight[m].batch), D \cup Tracked(k.flight, m))
        BY <3>1 DEF Sound, FlightSound
      <3>3. Tracked(k.flight, m) \subseteq E
        BY <1>3 DEF Tracked
      <3> QED BY <2>2, <3>2, <3>3 DEF Covered
    <2> QED BY <2>1, <2>2
  <1>6. FlightSound(r.flight, s, E)
    <2> SUFFICES ASSUME NEW q \in 1 .. L - m
                 PROVE  /\ r.flight[q].batch \in Seq(Records(s)) /\ r.flight[q].batch # <<>>
                        /\ r.flight[q].done => RecordsOf(r.flight[q].batch) \subseteq E
                        /\ Covered(LastOf(r.flight[q].batch), E \cup Tracked(r.flight, q))
      BY <1>2 DEF FlightSound
    <2>1. q + m \in 1 .. L /\ q \in 0 .. L - m
      BY <1>1
    <2>2. /\ k.flight[q + m].batch \in Seq(Records(s)) /\ k.flight[q + m].batch # <<>>
          /\ k.flight[q + m].done => RecordsOf(k.flight[q + m].batch) \subseteq D
          /\ Covered(LastOf(k.flight[q + m].batch), D \cup Tracked(k.flight, q + m))
      BY <2>1 DEF Sound, FlightSound
    <2>3. Covered(LastOf(r.flight[q].batch), E \cup Tracked(r.flight, q))
      <3>1. D \cup Tracked(k.flight, q + m) \subseteq E \cup Tracked(r.flight, q)
        BY <1>4, <2>1
      <3> QED BY <1>2, <2>2, <3>1 DEF Covered
    <2> QED BY <1>2, <2>2, <2>3
  <1>7. D \cup Tracked(k.flight, L) \subseteq E \cup Tracked(r.flight, Len(r.flight))
    <2>1. L - m \in 0 .. L - m /\ (L - m) + m = L
      BY <1>1
    <2> QED BY <1>2, <1>4, <2>1
  <1>8. BufferSound(r.buffer, r.flight, s, E)
    <2> SUFFICES ASSUME NEW x \in 1 .. Len(k.buffer)
                 PROVE  Covered(k.buffer[x], E \cup Tracked(r.flight, Len(r.flight))
                                               \cup Buffered(k.buffer, x))
      BY <1>2 DEF Sound, BufferSound
    <2>1. Covered(k.buffer[x], D \cup Tracked(k.flight, L) \cup Buffered(k.buffer, x))
      BY DEF Sound, BufferSound
    <2> QED BY <1>7, <2>1 DEF Covered
  <1>9. Covered(r.iter, E \cup Tracked(r.flight, Len(r.flight)) \cup Buffered(r.buffer, Len(r.buffer)))
    <2>1. Covered(k.iter, D \cup Tracked(k.flight, L) \cup Buffered(k.buffer, Len(k.buffer)))
      BY DEF Sound
    <2> QED BY <1>2, <1>7, <2>1 DEF Covered
  <1>10. r.iter <= NumRecords[s] /\ Covered(r.acked, E) /\ \A t \in k.stores : Covered(t, E) /\ t # NoSeq
    BY <1>2 DEF Sound, Covered
  <1>11. \A t \in r.stores : Covered(t, E) /\ t # NoSeq
    BY <1>2, <1>5, <1>10
  <1> QED BY <1>2, <1>5, <1>6, <1>8, <1>9, <1>10, <1>11 DEF Sound, r

-----------------------------------------------------------------------------
(* The steps of a loop.                                                    *)

\* The loop of c becomes l, and only it, an item and a consumer may change.
LoopBecomes(c, l) ==
    /\ l \in Loop /\ LoopOK(l)
    /\ loop' = [loop EXCEPT ![c] = l]
    /\ UNCHANGED <<closed, clientID, lastID, stopping, delivered>>
    /\ faults' \in 0 .. MaxFaults

\* After a claim a loop has no shard in its hands.
LEMMA OnwardsType ==
    ASSUME TypeInv, NEW c \in Clients, NEW todo \in SUBSET (Shards \X Nat)
    PROVE  /\ Onwards(c, todo) \in Loop /\ LoopOK(Onwards(c, todo))
           /\ Onwards(c, todo).shard = {} /\ Onwards(c, todo).pc \in {"claim", "exit", "scan"}
  <1>1. PICK l \in Loop : l = loop[c]
    BY DEF TypeInv
  <1>2. PICK pc \in {"claim", "exit", "scan"} :
           pc = CASE todo # {} -> "claim"
                  [] c \in ExplicitClients -> "exit"
                  [] OTHER -> "scan"
    <2>1. CASE todo # {}
      BY <2>1
    <2>2. CASE todo = {} /\ c \in ExplicitClients
      BY <2>2
    <2>3. CASE todo = {} /\ c \notin ExplicitClients
      BY <2>3
    <2> QED BY <2>1, <2>2, <2>3
  <1>3. Onwards(c, todo) = [l EXCEPT !.todo = todo, !.shard = {}, !.seq = NoSeq, !.pc = pc]
    BY <1>1, <1>2 DEF Onwards
  <1>4. Onwards(c, todo) \in Loop
    <2>1. PICK u \in Loop : u = [l EXCEPT !.todo = todo]
      BY DEF Loop
    <2>2. PICK v \in Loop : v = [u EXCEPT !.shard = {}, !.seq = NoSeq, !.pc = pc]
      BY DEF Loop
    <2> QED BY <1>3, <2>1, <2>2
  <1>6. Onwards(c, todo).pc = pc
    BY <1>3 DEF Loop
  <1>5. Onwards(c, todo).shard = {}
    BY <1>3 DEF Loop
  <1> QED BY <1>2, <1>4, <1>5, <1>6 DEF LoopOK

\* A loop that scans finds shards with nobody or with somebody to take them from.
LEMMA ScanEffect ==
    ASSUME TypeInv, NEW c \in Clients, Scan(c)
    PROVE  /\ \E l : LoopBecomes(c, l) /\ l.shard = {} /\ l.pc = "claim"
           /\ UNCHANGED <<row, consumer>>
  <1>1. PICK o \in Loop : o = loop[c] /\ LoopOK(o)
    BY DEF TypeInv
  <1>2. o.pc = "scan" /\ o.shard = {}
    BY <1>1 DEF Scan, LoopOK
  <1>3. /\ UNCHANGED <<closed, row, clientID, lastID, stopping, consumer, delivered, faults>>
    BY DEF Scan, tableVars, processVars
  <1>4. PICK todo \in SUBSET (Shards \X Nat), steal \in BOOLEAN :
           loop' = [loop EXCEPT ![c] = [o EXCEPT !.pc = "claim", !.todo = todo, !.steal = steal]]
    <2>1. \A s \in Shards : row[s].client \in Nat
      BY DEF TypeInv, Row
    <2>2. CASE loop' = [loop EXCEPT ![c].pc = "claim", ![c].todo = Unclaimed, ![c].steal = FALSE]
      <3>1. Unclaimed \in SUBSET (Shards \X Nat)
        BY <2>1 DEF Unclaimed
      <3>2. loop' = [loop EXCEPT ![c] = [o EXCEPT !.pc = "claim", !.todo = Unclaimed, !.steal = FALSE]]
        BY <1>1, <2>2
      <3> QED BY <3>1, <3>2
    <2>3. ASSUME NEW pick \in [Victims(c) -> Shards],
                 loop' = [loop EXCEPT ![c].pc = "claim", ![c].steal = TRUE,
                                      ![c].todo = {<<pick[id], id>> : id \in Victims(c)}]
          PROVE  \E todo \in SUBSET (Shards \X Nat), steal \in BOOLEAN :
           loop' = [loop EXCEPT ![c] = [o EXCEPT !.pc = "claim", !.todo = todo, !.steal = steal]]
      <3> DEFINE todo == {<<pick[id], id>> : id \in Victims(c)}
      <3>1. Victims(c) \subseteq Nat
        BY <2>1 DEF Victims
      <3>2. todo \in SUBSET (Shards \X Nat)
        BY <3>1
      <3>3. loop' = [loop EXCEPT ![c] = [o EXCEPT !.pc = "claim", !.todo = todo, !.steal = TRUE]]
        BY <1>1, <2>3
      <3> HIDE DEF todo
      <3> QED BY <3>2, <3>3
    <2> QED BY <2>2, <2>3 DEF Scan
  <1>5. PICK l \in Loop : l = [o EXCEPT !.pc = "claim", !.todo = todo, !.steal = steal]
    BY DEF Loop
  <1>6. l.shard = {} /\ l.pc = "claim" /\ LoopOK(l)
    BY <1>2, <1>5 DEF Loop, LoopOK
  <1> QED BY <1>3, <1>4, <1>5, <1>6 DEF LoopBecomes, TypeInv

\* A claim takes the item, with the sequence it has when nobody had it, or fails.
LEMMA ClaimEffect ==
    ASSUME TypeInv, NEW c \in Clients, NEW t \in loop[c].todo, Claim(c, t)
    PROVE  /\ loop[c].pc = "claim" /\ t[1] \in Shards
           /\ \E l :
                 /\ LoopBecomes(c, l)
                 /\ \/ /\ l.shard = {} /\ l.pc \in {"claim", "exit", "scan"} /\ row' = row
                    \/ /\ l.shard = {t[1]}
                       /\ \/ l.pc = "start" /\ l.seq = row[t[1]].seq /\ row[t[1]].client = NoClient
                          \/ l.pc = "reread" /\ l.seq = NoSeq
                       /\ row' \in [Shards -> Row]
                       /\ \A z \in Shards : z # t[1] => row'[z] = row[z]
                       /\ row'[t[1]].exists /\ row'[t[1]].seq = row[t[1]].seq
                       /\ row'[t[1]].client # NoClient
           /\ UNCHANGED consumer
  <1>1. PICK o \in Loop : o = loop[c]
    BY DEF TypeInv
  <1>2. o.pc = "claim" /\ o.todo \in SUBSET (Shards \X Nat) /\ t \in o.todo
    BY <1>1 DEF Claim, Loop
  <1>3. t[1] \in Shards /\ t[2] \in Nat
    BY <1>2
  <1>4. UNCHANGED <<closed, clientID, lastID, stopping, consumer, delivered, faults>>
    BY DEF Claim, processVars
  <1>5. row[t[1]] \in Row /\ row[t[1]].seq \in Nat
    BY <1>3 DEF TypeInv, Row
  <1>6. CASE row[t[1]].client = t[2]
    <2> DEFINE r == Checkpointed(c, row[t[1]].seq, FALSE)
    <2>1. PICK l : l = [o EXCEPT !.pc = IF t[2] = NoClient THEN "start" ELSE "reread",
                                 !.shard = {t[1]},
                                 !.seq = IF t[2] = NoClient THEN row[t[1]].seq ELSE NoSeq,
                                 !.todo = o.todo \ {t}]
      OBVIOUS
    <2>2. loop' = [loop EXCEPT ![c] = l]
      BY <1>1, <1>6, <2>1 DEF Claim
    <2>3. row' = [row EXCEPT ![t[1]] = r]
      BY <1>6 DEF Claim
    <2>4. r \in Row /\ r.exists /\ r.seq = row[t[1]].seq /\ r.client = clientID[c]
      BY <1>5, CheckpointedType
    <2>5. clientID[c] # NoClient
      BY DEF TypeInv
    <2>6. l \in Loop
      BY <1>2, <1>3, <1>5, <2>1 DEF Loop
    <2>7. /\ l.shard = {t[1]}
          /\ \/ l.pc = "start" /\ l.seq = row[t[1]].seq /\ t[2] = NoClient
             \/ l.pc = "reread" /\ l.seq = NoSeq
      BY <2>1 DEF Loop
    <2>8. LoopOK(l)
      BY <2>7 DEF LoopOK
    <2>9. LoopBecomes(c, l)
      BY <1>4, <2>2, <2>6, <2>8 DEF LoopBecomes, TypeInv
    <2> HIDE DEF r
    <2>10. row' \in [Shards -> Row] /\ row'[t[1]] = r
           /\ \A z \in Shards : z # t[1] => row'[z] = row[z]
      BY <1>3, <2>3, <2>4, RowUpdate
    <2> QED BY <1>1, <1>2, <1>3, <1>4, <1>6, <2>4, <2>5, <2>7, <2>9, <2>10
  <1>7. CASE row[t[1]].client # t[2]
    <2> DEFINE todo == IF c \in ExplicitClients THEN o.todo ELSE o.todo \ {t}
    <2>1. todo \in SUBSET (Shards \X Nat)
      BY <1>2
    <2>2. loop' = [loop EXCEPT ![c] = Onwards(c, todo)] /\ row' = row
      BY <1>1, <1>7 DEF Claim, Failed
    <2> HIDE DEF todo
    <2>3. /\ Onwards(c, todo) \in Loop /\ LoopOK(Onwards(c, todo))
          /\ Onwards(c, todo).shard = {} /\ Onwards(c, todo).pc \in {"claim", "exit", "scan"}
      BY <2>1, OnwardsType
    <2>4. LoopBecomes(c, Onwards(c, todo))
      BY <1>4, <2>2, <2>3 DEF LoopBecomes, TypeInv
    <2> QED BY <1>1, <1>2, <1>3, <1>4, <2>2, <2>3, <2>4
  <1> QED BY <1>6, <1>7

\* A loop that rereads its item has its sequence, or gives up.
LEMMA RereadEffect ==
    ASSUME TypeInv, NEW c \in Clients, Reread(c)
    PROVE  /\ \E l : /\ LoopBecomes(c, l)
                     /\ \/ l.shard = {} /\ l.pc \in {"claim", "exit", "scan"}
                        \/ \E s \in Shards : /\ l.pc = "start" /\ l.shard = {s}
                                             /\ l.seq = row[s].seq /\ l.seq # NoSeq
           /\ UNCHANGED <<row, consumer>>
  <1>1. PICK o \in Loop : o = loop[c] /\ LoopOK(o)
    BY DEF TypeInv
  <1>2. UNCHANGED <<closed, row, clientID, lastID, stopping, consumer, delivered, faults>>
    BY DEF Reread, tableVars, processVars
  <1>3. PICK s \in o.shard :
           loop' = [loop EXCEPT ![c] = IF HasSequence(s)
                                       THEN [o EXCEPT !.pc = "start", !.seq = row[s].seq]
                                       ELSE Onwards(c, o.todo)]
    BY <1>1 DEF Reread
  <1>4. s \in Shards /\ o.todo \in SUBSET (Shards \X Nat)
    BY <1>1, <1>3 DEF Loop
  <1>5. o.shard = {s} /\ row[s].seq \in Nat
    BY <1>1, <1>3, <1>4 DEF LoopOK, TypeInv, Row
  <1>6. CASE HasSequence(s)
    <2>1. PICK l : l = [o EXCEPT !.pc = "start", !.seq = row[s].seq]
      OBVIOUS
    <2>2. l \in Loop /\ l.pc = "start" /\ l.shard = {s} /\ l.seq = row[s].seq
      BY <1>5, <2>1 DEF Loop
    <2>3. LoopOK(l)
      BY <2>2 DEF LoopOK
    <2>4. LoopBecomes(c, l) /\ l.seq # NoSeq
      BY <1>2, <1>3, <1>6, <2>1, <2>2, <2>3 DEF LoopBecomes, TypeInv, HasSequence
    <2> QED BY <1>2, <1>4, <2>2, <2>4
  <1>7. CASE ~HasSequence(s)
    <2>1. /\ Onwards(c, o.todo) \in Loop /\ LoopOK(Onwards(c, o.todo))
          /\ Onwards(c, o.todo).shard = {} /\ Onwards(c, o.todo).pc \in {"claim", "exit", "scan"}
      BY <1>4, OnwardsType
    <2>2. LoopBecomes(c, Onwards(c, o.todo))
      BY <1>2, <1>3, <1>7, <2>1 DEF LoopBecomes, TypeInv
    <2> QED BY <1>2, <2>1, <2>2
  <1> QED BY <1>6, <1>7

\* A claim whose calls fail leaves the loop without a shard, and perhaps the item
\* with a new client and the sequence it had.
LEMMA FailedClaimEffect ==
    ASSUME TypeInv, NEW c \in Clients, RereadFails(c) \/ \E t \in loop[c].todo : ClaimFails(c, t)
    PROVE  /\ \E l : LoopBecomes(c, l) /\ l.shard = {} /\ l.pc \in {"claim", "exit", "scan"}
           /\ row' \in [Shards -> Row]
           /\ \A z \in Shards :
                 \/ row'[z] = row[z]
                 \/ row'[z].exists /\ row'[z].seq = row[z].seq /\ row'[z].client # NoClient
           /\ UNCHANGED consumer
  <1>1. PICK o \in Loop : o = loop[c]
    BY DEF TypeInv
  <1>2. o.todo \in SUBSET (Shards \X Nat)
    BY DEF Loop
  <1>3. UNCHANGED <<closed, clientID, lastID, stopping, consumer, delivered>>
    BY DEF ClaimFails, RereadFails, tableVars, processVars
  <1>4. faults' \in 0 .. MaxFaults
    BY FaultType DEF ClaimFails, RereadFails
  <1>5. PICK todo \in SUBSET (Shards \X Nat) : loop' = [loop EXCEPT ![c] = Onwards(c, todo)]
    <2>1. CASE RereadFails(c)
      BY <1>1, <1>2, <2>1 DEF RereadFails
    <2>2. ASSUME NEW t \in loop[c].todo, ClaimFails(c, t)
          PROVE  \E todo \in SUBSET (Shards \X Nat) : loop' = [loop EXCEPT ![c] = Onwards(c, todo)]
      <3>1. PICK todo \in SUBSET (Shards \X Nat) :
               todo = IF c \in ExplicitClients THEN o.todo ELSE o.todo \ {t}
        BY <1>2
      <3>2. loop' = [loop EXCEPT ![c] = Onwards(c, todo)]
        BY <1>1, <2>2, <3>1 DEF ClaimFails, Failed
      <3> QED BY <3>2
    <2> QED BY <2>1, <2>2
  <1>6. \E l : LoopBecomes(c, l) /\ l.shard = {} /\ l.pc \in {"claim", "exit", "scan"}
    <2>1. /\ Onwards(c, todo) \in Loop /\ LoopOK(Onwards(c, todo))
          /\ Onwards(c, todo).shard = {} /\ Onwards(c, todo).pc \in {"claim", "exit", "scan"}
      BY OnwardsType
    <2>2. LoopBecomes(c, Onwards(c, todo))
      BY <1>3, <1>4, <1>5, <2>1 DEF LoopBecomes
    <2> QED BY <2>1, <2>2
  <1>7. CASE row' = row
    BY <1>3, <1>6, <1>7 DEF TypeInv
  <1>8. CASE row' # row
    <2>1. PICK t \in loop[c].todo : row' = [row EXCEPT ![t[1]] = Checkpointed(c, row[t[1]].seq, FALSE)]
      BY <1>8 DEF ClaimFails, RereadFails, tableVars
    <2>2. PICK s \in Shards : s = t[1]
      BY <1>1, <1>2
    <2>3. PICK r : r = Checkpointed(c, row[s].seq, FALSE)
      OBVIOUS
    <2>4. row[s].seq \in Nat
      BY DEF TypeInv, Row
    <2>5. r \in Row /\ r.exists /\ r.seq = row[s].seq /\ r.client = clientID[c]
      BY <2>3, <2>4, CheckpointedType
    <2>6. clientID[c] # NoClient
      BY DEF TypeInv
    <2>7. row' = [row EXCEPT ![s] = r]
      BY <2>1, <2>2, <2>3
    <2>8. row' \in [Shards -> Row] /\ row'[s] = r /\ \A z \in Shards : z # s => row'[z] = row[z]
      BY <2>5, <2>7, RowUpdate
    <2> QED BY <1>3, <1>6, <2>5, <2>6, <2>8
  <1> QED BY <1>7, <1>8

\* A loop hands its shard over to a new consumer.
LEMMA RunConsumerEffect ==
    ASSUME TypeInv, NEW c \in Clients, RunConsumer(c)
    PROVE  \E s \in Shards, i \in Slots, l \in Loop :
              /\ LoopBecomes(c, l) /\ l.shard = {} /\ l.pc \in {"claim", "exit", "scan"}
              /\ loop[c].pc = "start" /\ loop[c].shard = {s} /\ loop[c].seq \in Nat
              /\ newConsumer(loop[c].seq) \in Consumer
              /\ consumer[c][s][i] = NoConsumer
              /\ consumer' = [consumer EXCEPT ![c][s][i] = newConsumer(loop[c].seq)]
              /\ UNCHANGED row
  <1>1. PICK o \in Loop : o = loop[c] /\ LoopOK(o)
    BY DEF TypeInv
  <1>2. UNCHANGED <<closed, row, clientID, lastID, stopping, delivered, faults>>
    BY DEF RunConsumer, tableVars, processVars
  <1>3. PICK s \in o.shard, i \in Slots :
           /\ consumer[c][s][i] = NoConsumer
           /\ consumer' = [consumer EXCEPT ![c][s][i] = newConsumer(o.seq)]
    BY <1>1 DEF RunConsumer
  <1>4. s \in Shards /\ o.shard = {s} /\ o.seq \in Nat /\ o.pc = "start"
    BY <1>1, <1>3 DEF Loop, LoopOK, RunConsumer
  <1>5. newConsumer(o.seq) \in Consumer
    BY <1>4, NewConsumerType
  <1> DEFINE todo == IF o.steal THEN {} ELSE o.todo
  <1>6. todo \in SUBSET (Shards \X Nat)
    BY DEF Loop
  <1>7. loop' = [loop EXCEPT ![c] = Onwards(c, todo)]
    BY <1>1 DEF RunConsumer
  <1> HIDE DEF todo
  <1>8. /\ Onwards(c, todo) \in Loop /\ LoopOK(Onwards(c, todo))
        /\ Onwards(c, todo).shard = {} /\ Onwards(c, todo).pc \in {"claim", "exit", "scan"}
    BY <1>6, OnwardsType
  <1>9. LoopBecomes(c, Onwards(c, todo))
    BY <1>2, <1>7, <1>8 DEF LoopBecomes, TypeInv
  <1> QED BY <1>1, <1>2, <1>3, <1>4, <1>5, <1>8, <1>9

\* A loop that cannot start its consumer hands the shard back.
LEMMA RunConsumerFailsEffect ==
    ASSUME TypeInv, NEW c \in Clients, RunConsumerFails(c)
    PROVE  \E s \in Shards, l \in Loop :
              /\ LoopBecomes(c, l) /\ l.shard = {} /\ l.pc \in {"claim", "exit", "scan"}
              /\ loop[c].pc = "start" /\ loop[c].shard = {s} /\ loop[c].seq \in Nat
              /\ row' \in [Shards -> Row]
              /\ \A z \in Shards : z # s => row'[z] = row[z]
              /\ \/ row'[s] = row[s]
                 \/ row'[s].exists /\ row'[s].seq = loop[c].seq /\ row'[s].client = NoClient
              /\ UNCHANGED consumer
  <1>1. PICK o \in Loop : o = loop[c] /\ LoopOK(o)
    BY DEF TypeInv
  <1>2. UNCHANGED <<closed, clientID, lastID, stopping, consumer, delivered>>
    BY DEF RunConsumerFails, processVars
  <1>3. faults' \in 0 .. MaxFaults
    BY FaultType DEF RunConsumerFails
  <1>4. PICK s \in o.shard :
           /\ FinalCheckpoint(c, s, o.seq)
           /\ loop' = [loop EXCEPT ![c] = Onwards(c,
                 o.todo \cup (IF c \in ExplicitClients THEN {<<s, NoClient>>} ELSE {}))]
    BY <1>1 DEF RunConsumerFails
  <1>5. s \in Shards /\ o.shard = {s} /\ o.seq \in Nat /\ o.pc = "start"
    BY <1>1, <1>4 DEF Loop, LoopOK, RunConsumerFails
  <1>6. /\ row' \in [Shards -> Row] /\ \A z \in Shards : z # s => row'[z] = row[z]
        /\ \/ row'[s] = row[s]
           \/ row'[s].exists /\ row'[s].seq = o.seq /\ row'[s].client = NoClient
    BY <1>4, <1>5, FinalCheckpointEffect
  <1> DEFINE todo == o.todo \cup (IF c \in ExplicitClients THEN {<<s, NoClient>>} ELSE {})
  <1>7. todo \in SUBSET (Shards \X Nat)
    BY <1>5 DEF Loop
  <1>8. loop' = [loop EXCEPT ![c] = Onwards(c, todo)]
    BY <1>4
  <1> HIDE DEF todo
  <1>9. /\ Onwards(c, todo) \in Loop /\ LoopOK(Onwards(c, todo))
        /\ Onwards(c, todo).shard = {} /\ Onwards(c, todo).pc \in {"claim", "exit", "scan"}
    BY <1>7, OnwardsType
  <1>10. LoopBecomes(c, Onwards(c, todo))
    BY <1>2, <1>3, <1>8, <1>9 DEF LoopBecomes
  <1> QED BY <1>1, <1>2, <1>5, <1>6, <1>9, <1>10

LEMMA LoopExitEffect ==
    ASSUME TypeInv, NEW c \in Clients, LoopExit(c)
    PROVE  /\ \E l : LoopBecomes(c, l) /\ l.shard = {} /\ l.pc = "exit"
           /\ UNCHANGED <<row, consumer>>
  <1>1. UNCHANGED <<closed, row, clientID, lastID, stopping, consumer, delivered, faults>>
    BY DEF LoopExit, tableVars, processVars
  <1>2. PICK l : l = [pc |-> "exit", todo |-> {}, shard |-> {}, seq |-> NoSeq, steal |-> FALSE]
    OBVIOUS
  <1>3. l \in Loop /\ l.shard = {} /\ l.pc = "exit"
    BY <1>2 DEF Loop
  <1>4. LoopOK(l)
    BY <1>3 DEF LoopOK
  <1>5. loop' = [loop EXCEPT ![c] = l]
    BY <1>2 DEF LoopExit
  <1> QED BY <1>1, <1>3, <1>4, <1>5 DEF LoopBecomes, TypeInv

\* A new process has everything to begin with.
LEMMA NewProcessEffect ==
    ASSUME TypeInv, NEW c \in Clients, NewProcess(c), Fault \/ faults' = faults
    PROVE  /\ TypeInv'
           /\ loop'[c].shard = {} /\ loop'[c].pc # "start"
           /\ \A d \in Clients : d # c => loop'[d] = loop[d]
           /\ \A s \in Shards, i \in Slots : consumer'[c][s][i] = NoConsumer
           /\ \A d \in Clients, s \in Shards, i \in Slots :
                 d # c => consumer'[d][s][i] = consumer[d][s][i]
           /\ stopping' = stopping \ {c}
           /\ UNCHANGED <<row, delivered>>
  <1>1. /\ loop' = [loop EXCEPT ![c] = Started(c)] /\ stopping' = stopping \ {c}
        /\ consumer' = [consumer EXCEPT ![c] = NoConsumers]
        /\ clientID' = [clientID EXCEPT ![c] = lastID + 1] /\ lastID' = lastID + 1
        /\ UNCHANGED <<closed, row, delivered>>
    BY DEF NewProcess, tableVars
  <1>2. Started(c) \in Loop /\ LoopOK(Started(c)) /\ Started(c).shard = {} /\ Started(c).pc # "start"
    BY FreshType DEF LoopOK
  <1>3. /\ loop' \in [Clients -> Loop] /\ \A d \in Clients : LoopOK(loop'[d])
        /\ loop'[c] = Started(c) /\ \A d \in Clients : d # c => loop'[d] = loop[d]
    BY <1>1, <1>2, LoopUpdate
  <1>4. /\ consumer' \in [Clients -> [Shards -> [Slots -> Consumer]]]
        /\ \A s \in Shards, i \in Slots : consumer'[c][s][i] = NoConsumer
        /\ \A d \in Clients : d # c => consumer'[d] = consumer[d]
    BY <1>1, FreshType DEF TypeInv
  <1>5. clientID' \in [Clients -> Nat \ {0}] /\ lastID' \in Nat
    BY <1>1 DEF TypeInv
  <1>6. faults' \in 0 .. MaxFaults
    BY FaultType
  <1>7. TypeInv'
    BY <1>1, <1>3, <1>4, <1>5, <1>6 DEF TypeInv
  <1> QED BY <1>1, <1>2, <1>3, <1>4, <1>7

-----------------------------------------------------------------------------
(* Types and deliveries, step by step.                                     *)

Inv == TypeInv /\ DeliveryInv

\* Nothing has been read when the processes start.
LEMMA DeliveryInit == Init => DeliveryInv
  <1> SUFFICES ASSUME Init PROVE DeliveryInv
    OBVIOUS
  <1>1. \A c \in Clients, s \in Shards, i \in Slots : consumer[c][s][i] = NoConsumer
    BY FreshType DEF Init
  <1>2. \A s \in Shards : delivered[s] = {} /\ row[s].seq = 0
    BY DEF Init, Absent
  <1>3. Covered(0, {})
    BY DEF Covered
  <1>4. \A c \in Clients : loop[c].shard = {}
    BY FreshType DEF Init
  <1>5. \A s \in Shards : Sound(NoConsumer, s, {})
    BY <1>3, SoundNew DEF Records
  <1>6. \A c, s, S : Ended(c, s, NoConsumer, S)
    BY NewConsumerType DEF Ended
  <1>7. AtLeastOnce
    BY <1>2 DEF AtLeastOnce
  <1>8. /\ \A s \in Shards : delivered[s] \subseteq Records(s)
        /\ \A c \in Clients : \A s \in loop[c].shard : Covered(loop[c].seq, delivered[s])
    BY <1>2, <1>4
  <1>9. ASSUME NEW c \in Clients, NEW s \in Shards, NEW i \in Slots
        PROVE  /\ Sound(consumer[c][s][i], s, delivered[s])
               /\ Ended(c, s, consumer[c][s][i], stopping)
    <2>1. consumer[c][s][i] = NoConsumer /\ delivered[s] = {}
      BY <1>1, <1>2
    <2> QED BY <1>5, <1>6, <2>1
  <1> QED BY <1>7, <1>8, <1>9 DEF DeliveryInv

\* A consumer became a sound one, and perhaps its item was written.
LEMMA WritesItemInv ==
    ASSUME Inv, NEW c \in Clients, NEW s \in Shards, NEW i \in Slots, NEW k,
           WritesItem(c, s, i, k),
           Sound(k, s, delivered[s]), Ended(c, s, k, stopping),
           Covered(row'[s].seq, delivered[s])
    PROVE  Inv'
  <1>1. /\ k \in Consumer /\ row' \in [Shards -> Row] /\ \A z \in Shards : z # s => row'[z] = row[z]
        /\ UNCHANGED <<closed, clientID, lastID, stopping, loop, delivered>>
        /\ faults' \in 0 .. MaxFaults /\ consumer' = [consumer EXCEPT ![c][s][i] = k]
    BY DEF WritesItem
  <1>2. /\ consumer' \in [Clients -> [Shards -> [Slots -> Consumer]]]
        /\ consumer'[c][s][i] = k
        /\ \A d \in Clients, z \in Shards, j \in Slots :
              d # c \/ z # s \/ j # i => consumer'[d][z][j] = consumer[d][z][j]
    <2>1. TypeInv
      BY DEF Inv
    <2>2. k \in Consumer /\ consumer' = [consumer EXCEPT ![c][s][i] = k]
      BY <1>1
    <2>3. ConsumerBecomes(c, s, i, k)
      BY <2>1, <2>2, ConsumerUpdate
    <2> QED BY <2>3 DEF ConsumerBecomes
  <1>3. TypeInv'
    BY <1>1, <1>2 DEF Inv, TypeInv
  <1>4. AtLeastOnce'
    BY <1>1 DEF Inv, DeliveryInv, AtLeastOnce, Covered
  <1>5. ASSUME NEW d \in Clients, NEW z \in Shards, NEW j \in Slots
        PROVE  Sound(consumer'[d][z][j], z, delivered'[z]) /\ Ended(d, z, consumer'[d][z][j], stopping')
    <2>1. CASE d = c /\ z = s /\ j = i
      BY <1>1, <1>2, <2>1
    <2>2. CASE d # c \/ z # s \/ j # i
      <3>1. Sound(consumer[d][z][j], z, delivered[z]) /\ Ended(d, z, consumer[d][z][j], stopping)
        BY DEF Inv, DeliveryInv
      <3>2. consumer'[d][z][j] = consumer[d][z][j] /\ delivered' = delivered /\ stopping' = stopping
        BY <1>1, <1>2, <2>2
      <3> QED BY <3>1, <3>2
    <2> QED BY <2>1, <2>2
  <1>6. /\ \A z \in Shards : delivered'[z] \subseteq Records(z)
        /\ \A d \in Clients : \A z \in loop'[d].shard : Covered(loop'[d].seq, delivered'[z])
    BY <1>1 DEF Inv, DeliveryInv
  <1> QED BY <1>3, <1>4, <1>5, <1>6 DEF Inv, DeliveryInv

\* A consumer became a sound one, and nothing else changed.
LEMMA KeepsTableInv ==
    ASSUME Inv, NEW c \in Clients, NEW s \in Shards, NEW i \in Slots, NEW k,
           KeepsTable(c, s, i, k),
           Sound(k, s, delivered[s]), Ended(c, s, k, stopping)
    PROVE  Inv'
  <1>1. WritesItem(c, s, i, k)
    BY DEF KeepsTable, WritesItem, Inv, TypeInv
  <1>2. Covered(row'[s].seq, delivered[s])
    BY DEF KeepsTable, Inv, DeliveryInv, AtLeastOnce, Covered
  <1> QED BY <1>1, <1>2, WritesItemInv

\* A loop moved on, and perhaps an item was written.
LEMMA LoopBecomesInv ==
    ASSUME Inv, NEW c \in Clients, NEW l, LoopBecomes(c, l),
           row' \in [Shards -> Row], \A s \in Shards : Covered(row'[s].seq, delivered[s]),
           \A s \in l.shard : Covered(l.seq, delivered[s]),
           UNCHANGED consumer
    PROVE  Inv'
  <1>1. /\ l \in Loop /\ LoopOK(l) /\ loop' = [loop EXCEPT ![c] = l]
        /\ UNCHANGED <<closed, clientID, lastID, stopping, delivered>>
        /\ faults' \in 0 .. MaxFaults
    BY DEF LoopBecomes
  <1>2. /\ loop' \in [Clients -> Loop] /\ \A d \in Clients : LoopOK(loop'[d])
        /\ loop'[c] = l /\ \A d \in Clients : d # c => loop'[d] = loop[d]
    BY <1>1, LoopUpdate DEF Inv
  <1>3. TypeInv'
    BY <1>1, <1>2 DEF Inv, TypeInv
  <1>4. AtLeastOnce'
    BY <1>1 DEF AtLeastOnce, Covered
  <1>5. \A d \in Clients : \A z \in loop'[d].shard : Covered(loop'[d].seq, delivered'[z])
    BY <1>1, <1>2 DEF Inv, DeliveryInv
  <1>6. \A d \in Clients, z \in Shards, j \in Slots :
           Sound(consumer'[d][z][j], z, delivered'[z]) /\ Ended(d, z, consumer'[d][z][j], stopping')
    BY <1>1 DEF Inv, DeliveryInv
  <1>7. \A z \in Shards : delivered'[z] \subseteq Records(z)
    BY <1>1 DEF Inv, DeliveryInv
  <1> QED BY <1>3, <1>4, <1>5, <1>6, <1>7 DEF Inv, DeliveryInv

\* What Inv says of one consumer.
LEMMA ConsumerFacts ==
    ASSUME Inv, NEW c \in Clients, NEW s \in Shards, NEW i \in Slots
    PROVE  /\ consumer[c][s][i] \in Consumer
           /\ Sound(consumer[c][s][i], s, delivered[s])
           /\ Ended(c, s, consumer[c][s][i], stopping)
           /\ delivered[s] \in SUBSET Records(s)
           /\ Covered(consumer[c][s][i].acked, delivered[s])
           /\ Covered(row[s].seq, delivered[s])
           /\ Sound(NoConsumer, s, delivered[s]) /\ Ended(c, s, NoConsumer, stopping)
  <1>1. /\ consumer[c][s][i] \in Consumer
        /\ Sound(consumer[c][s][i], s, delivered[s])
        /\ Ended(c, s, consumer[c][s][i], stopping)
        /\ delivered[s] \in SUBSET Records(s)
    BY DEF Inv, TypeInv, DeliveryInv
  <1>2. Covered(row[s].seq, delivered[s])
    BY DEF Inv, DeliveryInv, AtLeastOnce, Covered
  <1>3. Covered(consumer[c][s][i].acked, delivered[s])
    BY <1>1 DEF Sound
  <1>4. Sound(NoConsumer, s, delivered[s])
    <2>1. Covered(0, delivered[s])
      BY DEF Covered
    <2> QED BY <1>1, <2>1, SoundNew
  <1>5. Ended(c, s, NoConsumer, stopping)
    BY NewConsumerType DEF Ended
  <1> QED BY <1>1, <1>2, <1>3, <1>4, <1>5

\* Consumers: the steps that touch neither the table nor the deliveries.
LEMMA ReadingInv ==
    ASSUME Inv, NEW c \in Clients, NEW s \in Shards, NEW i \in Slots,
           \/ Pull(c, s, i) \/ RefreshIterator(c, s, i) \/ FlushMessage(c, s, i)
           \/ Send(c, s, i) \/ FinishedReturn(c, s, i)
           \/ \E t \in consumer[c][s][i].stores : StoreAcked(c, s, i, t)
    PROVE  Inv'
  <1>1. PICK k \in Consumer : k = consumer[c][s][i]
    BY ConsumerFacts
  <1>2. /\ TypeInv /\ Sound(k, s, delivered[s]) /\ Ended(c, s, k, stopping)
        /\ delivered[s] \in SUBSET Records(s)
    BY <1>1, ConsumerFacts DEF Inv
  <1>3. CASE Pull(c, s, i)
    <2>1. PICK next \in Nat, st \in {"consuming", "finished"} :
              /\ k.iter <= next /\ next <= NumRecords[s]
              /\ st = "finished" => next = NumRecords[s]
              /\ KeepsTable(c, s, i, [k EXCEPT !.iter = next, !.buffer = @ \o Run(k.iter, next), !.state = st])
      BY <1>1, <1>2, <1>3, PullEffect, ZenonT(60)
    <2>2. PICK r : r = [k EXCEPT !.iter = next, !.buffer = @ \o Run(k.iter, next), !.state = st]
      OBVIOUS
    <2>3. Sound(r, s, delivered[s])
      BY <1>2, <2>1, <2>2, SoundPull
    <2>4. r.state = st /\ r.iter = next
      BY <2>2 DEF Consumer
    <2>5. Ended(c, s, r, stopping)
      BY <2>1, <2>4 DEF Ended
    <2> QED BY <2>1, <2>2, <2>3, <2>5, KeepsTableInv
  <1>4. CASE RefreshIterator(c, s, i)
    <2>1. k.state = "consuming" /\ KeepsTable(c, s, i, [k EXCEPT !.iter = k.acked])
      BY <1>1, <1>2, <1>4, RefreshEffect
    <2>2. PICK r : r = [k EXCEPT !.iter = k.acked]
      OBVIOUS
    <2>3. Sound(r, s, delivered[s])
      BY <1>2, <2>2, SoundRefresh
    <2>4. r.state = "consuming"
      BY <2>1, <2>2 DEF Consumer
    <2>5. Ended(c, s, r, stopping)
      BY <2>4 DEF Ended
    <2> QED BY <2>1, <2>2, <2>3, <2>5, KeepsTableInv
  <1>5. CASE FlushMessage(c, s, i)
    <2>1. PICK n \in 1 .. Len(k.buffer) : KeepsTable(c, s, i, Flushed(k, n))
      BY <1>1, <1>2, <1>5, FlushEffect
    <2>2. Sound(Flushed(k, n), s, delivered[s])
      BY <1>2, SoundFlush
    <2>3. Flushed(k, n).state = k.state /\ Flushed(k, n).iter = k.iter
      BY FlushedType
    <2>4. k.state # "drained"
      BY <1>1, <1>2, <1>5, FlushEffect DEF Running
    <2>5. Ended(c, s, Flushed(k, n), stopping)
      BY <1>2, <2>3, <2>4 DEF Ended
    <2> QED BY <2>1, <2>2, <2>5, KeepsTableInv
  <1>6. CASE Send(c, s, i)
    <2>1. KeepsTable(c, s, i, [k EXCEPT !.unsent = FALSE])
      BY <1>1, <1>2, <1>6, SendEffect
    <2>2. PICK r : r = [k EXCEPT !.unsent = FALSE]
      OBVIOUS
    <2>3. /\ r.iter = k.iter /\ r.buffer = k.buffer /\ r.flight = k.flight /\ r.top = k.top
          /\ r.stores = k.stores /\ r.acked = k.acked /\ r.state = k.state
      BY <2>2 DEF Consumer
    <2>4. Sound(r, s, delivered[s])
      BY <1>2, <2>3, SoundSame
    <2>5. Ended(c, s, r, stopping)
      BY <1>2, <2>3 DEF Ended
    <2> QED BY <2>1, <2>2, <2>4, <2>5, KeepsTableInv
  <1>7. CASE FinishedReturn(c, s, i)
    <2>1. /\ k.state = "finished" /\ (k.buffer = <<>> \/ c \in stopping)
          /\ KeepsTable(c, s, i, [k EXCEPT !.state = "drained"])
      BY <1>1, <1>2, <1>7, FinishedEffect
    <2>2. PICK r : r = [k EXCEPT !.state = "drained"]
      OBVIOUS
    <2>3. /\ r.iter = k.iter /\ r.buffer = k.buffer /\ r.flight = k.flight /\ r.top = k.top
          /\ r.stores = k.stores /\ r.acked = k.acked
      BY <2>2 DEF Consumer
    <2>4. Sound(r, s, delivered[s])
      BY <1>2, <2>3, SoundSame
    <2>5. Ended(c, s, r, stopping)
      BY <1>2, <2>1, <2>3 DEF Ended
    <2> QED BY <2>1, <2>2, <2>4, <2>5, KeepsTableInv
  <1>8. ASSUME NEW t \in consumer[c][s][i].stores, StoreAcked(c, s, i, t) PROVE Inv'
    <2>1. t \in k.stores /\ KeepsTable(c, s, i, [k EXCEPT !.acked = t, !.stores = @ \ {t}])
      BY <1>1, <1>2, <1>8, StoreEffect
    <2>2. PICK r : r = [k EXCEPT !.acked = t, !.stores = @ \ {t}]
      OBVIOUS
    <2>3. Sound(r, s, delivered[s])
      BY <1>2, <2>1, <2>2, SoundStore
    <2>4. r.state = k.state /\ r.iter = k.iter /\ r.buffer = k.buffer
      BY <2>2 DEF Consumer
    <2>5. Ended(c, s, r, stopping)
      BY <1>2, <2>4 DEF Ended
    <2> QED BY <2>1, <2>2, <2>3, <2>5, KeepsTableInv
  <1> QED BY <1>3, <1>4, <1>5, <1>6, <1>7, <1>8

\* Consumers: the steps that write the item, or stop the consumer.
LEMMA WritingInv ==
    ASSUME Inv, NEW c \in Clients, NEW s \in Shards, NEW i \in Slots,
           \/ Commit(c, s, i) \/ Delete(c, s, i) \/ Yield(c, s, i) \/ CloseConsumer(c, s, i)
    PROVE  Inv'
  <1>1. PICK k \in Consumer : k = consumer[c][s][i]
    BY ConsumerFacts
  <1>2. /\ TypeInv /\ Sound(k, s, delivered[s]) /\ Ended(c, s, k, stopping)
        /\ Covered(k.acked, delivered[s]) /\ Covered(row[s].seq, delivered[s])
        /\ Sound(NoConsumer, s, delivered[s]) /\ Ended(c, s, NoConsumer, stopping)
    BY <1>1, ConsumerFacts DEF Inv
  <1>3. CASE Commit(c, s, i)
    <2>1. \/ WritesItem(c, s, i, k) /\ row'[s].seq = k.acked
          \/ KeepsTable(c, s, i, [k EXCEPT !.state = "yielding"])
      BY <1>1, <1>2, <1>3, CommitEffect
    <2>2. CASE WritesItem(c, s, i, k) /\ row'[s].seq = k.acked
      BY <1>2, <2>2, WritesItemInv
    <2>3. CASE KeepsTable(c, s, i, [k EXCEPT !.state = "yielding"])
      <3>1. PICK r : r = [k EXCEPT !.state = "yielding"]
        OBVIOUS
      <3>2. /\ r.iter = k.iter /\ r.buffer = k.buffer /\ r.flight = k.flight /\ r.top = k.top
            /\ r.stores = k.stores /\ r.acked = k.acked /\ r.state = "yielding"
        BY <3>1 DEF Consumer
      <3>3. Sound(r, s, delivered[s])
        BY <1>2, <3>2, SoundSame
      <3>4. Ended(c, s, r, stopping)
        BY <3>2 DEF Ended
      <3> QED BY <2>3, <3>1, <3>3, <3>4, KeepsTableInv
    <2> QED BY <2>1, <2>2, <2>3
  <1>4. CASE Delete(c, s, i)
    <2>1. WritesItem(c, s, i, NoConsumer) /\ (row' = row \/ row'[s].seq = NoSeq)
      BY <1>2, <1>4, DeleteEffect
    <2>2. Covered(0, delivered[s])
      BY DEF Covered
    <2>3. Covered(row'[s].seq, delivered[s])
      BY <1>2, <2>1, <2>2
    <2> QED BY <1>2, <2>1, <2>3, WritesItemInv
  <1>5. CASE Yield(c, s, i)
    <2>1. WritesItem(c, s, i, NoConsumer) /\ (row'[s] = row[s] \/ row'[s].seq = k.acked)
      BY <1>1, <1>2, <1>5, YieldEffect
    <2> QED BY <1>2, <2>1, WritesItemInv
  <1>6. CASE CloseConsumer(c, s, i)
    <2>1. WritesItem(c, s, i, NoConsumer) /\ (row'[s] = row[s] \/ row'[s].seq = k.acked)
      BY <1>1, <1>2, <1>6, CloseEffect
    <2> QED BY <1>2, <2>1, WritesItemInv
  <1> QED BY <1>3, <1>4, <1>5, <1>6

\* What a consumer has read of a shard are records of the shard.
LEMMA TrackedRecords ==
    ASSUME NEW flight, NEW s, NEW D, FlightSound(flight, s, D), NEW j \in 1 .. Len(flight)
    PROVE  RecordsOf(flight[j].batch) \subseteq Records(s)
  <1>1. PICK b \in Seq(Records(s)) : b = flight[j].batch
    BY DEF FlightSound
  <1>2. \A x \in DOMAIN b : b[x] \in Records(s)
    OBVIOUS
  <1> QED BY <1>1, <1>2 DEF RecordsOf

\* The pipeline acknowledges a batch.
LEMMA ResolveInv ==
    ASSUME Inv, NEW c \in Clients, NEW s \in Shards, NEW i \in Slots,
           NEW j \in DOMAIN consumer[c][s][i].flight, Resolve(c, s, i, j)
    PROVE  Inv'
  <1>1. PICK k \in Consumer : k = consumer[c][s][i]
    BY ConsumerFacts
  <1>2. /\ TypeInv /\ Sound(k, s, delivered[s]) /\ Ended(c, s, k, stopping)
        /\ delivered[s] \in SUBSET Records(s) /\ FlightSound(k.flight, s, delivered[s])
    BY <1>1, ConsumerFacts DEF Inv, Sound
  <1>3. PICK m \in 0 .. Len(k.flight) :
              /\ j \in 1 .. Len(k.flight)
              /\ \A q \in 1 .. m : q = j \/ k.flight[q].done
              /\ Resolved(k, j, m) \in Consumer
              /\ consumer' = [consumer EXCEPT ![c][s][i] = Resolved(k, j, m)]
              /\ delivered' = [delivered EXCEPT ![s] = @ \cup RecordsOf(k.flight[j].batch)]
              /\ UNCHANGED <<closed, row, clientID, lastID, stopping, loop, faults>>
    BY <1>1, <1>2, ResolveEffect
  <1> DEFINE E == delivered[s] \cup RecordsOf(k.flight[j].batch)
             r == Resolved(k, j, m)
  <1>4. Sound(r, s, E)
    BY <1>2, <1>3, SoundResolve
  <1>5. r.iter = k.iter /\ r.buffer = k.buffer /\ r.state = k.state
    <2>1. \A q \in 1 .. Len(k.flight) : k.flight[q].batch # <<>>
      BY <1>2 DEF FlightSound
    <2> QED BY <1>3, <2>1, ResolvedType, SMTT(60)
  <1>6. Ended(c, s, r, stopping)
    BY <1>2, <1>5 DEF Ended
  <1>7. /\ consumer' \in [Clients -> [Shards -> [Slots -> Consumer]]]
        /\ consumer'[c][s][i] = r
        /\ \A d \in Clients, z \in Shards, h \in Slots :
              d # c \/ z # s \/ h # i => consumer'[d][z][h] = consumer[d][z][h]
    <2>1. ConsumerBecomes(c, s, i, r)
      BY <1>2, <1>3, ConsumerUpdate
    <2> QED BY <2>1 DEF ConsumerBecomes
  <1> HIDE DEF r
  <1>8. E \subseteq Records(s) /\ Records(s) \subseteq Nat
    BY <1>2, <1>3, TrackedRecords DEF Records
  <1>9. /\ delivered' \in [Shards -> SUBSET Nat] /\ delivered'[s] = E
        /\ \A z \in Shards : delivered[z] \subseteq delivered'[z]
        /\ \A z \in Shards : z # s => delivered'[z] = delivered[z]
    BY <1>2, <1>3, <1>8 DEF TypeInv
  <1> HIDE DEF E
  <1>10. \A z \in Shards : delivered'[z] \subseteq Records(z)
    BY <1>8, <1>9 DEF Inv, DeliveryInv
  <1>11. TypeInv'
    BY <1>2, <1>3, <1>7, <1>9 DEF TypeInv
  <1>12. AtLeastOnce'
    BY <1>3, <1>9 DEF Inv, DeliveryInv, AtLeastOnce
  <1>13. ASSUME NEW d \in Clients, NEW z \in loop'[d].shard
         PROVE  Covered(loop'[d].seq, delivered'[z])
    <2>1. loop' = loop /\ z \in Shards
      BY <1>2, <1>3 DEF TypeInv, Loop
    <2>2. Covered(loop[d].seq, delivered[z])
      BY <2>1 DEF Inv, DeliveryInv
    <2> QED BY <1>9, <2>1, <2>2 DEF Covered
  <1>14. ASSUME NEW d \in Clients, NEW z \in Shards, NEW h \in Slots
         PROVE  Sound(consumer'[d][z][h], z, delivered'[z]) /\ Ended(d, z, consumer'[d][z][h], stopping')
    <2>1. CASE d = c /\ z = s /\ h = i
      BY <1>3, <1>4, <1>6, <1>7, <1>9, <2>1 DEF r, E
    <2>2. CASE d # c \/ z # s \/ h # i
      <3>1. Sound(consumer[d][z][h], z, delivered[z]) /\ Ended(d, z, consumer[d][z][h], stopping)
        BY ConsumerFacts
      <3>2. Sound(consumer[d][z][h], z, delivered'[z])
        BY <1>9, <3>1, SoundMono
      <3> QED BY <1>3, <1>7, <2>2, <3>1, <3>2
    <2> QED BY <2>1, <2>2
  <1> QED BY <1>10, <1>11, <1>12, <1>13, <1>14 DEF Inv, DeliveryInv

\* The rebalancing loop.
LEMMA LoopInv ==
    ASSUME Inv, NEW c \in Clients, LoopStep(c)
    PROVE  Inv'
  <1>1. TypeInv /\ row \in [Shards -> Row] /\ \A s \in Shards : Covered(row[s].seq, delivered[s])
    BY DEF Inv, TypeInv, DeliveryInv, AtLeastOnce, Covered
  <1>2. CASE Scan(c)
    <2>1. PICK l : LoopBecomes(c, l) /\ l.shard = {} /\ UNCHANGED <<row, consumer>>
      BY <1>1, <1>2, ScanEffect
    <2> QED BY <1>1, <2>1, LoopBecomesInv
  <1>3. ASSUME NEW t \in loop[c].todo, Claim(c, t) PROVE Inv'
    <2>1. PICK l : /\ LoopBecomes(c, l) /\ t[1] \in Shards
                   /\ \/ l.shard = {} /\ row' = row
                      \/ /\ l.shard = {t[1]} /\ (l.seq = row[t[1]].seq \/ l.seq = NoSeq)
                         /\ row' \in [Shards -> Row]
                         /\ \A z \in Shards : z # t[1] => row'[z] = row[z]
                         /\ row'[t[1]].seq = row[t[1]].seq
                   /\ UNCHANGED consumer
      BY <1>1, <1>3, ClaimEffect
    <2>2. row' \in [Shards -> Row] /\ \A z \in Shards : row'[z].seq = row[z].seq
      BY <1>1, <2>1
    <2>3. \A s : Covered(0, delivered[s])
      BY DEF Covered
    <2>4. \A s \in l.shard : Covered(l.seq, delivered[s])
      BY <1>1, <2>1, <2>3
    <2> QED BY <1>1, <2>1, <2>2, <2>4, LoopBecomesInv
  <1>4. CASE Reread(c)
    <2>1. PICK l : /\ LoopBecomes(c, l) /\ UNCHANGED <<row, consumer>>
                   /\ \/ l.shard = {}
                      \/ \E s \in Shards : l.shard = {s} /\ l.seq = row[s].seq
      BY <1>1, <1>4, RereadEffect
    <2>2. \A s \in l.shard : Covered(l.seq, delivered[s])
      BY <1>1, <2>1
    <2> QED BY <1>1, <2>1, <2>2, LoopBecomesInv
  <1>5. CASE RunConsumerFails(c)
    <2>1. PICK s \in Shards, l \in Loop :
              /\ LoopBecomes(c, l) /\ l.shard = {} /\ loop[c].shard = {s}
              /\ row' \in [Shards -> Row]
              /\ \A z \in Shards : z # s => row'[z] = row[z]
              /\ row'[s] = row[s] \/ row'[s].seq = loop[c].seq
              /\ UNCHANGED consumer
      BY <1>1, <1>5, RunConsumerFailsEffect
    <2>2. Covered(loop[c].seq, delivered[s])
      BY <2>1 DEF Inv, DeliveryInv
    <2>3. \A z \in Shards : Covered(row'[z].seq, delivered[z])
      BY <1>1, <2>1, <2>2
    <2> QED BY <2>1, <2>3, LoopBecomesInv
  <1>6. CASE LoopExit(c)
    <2>1. PICK l : LoopBecomes(c, l) /\ l.shard = {} /\ UNCHANGED <<row, consumer>>
      BY <1>1, <1>6, LoopExitEffect
    <2> QED BY <1>1, <2>1, LoopBecomesInv
  <1>7. CASE RunConsumer(c)
    <2>1. PICK s \in Shards, i \in Slots, l \in Loop :
              /\ LoopBecomes(c, l) /\ l.shard = {}
              /\ loop[c].shard = {s} /\ loop[c].seq \in Nat
              /\ newConsumer(loop[c].seq) \in Consumer
              /\ consumer' = [consumer EXCEPT ![c][s][i] = newConsumer(loop[c].seq)]
              /\ UNCHANGED row
      BY <1>1, <1>7, RunConsumerEffect
    <2>2. Covered(loop[c].seq, delivered[s]) /\ delivered[s] \in SUBSET Records(s)
      BY <2>1 DEF Inv, DeliveryInv
    <2>3. PICK k \in Consumer : k = newConsumer(loop[c].seq)
      BY <2>1
    <2>4. Sound(k, s, delivered[s])
      BY <2>1, <2>2, <2>3, SoundNew
    <2>5. Ended(c, s, k, stopping)
      BY <2>3 DEF Ended, newConsumer
    <2>6. /\ consumer' \in [Clients -> [Shards -> [Slots -> Consumer]]]
          /\ consumer'[c][s][i] = k
          /\ \A d \in Clients, z \in Shards, j \in Slots :
                d # c \/ z # s \/ j # i => consumer'[d][z][j] = consumer[d][z][j]
      <3>1. ConsumerBecomes(c, s, i, k)
        BY <1>1, <2>1, <2>3, ConsumerUpdate
      <3> QED BY <3>1 DEF ConsumerBecomes
    <2>7. /\ loop' \in [Clients -> Loop] /\ \A d \in Clients : LoopOK(loop'[d])
          /\ loop'[c].shard = {} /\ \A d \in Clients : d # c => loop'[d] = loop[d]
          /\ UNCHANGED <<closed, clientID, lastID, stopping, delivered>>
          /\ faults' \in 0 .. MaxFaults
      BY <1>1, <2>1, LoopUpdate DEF LoopBecomes
    <2>8. TypeInv'
      BY <1>1, <2>1, <2>6, <2>7 DEF TypeInv
    <2>9. AtLeastOnce' /\ \A z \in Shards : delivered'[z] \subseteq Records(z)
      BY <2>1, <2>7 DEF Inv, DeliveryInv, AtLeastOnce
    <2>10. \A d \in Clients : \A z \in loop'[d].shard : Covered(loop'[d].seq, delivered'[z])
      BY <2>7 DEF Inv, DeliveryInv
    <2>11. ASSUME NEW d \in Clients, NEW z \in Shards, NEW j \in Slots
           PROVE  Sound(consumer'[d][z][j], z, delivered'[z]) /\ Ended(d, z, consumer'[d][z][j], stopping')
      <3>1. CASE d = c /\ z = s /\ j = i
        BY <2>4, <2>5, <2>6, <2>7, <3>1
      <3>2. CASE d # c \/ z # s \/ j # i
        BY <2>6, <2>7, <3>2, ConsumerFacts
      <3> QED BY <3>1, <3>2
    <2> QED BY <2>8, <2>9, <2>10, <2>11 DEF Inv, DeliveryInv
  <1>8. CASE RereadFails(c) \/ \E t \in loop[c].todo : ClaimFails(c, t)
    <2>1. PICK l : LoopBecomes(c, l) /\ l.shard = {}
      BY <1>1, <1>8, FailedClaimEffect
    <2>2. /\ row' \in [Shards -> Row] /\ \A z \in Shards : row'[z].seq = row[z].seq
          /\ UNCHANGED consumer
      BY <1>1, <1>8, FailedClaimEffect
    <2> QED BY <1>1, <2>1, <2>2, LoopBecomesInv
  <1> QED BY <1>2, <1>3, <1>4, <1>5, <1>6, <1>7, <1>8 DEF LoopStep

\* Processes close, crash and start again.
LEMMA ProcessInv ==
    ASSUME Inv, NEW c \in Clients, ProcessStep(c)
    PROVE  Inv'
  <1>1. TypeInv
    BY DEF Inv
  <1>2. CASE Close(c)
    <2>1. /\ stopping' = stopping \cup {c} /\ stopping' \subseteq Clients
          /\ UNCHANGED <<closed, row, clientID, lastID, loop, consumer, delivered>>
      BY <1>1, <1>2 DEF Close, tableVars, TypeInv
    <2>2. faults' \in 0 .. MaxFaults
      BY <1>1, <1>2, FaultType DEF Close
    <2>3. TypeInv'
      BY <1>1, <2>1, <2>2 DEF TypeInv
    <2>4. ASSUME NEW d \in Clients, NEW z \in Shards, NEW j \in Slots
          PROVE  Sound(consumer'[d][z][j], z, delivered'[z]) /\ Ended(d, z, consumer'[d][z][j], stopping')
      <3>1. Sound(consumer[d][z][j], z, delivered[z]) /\ Ended(d, z, consumer[d][z][j], stopping)
        BY ConsumerFacts
      <3>2. Ended(d, z, consumer[d][z][j], stopping')
        BY <2>1, <3>1 DEF Ended
      <3> QED BY <2>1, <3>1, <3>2
    <2>5. /\ AtLeastOnce' /\ \A z \in Shards : delivered'[z] \subseteq Records(z)
          /\ \A d \in Clients : \A z \in loop'[d].shard : Covered(loop'[d].seq, delivered'[z])
      BY <2>1 DEF Inv, DeliveryInv, AtLeastOnce
    <2> QED BY <2>3, <2>4, <2>5 DEF Inv, DeliveryInv
  <1>3. CASE Restart(c) \/ Crash(c)
    <2>1. NewProcess(c) /\ (Fault \/ faults' = faults)
      BY <1>3 DEF Restart, Crash
    <2>2. /\ TypeInv' /\ loop'[c].shard = {} /\ \A d \in Clients : d # c => loop'[d] = loop[d]
          /\ \A s \in Shards, i \in Slots : consumer'[c][s][i] = NoConsumer
          /\ \A d \in Clients, s \in Shards, i \in Slots : d # c => consumer'[d][s][i] = consumer[d][s][i]
          /\ stopping' = stopping \ {c} /\ UNCHANGED <<row, delivered>>
      BY <1>1, <2>1, NewProcessEffect
    <2>3. ASSUME NEW d \in Clients, NEW z \in Shards, NEW j \in Slots
          PROVE  Sound(consumer'[d][z][j], z, delivered'[z]) /\ Ended(d, z, consumer'[d][z][j], stopping')
      <3>1. /\ Sound(consumer[d][z][j], z, delivered[z]) /\ Ended(d, z, consumer[d][z][j], stopping)
            /\ Sound(NoConsumer, z, delivered[z])
        BY ConsumerFacts
      <3>2. CASE d = c
        <4>1. Ended(d, z, NoConsumer, stopping')
          BY NewConsumerType DEF Ended
        <4> QED BY <2>2, <3>1, <3>2, <4>1
      <3>3. CASE d # c
        <4>1. Ended(d, z, consumer[d][z][j], stopping')
          BY <2>2, <3>1, <3>3 DEF Ended
        <4> QED BY <2>2, <3>1, <3>3, <4>1
      <3> QED BY <3>2, <3>3
    <2>4. AtLeastOnce' /\ \A z \in Shards : delivered'[z] \subseteq Records(z)
      BY <2>2 DEF Inv, DeliveryInv, AtLeastOnce
    <2>5. \A d \in Clients : \A z \in loop'[d].shard : Covered(loop'[d].seq, delivered'[z])
      BY <2>2 DEF Inv, DeliveryInv
    <2> QED BY <2>2, <2>3, <2>4, <2>5 DEF Inv, DeliveryInv
  <1> QED BY <1>2, <1>3 DEF ProcessStep

\* Leases run out and shards are closed.
LEMMA StreamInv ==
    ASSUME Inv, NEW s \in Shards, StreamStep(s)
    PROVE  Inv'
  <1>1. TypeInv /\ row[s] \in Row
    BY DEF Inv, TypeInv
  <1>2. /\ UNCHANGED <<clientID, lastID, stopping, loop, consumer, delivered>>
        /\ closed' \subseteq Shards /\ (Fault \/ faults' = faults)
    BY <1>1 DEF StreamStep, LeaseExpires, CloseShard, processVars, TypeInv
  <1>3. row' \in [Shards -> Row] /\ \A z \in Shards : row'[z].seq = row[z].seq
    <2>1. CASE LeaseExpires(s)
      <3>1. PICK r : r = [row[s] EXCEPT !.fresh = FALSE]
        OBVIOUS
      <3>2. r \in Row /\ r.seq = row[s].seq
        BY <1>1, <3>1 DEF Row
      <3>3. row' = [row EXCEPT ![s] = r]
        BY <2>1, <3>1 DEF LeaseExpires
      <3>4. row' \in [Shards -> Row] /\ row'[s] = r /\ \A z \in Shards : z # s => row'[z] = row[z]
        BY <1>1, <3>2, <3>3, RowUpdate
      <3> QED BY <3>2, <3>4
    <2>2. CASE CloseShard(s)
      BY <1>1, <2>2 DEF CloseShard, TypeInv
    <2> QED BY <2>1, <2>2 DEF StreamStep
  <1>4. faults' \in 0 .. MaxFaults
    BY <1>1, <1>2, FaultType
  <1>5. TypeInv'
    BY <1>1, <1>2, <1>3, <1>4 DEF TypeInv
  <1>6. AtLeastOnce'
    BY <1>2, <1>3 DEF Inv, DeliveryInv, AtLeastOnce
  <1>7. DeliveryInv'
    BY <1>2, <1>6 DEF Inv, DeliveryInv
  <1> QED BY <1>5, <1>7 DEF Inv

\* Every step keeps the invariant.
LEMMA InvStep == Inv /\ [Next]_vars => Inv'
  <1> SUFFICES ASSUME Inv, [Next]_vars PROVE Inv'
    OBVIOUS
  <1>1. ASSUME NEW c \in Clients, LoopStep(c) PROVE Inv'
    BY <1>1, LoopInv
  <1>2. ASSUME NEW c \in Clients, NEW s \in Shards, NEW i \in Slots,
               ConsumerStep(c, s, i) \/ Commit(c, s, i) \/ RefreshIterator(c, s, i)
        PROVE  Inv'
    BY <1>2, ReadingInv, WritingInv DEF ConsumerStep
  <1>3. ASSUME NEW c \in Clients, NEW s \in Shards, NEW i \in Slots, PipelineStep(c, s, i)
        PROVE  Inv'
    BY <1>3, ReadingInv, ResolveInv DEF PipelineStep
  <1>4. ASSUME NEW c \in Clients, ProcessStep(c) PROVE Inv'
    BY <1>4, ProcessInv
  <1>5. ASSUME NEW s \in Shards, StreamStep(s) PROVE Inv'
    BY <1>5, StreamInv
  <1>6. CASE UNCHANGED vars
    BY <1>6 DEF vars, Inv, TypeInv, DeliveryInv, AtLeastOnce
  <1> QED BY <1>1, <1>2, <1>3, <1>4, <1>5, <1>6 DEF Next

\* The invariant holds all the time.
LEMMA InvAlways == Spec => []Inv
  <1>1. Init => Inv
    BY TypeInit, DeliveryInit DEF Inv
  <1> QED BY <1>1, InvStep, PTL DEF Spec

\* Every variable of the processes, of the table and of the stream keeps its
\* type, however many claims, thefts, crashes and failed calls there are.
THEOREM TypeCorrect == Spec => []TypeOK
  <1>1. Inv => TypeOK
    BY TypeInvTypeOK DEF Inv
  <1> QED BY <1>1, InvAlways, PTL

\* The sequence in the table (input_checkpointer.go, Checkpoint and Yield) never
\* lies behind a record that no output has confirmed: whoever claims a shard
\* starts behind nothing that is lost.
THEOREM AtLeastOnceDelivery == Spec => []AtLeastOnce
  <1>1. Inv => AtLeastOnce
    BY DEF Inv, DeliveryInv
  <1> QED BY <1>1, InvAlways, PTL

-----------------------------------------------------------------------------
(* Sequences are not lost, and items not deleted early.                    *)

\* The item of a shard is deleted by a consumer that has pulled all of it, has
\* nothing left in its buffer and nothing in flight.
LEMMA DeleteDelivered ==
    ASSUME Inv, NEW c \in Clients, NEW s \in Shards, NEW i \in Slots, Delete(c, s, i), c \notin stopping
    PROVE  Records(s) \subseteq delivered[s]
  <1>1. PICK k \in Consumer : k = consumer[c][s][i]
    BY ConsumerFacts
  <1>2. TypeInv /\ Sound(k, s, delivered[s]) /\ Ended(c, s, k, stopping)
    BY <1>1, ConsumerFacts DEF Inv
  <1>3. k.state = "drained" /\ k.flight = <<>>
    BY <1>1, <1>2, DeleteEffect
  <1>4. k.buffer = <<>> /\ k.iter = NumRecords[s]
    BY <1>2, <1>3 DEF Ended
  <1>5. Tracked(k.flight, Len(k.flight)) = {} /\ Buffered(k.buffer, Len(k.buffer)) = {}
    BY <1>3, <1>4 DEF Tracked, Buffered
  <1>6. Covered(NumRecords[s], delivered[s] \cup {} \cup {})
    BY <1>2, <1>4, <1>5 DEF Sound
  <1> QED BY <1>6 DEF Covered, Records

\* Whoever holds nothing of s before a step and nothing after it, and the
\* sequences of the holders that remain.
HoldersKept(s) ==
    \A d \in Clients, j \in Holders :
        Holds(d, s, j)' => Holds(d, s, j) /\ (HeldSeq(d, s, j) # NoSeq => HeldSeq(d, s, j)' # NoSeq)

\* A step that leaves the item's sequence alone and adds no holder is harmless.
LEMMA SafeFrame ==
    ASSUME NEW s \in Shards, SequenceSafe(s), delivered[s] \subseteq delivered'[s],
           row'[s].seq = row[s].seq,
           row'[s].client = NoClient => row[s].client = NoClient,
           HoldersKept(s)
    PROVE  SequenceSafe(s)'
  BY DEF SequenceSafe, HoldersKept, SingleHolder, Holders

\* A holder may write its sequence into the item, if it goes when it leaves the
\* item to nobody.
LEMMA SafeWrite ==
    ASSUME NEW s \in Shards, SequenceSafe(s), delivered[s] \subseteq delivered'[s],
           NEW c \in Clients, NEW i \in Holders, Holds(c, s, i), row'[s].seq = HeldSeq(c, s, i),
           HoldersKept(s),
           row'[s].client = NoClient => ~Holds(c, s, i)'
    PROVE  SequenceSafe(s)'
  <1>1. CASE Records(s) \subseteq delivered[s]
    BY <1>1 DEF SequenceSafe
  <1>2. CASE row[s].seq # NoSeq /\ \A d \in Clients, j \in Holders : Holds(d, s, j) => HeldSeq(d, s, j) # NoSeq
    BY <1>2 DEF SequenceSafe, HoldersKept
  <1>3. CASE row[s].seq = NoSeq /\ SingleHolder(s)
    <2>1. \A d \in Clients, j \in Holders : Holds(d, s, j)' => d = c /\ j = i
      BY <1>3 DEF HoldersKept, SingleHolder
    <2>2. SingleHolder(s)'
      BY <2>1 DEF SingleHolder
    <2>3. CASE row'[s].seq = NoSeq
      BY <2>1, <2>2, <2>3 DEF SequenceSafe
    <2>4. CASE row'[s].seq # NoSeq
      BY <2>1, <2>4 DEF SequenceSafe, HoldersKept
    <2> QED BY <2>3, <2>4
  <1> QED BY <1>1, <1>2, <1>3 DEF SequenceSafe

\* Holders after a step of a consumer.
LEMMA ConsumerHolders ==
    ASSUME TypeInv, NEW c \in Clients, NEW s \in Shards, NEW i \in Slots, NEW k \in Consumer,
           consumer' = [consumer EXCEPT ![c][s][i] = k], UNCHANGED loop,
           \/ k = NoConsumer
           \/ /\ consumer[c][s][i] # NoConsumer
              /\ consumer[c][s][i].acked # NoSeq => k.acked # NoSeq
    PROVE  \A z \in Shards : HoldersKept(z)
  <1>1. ConsumerBecomes(c, s, i, k)
    BY ConsumerUpdate
  <1>2. ASSUME NEW z \in Shards, NEW d \in Clients, NEW j \in Holders, Holds(d, z, j)'
        PROVE  Holds(d, z, j) /\ (HeldSeq(d, z, j) # NoSeq => HeldSeq(d, z, j)' # NoSeq)
    <2>1. CASE j = 0
      BY <1>2, <2>1 DEF Holds, HeldSeq
    <2>2. CASE j # 0
      <3>1. j \in Slots
        BY <2>2 DEF Holders
      <3>2. CASE d = c /\ z = s /\ j = i
        BY <1>1, <1>2, <2>2, <3>2 DEF Holds, HeldSeq, ConsumerBecomes
      <3>3. CASE d # c \/ z # s \/ j # i
        <4>1. consumer'[d][z][j] = consumer[d][z][j]
          BY <1>1, <3>1, <3>3 DEF ConsumerBecomes
        <4> QED BY <1>2, <2>2, <4>1 DEF Holds, HeldSeq
      <3> QED BY <3>2, <3>3
    <2> QED BY <2>1, <2>2
  <1> QED BY <1>2 DEF HoldersKept

\* Holders after a step of a loop that does not claim a shard.
LEMMA LoopHolders ==
    ASSUME TypeInv, NEW c \in Clients, NEW l, LoopBecomes(c, l), l.pc # "start", UNCHANGED consumer
    PROVE  \A z \in Shards : HoldersKept(z) /\ ~Holds(c, z, 0)'
  <1>1. loop'[c] = l /\ \A d \in Clients : d # c => loop'[d] = loop[d]
    BY LoopUpdate DEF LoopBecomes
  <1>2. ASSUME NEW z \in Shards PROVE ~Holds(c, z, 0)'
    BY <1>1 DEF Holds
  <1>3. ASSUME NEW z \in Shards, NEW d \in Clients, NEW j \in Holders, Holds(d, z, j)'
        PROVE  Holds(d, z, j) /\ (HeldSeq(d, z, j) # NoSeq => HeldSeq(d, z, j)' # NoSeq)
    <2>1. CASE j = 0
      <3>1. d # c
        BY <1>2, <1>3, <2>1
      <3> QED BY <1>1, <1>3, <2>1, <3>1 DEF Holds, HeldSeq
    <2>2. CASE j # 0
      BY <1>3, <2>2 DEF Holds, HeldSeq
    <2> QED BY <2>1, <2>2
  <1> QED BY <1>2, <1>3 DEF HoldersKept

\* What a step leaves of the items it may have written.
ItemSafe(s) ==
    \/ Records(s) \subseteq delivered[s]
    \/ /\ row[s].exists => row'[s].exists
       /\ \/ row'[s].seq = row[s].seq
          \/ \E c \in Clients, i \in Holders : Holds(c, s, i) /\ row'[s].seq = HeldSeq(c, s, i)

\* The steps of a consumer that leave the table alone.
LEMMA ReadingSafe ==
    ASSUME Inv, SequenceInv, NEW c \in Clients, NEW s \in Shards, NEW i \in Slots,
           \/ Pull(c, s, i) \/ RefreshIterator(c, s, i) \/ FlushMessage(c, s, i)
           \/ Send(c, s, i) \/ FinishedReturn(c, s, i)
           \/ \E t \in consumer[c][s][i].stores : StoreAcked(c, s, i, t)
    PROVE  SequenceInv' /\ \A z \in Shards : ItemSafe(z)
  <1>1. PICK k \in Consumer : k = consumer[c][s][i]
    BY ConsumerFacts
  <1>2. TypeInv /\ Sound(k, s, delivered[s])
    BY <1>1, ConsumerFacts DEF Inv
  <1>3. PICK r : /\ KeepsTable(c, s, i, r) /\ k # NoConsumer
                 /\ k.acked # NoSeq => r.acked # NoSeq
    <2>1. k.state # "none" => k # NoConsumer
      BY NewConsumerType
    <2>2. CASE Pull(c, s, i)
      <3>1. PICK next \in Nat, st \in {"consuming", "finished"} :
              /\ k.state = "consuming"
              /\ KeepsTable(c, s, i, [k EXCEPT !.iter = next, !.buffer = @ \o Run(k.iter, next), !.state = st])
        BY <1>1, <1>2, <2>2, PullEffect
      <3>2. [k EXCEPT !.iter = next, !.buffer = @ \o Run(k.iter, next), !.state = st].acked = k.acked
        BY DEF Consumer
      <3> QED BY <2>1, <3>1, <3>2
    <2>3. CASE RefreshIterator(c, s, i)
      <3>1. k.state = "consuming" /\ KeepsTable(c, s, i, [k EXCEPT !.iter = k.acked])
        BY <1>1, <1>2, <2>3, RefreshEffect
      <3>2. [k EXCEPT !.iter = k.acked].acked = k.acked
        BY DEF Consumer
      <3> QED BY <2>1, <3>1, <3>2
    <2>4. CASE FlushMessage(c, s, i)
      <3>1. PICK n \in 1 .. Len(k.buffer) : KeepsTable(c, s, i, Flushed(k, n))
        BY <1>1, <1>2, <2>4, FlushEffect
      <3>2. Flushed(k, n).acked = k.acked
        BY FlushedType
      <3>3. k.state # "none"
        BY <1>1, <1>2, <2>4, FlushEffect DEF Running
      <3> QED BY <2>1, <3>1, <3>2, <3>3
    <2>5. CASE Send(c, s, i)
      <3>1. KeepsTable(c, s, i, [k EXCEPT !.unsent = FALSE])
        BY <1>1, <1>2, <2>5, SendEffect
      <3>2. [k EXCEPT !.unsent = FALSE].acked = k.acked
        BY DEF Consumer
      <3>3. k.state # "none"
        BY <1>1, <1>2, <2>5, SendEffect DEF Running
      <3> QED BY <2>1, <3>1, <3>2, <3>3
    <2>6. CASE FinishedReturn(c, s, i)
      <3>1. k.state = "finished" /\ KeepsTable(c, s, i, [k EXCEPT !.state = "drained"])
        BY <1>1, <1>2, <2>6, FinishedEffect
      <3>2. [k EXCEPT !.state = "drained"].acked = k.acked
        BY DEF Consumer
      <3> QED BY <2>1, <3>1, <3>2
    <2>7. ASSUME NEW t \in consumer[c][s][i].stores, StoreAcked(c, s, i, t)
          PROVE  \E r : /\ KeepsTable(c, s, i, r) /\ k # NoConsumer
                        /\ k.acked # NoSeq => r.acked # NoSeq
      <3>1. t \in k.stores /\ KeepsTable(c, s, i, [k EXCEPT !.acked = t, !.stores = @ \ {t}])
        BY <1>1, <1>2, <2>7, StoreEffect
      <3>2. [k EXCEPT !.acked = t, !.stores = @ \ {t}].acked = t
        BY DEF Consumer
      <3>3. t # NoSeq /\ k # NoConsumer
        BY <1>2, <3>1, NewConsumerType DEF Sound
      <3> QED BY <3>1, <3>2, <3>3
    <2> QED BY <2>2, <2>3, <2>4, <2>5, <2>6, <2>7
  <1>4. /\ r \in Consumer /\ consumer' = [consumer EXCEPT ![c][s][i] = r]
        /\ UNCHANGED <<row, loop, delivered>>
    BY <1>3 DEF KeepsTable
  <1>5. \A z \in Shards : HoldersKept(z)
    BY <1>1, <1>2, <1>3, <1>4, ConsumerHolders
  <1>6. \A z \in Shards : SequenceSafe(z)'
    BY <1>4, <1>5, SafeFrame DEF SequenceInv
  <1> QED BY <1>4, <1>6 DEF SequenceInv, ItemSafe

\* The steps of a consumer that write its item: it is a holder.
LEMMA WritingSafe ==
    ASSUME Inv, SequenceInv, NEW c \in Clients, NEW s \in Shards, NEW i \in Slots,
           \/ Commit(c, s, i) \/ Delete(c, s, i) \/ Yield(c, s, i) \/ CloseConsumer(c, s, i)
    PROVE  SequenceInv' /\ \A z \in Shards : ItemSafe(z)
  <1>1. PICK k \in Consumer : k = consumer[c][s][i]
    BY ConsumerFacts
  <1>2. TypeInv /\ i \in Holders /\ i # 0
    BY DEF Inv, Holders
  <1>3. k.state # "none" => k # NoConsumer
    BY NewConsumerType
  <1>4. k # NoConsumer => Holds(c, s, i)
    BY <1>1, <1>2 DEF Holds
  <1>5. HeldSeq(c, s, i) = k.acked
    BY <1>1, <1>2 DEF HeldSeq
  <1>6. ASSUME NEW r, WritesItem(c, s, i, r), k # NoConsumer,
               r = NoConsumer \/ (k.acked # NoSeq => r.acked # NoSeq),
               \/ row'[s] = row[s]
               \/ /\ row'[s].exists /\ row'[s].seq = k.acked
                  /\ row'[s].client = NoClient => r = NoConsumer
               \/ Records(s) \subseteq delivered[s]
        PROVE  SequenceInv' /\ \A z \in Shards : ItemSafe(z)
    <2>1. /\ r \in Consumer /\ consumer' = [consumer EXCEPT ![c][s][i] = r]
          /\ \A z \in Shards : z # s => row'[z] = row[z]
          /\ UNCHANGED <<loop, delivered>>
      BY <1>6 DEF WritesItem
    <2>2. \A z \in Shards : HoldersKept(z)
      BY <1>1, <1>2, <1>6, <2>1, ConsumerHolders
    <2>3. ASSUME NEW z \in Shards, row'[z] = row[z] PROVE SequenceSafe(z)' /\ ItemSafe(z)
      <3>1. SequenceSafe(z)'
        BY <2>1, <2>2, <2>3, SafeFrame DEF SequenceInv
      <3> QED BY <2>3, <3>1 DEF ItemSafe
    <2>4. ASSUME row'[s].exists, row'[s].seq = k.acked, row'[s].client = NoClient => r = NoConsumer
          PROVE  SequenceSafe(s)' /\ ItemSafe(s)
      <3>1. consumer'[c][s][i] = r
        <4>1. ConsumerBecomes(c, s, i, r)
          BY <1>2, <2>1, ConsumerUpdate
        <4> QED BY <4>1 DEF ConsumerBecomes
      <3>2. row'[s].client = NoClient => ~Holds(c, s, i)'
        BY <1>2, <2>4, <3>1 DEF Holds
      <3>3. SequenceSafe(s)'
        BY <1>2, <1>4, <1>5, <1>6, <2>1, <2>2, <2>4, <3>2, SafeWrite DEF SequenceInv
      <3> QED BY <1>2, <1>4, <1>5, <1>6, <2>4, <3>3 DEF ItemSafe
    <2>5. ASSUME Records(s) \subseteq delivered[s] PROVE SequenceSafe(s)' /\ ItemSafe(s)
      BY <2>1, <2>5 DEF SequenceSafe, ItemSafe
    <2> QED BY <1>6, <2>1, <2>3, <2>4, <2>5 DEF SequenceInv
  <1>7. CASE Commit(c, s, i)
    <2>1. /\ Running(c, s, i)
          /\ \/ WritesItem(c, s, i, k) /\ row'[s].exists /\ row'[s].seq = k.acked /\ row'[s].client # NoClient
             \/ KeepsTable(c, s, i, [k EXCEPT !.state = "yielding"])
      BY <1>1, <1>2, <1>7, CommitEffect
    <2>2. k # NoConsumer
      BY <1>1, <1>3, <2>1 DEF Running
    <2>3. CASE WritesItem(c, s, i, k) /\ row'[s].exists /\ row'[s].seq = k.acked /\ row'[s].client # NoClient
      BY <1>6, <2>2, <2>3
    <2>4. CASE KeepsTable(c, s, i, [k EXCEPT !.state = "yielding"])
      <3>1. PICK r : r = [k EXCEPT !.state = "yielding"]
        OBVIOUS
      <3>2. r.acked = k.acked
        BY <3>1 DEF Consumer
      <3>3. WritesItem(c, s, i, r) /\ row'[s] = row[s]
        BY <1>2, <2>4, <3>1 DEF KeepsTable, WritesItem, TypeInv
      <3> QED BY <1>6, <2>2, <3>2, <3>3
    <2> QED BY <2>1, <2>3, <2>4
  <1>8. CASE Delete(c, s, i)
    <2>1. /\ k.state = "drained" /\ WritesItem(c, s, i, NoConsumer)
          /\ c \notin stopping \/ row' = row
      BY <1>1, <1>2, <1>8, DeleteEffect
    <2>2. row' = row \/ Records(s) \subseteq delivered[s]
      BY <1>8, <2>1, DeleteDelivered
    <2> QED BY <1>3, <1>6, <2>1, <2>2
  <1>9. CASE Yield(c, s, i)
    <2>1. /\ k.state = "yielding" /\ WritesItem(c, s, i, NoConsumer)
          /\ row'[s] = row[s] \/ (row'[s].exists /\ row'[s].seq = k.acked)
      BY <1>1, <1>2, <1>9, YieldEffect
    <2> QED BY <1>3, <1>6, <2>1
  <1>10. CASE CloseConsumer(c, s, i)
    <2>1. /\ Running(c, s, i) /\ WritesItem(c, s, i, NoConsumer)
          /\ row'[s] = row[s] \/ (row'[s].exists /\ row'[s].seq = k.acked)
      BY <1>1, <1>2, <1>10, CloseEffect
    <2>2. k # NoConsumer
      BY <1>1, <1>3, <2>1 DEF Running
    <2> QED BY <1>6, <2>1, <2>2
  <1> QED BY <1>7, <1>8, <1>9, <1>10

\* An acknowledgement changes no item and no acknowledged sequence.
LEMMA ResolveSafe ==
    ASSUME Inv, SequenceInv, NEW c \in Clients, NEW s \in Shards, NEW i \in Slots,
           NEW j \in DOMAIN consumer[c][s][i].flight, Resolve(c, s, i, j)
    PROVE  SequenceInv' /\ \A z \in Shards : ItemSafe(z)
  <1>1. PICK k \in Consumer : k = consumer[c][s][i]
    BY ConsumerFacts
  <1>2. TypeInv /\ FlightSound(k.flight, s, delivered[s]) /\ j \in DOMAIN k.flight
    BY <1>1, ConsumerFacts DEF Inv, Sound
  <1>3. PICK m \in 0 .. Len(k.flight) :
              /\ j \in 1 .. Len(k.flight)
              /\ Resolved(k, j, m) \in Consumer
              /\ consumer' = [consumer EXCEPT ![c][s][i] = Resolved(k, j, m)]
              /\ delivered' = [delivered EXCEPT ![s] = @ \cup RecordsOf(k.flight[j].batch)]
              /\ UNCHANGED <<row, loop>>
    BY <1>1, <1>2, ResolveEffect
  <1>4. Resolved(k, j, m).acked = k.acked
    <2>1. \A q \in 1 .. Len(k.flight) : k.flight[q].batch # <<>>
      BY <1>2 DEF FlightSound
    <2> QED BY <1>3, <2>1, ResolvedType
  <1>5. k # NoConsumer
    <2>1. DOMAIN NoConsumer.flight = {}
      BY NewConsumerType
    <2> QED BY <1>2, <2>1
  <1>6. \A z \in Shards : HoldersKept(z)
    BY <1>1, <1>2, <1>3, <1>4, <1>5, ConsumerHolders
  <1>7. \A z \in Shards : delivered[z] \subseteq delivered'[z]
    BY <1>2, <1>3 DEF TypeInv
  <1>8. \A z \in Shards : SequenceSafe(z)'
    BY <1>3, <1>6, <1>7, SafeFrame DEF SequenceInv
  <1> QED BY <1>3, <1>8 DEF SequenceInv, ItemSafe

\* A loop becomes a holder with the sequence of the item.
LEMMA SafeClaim ==
    ASSUME TypeInv, SequenceInv, NEW c \in Clients, NEW s \in Shards, NEW l, LoopBecomes(c, l),
           l.pc = "start", l.shard = {s}, l.seq = row[s].seq, UNCHANGED consumer,
           row'[s].seq = row[s].seq, row'[s].client # NoClient \/ row'[s].client = row[s].client,
           l.seq # NoSeq \/ (row[s].client = NoClient /\ row'[s].client # NoClient),
           loop[c].pc # "start",
           \A z \in Shards : z # s => row'[z] = row[z]
    PROVE  SequenceInv'
  <1>1. /\ loop'[c] = l /\ \A d \in Clients : d # c => loop'[d] = loop[d]
        /\ UNCHANGED delivered
    BY LoopUpdate DEF LoopBecomes
  <1>2. ASSUME NEW z \in Shards, NEW d \in Clients, NEW j \in Holders, Holds(d, z, j)'
        PROVE  \/ d = c /\ z = s /\ j = 0
               \/ Holds(d, z, j) /\ HeldSeq(d, z, j)' = HeldSeq(d, z, j)
    <2>1. CASE j = 0
      <3>1. CASE d = c
        BY <1>1, <1>2, <2>1, <3>1 DEF Holds
      <3>2. CASE d # c
        BY <1>1, <1>2, <2>1, <3>2 DEF Holds, HeldSeq
      <3> QED BY <3>1, <3>2
    <2>2. CASE j # 0
      BY <1>2, <2>2 DEF Holds, HeldSeq
    <2> QED BY <2>1, <2>2
  <1>3. ASSUME NEW z \in Shards, z # s PROVE SequenceSafe(z)'
    <2>1. HoldersKept(z)
      BY <1>2, <1>3 DEF HoldersKept
    <2> QED BY <1>1, <1>3, <2>1, SafeFrame DEF SequenceInv
  <1>4. HeldSeq(c, s, 0)' = l.seq
    BY <1>1 DEF HeldSeq
  <1>5. SequenceSafe(s)'
    <2>1. SequenceSafe(s)
      BY DEF SequenceInv
    <2>2. CASE Records(s) \subseteq delivered[s]
      BY <1>1, <2>2 DEF SequenceSafe
    <2>3. CASE ~(Records(s) \subseteq delivered[s]) /\ row[s].seq # NoSeq
      <3>1. \A d \in Clients, j \in Holders : Holds(d, s, j) => HeldSeq(d, s, j) # NoSeq
        BY <2>1, <2>3 DEF SequenceSafe
      <3>2. \A d \in Clients, j \in Holders : Holds(d, s, j)' => HeldSeq(d, s, j)' # NoSeq
        BY <1>2, <1>4, <2>3, <3>1
      <3> QED BY <2>3, <3>2 DEF SequenceSafe
    <2>4. CASE ~(Records(s) \subseteq delivered[s]) /\ row[s].seq = NoSeq
      <3>1. \A d \in Clients, j \in Holders : ~Holds(d, s, j)
        BY <2>1, <2>4 DEF SequenceSafe
      <3>2. \A d \in Clients, j \in Holders : Holds(d, s, j)' => d = c /\ j = 0
        BY <1>2, <3>1
      <3>3. SingleHolder(s)'
        BY <3>2 DEF SingleHolder
      <3>4. row'[s].seq = NoSeq /\ row'[s].client # NoClient
        BY <2>4
      <3> QED BY <3>3, <3>4 DEF SequenceSafe
    <2> QED BY <2>2, <2>3, <2>4
  <1> QED BY <1>3, <1>5 DEF SequenceInv

\* A loop gives what it holds to its new consumer.
LEMMA RunConsumerSafe ==
    ASSUME Inv, SequenceInv, NEW c \in Clients, RunConsumer(c)
    PROVE  SequenceInv' /\ \A z \in Shards : ItemSafe(z)
  <1>1. TypeInv
    BY DEF Inv
  <1>2. PICK s \in Shards, i \in Slots, l \in Loop :
              /\ LoopBecomes(c, l) /\ l.pc \in {"claim", "exit", "scan"}
              /\ loop[c].pc = "start" /\ loop[c].shard = {s}
              /\ newConsumer(loop[c].seq) \in Consumer
              /\ consumer[c][s][i] = NoConsumer
              /\ consumer' = [consumer EXCEPT ![c][s][i] = newConsumer(loop[c].seq)]
              /\ UNCHANGED row
    BY <1>1, RunConsumerEffect
  <1>3. PICK k \in Consumer : k = newConsumer(loop[c].seq)
    BY <1>2
  <1>4. ConsumerBecomes(c, s, i, k)
    BY <1>1, <1>2, <1>3, ConsumerUpdate
  <1>5. /\ consumer'[c][s][i] = k
        /\ \A d \in Clients, z \in Shards, j \in Slots :
              d # c \/ z # s \/ j # i => consumer'[d][z][j] = consumer[d][z][j]
    BY <1>4 DEF ConsumerBecomes
  <1>6. k.acked = loop[c].seq
    BY <1>3 DEF newConsumer
  <1>7. /\ loop'[c] = l /\ \A d \in Clients : d # c => loop'[d] = loop[d]
        /\ UNCHANGED delivered
    BY <1>1, <1>2, LoopUpdate DEF LoopBecomes
  <1>8. i \in Holders /\ 0 \in Holders /\ i # 0
    BY DEF Holders
  <1>9. Holds(c, s, 0) /\ HeldSeq(c, s, 0) = loop[c].seq /\ HeldSeq(c, s, i)' = loop[c].seq
    BY <1>2, <1>5, <1>6, <1>8 DEF Holds, HeldSeq
  <1>10. \A z \in Shards : ~Holds(c, z, 0)'
    BY <1>2, <1>7 DEF Holds
  <1>11. ASSUME NEW z \in Shards, NEW d \in Clients, NEW j \in Holders, Holds(d, z, j)'
         PROVE  \/ d = c /\ z = s /\ j = i
                \/ /\ Holds(d, z, j) /\ HeldSeq(d, z, j)' = HeldSeq(d, z, j)
                   /\ d # c \/ j # 0
    <2>1. CASE j = 0
      <3>1. d # c
        BY <1>10, <1>11, <2>1
      <3> QED BY <1>7, <1>11, <2>1, <3>1 DEF Holds, HeldSeq
    <2>2. CASE j # 0
      <3>1. j \in Slots
        BY <2>2 DEF Holders
      <3>2. CASE d # c \/ z # s \/ j # i
        <4>1. consumer'[d][z][j] = consumer[d][z][j]
          BY <1>5, <3>1, <3>2
        <4> QED BY <1>11, <2>2, <4>1 DEF Holds, HeldSeq
      <3> QED BY <3>2
    <2> QED BY <2>1, <2>2
  <1>12. ASSUME NEW z \in Shards, z # s PROVE SequenceSafe(z)'
    <2>1. HoldersKept(z)
      BY <1>11, <1>12 DEF HoldersKept
    <2> QED BY <1>2, <1>7, <1>12, <2>1, SafeFrame DEF SequenceInv
  <1>13. SequenceSafe(s)'
    <2>1. SequenceSafe(s)
      BY DEF SequenceInv
    <2>2. CASE Records(s) \subseteq delivered[s]
      BY <1>7, <2>2 DEF SequenceSafe
    <2>3. CASE /\ row[s].seq # NoSeq
               /\ \A d \in Clients, j \in Holders : Holds(d, s, j) => HeldSeq(d, s, j) # NoSeq
      <3>1. \A d \in Clients, j \in Holders : Holds(d, s, j)' => HeldSeq(d, s, j)' # NoSeq
        BY <1>8, <1>9, <1>11, <2>3
      <3> QED BY <1>2, <2>3, <3>1 DEF SequenceSafe
    <2>4. CASE /\ row[s].seq = NoSeq /\ SingleHolder(s)
               /\ row[s].client = NoClient => \A d \in Clients, j \in Holders : ~Holds(d, s, j)
      <3>1. \A d \in Clients, j \in Holders : Holds(d, s, j) => d = c /\ j = 0
        BY <1>8, <1>9, <2>4 DEF SingleHolder
      <3>2. \A d \in Clients, j \in Holders : Holds(d, s, j)' => d = c /\ j = i
        BY <1>11, <3>1
      <3>3. SingleHolder(s)'
        BY <3>2 DEF SingleHolder
      <3>4. row[s].client # NoClient
        BY <1>8, <1>9, <2>4
      <3> QED BY <1>2, <2>4, <3>3, <3>4 DEF SequenceSafe
    <2> QED BY <2>1, <2>2, <2>3, <2>4 DEF SequenceSafe
  <1> QED BY <1>2, <1>12, <1>13 DEF SequenceInv, ItemSafe

\* The rebalancing loop.
LEMMA LoopSafe ==
    ASSUME Inv, SequenceInv, NEW c \in Clients, LoopStep(c)
    PROVE  SequenceInv' /\ \A z \in Shards : ItemSafe(z)
  <1>1. TypeInv
    BY DEF Inv
  <1>2. ASSUME NEW l, LoopBecomes(c, l), l.pc # "start", UNCHANGED consumer,
               \A z \in Shards : /\ row'[z].exists = row[z].exists \/ row'[z].exists
                                 /\ row'[z].seq = row[z].seq
                                 /\ row'[z].client # NoClient \/ row'[z].client = row[z].client
        PROVE  SequenceInv' /\ \A z \in Shards : ItemSafe(z)
    <2>1. \A z \in Shards : HoldersKept(z)
      BY <1>1, <1>2, LoopHolders
    <2>2. UNCHANGED delivered
      BY <1>2 DEF LoopBecomes
    <2>3. ASSUME NEW z \in Shards PROVE SequenceSafe(z)'
      BY <1>2, <2>1, <2>2, SafeFrame DEF SequenceInv
    <2> QED BY <1>2, <2>3 DEF SequenceInv, ItemSafe
  <1>3. CASE Scan(c)
    <2>1. PICK l : LoopBecomes(c, l) /\ l.pc = "claim" /\ UNCHANGED <<row, consumer>>
      BY <1>1, <1>3, ScanEffect
    <2> QED BY <1>2, <2>1
  <1>4. ASSUME NEW t \in loop[c].todo, Claim(c, t)
        PROVE  SequenceInv' /\ \A z \in Shards : ItemSafe(z)
    <2>1. PICK l :
             /\ loop[c].pc = "claim" /\ t[1] \in Shards /\ LoopBecomes(c, l)
             /\ \/ l.pc \in {"claim", "exit", "scan"} /\ row' = row
                \/ /\ l.shard = {t[1]}
                   /\ \/ l.pc = "start" /\ l.seq = row[t[1]].seq /\ row[t[1]].client = NoClient
                      \/ l.pc = "reread" /\ l.seq = NoSeq
                   /\ \A z \in Shards : z # t[1] => row'[z] = row[z]
                   /\ row'[t[1]].exists /\ row'[t[1]].seq = row[t[1]].seq
                   /\ row'[t[1]].client # NoClient
             /\ UNCHANGED consumer
      BY <1>1, <1>4, ClaimEffect
    <2>2. CASE l.pc # "start"
      <3>1. \A z \in Shards : /\ row'[z].exists = row[z].exists \/ row'[z].exists
                              /\ row'[z].seq = row[z].seq
                              /\ row'[z].client # NoClient \/ row'[z].client = row[z].client
        BY <2>1, <2>2
      <3> QED BY <1>2, <2>1, <2>2, <3>1
    <2>3. CASE l.pc = "start"
      <3>1. PICK s \in Shards : s = t[1]
        BY <2>1
      <3>2. /\ l.shard = {s} /\ l.seq = row[s].seq /\ row[s].client = NoClient
            /\ \A z \in Shards : z # s => row'[z] = row[z]
            /\ row'[s].exists /\ row'[s].seq = row[s].seq /\ row'[s].client # NoClient
            /\ loop[c].pc # "start"
        BY <2>1, <2>3, <3>1
      <3>3. SequenceInv'
        BY <1>1, <2>1, <2>3, <3>2, SafeClaim
      <3> QED BY <3>2, <3>3 DEF ItemSafe
    <2> QED BY <2>2, <2>3
  <1>5. CASE Reread(c)
    <2>1. PICK l : /\ LoopBecomes(c, l) /\ UNCHANGED <<row, consumer>>
                   /\ \/ l.pc \in {"claim", "exit", "scan"}
                      \/ \E s \in Shards : /\ l.pc = "start" /\ l.shard = {s}
                                           /\ l.seq = row[s].seq /\ l.seq # NoSeq
      BY <1>1, <1>5, RereadEffect
    <2>2. CASE l.pc # "start"
      BY <1>2, <2>1, <2>2
    <2>3. CASE l.pc = "start"
      <3>1. PICK s \in Shards : l.shard = {s} /\ l.seq = row[s].seq /\ l.seq # NoSeq
        BY <2>1, <2>3
      <3>2. loop[c].pc # "start"
        BY <1>5 DEF Reread
      <3>3. SequenceInv'
        BY <1>1, <2>1, <2>3, <3>1, <3>2, SafeClaim
      <3> QED BY <2>1, <3>3 DEF ItemSafe
    <2> QED BY <2>2, <2>3
  <1>6. CASE RunConsumerFails(c)
    <2>1. PICK s \in Shards, l \in Loop :
              /\ LoopBecomes(c, l) /\ l.pc \in {"claim", "exit", "scan"}
              /\ loop[c].pc = "start" /\ loop[c].shard = {s}
              /\ \A z \in Shards : z # s => row'[z] = row[z]
              /\ \/ row'[s] = row[s]
                 \/ row'[s].exists /\ row'[s].seq = loop[c].seq /\ row'[s].client = NoClient
              /\ UNCHANGED consumer
      BY <1>1, <1>6, RunConsumerFailsEffect
    <2>2. CASE row'[s] = row[s]
      BY <1>2, <2>1, <2>2
    <2>3. CASE row'[s].exists /\ row'[s].seq = loop[c].seq
      <3>1. \A z \in Shards : HoldersKept(z) /\ ~Holds(c, z, 0)'
        BY <1>1, <2>1, LoopHolders
      <3>2. UNCHANGED delivered
        BY <2>1 DEF LoopBecomes
      <3>3. 0 \in Holders /\ Holds(c, s, 0) /\ HeldSeq(c, s, 0) = loop[c].seq
        BY <2>1 DEF Holders, Holds, HeldSeq
      <3>4. SequenceSafe(s)'
        BY <2>3, <3>1, <3>2, <3>3, SafeWrite DEF SequenceInv
      <3>5. ASSUME NEW z \in Shards, z # s PROVE SequenceSafe(z)'
        BY <2>1, <3>1, <3>2, <3>5, SafeFrame DEF SequenceInv
      <3> QED BY <2>1, <2>3, <3>3, <3>4, <3>5 DEF SequenceInv, ItemSafe
    <2> QED BY <2>1, <2>2, <2>3
  <1>7. CASE LoopExit(c)
    <2>1. PICK l : LoopBecomes(c, l) /\ l.pc = "exit" /\ UNCHANGED <<row, consumer>>
      BY <1>1, <1>7, LoopExitEffect
    <2> QED BY <1>2, <2>1
  <1>8. CASE RunConsumer(c)
    BY <1>8, RunConsumerSafe
  <1>9. CASE RereadFails(c) \/ \E t \in loop[c].todo : ClaimFails(c, t)
    <2>1. PICK l : LoopBecomes(c, l) /\ l.pc \in {"claim", "exit", "scan"}
      BY <1>1, <1>9, FailedClaimEffect
    <2>2. /\ \A z \in Shards :
                \/ row'[z] = row[z]
                \/ row'[z].exists /\ row'[z].seq = row[z].seq /\ row'[z].client # NoClient
          /\ UNCHANGED consumer
      BY <1>1, <1>9, FailedClaimEffect
    <2>3. \A z \in Shards : /\ row'[z].exists = row[z].exists \/ row'[z].exists
                            /\ row'[z].seq = row[z].seq
                            /\ row'[z].client # NoClient \/ row'[z].client = row[z].client
      BY <2>2
    <2> QED BY <1>2, <2>1, <2>2, <2>3
  <1> QED BY <1>3, <1>4, <1>5, <1>6, <1>7, <1>8, <1>9 DEF LoopStep

\* Processes close, crash and start again: holders only go.
LEMMA ProcessSafe ==
    ASSUME Inv, SequenceInv, NEW c \in Clients, ProcessStep(c)
    PROVE  SequenceInv' /\ \A z \in Shards : ItemSafe(z)
  <1>1. TypeInv
    BY DEF Inv
  <1>2. UNCHANGED <<row, delivered>> /\ \A z \in Shards : HoldersKept(z)
    <2>1. CASE Close(c)
      <3>1. UNCHANGED <<row, loop, consumer, delivered>>
        BY <2>1 DEF Close, tableVars
      <3> QED BY <3>1 DEF HoldersKept, Holds, HeldSeq
    <2>2. CASE Restart(c) \/ Crash(c)
      <3>1. NewProcess(c) /\ (Fault \/ faults' = faults)
        BY <2>2 DEF Restart, Crash
      <3>2. /\ loop'[c].pc # "start" /\ \A d \in Clients : d # c => loop'[d] = loop[d]
            /\ \A s \in Shards, i \in Slots : consumer'[c][s][i] = NoConsumer
            /\ \A d \in Clients, s \in Shards, i \in Slots : d # c => consumer'[d][s][i] = consumer[d][s][i]
            /\ UNCHANGED <<row, delivered>>
        BY <1>1, <3>1, NewProcessEffect
      <3>3. ASSUME NEW z \in Shards, NEW d \in Clients, NEW j \in Holders, Holds(d, z, j)'
            PROVE  Holds(d, z, j) /\ HeldSeq(d, z, j)' = HeldSeq(d, z, j)
        <4>1. j = 0 \/ j \in Slots
          BY DEF Holders
        <4>2. d # c
          BY <3>2, <3>3, <4>1 DEF Holds
        <4> QED BY <3>2, <3>3, <4>1, <4>2 DEF Holds, HeldSeq
      <3> QED BY <3>2, <3>3 DEF HoldersKept
    <2> QED BY <2>1, <2>2 DEF ProcessStep
  <1>3. ASSUME NEW z \in Shards PROVE SequenceSafe(z)'
    BY <1>2, SafeFrame DEF SequenceInv
  <1> QED BY <1>2, <1>3 DEF SequenceInv, ItemSafe

\* Leases run out and shards are closed.
LEMMA StreamSafe ==
    ASSUME Inv, SequenceInv, NEW s \in Shards, StreamStep(s)
    PROVE  SequenceInv' /\ \A z \in Shards : ItemSafe(z)
  <1>1. UNCHANGED <<loop, consumer, delivered>> /\ row \in [Shards -> Row] /\ row[s] \in Row
    BY DEF StreamStep, LeaseExpires, CloseShard, Inv, TypeInv
  <1>2. \A z \in Shards : HoldersKept(z)
    BY <1>1 DEF HoldersKept, Holds, HeldSeq
  <1>3. \A z \in Shards : /\ row'[z].exists = row[z].exists /\ row'[z].seq = row[z].seq
                          /\ row'[z].client = row[z].client
    <2>1. CASE LeaseExpires(s)
      <3>1. PICK r : r = [row[s] EXCEPT !.fresh = FALSE]
        OBVIOUS
      <3>2. r \in Row /\ r.exists = row[s].exists /\ r.seq = row[s].seq /\ r.client = row[s].client
        BY <1>1, <3>1 DEF Row
      <3>3. row' = [row EXCEPT ![s] = r]
        BY <2>1, <3>1 DEF LeaseExpires
      <3> QED BY <1>1, <3>2, <3>3
    <2>2. CASE CloseShard(s)
      BY <2>2 DEF CloseShard
    <2> QED BY <2>1, <2>2 DEF StreamStep
  <1>4. ASSUME NEW z \in Shards PROVE SequenceSafe(z)'
    BY <1>1, <1>2, <1>3, SafeFrame DEF SequenceInv
  <1> QED BY <1>3, <1>4 DEF SequenceInv, ItemSafe

\* No item has a sequence at the start, and nobody has a shard.
LEMMA SequenceInit == Init => SequenceInv
  <1> SUFFICES ASSUME Init, NEW s \in Shards PROVE SequenceSafe(s)
    BY DEF SequenceInv
  <1>1. row[s].seq = NoSeq
    BY DEF Init, Absent
  <1>2. ASSUME NEW c \in Clients, NEW i \in Holders PROVE ~Holds(c, s, i)
    <2>1. loop[c].pc # "start"
      BY FreshType DEF Init
    <2>2. i = 0 \/ i \in Slots
      BY DEF Holders
    <2>3. i \in Slots => consumer[c][s][i] = NoConsumer
      BY FreshType DEF Init
    <2> QED BY <2>1, <2>2, <2>3 DEF Holds
  <1> QED BY <1>1, <1>2 DEF SequenceSafe, SingleHolder

\* Every step keeps the invariant, and is safe for every item.
LEMMA SafeStep ==
    ASSUME Inv, SequenceInv, [Next]_vars
    PROVE  SequenceInv' /\ \A z \in Shards : ItemSafe(z)
  <1>1. ASSUME NEW c \in Clients, LoopStep(c) PROVE SequenceInv' /\ \A z \in Shards : ItemSafe(z)
    BY <1>1, LoopSafe
  <1>2. ASSUME NEW c \in Clients, NEW s \in Shards, NEW i \in Slots,
               ConsumerStep(c, s, i) \/ Commit(c, s, i) \/ RefreshIterator(c, s, i)
        PROVE  SequenceInv' /\ \A z \in Shards : ItemSafe(z)
    BY <1>2, ReadingSafe, WritingSafe DEF ConsumerStep
  <1>3. ASSUME NEW c \in Clients, NEW s \in Shards, NEW i \in Slots, PipelineStep(c, s, i)
        PROVE  SequenceInv' /\ \A z \in Shards : ItemSafe(z)
    BY <1>3, ReadingSafe, ResolveSafe DEF PipelineStep
  <1>4. ASSUME NEW c \in Clients, ProcessStep(c) PROVE SequenceInv' /\ \A z \in Shards : ItemSafe(z)
    BY <1>4, ProcessSafe
  <1>5. ASSUME NEW s \in Shards, StreamStep(s) PROVE SequenceInv' /\ \A z \in Shards : ItemSafe(z)
    BY <1>5, StreamSafe
  <1>6. CASE UNCHANGED vars
    <2>1. UNCHANGED <<row, loop, consumer, delivered>>
      BY <1>6 DEF vars
    <2>2. SequenceInv'
      BY <2>1 DEF SequenceInv, SequenceSafe, SingleHolder, Holds, HeldSeq
    <2> QED BY <2>1, <2>2 DEF ItemSafe
  <1>7. CASE Next
    BY <1>1, <1>2, <1>3, <1>4, <1>5, <1>7 DEF Next
  <1> QED BY <1>6, <1>7

\* Both invariants hold all the time.
LEMMA SafeAlways == Spec => [](Inv /\ SequenceInv)
  <1>1. Init => SequenceInv
    BY SequenceInit
  <1>2. Inv /\ SequenceInv /\ [Next]_vars => SequenceInv'
    BY SafeStep
  <1> QED BY <1>1, <1>2, InvAlways, PTL DEF Spec

\* Delete, the only thing that removes an item (input_checkpointer.go, Delete),
\* is called when everything of the shard is delivered: a shard that was closed
\* keeps its item as long as somebody has to read it.
THEOREM ItemsKept == Spec => DeletedWhenDelivered
  <1>1. ASSUME Inv, SequenceInv, [Next]_vars
        PROVE  \A s \in Shards : row[s].exists /\ ~row'[s].exists => Records(s) \subseteq delivered[s]
    <2>1. \A s \in Shards : ItemSafe(s)
      BY <1>1, SafeStep
    <2> QED BY <2>1 DEF ItemSafe
  <1>2. Inv /\ SequenceInv /\ [Next]_vars =>
          [\A s \in Shards : row[s].exists /\ ~row'[s].exists => Records(s) \subseteq delivered[s]]_vars
    BY <1>1
  <1> QED BY <1>2, SafeAlways, PTL DEF Spec, DeletedWhenDelivered

\* An item that has a sequence keeps one until its shard is delivered: although
\* Checkpoint replaces the whole item, and leaves the attribute out when the
\* consumer has acknowledged nothing, a consumer that has no sequence is the
\* only one while there is none, and a later one starts with the sequence that
\* is there.
THEOREM SequencesKept == Spec => SequenceKept
  <1>1. ASSUME Inv, SequenceInv, [Next]_vars, NEW s \in Shards, row[s].seq # NoSeq, row'[s].seq = NoSeq
        PROVE  Records(s) \subseteq delivered[s]
    <2>1. ItemSafe(s)
      BY <1>1, SafeStep
    <2>2. SequenceSafe(s)
      BY <1>1 DEF SequenceInv
    <2> QED BY <1>1, <2>1, <2>2 DEF ItemSafe, SequenceSafe
  <1>2. Inv /\ SequenceInv /\ [Next]_vars =>
          [\A s \in Shards : row[s].seq # NoSeq /\ row'[s].seq = NoSeq => Records(s) \subseteq delivered[s]]_vars
    BY <1>1
  <1> QED BY <1>2, SafeAlways, PTL DEF Spec, SequenceKept

-----------------------------------------------------------------------------
(* The input implements AtLeastOnceInput.                                  *)

\* A step confirms nothing, or it is an acknowledgement, which confirms
\* records of one shard and writes no item.
LEMMA StepDelivers ==
    ASSUME Inv, [Next]_vars
    PROVE  \/ delivered' = delivered
           \/ /\ row' = row
              /\ \E s \in Shards : \E R \in SUBSET Records(s) :
                    delivered' = [delivered EXCEPT ![s] = @ \cup R]
  <1>1. ASSUME NEW c \in Clients, LoopStep(c) PROVE delivered' = delivered
    <2>1. ASSUME NEW t \in loop[c].todo, Claim(c, t) \/ ClaimFails(c, t)
          PROVE  delivered' = delivered
      BY <2>1 DEF Claim, ClaimFails
    <2>2. CASE Scan(c)
      BY <2>2 DEF Scan
    <2>3. CASE Reread(c) \/ RereadFails(c)
      BY <2>3 DEF Reread, RereadFails
    <2>4. CASE LoopExit(c)
      BY <2>4 DEF LoopExit
    <2>5. CASE RunConsumer(c) \/ RunConsumerFails(c)
      BY <2>5 DEF RunConsumer, RunConsumerFails
    <2> QED BY <1>1, <2>1, <2>2, <2>3, <2>4, <2>5 DEF LoopStep
  <1>2. ASSUME NEW c \in Clients, NEW s \in Shards, NEW i \in Slots,
               ConsumerStep(c, s, i) \/ Commit(c, s, i) \/ RefreshIterator(c, s, i)
        PROVE  delivered' = delivered
    <2>1. CASE Pull(c, s, i)
      BY <2>1 DEF Pull
    <2>2. CASE FlushMessage(c, s, i)
      BY <2>2 DEF FlushMessage
    <2>3. CASE Send(c, s, i)
      BY <2>3 DEF Send
    <2>4. CASE FinishedReturn(c, s, i) \/ Delete(c, s, i) \/ Yield(c, s, i)
      BY <2>4 DEF FinishedReturn, Delete, Yield
    <2>5. CASE CloseConsumer(c, s, i) \/ Commit(c, s, i) \/ RefreshIterator(c, s, i)
      BY <2>5 DEF CloseConsumer, Commit, RefreshIterator
    <2> QED BY <1>2, <2>1, <2>2, <2>3, <2>4, <2>5 DEF ConsumerStep
  <1>3. ASSUME NEW c \in Clients, NEW s \in Shards, NEW i \in Slots,
               NEW t \in consumer[c][s][i].stores, StoreAcked(c, s, i, t)
        PROVE  delivered' = delivered
    BY <1>3 DEF StoreAcked
  <1>4. ASSUME NEW c \in Clients, NEW s \in Shards, NEW i \in Slots,
               NEW j \in DOMAIN consumer[c][s][i].flight, Resolve(c, s, i, j)
        PROVE  /\ row' = row
               /\ \E R \in SUBSET Records(s) : delivered' = [delivered EXCEPT ![s] = @ \cup R]
    <2>1. PICK k \in Consumer : k = consumer[c][s][i]
      BY ConsumerFacts
    <2>2. TypeInv /\ FlightSound(k.flight, s, delivered[s])
      BY <2>1, ConsumerFacts DEF Inv, Sound
    <2>3. /\ j \in 1 .. Len(k.flight) /\ row' = row
          /\ delivered' = [delivered EXCEPT ![s] = @ \cup RecordsOf(k.flight[j].batch)]
      BY <1>4, <2>1, <2>2, ResolveEffect, SMTT(60)
    <2>4. RecordsOf(k.flight[j].batch) \subseteq Records(s)
      BY <2>2, <2>3, TrackedRecords
    <2> QED BY <2>3, <2>4
  <1>5. ASSUME NEW c \in Clients, ProcessStep(c) PROVE delivered' = delivered
    BY <1>5 DEF ProcessStep, Close, Restart, Crash, NewProcess
  <1>6. ASSUME NEW s \in Shards, StreamStep(s) PROVE delivered' = delivered
    BY <1>6 DEF StreamStep, LeaseExpires, CloseShard
  <1>7. CASE UNCHANGED vars
    BY <1>7 DEF vars
  <1>8. ASSUME NEW c \in Clients, NEW s \in Shards, NEW i \in Slots, PipelineStep(c, s, i)
        PROVE  \/ delivered' = delivered
               \/ /\ row' = row
                  /\ \E R \in SUBSET Records(s) : delivered' = [delivered EXCEPT ![s] = @ \cup R]
    <2>1. CASE \E j \in DOMAIN consumer[c][s][i].flight : Resolve(c, s, i, j)
      BY <1>4, <2>1
    <2>2. CASE \E t \in consumer[c][s][i].stores : StoreAcked(c, s, i, t)
      BY <1>3, <2>2
    <2> QED BY <1>8, <2>1, <2>2 DEF PipelineStep
  <1>9. CASE Next
    BY <1>1, <1>2, <1>5, <1>6, <1>8, <1>9 DEF Next
  <1> QED BY <1>7, <1>9

\* Every run of the processes on a stream is a run of an input whose stored
\* position, though it may go back, is always one up to which everything is
\* confirmed: writing an item is Store, an acknowledgement is Deliver, and every
\* other step changes neither.
THEOREM ImplementsAtLeastOnceInput == Spec => ImplementsInput
  <1>1. Init => Stream!Init
    BY DEF Init, Absent, Stream!Init
  <1>2. ASSUME Inv, Inv', [Next]_vars
        PROVE  [Stream!Next]_(Stream!inputVars)
    <2> DEFINE position == [s \in Shards |-> row[s].seq]
    <2>1. CASE delivered' = delivered
      <3>1. ASSUME NEW s \in Shards
            PROVE  row'[s].seq \in 0 .. NumRecords[s] /\ 1 .. row'[s].seq \subseteq delivered[s]
        <4>1. row'[s].seq \in Nat /\ NumRecords[s] \in Nat
          BY <1>2 DEF Inv, TypeInv, Row
        <4>2. Covered(row'[s].seq, delivered[s]) /\ delivered[s] \in SUBSET (1 .. NumRecords[s])
          BY <1>2, <2>1 DEF Inv, DeliveryInv, AtLeastOnce, Covered, Records
        <4>3. row'[s].seq <= NumRecords[s]
          BY <4>1, <4>2, CoveredBound
        <4> QED BY <4>1, <4>2, <4>3 DEF Covered
      <3>2. position' \in [Shards -> UNION {0 .. NumRecords[s] : s \in Shards}]
        BY <3>1
      <3>3. \A s \in Shards : 1 .. position'[s] \subseteq delivered[s]
        BY <3>1
      <3>4. Stream!Store
        BY <2>1, <3>2, <3>3 DEF Stream!Store
      <3> QED BY <3>4 DEF Stream!Next
    <2>2. ASSUME row' = row, NEW s \in Shards, NEW R \in SUBSET Records(s),
                 delivered' = [delivered EXCEPT ![s] = @ \cup R]
          PROVE  Stream!Deliver(s)
      BY <2>2 DEF Stream!Deliver, Records
    <2> QED BY <1>2, <2>1, <2>2, StepDelivers DEF Stream!Next
  <1>3. Inv /\ Inv' /\ [Next]_vars => [Stream!Next]_(Stream!inputVars)
    BY <1>2
  <1> QED BY <1>1, <1>3, InvAlways, PTL DEF Spec, ImplementsInput, Stream!Spec

=============================================================================
