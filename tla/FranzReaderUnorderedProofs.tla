--------------------- MODULE FranzReaderUnorderedProofs ---------------------
(***************************************************************************)
(* Theorems about FranzReaderUnordered, for any number of clients,         *)
(* partitions, records and disruptions, any checkpoint limit and, where    *)
(* nothing else is said, any batch policy.                                 *)
(***************************************************************************)
EXTENDS FranzReaderUnordered, KgoGroupProofs, SumProofs, SequenceTheorems, FiniteSetTheorems,
        WellFoundedInduction, TLAPS

\* What a tracker's fields say of each other: only tracked batches are sent,
\* read and acknowledged, and a batch that is not empty has a last record.
Shape(t) ==
    /\ t.queue.recs # {} => t.queue.top \in Offsets
    /\ t.loop = "track" => t.flushed.top \in Offsets
    /\ t.byAdd \in 0 .. Len(t.log)
    /\ t.loop = "send" => t.byLoop \in 1 .. Len(t.log)
    /\ t.out \subseteq 1 .. Len(t.log)
    /\ t.acked \subseteq t.out

Shapes ==
    \A c \in Clients, p \in Partitions : \A g \in 1 .. Current(c, p) : Shape(trackers[c][p][g])

\* A tracked partition has a tracker.
TrackedExist ==
    \A c \in Clients, p \in Partitions : p \in tracked[c] => Current(c, p) > 0

\* The poll loop holds the mutex from the start of addRecord to its end, and the
\* partition of its record stays in the map meanwhile.
AddHolds(c) ==
    pc[c] \in {"send", "check"} =>
        /\ mut[c] = "loop"
        /\ adding[c] \in tracked[c]
        /\ pc[c] = "send" => TrackerOf(c, adding[c]).byAdd # 0

\* The inductive invariant behind TypeOK.
TypeInv == TypeOK /\ Shapes /\ TrackedExist /\ \A c \in Clients : AddHolds(c)

USE NumRecordsAssumption, DisruptionsAssumption, NoClientAssumption, PolicyAssumption
    DEF NoMark, NoClient, NoRecord, Offsets, Positions

-----------------------------------------------------------------------------
(* Largest elements.                                                       *)

\* Max of a bounded set is its largest element.
LEMMA MaxOf ==
    ASSUME NEW n \in Nat, NEW S \in SUBSET (0 .. n), S # {}
    PROVE  Max(S) \in S /\ \A y \in S : Max(S) >= y
  <1>1. PICK x \in S : \A y \in S : x >= y
    <2>1. \A y \in S : n - y \in Nat
      OBVIOUS
    <2>2. PICK d \in {n - y : y \in S} : \A e \in {n - y : y \in S} : d <= e
      <3>1. {n - y : y \in S} \in SUBSET Nat
        BY <2>1
      <3>2. {n - y : y \in S} # {}
        OBVIOUS
      <3> QED BY <3>1, <3>2, Least
    <2>3. PICK x \in S : d = n - x
      BY <2>2
    <2>4. \A y \in S : n - x <= n - y
      BY <2>2, <2>3
    <2>5. \A y \in S : x >= y
      BY <2>4
    <2> QED BY <2>5
  <1> QED BY <1>1 DEF Max

-----------------------------------------------------------------------------
(* Trackers.                                                               *)

\* A queue of records: the batcher and the record it ends with.
Queue == [recs : SUBSET Offsets, top : Offsets \cup {NoRecord}]

TrackersType == trackers \in [Clients -> [Partitions -> Seq(Tracker)]]

\* Tracker g of client c for p becomes r, and nothing else changes.
TrackerReplaced(c, p, g, r) ==
    \A d \in Clients, q \in Partitions :
        /\ Len(trackers'[d][q]) = Len(trackers[d][q])
        /\ \A h \in 1 .. Len(trackers[d][q]) :
              trackers'[d][q][h] = IF d = c /\ q = p /\ h = g THEN r ELSE trackers[d][q][h]

\* Client c gets the tracker r for p, behind those it has.
TrackerAppended(c, p, r) ==
    /\ \A d \in Clients, q \in Partitions :
          /\ Len(trackers'[d][q]) = IF d = c /\ q = p THEN Len(trackers[d][q]) + 1
                                                     ELSE Len(trackers[d][q])
          /\ \A h \in 1 .. Len(trackers[d][q]) : trackers'[d][q][h] = trackers[d][q][h]
    /\ trackers'[c][p][Len(trackers[c][p]) + 1] = r

\* Replacing one tracker leaves all others as they are.
LEMMA UpdateTracker ==
    ASSUME TrackersType, NEW c \in Clients, NEW p \in Partitions,
           NEW g \in 1 .. Len(trackers[c][p]), NEW r \in Tracker,
           trackers' = [trackers EXCEPT ![c][p][g] = r]
    PROVE  TrackersType' /\ TrackerReplaced(c, p, g, r)
  <1>1. PICK new : new = [trackers[c][p] EXCEPT ![g] = r]
    OBVIOUS
  <1>2. trackers[c][p] \in Seq(Tracker)
    BY DEF TrackersType
  <1>3. new \in Seq(Tracker) /\ Len(new) = Len(trackers[c][p])
        /\ \A h \in 1 .. Len(trackers[c][p]) : new[h] = IF h = g THEN r ELSE trackers[c][p][h]
    BY <1>1, <1>2, ExceptSeq
  <1>4. trackers' = [trackers EXCEPT ![c][p] = new]
    BY <1>1
  <1>5. TrackersType'
    BY <1>3, <1>4 DEF TrackersType
  <1>6. \A d \in Clients, q \in Partitions :
           trackers'[d][q] = IF d = c /\ q = p THEN new ELSE trackers[d][q]
    <2>1. trackers'[c] = [trackers[c] EXCEPT ![p] = new]
          /\ \A d \in Clients : d # c => trackers'[d] = trackers[d]
      BY <1>4 DEF TrackersType
    <2>2. trackers[c] \in [Partitions -> Seq(Tracker)]
      BY DEF TrackersType
    <2>3. \A q \in Partitions : trackers'[c][q] = IF q = p THEN new ELSE trackers[c][q]
      BY <2>1, <2>2
    <2> QED BY <2>1, <2>3
  <1> QED BY <1>3, <1>5, <1>6 DEF TrackerReplaced

\* Appending a tracker leaves the earlier ones as they are.
LEMMA AppendTracker ==
    ASSUME TrackersType, NEW c \in Clients, NEW p \in Partitions, NEW r \in Tracker,
           trackers' = [trackers EXCEPT ![c][p] = Append(trackers[c][p], r)]
    PROVE  TrackersType' /\ TrackerAppended(c, p, r)
  <1>1. PICK new : new = Append(trackers[c][p], r)
    OBVIOUS
  <1>2. trackers[c][p] \in Seq(Tracker)
    BY DEF TrackersType
  <1>3. /\ new \in Seq(Tracker) /\ Len(new) = Len(trackers[c][p]) + 1
        /\ new[Len(trackers[c][p]) + 1] = r
        /\ \A h \in 1 .. Len(trackers[c][p]) : new[h] = trackers[c][p][h]
    BY <1>1, <1>2
  <1>4. trackers' = [trackers EXCEPT ![c][p] = new]
    BY <1>1
  <1>5. TrackersType'
    BY <1>3, <1>4 DEF TrackersType
  <1>6. \A d \in Clients, q \in Partitions :
           trackers'[d][q] = IF d = c /\ q = p THEN new ELSE trackers[d][q]
    <2>1. trackers'[c] = [trackers[c] EXCEPT ![p] = new]
          /\ \A d \in Clients : d # c => trackers'[d] = trackers[d]
      BY <1>4 DEF TrackersType
    <2>2. trackers[c] \in [Partitions -> Seq(Tracker)]
      BY DEF TrackersType
    <2>3. \A q \in Partitions : trackers'[c][q] = IF q = p THEN new ELSE trackers[c][q]
      BY <2>1, <2>2
    <2> QED BY <2>1, <2>3
  <1>7. ASSUME NEW d \in Clients, NEW q \in Partitions
        PROVE  /\ Len(trackers'[d][q]) = IF d = c /\ q = p THEN Len(trackers[d][q]) + 1
                                                           ELSE Len(trackers[d][q])
               /\ \A h \in 1 .. Len(trackers[d][q]) : trackers'[d][q][h] = trackers[d][q][h]
    <2>1. CASE d = c /\ q = p
      BY <1>3, <1>6, <2>1
    <2>2. CASE ~(d = c /\ q = p)
      <3>1. trackers'[d][q] = trackers[d][q]
        BY <1>6, <2>2
      <3> QED BY <2>2, <3>1
    <2> QED BY <2>1, <2>2
  <1>8. trackers'[c][p][Len(trackers[c][p]) + 1] = r
    BY <1>3, <1>6
  <1> QED BY <1>5, <1>7, <1>8 DEF TrackerAppended

\* A new tracker has the type and the shape of a tracker.
LEMMA NewTrackerType == newPartitionTracker \in Tracker /\ Shape(newPartitionTracker)
  BY DEF newPartitionTracker, Tracker, Shape, Empty

\* u is tracker t with the batch b at the end of its log.
Appended(t, u, b) ==
    /\ Len(u.log) = Len(t.log) + 1
    /\ u.log[Len(t.log) + 1] = b
    /\ \A i \in 1 .. Len(t.log) : u.log[i] = t.log[i]

\* What add leaves alone.
SameRest(t, u) ==
    /\ u.flushed = t.flushed /\ u.loop = t.loop /\ u.byLoop = t.byLoop
    /\ u.out = t.out /\ u.acked = t.acked
    /\ u.closing = t.closing /\ u.revoked = t.revoked

\* What add does to a tracker: the record completes a batch, or joins the queue.
Added(t, u, r) ==
    \/ /\ Cardinality(t.queue.recs \cup {r}) >= BatchCount
       /\ Appended(t, u, [recs |-> t.queue.recs \cup {r}, top |-> r])
       /\ u.queue.recs = {} /\ u.byAdd = Len(t.log) + 1 /\ SameRest(t, u)
    \/ /\ ~(Cardinality(t.queue.recs \cup {r}) >= BatchCount)
       /\ u.log = t.log /\ u.queue = [recs |-> t.queue.recs \cup {r}, top |-> r]
       /\ u.byAdd = t.byAdd /\ SameRest(t, u)

\* partitionTracker.add, field by field.
LEMMA AddEffect ==
    ASSUME NEW t \in Tracker, NEW r \in Offsets
    PROVE  add(t, r) \in Tracker /\ Added(t, add(t, r), r)
  <1>1. PICK recs : recs = t.queue.recs \cup {r}
    OBVIOUS
  <1>2. recs \in SUBSET Offsets /\ t.queue \in Queue
    BY <1>1 DEF Tracker, Queue
  <1>3. PICK u : u = add(t, r)
    OBVIOUS
  <1>4. CASE Cardinality(recs) >= BatchCount
    <2>1. PICK b \in Batch : b = [recs |-> recs, top |-> r]
      BY <1>2 DEF Batch
    <2>2. PICK log : log = Append(t.log, b)
      OBVIOUS
    <2>3. /\ log \in Seq(Batch) /\ Len(log) = Len(t.log) + 1 /\ log[Len(t.log) + 1] = b
          /\ \A i \in 1 .. Len(t.log) : log[i] = t.log[i]
      <3>1. t.log \in Seq(Batch)
        BY DEF Tracker
      <3> QED BY <2>2, <3>1
    <2>4. u = [[t EXCEPT !.log = log] EXCEPT !.queue.recs = {}, !.byAdd = Len(t.log) + 1]
      BY <1>1, <1>3, <1>4, <2>1, <2>2 DEF add, Track
    <2>5. PICK q \in Queue : q = [t.queue EXCEPT !.recs = {}]
      BY <1>2 DEF Queue
    <2>6. q.recs = {}
      BY <1>2, <2>5 DEF Queue
    <2>7. u = [t EXCEPT !.log = log, !.queue = q, !.byAdd = Len(t.log) + 1]
      BY <2>4, <2>5 DEF Tracker
    <2>8. Len(t.log) + 1 \in Nat
      BY DEF Tracker
    <2>9. u \in Tracker
      BY <2>3, <2>7, <2>8 DEF Tracker, Queue
    <2>10. u.log = log /\ u.queue = q /\ u.byAdd = Len(t.log) + 1 /\ SameRest(t, u)
      BY <2>7 DEF Tracker, SameRest
    <2>11. Added(t, u, r)
      BY <1>1, <1>4, <2>1, <2>3, <2>6, <2>10 DEF Added, Appended
    <2> QED BY <1>3, <2>9, <2>11
  <1>5. CASE ~(Cardinality(recs) >= BatchCount)
    <2>1. PICK q \in Queue : q = [recs |-> recs, top |-> r]
      BY <1>2 DEF Queue
    <2>2. u = [t EXCEPT !.queue = q]
      BY <1>1, <1>3, <1>5, <2>1 DEF add
    <2>3. u \in Tracker
      BY <2>2 DEF Tracker, Queue
    <2>4. u.log = t.log /\ u.queue = q /\ u.byAdd = t.byAdd /\ SameRest(t, u)
      BY <2>2 DEF Tracker, SameRest
    <2>5. Added(t, u, r)
      BY <1>1, <1>5, <2>1, <2>4 DEF Added
    <2> QED BY <1>3, <2>3, <2>5
  <1> QED BY <1>4, <1>5

\* add keeps the shape of a tracker.
LEMMA AddShape ==
    ASSUME NEW t \in Tracker, Shape(t), NEW r \in Offsets, NEW u \in Tracker, Added(t, u, r)
    PROVE  Shape(u)
  <1>1. /\ t.log \in Seq(Batch) /\ Len(t.log) \in Nat /\ u.byAdd \in Nat
        /\ u.byLoop = t.byLoop /\ u.loop = t.loop /\ u.out = t.out /\ u.acked = t.acked
        /\ u.flushed = t.flushed
    BY DEF Tracker, Added, SameRest
  <1>2. Len(u.log) \in Nat /\ Len(u.log) >= Len(t.log) /\ u.byAdd \in 0 .. Len(u.log)
    BY <1>1 DEF Added, Appended, Shape
  <1>3. 1 .. Len(t.log) \subseteq 1 .. Len(u.log)
    BY <1>1, <1>2
  <1>4. u.queue.recs # {} => u.queue.top \in Offsets
    BY DEF Added
  <1> QED BY <1>1, <1>2, <1>3, <1>4 DEF Shape

\* u has the records of t, and its goroutine has taken none out of the batcher.
Quiet(t, u) ==
    /\ u.log = t.log /\ u.queue = t.queue /\ u.flushed = t.flushed
    /\ u.loop = "track" <=> t.loop = "track"

\* What is done to a tracker between two batches: add's send ends, the goroutine's
\* send ends, the tracker is told to stop and stops.
Moved(t, u) ==
    \/ u = [t EXCEPT !.byAdd = 0]
    \/ /\ t.byAdd # 0
       /\ u = [t EXCEPT !.out = t.out \cup {t.byAdd}, !.byAdd = 0]
    \/ /\ t.loop = "send"
       /\ u = [t EXCEPT !.out = t.out \cup {t.byLoop}, !.byLoop = 0, !.loop = "wait"]
    \/ /\ t.loop \in {"wait", "send"}
       /\ u = [t EXCEPT !.loop = "stopped", !.byLoop = 0]
    \/ u = [t EXCEPT !.revoked = TRUE, !.closing = TRUE]
    \/ u = [t EXCEPT !.closing = TRUE]

\* None of that touches the records of the tracker.
LEMMA MovedEffect ==
    ASSUME NEW t \in Tracker, Shape(t), NEW u, Moved(t, u)
    PROVE  /\ u \in Tracker /\ Shape(u) /\ Quiet(t, u) /\ u.acked = t.acked
           /\ u.revoked = t.revoked \/ u.revoked
  <1>1. /\ Len(t.log) \in Nat /\ t.byAdd \in 0 .. Len(t.log) /\ t.out \subseteq 1 .. Len(t.log)
        /\ t.loop = "send" => t.byLoop \in 1 .. Len(t.log)
        /\ t.queue.recs # {} => t.queue.top \in Offsets
        /\ t.loop = "track" => t.flushed.top \in Offsets
        /\ t.acked \subseteq t.out
    BY DEF Tracker, Shape
  <1>2. CASE u = [t EXCEPT !.byAdd = 0]
    <2>1. u \in Tracker
      BY <1>2 DEF Tracker
    <2>2. /\ u.byAdd = 0 /\ u.out = t.out /\ u.byLoop = t.byLoop /\ u.loop = t.loop
          /\ u.log = t.log /\ u.queue = t.queue /\ u.flushed = t.flushed
          /\ u.acked = t.acked /\ u.revoked = t.revoked
      BY <1>2 DEF Tracker
    <2> QED BY <1>1, <2>1, <2>2 DEF Shape, Quiet
  <1>3. CASE t.byAdd # 0 /\ u = [t EXCEPT !.out = t.out \cup {t.byAdd}, !.byAdd = 0]
    <2>1. t.byAdd \in 1 .. Len(t.log) /\ t.byAdd \in Nat
      BY <1>1, <1>3
    <2>2. u \in Tracker
      BY <1>3, <2>1 DEF Tracker
    <2>3. /\ u.byAdd = 0 /\ u.out = t.out \cup {t.byAdd} /\ u.byLoop = t.byLoop /\ u.loop = t.loop
          /\ u.log = t.log /\ u.queue = t.queue /\ u.flushed = t.flushed
          /\ u.acked = t.acked /\ u.revoked = t.revoked
      BY <1>3 DEF Tracker
    <2> QED BY <1>1, <2>1, <2>2, <2>3 DEF Shape, Quiet
  <1>4. CASE /\ t.loop = "send"
             /\ u = [t EXCEPT !.out = t.out \cup {t.byLoop}, !.byLoop = 0, !.loop = "wait"]
    <2>1. t.byLoop \in 1 .. Len(t.log) /\ t.byLoop \in Nat
      BY <1>1, <1>4
    <2>2. u \in Tracker
      BY <1>4, <2>1 DEF Tracker
    <2>3. /\ u.byAdd = t.byAdd /\ u.out = t.out \cup {t.byLoop} /\ u.loop = "wait"
          /\ u.log = t.log /\ u.queue = t.queue /\ u.flushed = t.flushed
          /\ u.acked = t.acked /\ u.revoked = t.revoked
      BY <1>4 DEF Tracker
    <2> QED BY <1>1, <1>4, <2>1, <2>2, <2>3 DEF Shape, Quiet
  <1>5. CASE t.loop \in {"wait", "send"} /\ u = [t EXCEPT !.loop = "stopped", !.byLoop = 0]
    <2>1. u \in Tracker
      BY <1>5 DEF Tracker
    <2>2. /\ u.byAdd = t.byAdd /\ u.out = t.out /\ u.loop = "stopped"
          /\ u.log = t.log /\ u.queue = t.queue /\ u.flushed = t.flushed
          /\ u.acked = t.acked /\ u.revoked = t.revoked
      BY <1>5 DEF Tracker
    <2> QED BY <1>1, <1>5, <2>1, <2>2 DEF Shape, Quiet
  <1>6. CASE \/ u = [t EXCEPT !.revoked = TRUE, !.closing = TRUE]
             \/ u = [t EXCEPT !.closing = TRUE]
    <2>1. u \in Tracker
      BY <1>6, ZenonT(60) DEF Tracker
    <2>2. /\ u.byAdd = t.byAdd /\ u.out = t.out /\ u.loop = t.loop /\ u.byLoop = t.byLoop
          /\ u.log = t.log /\ u.queue = t.queue /\ u.flushed = t.flushed /\ u.acked = t.acked
      BY <1>6 DEF Tracker
    <2>3. u.revoked = t.revoked \/ u.revoked
      BY <1>6 DEF Tracker
    <2> QED BY <1>1, <2>1, <2>2, <2>3 DEF Shape, Quiet
  <1> QED BY <1>2, <1>3, <1>4, <1>5, <1>6 DEF Moved

\* The flush timer takes what is queued out of the batcher.
FlushedFrom(t, u) ==
    u = [t EXCEPT !.flushed = t.queue, !.queue = Empty, !.loop = "track"]

\* What the timer took out of the batcher is tracked.
TrackedFrom(t, u) ==
    u = [Track(t, t.flushed) EXCEPT !.flushed = Empty, !.byLoop = Len(t.log) + 1, !.loop = "send"]

\* Both keep the type and the shape of a tracker.
LEMMA FlushEffect ==
    ASSUME NEW t \in Tracker, Shape(t), t.loop = "wait", t.queue.recs # {}, NEW u, FlushedFrom(t, u)
    PROVE  /\ u \in Tracker /\ Shape(u) /\ u.log = t.log /\ u.flushed = t.queue /\ u.queue = Empty
           /\ u.loop = "track" /\ u.acked = t.acked /\ u.revoked = t.revoked /\ u.byAdd = t.byAdd
  <1>1. t.queue \in Queue /\ Empty \in Queue /\ Empty.recs = {}
    BY DEF Tracker, Queue, Empty
  <1>2. u \in Tracker
    BY <1>1 DEF Tracker, Queue, FlushedFrom
  <1>3. /\ u.log = t.log /\ u.flushed = t.queue /\ u.queue = Empty /\ u.loop = "track"
        /\ u.acked = t.acked /\ u.revoked = t.revoked /\ u.byAdd = t.byAdd /\ u.out = t.out
    BY DEF Tracker, FlushedFrom
  <1> QED BY <1>1, <1>2, <1>3 DEF Shape

\* The second of the two.
LEMMA TrackEffect ==
    ASSUME NEW t \in Tracker, Shape(t), t.loop = "track", NEW u, TrackedFrom(t, u)
    PROVE  /\ u \in Tracker /\ Shape(u) /\ Appended(t, u, t.flushed) /\ u.queue = t.queue
           /\ u.flushed = Empty /\ u.loop = "send" /\ u.acked = t.acked /\ u.revoked = t.revoked
           /\ u.byAdd = t.byAdd
  <1>1. PICK b \in Batch : b = t.flushed
    <2>1. t.flushed \in Queue /\ t.flushed.top \in Offsets
      BY DEF Tracker, Queue, Shape
    <2> QED BY <2>1 DEF Batch, Queue
  <1>2. PICK log : log = Append(t.log, b)
    OBVIOUS
  <1>3. /\ log \in Seq(Batch) /\ Len(log) = Len(t.log) + 1 /\ log[Len(t.log) + 1] = b
        /\ \A i \in 1 .. Len(t.log) : log[i] = t.log[i]
        /\ Len(t.log) \in Nat
    <2>1. t.log \in Seq(Batch)
      BY DEF Tracker
    <2> QED BY <1>2, <2>1
  <1>4. u = [t EXCEPT !.log = log, !.flushed = Empty, !.byLoop = Len(t.log) + 1, !.loop = "send"]
    BY <1>1, <1>2 DEF TrackedFrom, Track, Tracker
  <1>5. Empty \in Queue /\ Empty.recs = {}
    BY DEF Queue, Empty
  <1>6. u \in Tracker
    <2>1. Len(t.log) + 1 \in Nat
      BY <1>3
    <2> QED BY <1>3, <1>4, <1>5, <2>1 DEF Tracker, Queue
  <1>7. /\ u.log = log /\ u.queue = t.queue /\ u.flushed = Empty /\ u.loop = "send"
        /\ u.byLoop = Len(t.log) + 1 /\ u.out = t.out
        /\ u.acked = t.acked /\ u.revoked = t.revoked /\ u.byAdd = t.byAdd
    BY <1>4 DEF Tracker
  <1>8. Appended(t, u, t.flushed)
    BY <1>1, <1>3, <1>7 DEF Appended
  <1>9. Shape(u)
    <2>1. /\ u.byAdd \in 0 .. Len(u.log) /\ u.byLoop \in 1 .. Len(u.log)
          /\ 1 .. Len(t.log) \subseteq 1 .. Len(u.log)
      BY <1>3, <1>7 DEF Shape
    <2>2. t.out \subseteq 1 .. Len(t.log) /\ t.acked \subseteq t.out
          /\ (t.queue.recs # {} => t.queue.top \in Offsets)
      BY DEF Shape
    <2> QED BY <1>7, <2>1, <2>2 DEF Shape
  <1> QED BY <1>6, <1>7, <1>8, <1>9

\* A batch is acknowledged.
LEMMA AckEffect ==
    ASSUME NEW t \in Tracker, Shape(t), NEW i \in t.out, NEW u, u = [t EXCEPT !.acked = t.acked \cup {i}]
    PROVE  /\ u \in Tracker /\ Shape(u) /\ Quiet(t, u) /\ u.acked = t.acked \cup {i}
           /\ u.revoked = t.revoked /\ u.byAdd = t.byAdd
  <1>1. i \in Nat
    BY DEF Tracker
  <1>2. u \in Tracker
    BY <1>1 DEF Tracker
  <1>3. /\ u.log = t.log /\ u.queue = t.queue /\ u.flushed = t.flushed /\ u.loop = t.loop
        /\ u.byLoop = t.byLoop /\ u.out = t.out /\ u.acked = t.acked \cup {i}
        /\ u.revoked = t.revoked /\ u.byAdd = t.byAdd
    BY DEF Tracker
  <1> QED BY <1>2, <1>3 DEF Shape, Quiet

-----------------------------------------------------------------------------
(* Type correctness.                                                       *)

\* Steps that leave the trackers alone keep their shape.
LEMMA SameTrackers ==
    ASSUME TypeInv, UNCHANGED <<trackers, tracked>>
    PROVE  TrackersType' /\ Shapes' /\ TrackedExist'
  BY DEF TypeInv, TypeOK, TrackersType, Shapes, TrackedExist, Current

\* Replacing a tracker by one of the right shape.
LEMMA ReplaceShape ==
    ASSUME TypeInv, NEW c \in Clients, NEW p \in Partitions,
           NEW g \in 1 .. Len(trackers[c][p]), NEW r \in Tracker, Shape(r),
           trackers' = [trackers EXCEPT ![c][p][g] = r], tracked' = tracked
    PROVE  TrackersType' /\ Shapes' /\ TrackedExist' /\ TrackerReplaced(c, p, g, r)
  <1>1. TrackersType' /\ TrackerReplaced(c, p, g, r)
    BY UpdateTracker DEF TypeInv, TypeOK, TrackersType
  <1>2. ASSUME NEW d \in Clients, NEW q \in Partitions, NEW h \in 1 .. Len(trackers'[d][q])
        PROVE  Shape(trackers'[d][q][h])
    <2>1. h \in 1 .. Len(trackers[d][q]) /\ Shape(trackers[d][q][h])
      BY <1>1 DEF TypeInv, Shapes, Current, TrackerReplaced
    <2>2. trackers'[d][q][h] = IF d = c /\ q = p /\ h = g THEN r ELSE trackers[d][q][h]
      BY <1>1, <2>1 DEF TrackerReplaced
    <2> QED BY <2>1, <2>2
  <1>3. TrackedExist'
    BY <1>1 DEF TypeInv, TrackedExist, Current, TrackerReplaced
  <1> QED BY <1>1, <1>2, <1>3 DEF Shapes, Current

\* Appending a tracker of the right shape.
LEMMA AppendShape ==
    ASSUME TypeInv, NEW c \in Clients, NEW p \in Partitions, NEW r \in Tracker, Shape(r),
           trackers' = [trackers EXCEPT ![c][p] = Append(trackers[c][p], r)],
           tracked' = [tracked EXCEPT ![c] = @ \cup {p}]
    PROVE  TrackersType' /\ Shapes' /\ TrackedExist' /\ TrackerAppended(c, p, r)
  <1>1. TrackersType' /\ TrackerAppended(c, p, r)
    BY AppendTracker DEF TypeInv, TypeOK, TrackersType
  <1>2. \A d \in Clients, q \in Partitions : Len(trackers[d][q]) \in Nat
    BY DEF TypeInv, TypeOK
  <1>3. ASSUME NEW d \in Clients, NEW q \in Partitions, NEW h \in 1 .. Len(trackers'[d][q])
        PROVE  Shape(trackers'[d][q][h])
    <2>1. Len(trackers[d][q]) \in Nat
      BY <1>2
    <2>2. CASE h \in 1 .. Len(trackers[d][q])
      BY <1>1, <2>2 DEF TypeInv, Shapes, Current, TrackerAppended
    <2>3. CASE h \notin 1 .. Len(trackers[d][q])
      <3>1. d = c /\ q = p /\ h = Len(trackers[c][p]) + 1
        BY <1>1, <2>1, <2>3 DEF TrackerAppended
      <3> QED BY <1>1, <3>1 DEF TrackerAppended
    <2> QED BY <2>2, <2>3
  <1>4. TrackedExist'
    BY <1>1, <1>2 DEF TypeInv, TypeOK, TrackedExist, Current, TrackerAppended
  <1> QED BY <1>1, <1>3, <1>4 DEF Shapes, Current

\* A client whose loop and mutex stay as they are, and whose tracked trackers are
\* still sending what they were.
LEMMA HoldsFrame ==
    ASSUME NEW d \in Clients, AddHolds(d), pc'[d] = pc[d], mut'[d] = mut[d], adding'[d] = adding[d],
           tracked'[d] = tracked[d],
           \A q \in tracked[d] : trackers'[d][q][Len(trackers'[d][q])].byAdd
                                    = trackers[d][q][Len(trackers[d][q])].byAdd
    PROVE  AddHolds(d)'
  BY DEF AddHolds, TrackerOf, Current

\* The tracker of a tracked partition.
LEMMA CurrentTracker ==
    ASSUME TypeInv, NEW c \in Clients, NEW p \in tracked[c]
    PROVE  /\ p \in Partitions /\ Current(c, p) = Len(trackers[c][p])
           /\ Current(c, p) \in 1 .. Len(trackers[c][p])
           /\ TrackerOf(c, p) = trackers[c][p][Current(c, p)]
           /\ TrackerOf(c, p) \in Tracker /\ Shape(TrackerOf(c, p))
  <1>1. p \in Partitions /\ trackers[c][p] \in Seq(Tracker)
    BY DEF TypeInv, TypeOK
  <1>2. Len(trackers[c][p]) \in Nat /\ Len(trackers[c][p]) > 0
    BY <1>1 DEF TypeInv, TrackedExist, Current
  <1>3. Current(c, p) \in 1 .. Len(trackers[c][p])
    BY <1>2 DEF Current
  <1>4. TrackerOf(c, p) \in Tracker /\ Shape(TrackerOf(c, p))
    BY <1>1, <1>3 DEF TypeInv, Shapes, TrackerOf, Current
  <1> QED BY <1>1, <1>3, <1>4 DEF Current, TrackerOf

\* Any tracker.
LEMMA AnyTracker ==
    ASSUME TypeInv, NEW c \in Clients, NEW p \in Partitions, NEW g \in 1 .. Current(c, p)
    PROVE  /\ g \in 1 .. Len(trackers[c][p])
           /\ trackers[c][p][g] \in Tracker /\ Shape(trackers[c][p][g])
  BY DEF TypeInv, TypeOK, Shapes, Current

\* A replacement keeps AddHolds of everybody whose loop it does not concern.
LEMMA ReplaceHolds ==
    ASSUME TypeInv, NEW c \in Clients, NEW p \in Partitions, NEW g \in 1 .. Len(trackers[c][p]),
           NEW r, TrackerReplaced(c, p, g, r), tracked' = tracked, NEW d \in Clients,
           pc'[d] = pc[d], mut'[d] = mut[d], adding'[d] = adding[d],
           d # c \/ r.byAdd = trackers[c][p][g].byAdd
    PROVE  AddHolds(d)'
  <1>1. ASSUME NEW q \in tracked[d]
        PROVE  trackers'[d][q][Len(trackers'[d][q])].byAdd
                  = trackers[d][q][Len(trackers[d][q])].byAdd
    <2>1. q \in Partitions /\ Len(trackers[d][q]) \in 1 .. Len(trackers[d][q])
      BY CurrentTracker
    <2>2. /\ Len(trackers'[d][q]) = Len(trackers[d][q])
          /\ trackers'[d][q][Len(trackers[d][q])] = IF d = c /\ q = p /\ Len(trackers[d][q]) = g
                                                    THEN r ELSE trackers[d][q][Len(trackers[d][q])]
      BY <2>1 DEF TrackerReplaced
    <2> QED BY <2>2
  <1>2. AddHolds(d) /\ tracked'[d] = tracked[d]
    BY DEF TypeInv
  <1> QED BY <1>1, <1>2, HoldsFrame

\* A process that has just connected satisfies the type invariant.
LEMMA TypeInit == Init => TypeInv
  <1> SUFFICES ASSUME Init PROVE TypeInv
    OBVIOUS
  <1>1. GroupTypeOK
    BY DEF Init, GroupInit, GroupTypeOK, Idle
  <1>2. TypeOK
    BY <1>1 DEF Init, TypeOK, NoFetch
  <1>3. Shapes /\ TrackedExist /\ \A c \in Clients : AddHolds(c)
    BY DEF Init, Shapes, TrackedExist, AddHolds, Current, NoFetch
  <1> QED BY <1>2, <1>3 DEF TypeInv

\* A poll.
LEMMA TypePoll ==
    ASSUME TypeInv, NEW c \in Clients, NEW count \in [Partitions -> 0 .. FetchMax], PollFetches(c, count)
    PROVE  TypeInv'
  <1>1. ASSUME NEW p \in Partitions
        PROVE  /\ position[c][p] + count[p] \in Positions
               /\ [i \in 1 .. count[p] |-> position[c][p] + i - 1] \in Seq(Offsets)
    <2>1. position[c][p] \in Nat /\ count[p] \in Nat /\ position[c][p] \in Positions
      BY DEF TypeInv, TypeOK, GroupTypeOK
    <2>2. position[c][p] + count[p] <= NumRecords
      BY <2>1 DEF PollFetches
    <2>3. \A i \in 1 .. count[p] : position[c][p] + i - 1 \in Offsets
      BY <2>1, <2>2
    <2> QED BY <2>1, <2>2, <2>3, SMTT(60)
  <1>2. fetch' \in [Clients -> [Partitions -> Seq(Offsets)]]
    <2>1. PICK f : f = [p \in Partitions |-> [i \in 1 .. count[p] |-> position[c][p] + i - 1]]
      OBVIOUS
    <2>2. f \in [Partitions -> Seq(Offsets)] /\ fetch' = [fetch EXCEPT ![c] = f]
      BY <1>1, <2>1 DEF PollFetches
    <2> QED BY <2>2 DEF TypeInv, TypeOK
  <1>3. position' \in [Clients -> [Partitions -> Positions]]
    BY <1>1 DEF PollFetches, TypeInv, TypeOK, GroupTypeOK
  <1>4. pc' = [pc EXCEPT ![c] = "file"] /\ pc[c] = "poll"
        /\ UNCHANGED <<owner, committed, fenced, assigned, head, sent, callback, delivered, disruptions,
                       softStop, mut, adding, pausing, paused, tracked, trackers>>
    BY DEF PollFetches
  <1>5. GroupTypeOK'
    BY <1>3, <1>4 DEF TypeInv, TypeOK, GroupTypeOK
  <1>6. TrackersType' /\ Shapes' /\ TrackedExist'
    BY <1>4, SameTrackers
  <1>7. ASSUME NEW d \in Clients PROVE AddHolds(d)'
    <2>1. AddHolds(d) /\ pc'[d] = IF d = c THEN "file" ELSE pc[d]
      BY <1>4 DEF TypeInv, TypeOK
    <2> QED BY <1>4, <2>1 DEF AddHolds, TrackerOf, Current
  <1>8. TypeOK'
    BY <1>2, <1>4, <1>5 DEF TypeInv, TypeOK
  <1> QED BY <1>6, <1>7, <1>8 DEF TypeInv

\* addRecord puts the record into the tracker, a new one if need be.
LEMMA TypeAddRecord ==
    ASSUME TypeInv, NEW c \in Clients, NEW p \in Partitions, AddRecord(c, p)
    PROVE  TypeInv'
  <1>1. PICK t : t = IF p \in tracked[c] THEN TrackerOf(c, p) ELSE newPartitionTracker
    OBVIOUS
  <1>2. t \in Tracker /\ Shape(t)
    BY <1>1, CurrentTracker, NewTrackerType
  <1>3. PICK r : r = Head(fetch[c][p])
    OBVIOUS
  <1>4. fetch[c][p] \in Seq(Offsets) /\ fetch[c][p] # <<>>
    BY DEF AddRecord, TypeInv, TypeOK
  <1>5. r \in Offsets /\ Tail(fetch[c][p]) \in Seq(Offsets)
    BY <1>3, <1>4, HeadTailProperties
  <1>6. PICK u : u = add(t, r)
    OBVIOUS
  <1>7. u \in Tracker /\ Shape(u)
    BY <1>2, <1>5, <1>6, AddEffect, AddShape
  <1>8. /\ mut' = [mut EXCEPT ![c] = "loop"] /\ adding' = [adding EXCEPT ![c] = p]
        /\ fetch' = [fetch EXCEPT ![c][p] = Tail(@)]
        /\ tracked' = [tracked EXCEPT ![c] = @ \cup {p}]
        /\ trackers' = [trackers EXCEPT ![c][p] =
                          IF p \in tracked[c] THEN [@ EXCEPT ![Current(c, p)] = u] ELSE Append(@, u)]
        /\ pc' = [pc EXCEPT ![c] = IF u.byAdd = 0 THEN "check" ELSE "send"]
        /\ UNCHANGED <<groupVars, softStop, pausing, paused>>
    BY <1>1, <1>3, <1>6 DEF AddRecord
  <1>9. tracked[c] \subseteq Partitions
    BY DEF TypeInv, TypeOK
  <1>10. /\ TrackersType' /\ Shapes' /\ TrackedExist'
         /\ trackers'[c][p][Len(trackers'[c][p])] = u
         /\ \A d \in Clients : d # c => trackers'[d] = trackers[d]
    <2>1. CASE p \in tracked[c]
      <3>1. PICK g \in 1 .. Len(trackers[c][p]) : g = Current(c, p)
        BY <2>1, CurrentTracker
      <3>2. trackers' = [trackers EXCEPT ![c][p][g] = u] /\ tracked' = tracked
        BY <1>8, <2>1, <3>1 DEF TypeInv, TypeOK
      <3>3. TrackersType' /\ Shapes' /\ TrackedExist' /\ TrackerReplaced(c, p, g, u)
        BY <1>7, <3>2, ReplaceShape
      <3>4. trackers'[c][p][Len(trackers'[c][p])] = u
        BY <3>1, <3>3 DEF TrackerReplaced, Current
      <3>5. \A d \in Clients : d # c => trackers'[d] = trackers[d]
        BY <3>2 DEF TypeInv, TypeOK
      <3> QED BY <3>3, <3>4, <3>5
    <2>2. CASE p \notin tracked[c]
      <3>1. trackers' = [trackers EXCEPT ![c][p] = Append(trackers[c][p], u)]
        BY <1>8, <2>2
      <3>2. TrackersType' /\ Shapes' /\ TrackedExist' /\ TrackerAppended(c, p, u)
        BY <1>7, <1>8, <3>1, AppendShape
      <3>3. trackers'[c][p][Len(trackers'[c][p])] = u
        BY <3>2 DEF TrackerAppended
      <3>4. \A d \in Clients : d # c => trackers'[d] = trackers[d]
        BY <3>1 DEF TypeInv, TypeOK
      <3> QED BY <3>2, <3>3, <3>4
    <2> QED BY <2>1, <2>2
  <1>11. ASSUME NEW d \in Clients PROVE AddHolds(d)'
    <2>1. CASE d = c
      <3>1. /\ mut'[c] = "loop" /\ adding'[c] = p /\ p \in tracked'[c]
            /\ pc'[c] = IF u.byAdd = 0 THEN "check" ELSE "send"
        BY <1>8 DEF TypeInv, TypeOK
      <3>2. TrackerOf(c, p)' = u
        BY <1>10 DEF TrackerOf, Current
      <3> QED BY <2>1, <3>1, <3>2 DEF AddHolds, TrackerOf, Current
    <2>2. CASE d # c
      <3>1. /\ AddHolds(d) /\ pc'[d] = pc[d] /\ mut'[d] = mut[d] /\ adding'[d] = adding[d]
            /\ tracked'[d] = tracked[d]
        BY <1>8, <2>2 DEF TypeInv, TypeOK
      <3> QED BY <1>10, <2>2, <3>1, HoldsFrame
    <2> QED BY <2>1, <2>2
  <1>12. fetch' \in [Clients -> [Partitions -> Seq(Offsets)]]
    BY <1>5, <1>8 DEF TypeInv, TypeOK
  <1>13. GroupTypeOK'
    BY <1>8 DEF TypeInv, TypeOK, GroupTypeOK, groupVars
  <1>14. TypeOK'
    BY <1>8, <1>10, <1>12, <1>13 DEF TypeInv, TypeOK, TrackersType
  <1> QED BY <1>10, <1>11, <1>14 DEF TypeInv

\* A tracker is replaced by one that is sending the same batch of add, and the
\* rest of the reader stays as it is.
LEMMA TypeTracker ==
    ASSUME TypeInv, NEW c \in Clients, NEW p \in Partitions, NEW g \in 1 .. Current(c, p),
           NEW u \in Tracker, Shape(u), u.byAdd = trackers[c][p][g].byAdd, SetTracker(c, p, g, u),
           UNCHANGED <<softStop, pc, mut, adding, fetch, pausing, paused, tracked>>, GroupTypeOK'
    PROVE  TypeInv'
  <1>1. g \in 1 .. Len(trackers[c][p])
    BY DEF Current
  <1>2. TrackersType' /\ Shapes' /\ TrackedExist' /\ TrackerReplaced(c, p, g, u)
    BY <1>1, ReplaceShape DEF SetTracker
  <1>3. ASSUME NEW d \in Clients PROVE AddHolds(d)'
    BY <1>1, <1>2, ReplaceHolds
  <1>4. TypeOK'
    BY <1>2 DEF TypeInv, TypeOK, TrackersType
  <1> QED BY <1>2, <1>3, <1>4 DEF TypeInv

\* The goroutine of a tracker, and ReadBatch on the other end of its send.
LEMMA TypeGoroutine ==
    ASSUME TypeInv, NEW c \in Clients, NEW p \in Partitions, NEW g \in 1 .. Current(c, p),
           TrackerStep(c, p, g) \/ ReadBatchOfLoop(c, p, g)
    PROVE  TypeInv'
  <1>1. PICK t \in Tracker : t = trackers[c][p][g] /\ Shape(t)
    BY AnyTracker
  <1>2. /\ UNCHANGED <<softStop, pc, mut, adding, fetch, pausing, paused, tracked>>
        /\ UNCHANGED groupVars
    BY DEF TrackerStep, FlushTimer, TrackFlushed, LoopStopped, ReadBatchOfLoop
  <1>3. GroupTypeOK'
    BY <1>2 DEF TypeInv, TypeOK, GroupTypeOK, groupVars
  <1>4. PICK u \in Tracker : Shape(u) /\ u.byAdd = t.byAdd /\ SetTracker(c, p, g, u)
    <2>1. CASE FlushTimer(c, p, g)
      <3>1. PICK u : FlushedFrom(t, u)
        BY DEF FlushedFrom
      <3>2. SetTracker(c, p, g, u) /\ t.loop = "wait" /\ t.queue.recs # {}
        BY <1>1, <2>1, <3>1 DEF FlushTimer, FlushedFrom
      <3>3. u \in Tracker /\ Shape(u) /\ u.byAdd = t.byAdd
        BY <1>1, <3>1, <3>2, FlushEffect
      <3> QED BY <3>2, <3>3
    <2>2. CASE TrackFlushed(c, p, g)
      <3>1. PICK u : TrackedFrom(t, u)
        BY DEF TrackedFrom
      <3>2. SetTracker(c, p, g, u) /\ t.loop = "track"
        BY <1>1, <2>2, <3>1 DEF TrackFlushed, TrackedFrom
      <3>3. u \in Tracker /\ Shape(u) /\ u.byAdd = t.byAdd
        BY <1>1, <3>1, <3>2, TrackEffect
      <3> QED BY <3>2, <3>3
    <2>3. CASE LoopStopped(c, p, g)
      <3>1. PICK u : u = [t EXCEPT !.loop = "stopped", !.byLoop = 0]
        OBVIOUS
      <3>2. SetTracker(c, p, g, u) /\ t.loop \in {"wait", "send"}
        BY <1>1, <2>3, <3>1 DEF LoopStopped, MayStop
      <3>3. u.byAdd = t.byAdd
        BY <3>1 DEF Tracker
      <3>4. u \in Tracker /\ Shape(u)
        BY <1>1, <3>1, <3>2, MovedEffect DEF Moved
      <3> QED BY <3>2, <3>3, <3>4
    <2>4. CASE ReadBatchOfLoop(c, p, g)
      <3>1. PICK u : u = [t EXCEPT !.out = t.out \cup {t.byLoop}, !.byLoop = 0, !.loop = "wait"]
        OBVIOUS
      <3>2. SetTracker(c, p, g, u) /\ t.loop = "send"
        BY <1>1, <2>4, <3>1 DEF ReadBatchOfLoop
      <3>3. u.byAdd = t.byAdd
        BY <3>1 DEF Tracker
      <3>4. u \in Tracker /\ Shape(u)
        BY <1>1, <3>1, <3>2, MovedEffect DEF Moved
      <3> QED BY <3>2, <3>3, <3>4
    <2> QED BY <2>1, <2>2, <2>3, <2>4 DEF TrackerStep
  <1> QED BY <1>1, <1>2, <1>3, <1>4, TypeTracker

\* What an acknowledgement marks: the last record of the last batch that is
\* resolved.
LEMMA ResolvedMax ==
    ASSUME NEW t \in Tracker, Shape(t), Resolved(t) # {}
    PROVE  /\ Max(Resolved(t)) \in 1 .. Len(t.log) /\ Max(Resolved(t)) \in Resolved(t)
           /\ t.log[Max(Resolved(t))] \in Batch /\ t.log[Max(Resolved(t))].top \in Offsets
  <1>1. t.log \in Seq(Batch) /\ Len(t.log) \in Nat
    BY DEF Tracker
  <1>2. Resolved(t) \subseteq 1 .. Len(t.log)
    BY DEF Resolved, Shape
  <1>3. Resolved(t) \subseteq 0 .. Len(t.log)
    BY <1>1, <1>2
  <1>4. Max(Resolved(t)) \in Resolved(t)
    BY <1>1, <1>3, MaxOf
  <1>5. Max(Resolved(t)) \in 1 .. Len(t.log)
    BY <1>2, <1>4
  <1>6. t.log[Max(Resolved(t))] \in Batch
    BY <1>1, <1>5
  <1> QED BY <1>4, <1>5, <1>6 DEF Batch

\* An acknowledgement.
LEMMA TypeAck ==
    ASSUME TypeInv, NEW c \in Clients, NEW p \in Partitions, NEW g \in 1 .. Current(c, p),
           NEW i, Ack(c, p, g, i)
    PROVE  TypeInv'
  <1>1. PICK t \in Tracker : t = trackers[c][p][g] /\ Shape(t)
    BY AnyTracker
  <1>2. PICK u : u = [t EXCEPT !.acked = t.acked \cup {i}]
    OBVIOUS
  <1>3. /\ i \in t.out /\ SetTracker(c, p, g, u)
        /\ delivered' = [delivered EXCEPT ![p] = @ \cup t.log[i].recs]
        /\ IF u.revoked \/ Resolved(u) = {} THEN head' = head
           ELSE MarkCommitRecords(c, p, u.log[Max(Resolved(u))].top)
        /\ UNCHANGED <<owner, committed, fenced, assigned, position, sent, callback, disruptions,
                       softStop, pc, mut, adding, fetch, pausing, paused, tracked>>
    BY <1>1, <1>2 DEF Ack, commitFn
  <1>4. u \in Tracker /\ Shape(u) /\ u.byAdd = t.byAdd
    BY <1>1, <1>2, <1>3, AckEffect
  <1>5. GroupTypeOK
    BY DEF TypeInv, TypeOK
  <1>6. head' \in [Clients -> [Partitions -> Positions \cup {NoMark}]]
    <2>1. CASE head' = head
      BY <1>5, <2>1 DEF GroupTypeOK
    <2>2. CASE Resolved(u) # {} /\ MarkCommitRecords(c, p, u.log[Max(Resolved(u))].top)
      <3>1. u.log[Max(Resolved(u))].top \in Offsets
        BY <1>4, <2>2, ResolvedMax
      <3> QED BY <1>5, <2>2, <3>1, MarkType
    <2> QED BY <1>3, <2>1, <2>2
  <1>7. delivered' \in [Partitions -> SUBSET Offsets]
    <2>1. t.log \in Seq(Batch) /\ i \in 1 .. Len(t.log)
      BY <1>1, <1>3 DEF Tracker, Shape
    <2>2. t.log[i].recs \in SUBSET Offsets
      <3>1. t.log[i] \in Batch
        BY <2>1
      <3> QED BY <3>1 DEF Batch
    <2> QED BY <1>3, <1>5, <2>2 DEF GroupTypeOK
  <1>8. GroupTypeOK'
    BY <1>3, <1>5, <1>6, <1>7 DEF GroupTypeOK
  <1> QED BY <1>1, <1>3, <1>4, <1>8, TypeTracker

\* The send of add ends: its batch is read, or the reader is being closed.
LEMMA TypeSendEnds ==
    ASSUME TypeInv, NEW c \in Clients, SendCancelled(c) \/ ReadBatchOfAdd(c)
    PROVE  TypeInv'
  <1>1. PICK p \in tracked[c] : p = adding[c] /\ TrackerOf(c, p).byAdd # 0 /\ mut[c] = "loop"
    BY DEF SendCancelled, ReadBatchOfAdd, TypeInv, AddHolds
  <1>2. PICK g \in 1 .. Len(trackers[c][p]) : g = Current(c, p) /\ p \in Partitions
    BY CurrentTracker
  <1>3. PICK t \in Tracker : t = TrackerOf(c, p) /\ t = trackers[c][p][g] /\ Shape(t)
    BY <1>2, CurrentTracker
  <1>4. PICK u : /\ Moved(t, u) /\ trackers' = [trackers EXCEPT ![c][p][g] = u]
                 /\ pc' = [pc EXCEPT ![c] = "check"]
                 /\ UNCHANGED <<groupVars, softStop, mut, adding, fetch, pausing, paused, tracked>>
    <2>1. CASE SendCancelled(c)
      <3>1. PICK u : u = [t EXCEPT !.byAdd = 0]
        OBVIOUS
      <3>2. trackers' = [trackers EXCEPT ![c][p][g] = u]
        BY <1>1, <1>2, <1>3, <2>1, <3>1 DEF SendCancelled
      <3> QED BY <2>1, <3>1, <3>2 DEF SendCancelled, Moved
    <2>2. CASE ReadBatchOfAdd(c)
      <3>1. PICK u : u = [t EXCEPT !.out = t.out \cup {t.byAdd}, !.byAdd = 0]
        OBVIOUS
      <3>2. trackers' = [trackers EXCEPT ![c][p][g] = u]
        BY <1>1, <1>2, <1>3, <2>2, <3>1 DEF ReadBatchOfAdd, SetTracker
      <3> QED BY <1>1, <1>3, <2>2, <3>1, <3>2 DEF ReadBatchOfAdd, Moved
    <2> QED BY <2>1, <2>2
  <1>5. u \in Tracker /\ Shape(u)
    BY <1>3, <1>4, MovedEffect
  <1>6. TrackersType' /\ Shapes' /\ TrackedExist' /\ TrackerReplaced(c, p, g, u)
    BY <1>2, <1>4, <1>5, ReplaceShape
  <1>7. ASSUME NEW d \in Clients PROVE AddHolds(d)'
    <2>1. CASE d = c
      <3>1. pc'[c] = "check" /\ mut'[c] = "loop" /\ adding'[c] \in tracked'[c]
        BY <1>1, <1>4 DEF TypeInv, TypeOK
      <3> QED BY <2>1, <3>1 DEF AddHolds
    <2>2. CASE d # c
      <3>1. pc'[d] = pc[d] /\ mut'[d] = mut[d] /\ adding'[d] = adding[d] /\ tracked' = tracked
        BY <1>4, <2>2 DEF TypeInv, TypeOK
      <3> QED BY <1>2, <1>6, <2>2, <3>1, ReplaceHolds
    <2> QED BY <2>1, <2>2
  <1>8. GroupTypeOK'
    BY <1>4 DEF TypeInv, TypeOK, GroupTypeOK, groupVars
  <1>9. TypeOK'
    BY <1>4, <1>6, <1>8 DEF TypeInv, TypeOK, TrackersType
  <1> QED BY <1>6, <1>7, <1>9 DEF TypeInv

\* A client whose loop is not in addRecord, and the others.
LEMMA HoldsLoop ==
    ASSUME TypeInv, NEW c \in Clients, NEW x, x \notin {"send", "check"}, pc' = [pc EXCEPT ![c] = x],
           \A d \in Clients : d # c => mut'[d] = mut[d] /\ adding'[d] = adding[d],
           UNCHANGED <<tracked, trackers>>, NEW e \in Clients
    PROVE  AddHolds(e)'
  <1>1. AddHolds(e) /\ pc'[e] = IF e = c THEN x ELSE pc[e]
    BY DEF TypeInv, TypeOK
  <1> QED BY <1>1 DEF AddHolds, TrackerOf, Current

\* The end of addRecord, and the loop between two fetches.
LEMMA TypeLoop ==
    ASSUME TypeInv, NEW c \in Clients,
           RecordAdded(c) \/ PauseFetch(c) \/ Resume(c) \/ LoopExit(c) \/ Stopped(c)
    PROVE  TypeInv'
  <1>1. UNCHANGED <<groupVars, softStop, fetch, tracked, trackers>>
    BY DEF RecordAdded, PauseFetch, Resume, LoopExit, Stopped
  <1>2. TrackersType' /\ Shapes' /\ TrackedExist' /\ GroupTypeOK'
    <2>1. GroupTypeOK'
      BY <1>1 DEF TypeInv, TypeOK, GroupTypeOK, groupVars
    <2> QED BY <1>1, <2>1, SameTrackers
  <1>3. CASE RecordAdded(c)
    <2>1. adding[c] \in Partitions
      BY <1>3 DEF RecordAdded, TypeInv, TypeOK, AddHolds
    <2>2. \A d \in Clients : d # c => mut'[d] = mut[d] /\ adding'[d] = adding[d]
      BY <1>3 DEF RecordAdded, TypeInv, TypeOK
    <2>3. pc' = [pc EXCEPT ![c] = "file"]
      BY <1>3 DEF RecordAdded
    <2>4. \A d \in Clients : AddHolds(d)'
      BY <1>1, <2>2, <2>3, HoldsLoop
    <2>5. pausing' \in [Clients -> SUBSET Partitions]
      BY <1>3, <2>1 DEF RecordAdded, TypeInv, TypeOK
    <2>6. mut' \in [Clients -> {"free", "loop", "callback"}] /\ adding' \in [Clients -> Partitions \cup {NoPartition}]
          /\ paused' = paused
      BY <1>3 DEF RecordAdded, TypeInv, TypeOK
    <2>7. TypeOK'
      BY <1>1, <1>2, <2>3, <2>5, <2>6 DEF TypeInv, TypeOK
    <2> QED BY <1>2, <2>4, <2>7 DEF TypeInv
  <1>4. CASE PauseFetch(c) \/ Resume(c) \/ LoopExit(c) \/ Stopped(c)
    <2>1. PICK x \in {"resume", "poll", "exit", "stopped"} : pc' = [pc EXCEPT ![c] = x]
      BY <1>4 DEF PauseFetch, Resume, LoopExit, Stopped
    <2>2. UNCHANGED <<mut, adding>>
      BY <1>4 DEF PauseFetch, Resume, LoopExit, Stopped
    <2>3. \A d \in Clients : AddHolds(d)'
      BY <1>1, <2>1, <2>2, HoldsLoop
    <2>4. paused' \in [Clients -> SUBSET Partitions] /\ pausing' \in [Clients -> SUBSET Partitions]
      <3>1. CASE PauseFetch(c)
        BY <3>1 DEF PauseFetch, TypeInv, TypeOK
      <3>2. CASE Resume(c)
        BY <3>2 DEF Resume, TypeInv, TypeOK
      <3>3. CASE LoopExit(c) \/ Stopped(c)
        BY <3>3 DEF LoopExit, Stopped, TypeInv, TypeOK
      <3> QED BY <1>4, <3>1, <3>2, <3>3
    <2>5. TypeOK'
      BY <1>1, <1>2, <2>1, <2>2, <2>4 DEF TypeInv, TypeOK
    <2> QED BY <1>2, <2>3, <2>5 DEF TypeInv
  <1> QED BY <1>3, <1>4

\* removeTopicPartitions: while it holds the mutex no addRecord is under way.
LEMMA TypeRemove ==
    ASSUME TypeInv, NEW c \in Clients,
           \/ LockForRemove(c) \/ UnlockAfterRemove(c)
           \/ \E p \in Partitions : RemovePartition(c, p) \/ PartitionRemoved(c, p)
    PROVE  TypeInv'
  <1>1. CASE \E p \in Partitions : RemovePartition(c, p)
    <2>1. PICK p \in Partitions : RemovePartition(c, p)
      BY <1>1
    <2>2. p \in tracked[c] /\ UNCHANGED <<groupVars, softStop, pc, mut, adding, fetch, pausing, paused, tracked>>
      BY <2>1 DEF RemovePartition, Leaving
    <2>3. PICK g \in 1 .. Current(c, p) : g = Current(c, p)
      BY <2>2, CurrentTracker
    <2>4. PICK t \in Tracker : t = TrackerOf(c, p) /\ t = trackers[c][p][g] /\ Shape(t)
      BY <2>2, <2>3, CurrentTracker
    <2>5. PICK u : u = [t EXCEPT !.revoked = TRUE, !.closing = TRUE]
      OBVIOUS
    <2>6. SetTracker(c, p, g, u)
      BY <2>1, <2>3, <2>4, <2>5 DEF RemovePartition, markRevoked
    <2>7. u \in Tracker /\ Shape(u)
      BY <2>4, <2>5, MovedEffect DEF Moved
    <2>8. u.byAdd = t.byAdd
      BY <2>5 DEF Tracker
    <2>9. GroupTypeOK'
      BY <2>2 DEF TypeInv, TypeOK, GroupTypeOK, groupVars
    <2> QED BY <2>2, <2>4, <2>6, <2>7, <2>8, <2>9, TypeTracker
  <1>2. CASE \E p \in Partitions : PartitionRemoved(c, p)
    <2>1. PICK p \in Partitions : PartitionRemoved(c, p)
      BY <1>2
    <2>2. /\ mut[c] = "callback" /\ tracked' = [tracked EXCEPT ![c] = @ \ {p}]
          /\ UNCHANGED <<groupVars, softStop, pc, mut, adding, fetch, pausing, paused, trackers>>
      BY <2>1 DEF PartitionRemoved
    <2>3. GroupTypeOK'
      BY <2>2 DEF TypeInv, TypeOK, GroupTypeOK, groupVars
    <2>4. TypeOK'
      BY <2>2, <2>3 DEF TypeInv, TypeOK
    <2>5. Shapes' /\ TrackedExist'
      BY <2>2 DEF TypeInv, TypeOK, Shapes, TrackedExist, Current
    <2>6. ASSUME NEW d \in Clients PROVE AddHolds(d)'
      <3>1. AddHolds(d) /\ (d # c => tracked'[d] = tracked[d])
        BY <2>2 DEF TypeInv, TypeOK
      <3> QED BY <2>2, <3>1 DEF AddHolds, TrackerOf, Current
    <2> QED BY <2>4, <2>5, <2>6 DEF TypeInv
  <1>3. CASE LockForRemove(c) \/ UnlockAfterRemove(c)
    <2>1. /\ mut[c] # "loop"
          /\ \E x \in {"free", "callback"} : mut' = [mut EXCEPT ![c] = x]
          /\ UNCHANGED <<softStop, pc, adding, fetch, pausing, paused, tracked, trackers>>
      BY <1>3 DEF LockForRemove, UnlockAfterRemove
    <2>2. GroupTypeOK'
      <3>1. CASE LockForRemove(c)
        BY <3>1 DEF LockForRemove, TypeInv, TypeOK, GroupTypeOK, groupVars
      <3>2. CASE UnlockAfterRemove(c)
        <4>1. PICK b : b = [callback[c] EXCEPT !.stage = "clean"]
          OBVIOUS
        <4>2. PICK k \in [stage : {"none", "remove", "clean"}, parts : SUBSET Partitions] : k = callback[c]
          BY DEF TypeInv, TypeOK, GroupTypeOK
        <4>3. b \in [stage : {"none", "remove", "clean"}, parts : SUBSET Partitions]
          BY <4>1, <4>2
        <4>4. callback' = [callback EXCEPT ![c] = b]
          BY <3>2, <4>1 DEF UnlockAfterRemove
        <4>5. callback' \in [Clients -> [stage : {"none", "remove", "clean"}, parts : SUBSET Partitions]]
          BY <4>3, <4>4 DEF TypeInv, TypeOK, GroupTypeOK
        <4>6. UNCHANGED <<owner, committed, fenced, assigned, position, head, sent, delivered, disruptions>>
          BY <3>2 DEF UnlockAfterRemove
        <4> QED BY <4>5, <4>6 DEF TypeInv, TypeOK, GroupTypeOK
      <3> QED BY <1>3, <3>1, <3>2
    <2>3. Shapes' /\ TrackedExist'
      BY <2>1, SameTrackers
    <2>4. TypeOK'
      BY <2>1, <2>2 DEF TypeInv, TypeOK
    <2>5. ASSUME NEW d \in Clients PROVE AddHolds(d)'
      <3>1. AddHolds(d) /\ (d # c => mut'[d] = mut[d])
        BY <2>1 DEF TypeInv, TypeOK
      <3> QED BY <2>1, <3>1 DEF AddHolds, TrackerOf, Current
    <2> QED BY <2>3, <2>4, <2>5 DEF TypeInv
  <1> QED BY <1>1, <1>2, <1>3

\* A step of the client or the coordinator alone.
LEMMA TypeGroup ==
    ASSUME TypeInv, GroupTypeOK', UNCHANGED readerVars
    PROVE  TypeInv'
  <1>1. UNCHANGED <<softStop, pc, mut, adding, fetch, pausing, paused, tracked, trackers>>
    BY DEF readerVars
  <1>2. TrackersType' /\ Shapes' /\ TrackedExist'
    BY <1>1, SameTrackers
  <1>3. \A d \in Clients : AddHolds(d)'
    BY <1>1 DEF TypeInv, AddHolds, TrackerOf, Current
  <1> QED BY <1>1, <1>2, <1>3 DEF TypeInv, TypeOK

\* Assignment, revocation, loss and commits.
LEMMA TypeRebalance ==
    ASSUME TypeInv, NEW c \in Clients, RebalanceStep(c) \/ Returned(c) \/ CloseClient(c)
    PROVE  TypeInv'
  <1>1. GroupTypeOK
    BY DEF TypeInv, TypeOK
  <1>2. ASSUME NEW p \in Partitions, Assign(c, p) PROVE TypeInv'
    BY <1>1, <1>2, GroupTypes, TypeGroup DEF Assign
  <1>3. ASSUME NEW parts \in SUBSET Partitions, Revoke(c, parts) PROVE TypeInv'
    <2>1. disruptions' \in 0 .. MaxDisruptions
      BY <1>1, <1>3 DEF Revoke, GroupTypeOK
    <2> QED BY <1>1, <1>3, <2>1, RevokedTypes, TypeGroup DEF Revoke
  <1>4. CASE CloseClient(c)
    <2>1. disruptions' \in 0 .. MaxDisruptions /\ assigned[c] \in SUBSET Partitions
      BY <1>1, <1>4 DEF CloseClient, GroupTypeOK
    <2> QED BY <1>1, <1>4, <2>1, RevokedTypes, TypeGroup DEF CloseClient
  <1>5. CASE Lost(c)
    BY <1>1, <1>5, GroupTypes, TypeGroup DEF Lost
  <1>6. CASE Returned(c)
    BY <1>1, <1>6, GroupTypes, TypeGroup DEF Returned
  <1>7. CASE Thrown(c)
    BY <1>1, <1>7, GroupTypes, TypeGroup DEF Thrown
  <1>8. CASE Committer(c)
    BY <1>1, <1>8, GroupTypes, TypeGroup DEF Committer
  <1> QED BY <1>2, <1>3, <1>4, <1>5, <1>6, <1>7, <1>8 DEF RebalanceStep

\* What checkpointTracker.close does to the trackers: those of the map are told
\* to stop.
TrackersClosed(c) ==
    \A d \in Clients, q \in Partitions :
        /\ Len(trackers'[d][q]) = Len(trackers[d][q])
        /\ \A h \in 1 .. Len(trackers[d][q]) :
              \/ trackers'[d][q][h] = trackers[d][q][h]
              \/ /\ d = c /\ q \in tracked[c] /\ h = Current(c, q)
                 /\ trackers'[d][q][h] = [trackers[d][q][h] EXCEPT !.closing = TRUE]

\* checkpointTracker.close does that.
LEMMA ClosedTrackers ==
    ASSUME TypeInv, NEW c \in Clients, CloseTrackers(c)
    PROVE  TrackersType' /\ TrackersClosed(c)
  <1> DEFINE told(q) == [trackers[c][q] EXCEPT ![Current(c, q)].closing = TRUE]
             cell(q) == IF q \in tracked[c] THEN told(q) ELSE trackers[c][q]
  <1>1. \A d \in Clients, q \in Partitions : trackers[d][q] \in Seq(Tracker)
    BY DEF TypeInv, TypeOK
  <1>2. ASSUME NEW q \in Partitions, q \in tracked[c]
        PROVE  /\ told(q) \in Seq(Tracker) /\ Len(told(q)) = Len(trackers[c][q])
               /\ \A h \in 1 .. Len(trackers[c][q]) : told(q)[h] =
                     IF h = Current(c, q) THEN [trackers[c][q][h] EXCEPT !.closing = TRUE]
                                          ELSE trackers[c][q][h]
    <2>1. Current(c, q) \in 1 .. Len(trackers[c][q]) /\ trackers[c][q][Current(c, q)] \in Tracker
      BY <1>1, <1>2, CurrentTracker DEF TrackerOf
    <2>2. PICK x : x = [trackers[c][q][Current(c, q)] EXCEPT !.closing = TRUE]
      OBVIOUS
    <2>3. x \in Tracker
      BY <2>1, <2>2 DEF Tracker
    <2>4. told(q) = [trackers[c][q] EXCEPT ![Current(c, q)] = x]
      BY <2>2
    <2>5. LET f == [trackers[c][q] EXCEPT ![Current(c, q)] = x] IN
          /\ f \in Seq(Tracker) /\ Len(f) = Len(trackers[c][q])
          /\ \A h \in 1 .. Len(trackers[c][q]) : f[h] = IF h = Current(c, q) THEN x ELSE trackers[c][q][h]
      BY <1>1, <2>1, <2>3, ExceptSeq
    <2> HIDE DEF told
    <2> QED BY <2>2, <2>4, <2>5
  <1>3. trackers' = [trackers EXCEPT ![c] = [q \in Partitions |-> cell(q)]]
    BY DEF CloseTrackers
  <1>4. ASSUME NEW q \in Partitions
        PROVE  /\ cell(q) \in Seq(Tracker) /\ Len(cell(q)) = Len(trackers[c][q])
               /\ \A h \in 1 .. Len(trackers[c][q]) :
                     \/ cell(q)[h] = trackers[c][q][h]
                     \/ /\ q \in tracked[c] /\ h = Current(c, q)
                        /\ cell(q)[h] = [trackers[c][q][h] EXCEPT !.closing = TRUE]
    <2> HIDE DEF told
    <2> QED BY <1>1, <1>2, Zenon
  <1> HIDE DEF cell
  <1>5. TrackersType'
    BY <1>3, <1>4 DEF TrackersType, TypeInv, TypeOK
  <1>6. \A d \in Clients, q \in Partitions : trackers'[d][q] = IF d = c THEN cell(q) ELSE trackers[d][q]
    BY <1>3 DEF TypeInv, TypeOK
  <1>7. TrackersClosed(c)
    <2>1. ASSUME NEW d \in Clients, NEW q \in Partitions, d = c
          PROVE  /\ Len(trackers'[d][q]) = Len(trackers[d][q])
                 /\ \A h \in 1 .. Len(trackers[d][q]) :
                       \/ trackers'[d][q][h] = trackers[d][q][h]
                       \/ /\ d = c /\ q \in tracked[c] /\ h = Current(c, q)
                          /\ trackers'[d][q][h] = [trackers[d][q][h] EXCEPT !.closing = TRUE]
      <3>1. trackers'[d][q] = cell(q)
        BY <1>6, <2>1
      <3> QED BY <1>4, <2>1, <3>1, ZenonT(60)
    <2>2. ASSUME NEW d \in Clients, NEW q \in Partitions, d # c
          PROVE  trackers'[d][q] = trackers[d][q]
      BY <1>6, <2>2
    <2> QED BY <2>1, <2>2, Zenon DEF TrackersClosed
  <1> QED BY <1>5, <1>7

\* checkpointTracker.close.
LEMMA TypeCloseTrackers ==
    ASSUME TypeInv, NEW c \in Clients, CloseTrackers(c)
    PROVE  TypeInv'
  <1>1. TrackersType' /\ TrackersClosed(c)
    BY ClosedTrackers
  <1>2. /\ pc[c] = "exit" /\ pc' = [pc EXCEPT ![c] = "close"]
        /\ UNCHANGED <<groupVars, softStop, mut, adding, fetch, pausing, paused, tracked>>
    BY DEF CloseTrackers
  <1>3. ASSUME NEW d \in Clients, NEW q \in Partitions, NEW h \in 1 .. Len(trackers'[d][q])
        PROVE  /\ Shape(trackers'[d][q][h])
               /\ h \in 1 .. Len(trackers[d][q]) /\ trackers'[d][q][h].byAdd = trackers[d][q][h].byAdd
    <2>1. h \in 1 .. Len(trackers[d][q])
      BY <1>1 DEF TrackersClosed
    <2>2. PICK t \in Tracker : t = trackers[d][q][h] /\ Shape(t)
      BY <2>1, AnyTracker DEF Current
    <2>3. trackers'[d][q][h] = trackers[d][q][h] \/ trackers'[d][q][h] = [trackers[d][q][h] EXCEPT !.closing = TRUE]
      BY <1>1, <2>1, Zenon DEF TrackersClosed
    <2>4. PICK u : u = trackers'[d][q][h] /\ (u = t \/ u = [t EXCEPT !.closing = TRUE])
      BY <2>2, <2>3
    <2>5. u.byAdd = t.byAdd
      BY <2>4 DEF Tracker
    <2>6. Shape(u)
      BY <2>2, <2>4, MovedEffect DEF Moved
    <2> QED BY <2>1, <2>2, <2>4, <2>5, <2>6
  <1>4. Shapes' /\ TrackedExist'
    <2>1. Shapes'
      BY <1>3 DEF Shapes, Current
    <2>2. TrackedExist'
      BY <1>1, <1>2 DEF TypeInv, TrackedExist, Current, TrackersClosed
    <2> QED BY <2>1, <2>2
  <1>5. ASSUME NEW d \in Clients PROVE AddHolds(d)'
    <2>1. CASE d = c
      <3>1. pc'[c] = "close"
        BY <1>2 DEF TypeInv, TypeOK
      <3> QED BY <2>1, <3>1 DEF AddHolds
    <2>2. CASE d # c
      <3>1. AddHolds(d) /\ pc'[d] = pc[d] /\ mut'[d] = mut[d] /\ adding'[d] = adding[d] /\ tracked'[d] = tracked[d]
        BY <1>2, <2>2 DEF TypeInv, TypeOK
      <3>2. ASSUME NEW q \in tracked[d]
            PROVE  trackers'[d][q][Len(trackers'[d][q])].byAdd = trackers[d][q][Len(trackers[d][q])].byAdd
        <4>1. q \in Partitions /\ Len(trackers[d][q]) \in 1 .. Len(trackers[d][q])
          BY CurrentTracker
        <4>2. Len(trackers'[d][q]) = Len(trackers[d][q])
          BY <1>1, <4>1 DEF TrackersClosed
        <4> QED BY <1>3, <4>1, <4>2
      <3> QED BY <3>1, <3>2, HoldsFrame
    <2> QED BY <2>1, <2>2
  <1>6. GroupTypeOK'
    BY <1>2 DEF TypeInv, TypeOK, GroupTypeOK, groupVars
  <1>7. TypeOK'
    BY <1>1, <1>2, <1>6 DEF TypeInv, TypeOK, TrackersType
  <1> QED BY <1>4, <1>5, <1>7 DEF TypeInv

\* Close, and a process that is gone.
LEMMA TypeProcess ==
    ASSUME TypeInv, NEW c \in Clients, Close(c) \/ Restart(c) \/ Crash(c)
    PROVE  TypeInv'
  <1>1. GroupTypeOK
    BY DEF TypeInv, TypeOK
  <1>2. CASE Close(c)
    <2>1. GroupTypeOK'
      BY <1>1, <1>2 DEF Close, GroupTypeOK
    <2>2. softStop' = softStop \cup {c}
          /\ UNCHANGED <<pc, mut, adding, fetch, pausing, paused, tracked, trackers>>
      BY <1>2 DEF Close
    <2>3. TrackersType' /\ Shapes' /\ TrackedExist'
      BY <2>2, SameTrackers
    <2>4. \A d \in Clients : AddHolds(d)'
      BY <2>2 DEF TypeInv, AddHolds, TrackerOf, Current
    <2> QED BY <2>1, <2>2, <2>3, <2>4 DEF TypeInv, TypeOK
  <1>3. CASE Restart(c) \/ Crash(c)
    <2>1. ProcessGone(c) /\ ReaderGone(c) /\ disruptions' \in 0 .. MaxDisruptions
      BY <1>1, <1>3 DEF Restart, Crash, GroupTypeOK
    <2>2. GroupTypeOK'
      BY <1>1, <2>1, RevokedTypes
    <2>3. NoFetch \in [Partitions -> Seq(Offsets)] /\ NoFetch \in [Partitions -> Seq(Tracker)]
          /\ \A q \in Partitions : NoFetch[q] = <<>>
      BY DEF NoFetch
    <2>4. TypeOK'
      BY <2>1, <2>2, <2>3 DEF ReaderGone, TypeInv, TypeOK
    <2>5. ASSUME NEW d \in Clients
          PROVE  /\ trackers'[d] = IF d = c THEN NoFetch ELSE trackers[d]
                 /\ tracked'[d] = IF d = c THEN {} ELSE tracked[d]
                 /\ pc'[d] = IF d = c THEN "poll" ELSE pc[d]
                 /\ d # c => mut'[d] = mut[d] /\ adding'[d] = adding[d]
      BY <2>1 DEF ReaderGone, TypeInv, TypeOK
    <2>6. ASSUME NEW d \in Clients, NEW q \in Partitions
          PROVE  /\ q \in tracked'[d] => Len(trackers'[d][q]) > 0
                 /\ \A h \in 1 .. Len(trackers'[d][q]) : Shape(trackers'[d][q][h])
      <3>1. CASE d = c
        BY <2>3, <2>5, <3>1
      <3>2. CASE d # c
        BY <2>5, <3>2 DEF TypeInv, Shapes, TrackedExist, Current
      <3> QED BY <3>1, <3>2
    <2>7. ASSUME NEW d \in Clients PROVE AddHolds(d)'
      <3>1. AddHolds(d)
        BY DEF TypeInv
      <3> QED BY <2>5, <3>1 DEF AddHolds, TrackerOf, Current
    <2>8. Shapes' /\ TrackedExist'
      BY <2>6 DEF Shapes, TrackedExist, Current
    <2> QED BY <2>4, <2>7, <2>8 DEF TypeInv
  <1> QED BY <1>2, <1>3

\* Every step preserves the type invariant.
LEMMA TypeStep == TypeInv /\ [Next]_vars => TypeInv'
  <1> SUFFICES ASSUME TypeInv, [Next]_vars PROVE TypeInv'
    OBVIOUS
  <1>1. CASE UNCHANGED vars
    <2>1. GroupTypeOK'
      BY <1>1 DEF vars, groupVars, TypeInv, TypeOK, GroupTypeOK
    <2> QED BY <1>1, <2>1, TypeGroup DEF vars
  <1>2. ASSUME NEW c \in Clients, LoopStep(c) PROVE TypeInv'
    BY <1>2, TypePoll, TypeAddRecord, TypeSendEnds, TypeLoop DEF LoopStep, Poll
  <1>3. ASSUME NEW c \in Clients, NEW p \in Partitions, NEW g \in 1 .. Current(c, p), TrackerStep(c, p, g)
        PROVE  TypeInv'
    BY <1>3, TypeGoroutine
  <1>4. ASSUME NEW c \in Clients, ReadBatch(c) PROVE TypeInv'
    BY <1>4, TypeSendEnds, TypeGoroutine DEF ReadBatch
  <1>5. ASSUME NEW c \in Clients, NEW p \in Partitions, AckSome(c, p) PROVE TypeInv'
    BY <1>5, TypeAck DEF AckSome
  <1>6. ASSUME NEW c \in Clients, RemoveStep(c) PROVE TypeInv'
    BY <1>6, TypeRemove, TypeRebalance DEF RemoveStep
  <1>7. ASSUME NEW c \in Clients, RebalanceStep(c) PROVE TypeInv'
    BY <1>7, TypeRebalance
  <1>8. ASSUME NEW c \in Clients, ProcessStep(c) PROVE TypeInv'
    BY <1>8, TypeProcess, TypeRebalance, TypeCloseTrackers, TypeLoop DEF ProcessStep, CloseStep
  <1> QED BY <1>1, <1>2, <1>3, <1>4, <1>5, <1>6, <1>7, <1>8 DEF Next

\* Every process of the group stays within its types: whatever the interleaving
\* of polls, timed flushes, sends, acknowledgements and rebalances, only batches
\* that are tracked are sent and acknowledged, a flushed batch has a last record,
\* and the tracker that addRecord is working on stays in the map.
THEOREM TypeCorrect == Spec => []TypeOK
  <1>1. TypeInv => TypeOK
    BY DEF TypeInv
  <1> QED BY <1>1, TypeInit, TypeStep, PTL DEF Spec

-----------------------------------------------------------------------------
(* Nothing sends on a closed channel.                                      *)

\* Steps that start no goroutine again, take nothing out of the map and do not
\* end the reader.
LEMMA StoppedFrame ==
    ASSUME RemovedTrackersStopped, UNCHANGED tracked,
           \A d \in Clients, q \in Partitions :
              /\ Len(trackers'[d][q]) = Len(trackers[d][q])
              /\ \A h \in 1 .. Len(trackers[d][q]) :
                    trackers[d][q][h].loop = "stopped" => trackers'[d][q][h].loop = "stopped",
           \A d \in Clients : pc'[d] = "stopped" => pc[d] = "stopped"
    PROVE  RemovedTrackersStopped'
  <1> SUFFICES ASSUME NEW d \in Clients, NEW q \in Partitions, NEW h \in 1 .. Len(trackers'[d][q]),
                      q \in tracked'[d] /\ h = Len(trackers'[d][q]) => pc'[d] = "stopped"
               PROVE  trackers'[d][q][h].loop = "stopped"
    BY DEF RemovedTrackersStopped, Current
  <1>1. h \in 1 .. Len(trackers[d][q])
    OBVIOUS
  <1>2. q \in tracked[d] /\ h = Len(trackers[d][q]) => pc[d] = "stopped"
    OBVIOUS
  <1>3. trackers[d][q][h].loop = "stopped"
    BY <1>1, <1>2 DEF RemovedTrackersStopped, Current
  <1> QED BY <1>1, <1>3

\* One tracker is replaced, and the loop of the client does not end.
LEMMA StoppedReplace ==
    ASSUME TypeInv, RemovedTrackersStopped, NEW c \in Clients, NEW p \in Partitions,
           NEW g \in 1 .. Len(trackers[c][p]), NEW u \in Tracker,
           trackers' = [trackers EXCEPT ![c][p][g] = u], UNCHANGED tracked,
           trackers[c][p][g].loop = "stopped" => u.loop = "stopped",
           \A d \in Clients : pc'[d] = "stopped" => pc[d] = "stopped"
    PROVE  RemovedTrackersStopped'
  <1>1. TrackerReplaced(c, p, g, u)
    BY UpdateTracker DEF TypeInv, TypeOK, TrackersType
  <1>2. ASSUME NEW d \in Clients, NEW q \in Partitions
        PROVE  /\ Len(trackers'[d][q]) = Len(trackers[d][q])
               /\ \A h \in 1 .. Len(trackers[d][q]) :
                     trackers[d][q][h].loop = "stopped" => trackers'[d][q][h].loop = "stopped"
    BY <1>1 DEF TrackerReplaced
  <1> QED BY <1>2, StoppedFrame

\* The poll loop adds a record: a new tracker comes behind stopped ones.
LEMMA StoppedAddRecord ==
    ASSUME TypeInv, RemovedTrackersStopped, NEW c \in Clients, NEW p \in Partitions, AddRecord(c, p)
    PROVE  RemovedTrackersStopped'
  <1>1. PICK t : t = IF p \in tracked[c] THEN TrackerOf(c, p) ELSE newPartitionTracker
    OBVIOUS
  <1>2. t \in Tracker /\ Shape(t)
    BY <1>1, CurrentTracker, NewTrackerType
  <1>3. PICK r \in Offsets : r = Head(fetch[c][p])
    <2>1. fetch[c][p] \in Seq(Offsets) /\ fetch[c][p] # <<>>
      BY DEF AddRecord, TypeInv, TypeOK
    <2> QED BY <2>1, HeadTailProperties
  <1>4. PICK u \in Tracker : u = add(t, r) /\ u.loop = t.loop
    BY <1>2, AddEffect DEF Added, SameRest
  <1>5. /\ tracked' = [tracked EXCEPT ![c] = @ \cup {p}]
        /\ trackers' = [trackers EXCEPT ![c][p] =
                          IF p \in tracked[c] THEN [@ EXCEPT ![Current(c, p)] = u] ELSE Append(@, u)]
        /\ pc[c] = "file" /\ pc' = [pc EXCEPT ![c] = IF u.byAdd = 0 THEN "check" ELSE "send"]
    BY <1>1, <1>3, <1>4 DEF AddRecord
  <1>6. \A d \in Clients : pc'[d] = "stopped" => pc[d] = "stopped"
    BY <1>5 DEF TypeInv, TypeOK
  <1>7. CASE p \in tracked[c]
    <2>1. PICK g \in 1 .. Len(trackers[c][p]) : g = Current(c, p) /\ t = trackers[c][p][g]
      BY <1>1, <1>7, CurrentTracker
    <2>2. trackers' = [trackers EXCEPT ![c][p][g] = u] /\ tracked' = tracked
      BY <1>5, <1>7, <2>1 DEF TypeInv, TypeOK
    <2> QED BY <1>4, <1>6, <2>1, <2>2, StoppedReplace
  <1>8. CASE p \notin tracked[c]
    <2>1. trackers' = [trackers EXCEPT ![c][p] = Append(trackers[c][p], u)]
      BY <1>5, <1>8
    <2>2. TrackerAppended(c, p, u)
      BY <2>1, AppendTracker DEF TypeInv, TypeOK, TrackersType
    <2>3. ASSUME NEW d \in Clients, NEW q \in Partitions, NEW h \in 1 .. Len(trackers'[d][q]),
                 q \in tracked'[d] /\ h = Len(trackers'[d][q]) => pc'[d] = "stopped"
          PROVE  trackers'[d][q][h].loop = "stopped"
      <3>1. CASE d = c /\ q = p
        <4>1. p \in tracked'[c] /\ pc'[c] # "stopped"
          BY <1>5, <1>6 DEF TypeInv, TypeOK
        <4>2. Len(trackers'[c][p]) = Len(trackers[c][p]) + 1 /\ Len(trackers[c][p]) \in Nat
          BY <2>2 DEF TrackerAppended, TypeInv, TypeOK
        <4>3. h \in 1 .. Len(trackers[c][p])
          BY <2>3, <3>1, <4>1, <4>2
        <4>4. trackers[c][p][h].loop = "stopped"
          BY <1>8, <4>3 DEF RemovedTrackersStopped, Current
        <4> QED BY <2>2, <3>1, <4>3, <4>4 DEF TrackerAppended
      <3>2. CASE ~(d = c /\ q = p)
        <4>1. Len(trackers'[d][q]) = Len(trackers[d][q])
          BY <2>2, <3>2 DEF TrackerAppended
        <4>2. trackers'[d][q][h] = trackers[d][q][h]
          BY <2>2, <3>2, <4>1 DEF TrackerAppended
        <4>3. q \in tracked[d] => q \in tracked'[d]
          BY <1>5 DEF TypeInv, TypeOK
        <4>4. q \in tracked[d] /\ h = Len(trackers[d][q]) => pc[d] = "stopped"
          BY <1>6, <2>3, <4>1, <4>3
        <4> QED BY <4>1, <4>2, <4>4 DEF RemovedTrackersStopped, Current
      <3> QED BY <3>1, <3>2
    <2> QED BY <2>3 DEF RemovedTrackersStopped, Current
  <1> QED BY <1>7, <1>8

\* The steps of one tracker.
LEMMA StoppedTracker ==
    ASSUME TypeInv, RemovedTrackersStopped, NEW c \in Clients, NEW p \in Partitions,
           NEW g \in 1 .. Current(c, p),
           \/ TrackerStep(c, p, g) \/ ReadBatchOfLoop(c, p, g) \/ \E i : Ack(c, p, g, i)
    PROVE  RemovedTrackersStopped'
  <1>1. PICK t \in Tracker : t = trackers[c][p][g] /\ Shape(t)
    BY AnyTracker
  <1>2. g \in 1 .. Len(trackers[c][p])
    BY DEF Current
  <1>3. UNCHANGED <<pc, tracked>>
    BY DEF TrackerStep, FlushTimer, TrackFlushed, LoopStopped, ReadBatchOfLoop, Ack
  <1>4. PICK u \in Tracker : SetTracker(c, p, g, u) /\ (t.loop = "stopped" => u.loop = "stopped")
    <2>1. CASE FlushTimer(c, p, g)
      <3>1. PICK u : FlushedFrom(t, u)
        BY DEF FlushedFrom
      <3>2. SetTracker(c, p, g, u) /\ t.loop = "wait" /\ t.queue.recs # {}
        BY <1>1, <2>1, <3>1 DEF FlushTimer, FlushedFrom
      <3> QED BY <1>1, <3>1, <3>2, FlushEffect
    <2>2. CASE TrackFlushed(c, p, g)
      <3>1. PICK u : TrackedFrom(t, u)
        BY DEF TrackedFrom
      <3>2. SetTracker(c, p, g, u) /\ t.loop = "track"
        BY <1>1, <2>2, <3>1 DEF TrackFlushed, TrackedFrom
      <3> QED BY <1>1, <3>1, <3>2, TrackEffect
    <2>3. CASE LoopStopped(c, p, g)
      <3>1. PICK u : u = [t EXCEPT !.loop = "stopped", !.byLoop = 0]
        OBVIOUS
      <3>2. SetTracker(c, p, g, u)
        BY <1>1, <2>3, <3>1 DEF LoopStopped
      <3>3. u \in Tracker /\ u.loop = "stopped"
        BY <3>1 DEF Tracker
      <3> QED BY <3>2, <3>3
    <2>4. CASE ReadBatchOfLoop(c, p, g)
      <3>1. PICK u : u = [t EXCEPT !.out = t.out \cup {t.byLoop}, !.byLoop = 0, !.loop = "wait"]
        OBVIOUS
      <3>2. SetTracker(c, p, g, u) /\ t.loop = "send"
        BY <1>1, <2>4, <3>1 DEF ReadBatchOfLoop
      <3>3. u \in Tracker
        BY <1>1, <3>1, <3>2, MovedEffect DEF Moved
      <3> QED BY <3>2, <3>3
    <2>5. CASE \E i : Ack(c, p, g, i)
      <3>1. PICK i : Ack(c, p, g, i)
        BY <2>5
      <3>2. PICK u : u = [t EXCEPT !.acked = t.acked \cup {i}]
        OBVIOUS
      <3>3. SetTracker(c, p, g, u) /\ i \in t.out
        BY <1>1, <3>1, <3>2 DEF Ack
      <3>4. u \in Tracker
        BY <1>1, <3>2, <3>3, AckEffect
      <3>5. u.loop = t.loop
        BY <3>2 DEF Tracker
      <3> QED BY <3>3, <3>4, <3>5
    <2> QED BY <2>1, <2>2, <2>3, <2>4, <2>5 DEF TrackerStep
  <1> QED BY <1>1, <1>2, <1>3, <1>4, StoppedReplace DEF SetTracker

\* The send of add ends, and removeTopicPartitions tells a tracker to stop.
LEMMA StoppedMoved ==
    ASSUME TypeInv, RemovedTrackersStopped, NEW c \in Clients,
           SendCancelled(c) \/ ReadBatchOfAdd(c) \/ \E p \in Partitions : RemovePartition(c, p)
    PROVE  RemovedTrackersStopped'
  <1>1. PICK p \in tracked[c] : \/ p = adding[c] /\ (SendCancelled(c) \/ ReadBatchOfAdd(c))
                                \/ RemovePartition(c, p)
    BY DEF SendCancelled, ReadBatchOfAdd, TypeInv, AddHolds, RemovePartition, Leaving
  <1>2. PICK g \in 1 .. Len(trackers[c][p]) : g = Current(c, p) /\ p \in Partitions
    BY CurrentTracker
  <1>3. PICK t \in Tracker : t = TrackerOf(c, p) /\ t = trackers[c][p][g] /\ Shape(t)
    BY <1>2, CurrentTracker
  <1>4. PICK u \in Tracker : trackers' = [trackers EXCEPT ![c][p][g] = u] /\ u.loop = t.loop
    <2>1. CASE p = adding[c] /\ SendCancelled(c)
      <3>1. PICK u : u = [t EXCEPT !.byAdd = 0]
        OBVIOUS
      <3>2. trackers' = [trackers EXCEPT ![c][p][g] = u]
        BY <1>2, <1>3, <2>1, <3>1 DEF SendCancelled
      <3>3. u \in Tracker /\ u.loop = t.loop
        BY <3>1 DEF Tracker
      <3> QED BY <3>2, <3>3
    <2>2. CASE p = adding[c] /\ ReadBatchOfAdd(c)
      <3>1. PICK u : u = [t EXCEPT !.out = t.out \cup {t.byAdd}, !.byAdd = 0]
        OBVIOUS
      <3>2. trackers' = [trackers EXCEPT ![c][p][g] = u]
        BY <1>2, <1>3, <2>2, <3>1 DEF ReadBatchOfAdd, SetTracker
      <3>3. u \in Tracker /\ u.loop = t.loop
        BY <3>1 DEF Tracker
      <3> QED BY <3>2, <3>3
    <2>3. CASE RemovePartition(c, p)
      <3>1. PICK u : u = [t EXCEPT !.revoked = TRUE, !.closing = TRUE]
        OBVIOUS
      <3>2. trackers' = [trackers EXCEPT ![c][p][g] = u]
        BY <1>2, <1>3, <2>3, <3>1 DEF RemovePartition, markRevoked, SetTracker
      <3>3. u \in Tracker /\ u.loop = t.loop
        BY <3>1 DEF Tracker
      <3> QED BY <3>2, <3>3
    <2> QED BY <1>1, <2>1, <2>2, <2>3
  <1>5. UNCHANGED tracked
    BY DEF SendCancelled, ReadBatchOfAdd, RemovePartition
  <1>6. \A d \in Clients : pc'[d] = "stopped" => pc[d] = "stopped"
    BY DEF SendCancelled, ReadBatchOfAdd, RemovePartition, TypeInv, TypeOK
  <1> QED BY <1>2, <1>3, <1>4, <1>5, <1>6, StoppedReplace

\* A tracker leaves the map once its goroutine has stopped, and the reader ends
\* once they all have.
LEMMA StoppedEnds ==
    ASSUME TypeInv, RemovedTrackersStopped, NEW c \in Clients,
           Stopped(c) \/ \E p \in Partitions : PartitionRemoved(c, p)
    PROVE  RemovedTrackersStopped'
  <1>1. UNCHANGED trackers
    BY DEF Stopped, PartitionRemoved
  <1> SUFFICES ASSUME NEW d \in Clients, NEW q \in Partitions, NEW h \in 1 .. Len(trackers[d][q]),
                      q \in tracked'[d] /\ h = Len(trackers[d][q]) => pc'[d] = "stopped"
               PROVE  trackers[d][q][h].loop = "stopped"
    BY <1>1 DEF RemovedTrackersStopped, Current
  <1>2. CASE Stopped(c)
    <2>1. /\ tracked' = tracked /\ pc'[d] = IF d = c THEN "stopped" ELSE pc[d]
          /\ \A p \in tracked[c] : TrackerOf(c, p).loop = "stopped"
      BY <1>2 DEF Stopped, CloseReturns, TypeInv, TypeOK
    <2>2. CASE d = c /\ q \in tracked[c] /\ h = Len(trackers[d][q])
      BY <2>1, <2>2 DEF TrackerOf, Current
    <2>3. CASE ~(d = c /\ q \in tracked[c] /\ h = Len(trackers[d][q]))
      BY <2>1, <2>3 DEF RemovedTrackersStopped, Current
    <2> QED BY <2>2, <2>3
  <1>3. CASE \E p \in Partitions : PartitionRemoved(c, p)
    <2>1. PICK p \in Partitions : PartitionRemoved(c, p)
      BY <1>3
    <2>2. /\ pc' = pc /\ p \in tracked[c] /\ TrackerOf(c, p).loop = "stopped"
          /\ tracked'[d] = IF d = c THEN tracked[d] \ {p} ELSE tracked[d]
      BY <2>1 DEF PartitionRemoved, CloseReturns, Closing, Leaving, TypeInv, TypeOK
    <2>3. CASE d = c /\ q = p /\ h = Len(trackers[d][q])
      BY <2>2, <2>3 DEF TrackerOf, Current
    <2>4. CASE ~(d = c /\ q = p /\ h = Len(trackers[d][q]))
      BY <2>2, <2>4 DEF RemovedTrackersStopped, Current
    <2> QED BY <2>3, <2>4
  <1> QED BY <1>2, <1>3

\* checkpointTracker.close and the end of a process.
LEMMA StoppedClose ==
    ASSUME TypeInv, RemovedTrackersStopped, NEW c \in Clients, CloseTrackers(c) \/ ReaderGone(c)
    PROVE  RemovedTrackersStopped'
  <1>1. CASE CloseTrackers(c)
    <2>1. TrackersClosed(c)
      BY <1>1, ClosedTrackers
    <2>2. /\ UNCHANGED tracked
          /\ \A d \in Clients : pc'[d] = "stopped" => pc[d] = "stopped"
      BY <1>1 DEF CloseTrackers, TypeInv, TypeOK
    <2>3. ASSUME NEW d \in Clients, NEW q \in Partitions, NEW h \in 1 .. Len(trackers[d][q])
          PROVE  trackers'[d][q][h].loop = trackers[d][q][h].loop
      <3>1. PICK t \in Tracker : t = trackers[d][q][h]
        BY AnyTracker DEF Current
      <3>2. trackers'[d][q][h] = trackers[d][q][h] \/ trackers'[d][q][h] = [trackers[d][q][h] EXCEPT !.closing = TRUE]
        BY <2>1, Zenon DEF TrackersClosed
      <3>3. trackers'[d][q][h] = t \/ trackers'[d][q][h] = [t EXCEPT !.closing = TRUE]
        BY <3>1, <3>2
      <3>4. [t EXCEPT !.closing = TRUE].loop = t.loop
        BY DEF Tracker
      <3> QED BY <3>1, <3>3, <3>4
    <2>4. \A d \in Clients, q \in Partitions : Len(trackers'[d][q]) = Len(trackers[d][q])
      BY <2>1, Zenon DEF TrackersClosed
    <2> QED BY <2>2, <2>3, <2>4, StoppedFrame
  <1>2. CASE ReaderGone(c)
    <2>1. \A d \in Clients : /\ trackers'[d] = IF d = c THEN NoFetch ELSE trackers[d]
                             /\ d # c => tracked'[d] = tracked[d] /\ pc'[d] = pc[d]
      BY <1>2 DEF ReaderGone, TypeInv, TypeOK
    <2>2. ASSUME NEW d \in Clients, NEW q \in Partitions, NEW h \in 1 .. Len(trackers'[d][q]),
                 q \in tracked'[d] /\ h = Len(trackers'[d][q]) => pc'[d] = "stopped"
          PROVE  trackers'[d][q][h].loop = "stopped"
      <3>1. CASE d = c
        BY <2>1, <3>1 DEF NoFetch
      <3>2. CASE d # c
        BY <2>1, <2>2, <3>2 DEF RemovedTrackersStopped, Current
      <3> QED BY <3>1, <3>2
    <2> QED BY <2>2 DEF RemovedTrackersStopped, Current
  <1> QED BY <1>1, <1>2

\* Every step keeps the goroutines of removed trackers stopped.
LEMMA StoppedStep == TypeInv /\ RemovedTrackersStopped /\ [Next]_vars => RemovedTrackersStopped'
  <1> SUFFICES ASSUME TypeInv, RemovedTrackersStopped, [Next]_vars PROVE RemovedTrackersStopped'
    OBVIOUS
  <1>1. ASSUME UNCHANGED <<tracked, trackers>>, \A d \in Clients : pc'[d] = "stopped" => pc[d] = "stopped"
        PROVE  RemovedTrackersStopped'
    BY <1>1, StoppedFrame
  <1>2. ASSUME NEW c \in Clients, LoopStep(c) PROVE RemovedTrackersStopped'
    <2>1. CASE Poll(c) \/ RecordAdded(c) \/ PauseFetch(c) \/ Resume(c) \/ LoopExit(c)
      <3>1. UNCHANGED <<tracked, trackers>>
        BY <2>1 DEF Poll, PollFetches, RecordAdded, PauseFetch, Resume, LoopExit
      <3>2. PICK x \in {"file", "resume", "poll", "exit"} : pc' = [pc EXCEPT ![c] = x]
        BY <2>1 DEF Poll, PollFetches, RecordAdded, PauseFetch, Resume, LoopExit
      <3>3. \A d \in Clients : pc'[d] = "stopped" => pc[d] = "stopped"
        BY <3>2 DEF TypeInv, TypeOK
      <3> QED BY <1>1, <3>1, <3>3
    <2> QED BY <1>2, <2>1, StoppedAddRecord, StoppedMoved DEF LoopStep
  <1>3. ASSUME NEW c \in Clients, NEW p \in Partitions, NEW g \in 1 .. Current(c, p), TrackerStep(c, p, g)
        PROVE  RemovedTrackersStopped'
    BY <1>3, StoppedTracker
  <1>4. ASSUME NEW c \in Clients, ReadBatch(c) PROVE RemovedTrackersStopped'
    BY <1>4, StoppedMoved, StoppedTracker DEF ReadBatch
  <1>5. ASSUME NEW c \in Clients, NEW p \in Partitions, AckSome(c, p) PROVE RemovedTrackersStopped'
    BY <1>5, StoppedTracker DEF AckSome
  <1>6. ASSUME NEW c \in Clients, RemoveStep(c) PROVE RemovedTrackersStopped'
    <2>1. CASE LockForRemove(c) \/ UnlockAfterRemove(c) \/ Returned(c)
      BY <1>1, <2>1 DEF LockForRemove, UnlockAfterRemove, Returned, readerVars
    <2> QED BY <1>6, <2>1, StoppedMoved, StoppedEnds DEF RemoveStep
  <1>7. ASSUME NEW c \in Clients, RebalanceStep(c) PROVE RemovedTrackersStopped'
    <2>1. UNCHANGED <<tracked, trackers, pc>>
      BY <1>7 DEF RebalanceStep, Assign, Revoke, Lost, Thrown, Committer, readerVars
    <2> QED BY <1>1, <2>1
  <1>8. ASSUME NEW c \in Clients, ProcessStep(c) PROVE RemovedTrackersStopped'
    <2>1. CASE Close(c) \/ CloseClient(c)
      BY <1>1, <2>1 DEF Close, CloseClient, readerVars
    <2>2. CASE Restart(c) \/ Crash(c)
      BY <2>2, StoppedClose DEF Restart, Crash
    <2> QED BY <1>8, <2>1, <2>2, StoppedEnds, StoppedClose DEF ProcessStep, CloseStep
  <1>9. CASE UNCHANGED vars
    BY <1>1, <1>9 DEF vars, readerVars
  <1> QED BY <1>2, <1>3, <1>4, <1>5, <1>6, <1>7, <1>8, <1>9 DEF Next

\* Close never closes batchChan under a goroutine that could still send on it
\* (franz_reader_unordered.go, Connect's deferred close after checkpoints.close),
\* for any batch policy and any interleaving of flushes, revocations and closes:
\* a tracker that left the map, and any tracker of a stopped reader, has stopped.
THEOREM NoSendAfterClose == Spec => []RemovedTrackersStopped
  <1>1. Init => RemovedTrackersStopped
    BY DEF Init, RemovedTrackersStopped, Current, NoFetch
  <1> QED BY <1>1, TypeInit, TypeStep, StoppedStep, PTL DEF Spec

-----------------------------------------------------------------------------
(* How much a tracker holds.                                               *)

\* The messages of each batch of a log, and the batches that are not resolved.
Counts(log) == [i \in 1 .. Len(log) |-> Cardinality(log[i].recs)]
Open(t) == (1 .. Len(t.log)) \ Resolved(t)

\* The recursion that MapThenSumSet unfolds to for Pending.
CountFold(f, log, I) ==
    f = [s \in SUBSET I |-> IF s = {} THEN 0
            ELSE Cardinality(log[CHOOSE x \in s : TRUE].recs) + f[s \ {CHOOSE x \in s : TRUE}]]

\* There are finitely many records.
LEMMA FiniteRecords ==
    ASSUME NEW s \in SUBSET Offsets
    PROVE  IsFiniteSet(s) /\ Cardinality(s) \in Nat
  <1>1. IsFiniteSet(0 .. NumRecords - 1)
    BY FS_Interval
  <1>2. IsFiniteSet(s)
    BY <1>1, FS_Subset
  <1> QED BY <1>2, FS_CardinalityType

\* A batch of a log has finitely many records.
LEMMA CountsType ==
    ASSUME NEW log \in Seq(Batch)
    PROVE  /\ Counts(log) \in [1 .. Len(log) -> Nat]
           /\ \A i \in 1 .. Len(log) : Counts(log)[i] = Cardinality(log[i].recs)
  <1>1. ASSUME NEW i \in 1 .. Len(log) PROVE Cardinality(log[i].recs) \in Nat
    <2>1. log[i] \in Batch
      OBVIOUS
    <2>2. log[i].recs \in SUBSET Offsets
      BY <2>1 DEF Batch
    <2> QED BY <2>2, FiniteRecords
  <1> QED BY <1>1, Zenon DEF Counts

\* The recursion computes the sum.
LEMMA CountFoldSum ==
    ASSUME NEW log \in Seq(Batch), NEW I \in SUBSET (1 .. Len(log))
    PROVE  /\ (CHOOSE f : CountFold(f, log, I))[I] = Sum(Counts(log), I)
           /\ Weighted(Counts(log), 1 .. Len(log), I)
  <1>1. PICK w : w = Counts(log)
    OBVIOUS
  <1>2. w \in [1 .. Len(log) -> Nat] /\ \A i \in 1 .. Len(log) : w[i] = Cardinality(log[i].recs)
    BY <1>1, CountsType
  <1>3. IsFiniteSet(1 .. Len(log)) /\ IsFiniteSet(I)
    <2>1. Len(log) \in Nat
      OBVIOUS
    <2>2. IsFiniteSet(1 .. Len(log))
      BY <2>1, FS_Interval
    <2> QED BY <2>2, FS_Subset
  <1>4. ASSUME NEW f PROVE CountFold(f, log, I) <=> IsFold(f, w, I)
    <2>1. ASSUME NEW s \in SUBSET I, s # {}
          PROVE  /\ w[Pick(s)] = Cardinality(log[CHOOSE x \in s : TRUE].recs)
                 /\ Pick(s) = CHOOSE x \in s : TRUE
      <3>1. Pick(s) \in 1 .. Len(log)
        BY <2>1, PickIn
      <3>2. Pick(s) = CHOOSE x \in s : TRUE
        BY DEF Pick
      <3> QED BY <1>2, <3>1, <3>2, Zenon
    <2>2. [s \in SUBSET I |-> IF s = {} THEN 0
              ELSE Cardinality(log[CHOOSE x \in s : TRUE].recs) + f[s \ {CHOOSE x \in s : TRUE}]]
          = [s \in SUBSET I |-> IF s = {} THEN 0 ELSE w[Pick(s)] + f[s \ {Pick(s)}]]
      <3>1. ASSUME NEW s \in SUBSET I
            PROVE  (IF s = {} THEN 0
                    ELSE Cardinality(log[CHOOSE x \in s : TRUE].recs) + f[s \ {CHOOSE x \in s : TRUE}])
                   = (IF s = {} THEN 0 ELSE w[Pick(s)] + f[s \ {Pick(s)}])
        <4>1. CASE s = {}
          BY <4>1, Zenon
        <4>2. CASE s # {}
          <5>1. /\ w[Pick(s)] = Cardinality(log[CHOOSE x \in s : TRUE].recs)
                /\ Pick(s) = CHOOSE x \in s : TRUE
            BY <2>1, <4>2
          <5>2. w[Pick(s)] + f[s \ {Pick(s)}]
                = Cardinality(log[CHOOSE x \in s : TRUE].recs) + f[s \ {CHOOSE x \in s : TRUE}]
            BY <5>1
          <5> QED BY <4>2, <5>2
        <4> QED BY <4>1, <4>2
      <3> QED BY <3>1, Zenon
    <2> QED BY <2>2, Zenon DEF CountFold, IsFold
  <1>5. \E f : IsFold(f, w, I)
    BY <1>3, FoldExists
  <1>6. PICK f, g : f = (CHOOSE h : CountFold(h, log, I)) /\ g = (CHOOSE h : IsFold(h, w, I))
    OBVIOUS
  <1>7. IsFold(f, w, I) /\ IsFold(g, w, I)
    BY <1>4, <1>5, <1>6
  <1>8. f[I] = g[I]
    BY <1>3, <1>7, FoldsAgree
  <1>9. Sum(w, I) = g[I]
    BY <1>6 DEF Sum
  <1>10. Weighted(w, 1 .. Len(log), I)
    BY <1>2, <1>3 DEF Weighted
  <1> QED BY <1>1, <1>6, <1>8, <1>9, <1>10

\* Pending is the sum of the messages of the batches that are not resolved.
LEMMA PendingSum ==
    ASSUME NEW t \in Tracker
    PROVE  /\ Pending(t) = Sum(Counts(t.log), Open(t))
           /\ Weighted(Counts(t.log), 1 .. Len(t.log), Open(t)) /\ Pending(t) \in Nat
  <1>1. Pending(t) = (CHOOSE f : CountFold(f, t.log, Open(t)))[Open(t)]
    BY Zenon DEF Pending, MapThenSumSet, MapThenFoldSet, CountFold, Open
  <1>2. t.log \in Seq(Batch) /\ Open(t) \in SUBSET (1 .. Len(t.log))
    BY DEF Tracker, Open
  <1>3. /\ Pending(t) = Sum(Counts(t.log), Open(t))
        /\ Weighted(Counts(t.log), 1 .. Len(t.log), Open(t))
    BY <1>1, <1>2, CountFoldSum
  <1> QED BY <1>3, SumNat

\* An acknowledgement resolves batches and makes none unresolved.
LEMMA PendingAcked ==
    ASSUME NEW t \in Tracker, NEW u \in Tracker, u.log = t.log, t.acked \subseteq u.acked
    PROVE  Pending(u) <= Pending(t)
  <1>1. Open(u) \subseteq Open(t)
    BY DEF Open, Resolved
  <1>2. Weighted(Counts(t.log), 1 .. Len(t.log), Open(t))
    BY PendingSum
  <1>3. Sum(Counts(t.log), Open(u)) <= Sum(Counts(t.log), Open(t))
    BY <1>1, <1>2, SumPart
  <1>4. Pending(t) = Sum(Counts(t.log), Open(t)) /\ Pending(u) = Sum(Counts(u.log), Open(u))
    BY PendingSum
  <1> QED BY <1>3, <1>4

\* A batch that is tracked is pending.
LEMMA PendingTracked ==
    ASSUME NEW t \in Tracker, Shape(t), NEW u \in Tracker, NEW b, Appended(t, u, b), u.acked = t.acked
    PROVE  Pending(u) = Pending(t) + Cardinality(b.recs)
  <1>1. PICK n \in Nat : n = Len(t.log)
    BY DEF Tracker
  <1>2. Len(u.log) = n + 1 /\ u.log[n + 1] = b /\ \A i \in 1 .. n : u.log[i] = t.log[i]
    BY <1>1 DEF Appended
  <1>3. Resolved(u) = Resolved(t) /\ Resolved(t) \subseteq 1 .. n
    BY <1>1 DEF Resolved, Shape
  <1>4. Removed(Open(t), Open(u), n + 1)
    <2>1. PICK R : R = Resolved(t) /\ R \subseteq 1 .. n
      BY <1>3
    <2>2. Open(t) = (1 .. n) \ R /\ Open(u) = (1 .. n + 1) \ R
      BY <1>1, <1>2, <1>3, <2>1 DEF Open
    <2>3. n + 1 \notin 1 .. n /\ n + 1 \in 1 .. n + 1 /\ 1 .. n = (1 .. n + 1) \ {n + 1}
      OBVIOUS
    <2>4. n + 1 \in (1 .. n + 1) \ R
      BY <2>1, <2>3
    <2>5. (1 .. n) \ R = ((1 .. n + 1) \ R) \ {n + 1}
      BY <2>3
    <2> QED BY <2>2, <2>4, <2>5 DEF Removed
  <1>5. PICK w, v : w = Counts(t.log) /\ v = Counts(u.log)
    OBVIOUS
  <1>6. /\ Pending(t) = Sum(w, Open(t)) /\ Weighted(w, 1 .. n, Open(t))
        /\ Pending(u) = Sum(v, Open(u)) /\ Weighted(v, 1 .. n + 1, Open(u))
        /\ Pending(t) \in Nat
    BY <1>1, <1>2, <1>5, PendingSum
  <1>7. Sum(v, Open(u)) = v[n + 1] + Sum(v, Open(t))
    BY <1>4, <1>6, SumTake
  <1>8. /\ \A i \in 1 .. n : w[i] = Cardinality(t.log[i].recs)
        /\ \A i \in 1 .. n + 1 : v[i] = Cardinality(u.log[i].recs)
        /\ v[n + 1] \in Nat
    <2>1. t.log \in Seq(Batch) /\ u.log \in Seq(Batch)
      BY DEF Tracker
    <2>2. /\ \A i \in 1 .. Len(t.log) : w[i] = Cardinality(t.log[i].recs)
          /\ \A i \in 1 .. Len(u.log) : v[i] = Cardinality(u.log[i].recs)
          /\ v \in [1 .. Len(u.log) -> Nat]
      BY <1>5, <2>1, CountsType
    <2>3. n + 1 \in 1 .. Len(u.log)
      BY <1>2
    <2> QED BY <1>1, <1>2, <2>2, <2>3
  <1>9. \A i \in Open(t) : v[i] = w[i]
    <2>1. ASSUME NEW i \in Open(t) PROVE v[i] = w[i]
      <3>1. i \in 1 .. n /\ i \in 1 .. n + 1
        BY <1>1 DEF Open
      <3>2. u.log[i] = t.log[i]
        BY <1>2, <3>1
      <3> QED BY <1>8, <3>1, <3>2
    <2> QED BY <2>1
  <1>10. Sum(v, Open(t)) = Sum(w, Open(t))
    <2>1. IsFiniteSet(Open(t))
      BY <1>6, FS_Subset DEF Weighted
    <2> QED BY <1>9, <2>1, SumEqual
  <1>11. v[n + 1] = Cardinality(b.recs)
    <2>1. n + 1 \in 1 .. n + 1
      OBVIOUS
    <2> QED BY <1>2, <1>8, <2>1
  <1> QED BY <1>6, <1>7, <1>8, <1>10, <1>11

\* What a batcher and its goroutine hold at most: both batches are incomplete, and
\* only a goroutine about to track a batch holds one, which needs a period.
Kept(t) ==
    /\ Cardinality(t.queue.recs) < BatchCount
    /\ Cardinality(t.flushed.recs) < BatchCount
    /\ t.loop = "track" \/ t.flushed.recs = {}
    /\ t.loop = "track" => TimedFlush

\* u holds no more messages than t.
Lighter(t, u) == Kept(u) /\ Load(u) <= Load(t)

\* The messages of a tracker, one by one.
LEMMA LoadType ==
    ASSUME NEW t \in Tracker
    PROVE  /\ Load(t) = Pending(t) + Cardinality(t.queue.recs) + Cardinality(t.flushed.recs)
           /\ Pending(t) \in Nat /\ Cardinality(t.queue.recs) \in Nat
           /\ Cardinality(t.flushed.recs) \in Nat /\ Load(t) \in Nat
  <1>1. t.queue.recs \in SUBSET Offsets /\ t.flushed.recs \in SUBSET Offsets
    BY DEF Tracker
  <1>2. Cardinality(t.queue.recs) \in Nat /\ Cardinality(t.flushed.recs) \in Nat
    BY <1>1, FiniteRecords
  <1>3. Pending(t) \in Nat
    BY PendingSum
  <1> QED BY <1>2, <1>3 DEF Load

\* An empty batch counts nothing.
LEMMA EmptyCount == Cardinality({}) = 0 /\ Empty.recs = {}
  BY FS_EmptySet DEF Empty

\* A new tracker holds nothing.
LEMMA NewLoad == Kept(newPartitionTracker) /\ Load(newPartitionTracker) = 0
  <1>1. PICK t : t = newPartitionTracker
    OBVIOUS
  <1>2. t \in Tracker
    BY <1>1, NewTrackerType
  <1>3. /\ t.queue = Empty /\ t.flushed = Empty /\ t.log = <<>> /\ t.loop # "track"
    BY <1>1 DEF newPartitionTracker
  <1>4. Open(t) = {}
    BY <1>3 DEF Open
  <1>5. Pending(t) = Sum(Counts(t.log), Open(t))
    BY <1>2, PendingSum
  <1>6. Pending(t) = 0
    <2>1. IsFiniteSet(Open(t))
      BY <1>4, FS_EmptySet
    <2>2. Sum(Counts(t.log), Open(t)) = 0
      BY <1>4, <2>1, SumRec
    <2> QED BY <1>5, <2>2
  <1>7. Cardinality(t.queue.recs) = 0 /\ Cardinality(t.flushed.recs) = 0 /\ t.flushed.recs = {}
    BY <1>3, EmptyCount
  <1>8. Load(t) = 0
    BY <1>6, <1>7 DEF Load
  <1>9. Kept(t)
    BY <1>3, <1>7 DEF Kept
  <1> QED BY <1>1, <1>8, <1>9

\* add makes a tracker heavier by its record at most, and leaves an incomplete
\* batch in the batcher.
LEMMA LoadAdded ==
    ASSUME NEW t \in Tracker, Shape(t), Kept(t), NEW r \in Offsets, NEW u \in Tracker, Added(t, u, r)
    PROVE  Kept(u) /\ Load(u) <= Load(t) + 1
  <1>1. PICK recs : recs = t.queue.recs \cup {r}
    OBVIOUS
  <1>2. Cardinality(recs) \in Nat /\ Cardinality(recs) <= Cardinality(t.queue.recs) + 1
    <2>1. t.queue.recs \in SUBSET Offsets
      BY DEF Tracker
    <2>2. IsFiniteSet(t.queue.recs) /\ Cardinality(t.queue.recs) \in Nat
      BY <2>1, FiniteRecords
    <2>3. IsFiniteSet(recs) /\ (Cardinality(recs) = Cardinality(t.queue.recs)
                                \/ Cardinality(recs) = Cardinality(t.queue.recs) + 1)
      BY <1>1, <2>2, FS_AddElement
    <2> QED BY <2>2, <2>3
  <1>3. u.flushed = t.flushed /\ u.loop = t.loop /\ u.acked = t.acked
    BY DEF Added, SameRest
  <1>4. /\ Load(t) = Pending(t) + Cardinality(t.queue.recs) + Cardinality(t.flushed.recs)
        /\ Load(u) = Pending(u) + Cardinality(u.queue.recs) + Cardinality(t.flushed.recs)
        /\ Pending(t) \in Nat /\ Pending(u) \in Nat
        /\ Cardinality(t.queue.recs) \in Nat /\ Cardinality(u.queue.recs) \in Nat
        /\ Cardinality(t.flushed.recs) \in Nat
    BY <1>3, LoadType
  <1>5. CASE Cardinality(recs) >= BatchCount
    <2>1. PICK b : b = [recs |-> recs, top |-> r]
      OBVIOUS
    <2>2. Appended(t, u, b) /\ u.queue.recs = {}
      BY <1>1, <1>5, <2>1 DEF Added
    <2>3. Pending(u) = Pending(t) + Cardinality(recs)
      <3>1. b.recs = recs
        BY <2>1
      <3> QED BY <1>3, <2>2, <3>1, PendingTracked
    <2>4. Cardinality(u.queue.recs) = 0
      BY <2>2, EmptyCount
    <2>5. Kept(u)
      BY <1>3, <2>4 DEF Kept
    <2> QED BY <1>2, <1>4, <2>3, <2>4, <2>5
  <1>6. CASE ~(Cardinality(recs) >= BatchCount)
    <2>1. u.log = t.log /\ u.queue.recs = recs
      BY <1>1, <1>6 DEF Added
    <2>2. Pending(u) <= Pending(t)
      BY <1>3, <2>1, PendingAcked
    <2>3. Kept(u)
      BY <1>2, <1>3, <1>6, <2>1 DEF Kept
    <2> QED BY <1>2, <1>4, <2>1, <2>2, <2>3
  <1> QED BY <1>5, <1>6

\* Steps that touch no record of a tracker, acknowledgements included.
LEMMA LoadQuiet ==
    ASSUME NEW t \in Tracker, Kept(t), NEW u \in Tracker, Quiet(t, u), t.acked \subseteq u.acked
    PROVE  Lighter(t, u)
  <1>1. /\ u.log = t.log /\ u.queue = t.queue /\ u.flushed = t.flushed
        /\ u.loop = "track" <=> t.loop = "track"
    BY DEF Quiet
  <1>2. Pending(u) <= Pending(t)
    BY <1>1, PendingAcked
  <1>3. /\ Load(t) = Pending(t) + Cardinality(t.queue.recs) + Cardinality(t.flushed.recs)
        /\ Load(u) = Pending(u) + Cardinality(t.queue.recs) + Cardinality(t.flushed.recs)
        /\ Pending(t) \in Nat /\ Pending(u) \in Nat
        /\ Cardinality(t.queue.recs) \in Nat /\ Cardinality(t.flushed.recs) \in Nat
    BY <1>1, LoadType
  <1>4. Load(u) <= Load(t)
    BY <1>2, <1>3
  <1>5. Kept(u)
    BY <1>1 DEF Kept
  <1> QED BY <1>4, <1>5 DEF Lighter

\* The timer takes the incomplete batch out of the batcher.
LEMMA LoadFlushed ==
    ASSUME NEW t \in Tracker, Shape(t), Kept(t), TimedFlush, t.loop = "wait", t.queue.recs # {},
           NEW u \in Tracker, FlushedFrom(t, u)
    PROVE  Lighter(t, u)
  <1>1. u.log = t.log /\ u.flushed = t.queue /\ u.queue = Empty /\ u.loop = "track" /\ u.acked = t.acked
    BY FlushEffect
  <1>2. Pending(u) <= Pending(t)
    BY <1>1, PendingAcked
  <1>3. Cardinality(t.flushed.recs) = 0 /\ Cardinality(u.queue.recs) = 0
    BY <1>1, EmptyCount DEF Kept
  <1>4. /\ Load(t) = Pending(t) + Cardinality(t.queue.recs) + 0
        /\ Load(u) = Pending(u) + 0 + Cardinality(t.queue.recs)
        /\ Pending(t) \in Nat /\ Pending(u) \in Nat /\ Cardinality(t.queue.recs) \in Nat
    BY <1>1, <1>3, LoadType
  <1>5. Load(u) <= Load(t)
    BY <1>2, <1>4
  <1>6. Kept(u)
    BY <1>1, <1>3 DEF Kept
  <1> QED BY <1>5, <1>6 DEF Lighter

\* loop() tracks the batch it has flushed.
LEMMA LoadTracked ==
    ASSUME NEW t \in Tracker, Shape(t), Kept(t), t.loop = "track", NEW u \in Tracker, TrackedFrom(t, u)
    PROVE  Lighter(t, u)
  <1>1. /\ Appended(t, u, t.flushed) /\ u.queue = t.queue /\ u.flushed = Empty /\ u.loop = "send"
        /\ u.acked = t.acked
    BY TrackEffect
  <1>2. Pending(u) = Pending(t) + Cardinality(t.flushed.recs)
    BY <1>1, PendingTracked
  <1>3. Cardinality(u.flushed.recs) = 0 /\ u.flushed.recs = {}
    BY <1>1, EmptyCount
  <1>4. /\ Load(t) = Pending(t) + Cardinality(t.queue.recs) + Cardinality(t.flushed.recs)
        /\ Load(u) = Pending(u) + Cardinality(t.queue.recs) + 0
        /\ Pending(t) \in Nat /\ Cardinality(t.flushed.recs) \in Nat /\ Cardinality(t.queue.recs) \in Nat
    BY <1>1, <1>3, LoadType
  <1>5. Load(u) <= Load(t)
    BY <1>2, <1>4
  <1>6. Kept(u)
    BY <1>1, <1>3 DEF Kept
  <1> QED BY <1>5, <1>6 DEF Lighter

\* The room below the limit, and the incomplete batches that it does not count.
Room == CheckpointLimit - 1 + Unseen

\* Which is a natural.
LEMMA RoomType == Room \in Nat
  <1>1. BatchCount - 1 \in Nat /\ (IF TimedFlush THEN 2 ELSE 1) \in Nat
    OBVIOUS
  <1>2. Unseen \in Nat
    BY <1>1 DEF Unseen
  <1> QED BY <1>2 DEF Room

\* A tracker whose partition need not be paused has room.
LEMMA LoadBelow ==
    ASSUME NEW t \in Tracker, Kept(t), ~pauseFetch(t)
    PROVE  Load(t) <= Room
  <1>1. Pending(t) \in Nat /\ Pending(t) < CheckpointLimit
    BY LoadType DEF pauseFetch
  <1>2. /\ Cardinality(t.queue.recs) \in Nat /\ Cardinality(t.flushed.recs) \in Nat
        /\ Load(t) = Pending(t) + Cardinality(t.queue.recs) + Cardinality(t.flushed.recs)
    BY LoadType
  <1>3. CASE TimedFlush
    <2>1. Unseen = (BatchCount - 1) + (BatchCount - 1)
      BY <1>3 DEF Unseen
    <2> QED BY <1>1, <1>2, <2>1 DEF Kept, Room
  <1>4. CASE ~TimedFlush
    <2>1. Unseen = BatchCount - 1
      BY <1>4 DEF Unseen
    <2>2. Cardinality(t.flushed.recs) = 0
      BY <1>4, EmptyCount DEF Kept
    <2> QED BY <1>1, <1>2, <2>1, <2>2 DEF Kept, Room
  <1> QED BY <1>3, <1>4

-----------------------------------------------------------------------------
(* The checkpoint limit.                                                   *)

\* Nothing of p is on its way to its tracker, and p is not to be paused.
Ready(c, p) ==
    /\ p \notin paused[c] /\ p \notin pausing[c] /\ fetch[c][p] = <<>>
    /\ ~(pc[c] \in {"send", "check"} /\ p = adding[c])

\* Every tracker stays below the limit, the one in the map with what was fetched
\* for it; it has room for a fetch when one may come.
Filled(c, p) ==
    /\ Len(fetch[c][p]) <= FetchMax
    /\ \A g \in 1 .. Len(trackers[c][p]) :
          Kept(trackers[c][p][g]) /\ Load(trackers[c][p][g]) <= Room + FetchMax
    /\ p \in tracked[c] =>
          /\ Load(TrackerOf(c, p)) + Len(fetch[c][p]) <= Room + FetchMax
          /\ Ready(c, p) => Load(TrackerOf(c, p)) <= Room

\* Between two fetches the loop holds no record and has paused what it had to.
Between(c) ==
    pc[c] \notin {"file", "send", "check"} =>
        pausing[c] = {} /\ \A p \in Partitions : fetch[c][p] = <<>>

\* The inductive invariant behind PendingBounded.
LoadInv ==
    /\ \A c \in Clients, p \in Partitions : Filled(c, p)
    /\ \A c \in Clients : Between(c)

\* A cell whose trackers get no heavier, whose fetch stays and that does not
\* become ready.
LEMMA FilledFrame ==
    ASSUME TypeInv, TypeInv', NEW c \in Clients, NEW p \in Partitions, Filled(c, p),
           fetch'[c][p] = fetch[c][p], Len(trackers'[c][p]) = Len(trackers[c][p]),
           \A g \in 1 .. Len(trackers[c][p]) : Lighter(trackers[c][p][g], trackers'[c][p][g]),
           p \in tracked'[c] => p \in tracked[c] /\ (Ready(c, p)' => Ready(c, p))
    PROVE  Filled(c, p)'
  <1>1. Room \in Nat /\ FetchMax \in Nat
    BY RoomType
  <1>2. ASSUME NEW g \in 1 .. Len(trackers[c][p])
        PROVE  /\ Kept(trackers'[c][p][g]) /\ Load(trackers'[c][p][g]) <= Load(trackers[c][p][g])
               /\ Load(trackers'[c][p][g]) \in Nat /\ Load(trackers[c][p][g]) \in Nat
    <2>1. g \in 1 .. Len(trackers'[c][p])
      OBVIOUS
    <2>2. trackers[c][p][g] \in Tracker /\ trackers'[c][p][g] \in Tracker
      <3>1. trackers[c][p] \in Seq(Tracker) /\ trackers'[c][p] \in Seq(Tracker)
        BY DEF TypeInv, TypeOK
      <3> QED BY <2>1, <3>1
    <2>3. Load(trackers'[c][p][g]) \in Nat /\ Load(trackers[c][p][g]) \in Nat
      BY <2>2, LoadType
    <2> QED BY <2>3 DEF Lighter
  <1>3. ASSUME NEW g \in 1 .. Len(trackers'[c][p])
        PROVE  Kept(trackers'[c][p][g]) /\ Load(trackers'[c][p][g]) <= Room + FetchMax
    <2>1. g \in 1 .. Len(trackers[c][p])
      OBVIOUS
    <2>2. Load(trackers[c][p][g]) <= Room + FetchMax
      BY <2>1 DEF Filled
    <2> QED BY <1>1, <1>2, <2>1, <2>2
  <1>4. ASSUME p \in tracked'[c]
        PROVE  /\ Load(TrackerOf(c, p)') + Len(fetch'[c][p]) <= Room + FetchMax
               /\ Ready(c, p)' => Load(TrackerOf(c, p)') <= Room
    <2>1. p \in tracked[c]
      BY <1>4
    <2>2. PICK g \in 1 .. Len(trackers[c][p]) : g = Len(trackers[c][p])
      BY <2>1, CurrentTracker
    <2>3. TrackerOf(c, p) = trackers[c][p][g] /\ TrackerOf(c, p)' = trackers'[c][p][g]
      BY <2>2 DEF TrackerOf, Current
    <2>4. PICK a \in Nat, b \in Nat : a = Load(TrackerOf(c, p)) /\ b = Load(TrackerOf(c, p)') /\ b <= a
      BY <1>2, <2>3
    <2>5. Len(fetch[c][p]) \in Nat
      BY DEF TypeInv, TypeOK
    <2>6. a + Len(fetch[c][p]) <= Room + FetchMax /\ (Ready(c, p) => a <= Room)
      BY <2>1, <2>4 DEF Filled
    <2>7. b + Len(fetch[c][p]) <= Room + FetchMax
      BY <1>1, <2>4, <2>5, <2>6
    <2>8. Ready(c, p)' => b <= Room
      BY <1>1, <1>4, <2>4, <2>6
    <2> QED BY <2>4, <2>7, <2>8
  <1>5. Len(fetch'[c][p]) <= FetchMax
    BY DEF Filled
  <1> QED BY <1>3, <1>4, <1>5 DEF Filled

\* Steps of others leave the trackers of a cell alone.
LEMMA FilledSame ==
    ASSUME TypeInv, TypeInv', NEW c \in Clients, NEW p \in Partitions, Filled(c, p),
           fetch'[c][p] = fetch[c][p], trackers'[c][p] = trackers[c][p],
           p \in tracked'[c] => p \in tracked[c] /\ (Ready(c, p)' => Ready(c, p))
    PROVE  Filled(c, p)'
  <1>1. ASSUME NEW g \in 1 .. Len(trackers[c][p])
        PROVE  Lighter(trackers[c][p][g], trackers'[c][p][g])
    <2>1. PICK t \in Tracker : t = trackers[c][p][g] /\ t = trackers'[c][p][g]
      BY AnyTracker DEF Current
    <2>2. Kept(t)
      BY <2>1 DEF Filled
    <2>3. Load(t) \in Nat
      BY LoadType
    <2> QED BY <2>1, <2>2, <2>3 DEF Lighter
  <1> QED BY <1>1, FilledFrame

\* One tracker of a client gets no heavier.
LEMMA LoadReplaced ==
    ASSUME TypeInv, TypeInv', LoadInv, NEW c \in Clients, NEW p \in Partitions,
           NEW g \in 1 .. Len(trackers[c][p]), NEW u \in Tracker, Lighter(trackers[c][p][g], u),
           trackers' = [trackers EXCEPT ![c][p][g] = u], UNCHANGED <<fetch, tracked, paused, pausing, adding>>,
           \/ UNCHANGED pc
           \/ pc[c] = "send" /\ pc' = [pc EXCEPT ![c] = "check"]
    PROVE  LoadInv'
  <1>1. TrackerReplaced(c, p, g, u)
    BY UpdateTracker DEF TypeInv, TypeOK, TrackersType
  <1>2. \A d \in Clients : pc'[d] = pc[d] \/ (pc[d] = "send" /\ pc'[d] = "check")
    <2>1. pc = [d \in Clients |-> pc[d]]
      BY DEF TypeInv, TypeOK
    <2>2. CASE UNCHANGED pc
      BY <2>2, Zenon
    <2>3. CASE pc[c] = "send" /\ pc' = [pc EXCEPT ![c] = "check"]
      <3>1. \A d \in Clients : pc'[d] = IF d = c THEN "check" ELSE pc[d]
        BY <2>1, <2>3, Zenon
      <3> QED BY <2>3, <3>1, Zenon
    <2> QED BY <2>2, <2>3
  <1>3. ASSUME NEW d \in Clients, NEW q \in Partitions PROVE Filled(d, q)'
    <2>1. Filled(d, q) /\ Len(trackers'[d][q]) = Len(trackers[d][q])
      BY <1>1 DEF LoadInv, TrackerReplaced
    <2>2. Ready(d, q)' => Ready(d, q)
      BY <1>2 DEF Ready
    <2>3. ASSUME NEW h \in 1 .. Len(trackers[d][q])
          PROVE  Lighter(trackers[d][q][h], trackers'[d][q][h])
      <3>1. trackers'[d][q][h] = IF d = c /\ q = p /\ h = g THEN u ELSE trackers[d][q][h]
        BY <1>1 DEF TrackerReplaced
      <3>2. PICK t \in Tracker : t = trackers[d][q][h]
        BY AnyTracker DEF Current
      <3>3. Kept(t) /\ Load(t) \in Nat
        BY <2>1, <3>2, LoadType DEF Filled
      <3>4. Lighter(t, t)
        BY <3>3 DEF Lighter
      <3> QED BY <3>1, <3>2, <3>4
    <2> QED BY <2>1, <2>2, <2>3, FilledFrame
  <1>4. ASSUME NEW d \in Clients PROVE Between(d)'
    BY <1>2 DEF LoadInv, Between
  <1> QED BY <1>3, <1>4 DEF LoadInv

\* Only the loop of one client moves, without fetching, adding or resuming.
LEMMA LoadSame ==
    ASSUME TypeInv, TypeInv', LoadInv, UNCHANGED <<trackers, fetch, paused, pausing, adding>>,
           \A d \in Clients :
              /\ tracked'[d] \subseteq tracked[d]
              /\ \/ pc'[d] = pc[d]
                 \/ pc[d] \in {"poll", "close"} /\ pc'[d] \in {"exit", "stopped"}
    PROVE  LoadInv'
  <1>1. ASSUME NEW d \in Clients, NEW q \in Partitions PROVE Filled(d, q)'
    <2>1. Filled(d, q)
      BY DEF LoadInv
    <2>2. Ready(d, q)' => Ready(d, q)
      BY DEF Ready
    <2>3. q \in tracked'[d] => q \in tracked[d]
      OBVIOUS
    <2> QED BY <2>1, <2>2, <2>3, FilledSame
  <1>2. ASSUME NEW d \in Clients PROVE Between(d)'
    BY DEF LoadInv, Between
  <1> QED BY <1>1, <1>2 DEF LoadInv

\* The steps of one tracker: its goroutine, the reads of its batches and their
\* acknowledgements.
LEMMA LoadTracker ==
    ASSUME TypeInv, TypeInv', LoadInv, NEW c \in Clients, NEW p \in Partitions,
           NEW g \in 1 .. Current(c, p),
           \/ TrackerStep(c, p, g) \/ ReadBatchOfLoop(c, p, g) \/ \E i : Ack(c, p, g, i)
    PROVE  LoadInv'
  <1>1. PICK t \in Tracker : t = trackers[c][p][g] /\ Shape(t)
    BY AnyTracker
  <1>2. g \in 1 .. Len(trackers[c][p])
    BY DEF Current
  <1>3. UNCHANGED <<pc, fetch, tracked, paused, pausing, adding>>
    BY DEF TrackerStep, FlushTimer, TrackFlushed, LoopStopped, ReadBatchOfLoop, Ack
  <1>4. Kept(t)
    BY <1>1, <1>2 DEF LoadInv, Filled
  <1>5. PICK u \in Tracker : SetTracker(c, p, g, u) /\ Lighter(t, u)
    <2>1. CASE FlushTimer(c, p, g)
      <3>1. PICK u : FlushedFrom(t, u)
        BY DEF FlushedFrom
      <3>2. SetTracker(c, p, g, u) /\ t.loop = "wait" /\ t.queue.recs # {} /\ TimedFlush
        BY <1>1, <2>1, <3>1 DEF FlushTimer, FlushedFrom
      <3>3. u \in Tracker
        BY <1>1, <3>1, <3>2, FlushEffect
      <3>4. Lighter(t, u)
        BY <1>1, <1>4, <3>1, <3>2, <3>3, LoadFlushed
      <3> QED BY <3>2, <3>3, <3>4
    <2>2. CASE TrackFlushed(c, p, g)
      <3>1. PICK u : TrackedFrom(t, u)
        BY DEF TrackedFrom
      <3>2. SetTracker(c, p, g, u) /\ t.loop = "track"
        BY <1>1, <2>2, <3>1 DEF TrackFlushed, TrackedFrom
      <3>3. u \in Tracker
        BY <1>1, <3>1, <3>2, TrackEffect
      <3>4. Lighter(t, u)
        BY <1>1, <1>4, <3>1, <3>2, <3>3, LoadTracked
      <3> QED BY <3>2, <3>3, <3>4
    <2>3. CASE LoopStopped(c, p, g)
      <3>1. PICK u : u = [t EXCEPT !.loop = "stopped", !.byLoop = 0]
        OBVIOUS
      <3>2. SetTracker(c, p, g, u) /\ t.loop \in {"wait", "send"}
        BY <1>1, <2>3, <3>1 DEF LoopStopped, MayStop
      <3>3. u \in Tracker /\ Quiet(t, u) /\ u.acked = t.acked
        BY <1>1, <3>1, <3>2, MovedEffect DEF Moved
      <3> QED BY <1>4, <3>2, <3>3, LoadQuiet
    <2>4. CASE ReadBatchOfLoop(c, p, g)
      <3>1. PICK u : u = [t EXCEPT !.out = t.out \cup {t.byLoop}, !.byLoop = 0, !.loop = "wait"]
        OBVIOUS
      <3>2. SetTracker(c, p, g, u) /\ t.loop = "send"
        BY <1>1, <2>4, <3>1 DEF ReadBatchOfLoop
      <3>3. u \in Tracker /\ Quiet(t, u) /\ u.acked = t.acked
        BY <1>1, <3>1, <3>2, MovedEffect DEF Moved
      <3> QED BY <1>4, <3>2, <3>3, LoadQuiet
    <2>5. CASE \E i : Ack(c, p, g, i)
      <3>1. PICK i : Ack(c, p, g, i)
        BY <2>5
      <3>2. PICK u : u = [t EXCEPT !.acked = t.acked \cup {i}]
        OBVIOUS
      <3>3. SetTracker(c, p, g, u) /\ i \in t.out
        BY <1>1, <3>1, <3>2 DEF Ack
      <3>4. u \in Tracker /\ Quiet(t, u) /\ u.acked = t.acked \cup {i}
        BY <1>1, <3>2, <3>3, AckEffect
      <3>5. Lighter(t, u)
        BY <1>4, <3>4, LoadQuiet
      <3> QED BY <3>3, <3>4, <3>5
    <2> QED BY <2>1, <2>2, <2>3, <2>4, <2>5 DEF TrackerStep
  <1> QED BY <1>1, <1>2, <1>3, <1>5, LoadReplaced DEF SetTracker

\* The send of add ends, and removeTopicPartitions tells a tracker to stop.
LEMMA LoadMoved ==
    ASSUME TypeInv, TypeInv', LoadInv, NEW c \in Clients,
           SendCancelled(c) \/ ReadBatchOfAdd(c) \/ \E p \in Partitions : RemovePartition(c, p)
    PROVE  LoadInv'
  <1>1. PICK p \in tracked[c] : \/ /\ p = adding[c] /\ TrackerOf(c, p).byAdd # 0
                                   /\ SendCancelled(c) \/ ReadBatchOfAdd(c)
                                \/ RemovePartition(c, p)
    BY DEF SendCancelled, ReadBatchOfAdd, TypeInv, AddHolds, RemovePartition, Leaving
  <1>2. PICK g \in 1 .. Len(trackers[c][p]) : g = Current(c, p) /\ p \in Partitions
    BY CurrentTracker
  <1>3. PICK t \in Tracker : t = TrackerOf(c, p) /\ t = trackers[c][p][g] /\ Shape(t)
    BY <1>2, CurrentTracker
  <1>4. PICK u : trackers' = [trackers EXCEPT ![c][p][g] = u] /\ Moved(t, u)
    <2>1. CASE p = adding[c] /\ SendCancelled(c)
      <3>1. PICK u : u = [t EXCEPT !.byAdd = 0]
        OBVIOUS
      <3>2. trackers' = [trackers EXCEPT ![c][p][g] = u]
        BY <1>2, <1>3, <2>1, <3>1 DEF SendCancelled
      <3> QED BY <3>1, <3>2 DEF Moved
    <2>2. CASE p = adding[c] /\ t.byAdd # 0 /\ ReadBatchOfAdd(c)
      <3>1. PICK u : u = [t EXCEPT !.out = t.out \cup {t.byAdd}, !.byAdd = 0]
        OBVIOUS
      <3>2. trackers' = [trackers EXCEPT ![c][p][g] = u]
        BY <1>2, <1>3, <2>2, <3>1 DEF ReadBatchOfAdd, SetTracker
      <3> QED BY <2>2, <3>1, <3>2 DEF Moved
    <2>3. CASE RemovePartition(c, p)
      <3>1. PICK u : u = [t EXCEPT !.revoked = TRUE, !.closing = TRUE]
        OBVIOUS
      <3>2. trackers' = [trackers EXCEPT ![c][p][g] = u]
        BY <1>2, <1>3, <2>3, <3>1 DEF RemovePartition, markRevoked, SetTracker
      <3> QED BY <3>1, <3>2 DEF Moved
    <2> QED BY <1>1, <1>3, <2>1, <2>2, <2>3
  <1>5. UNCHANGED <<fetch, tracked, paused, pausing, adding>>
    BY DEF SendCancelled, ReadBatchOfAdd, RemovePartition
  <1>6. \/ UNCHANGED pc
        \/ pc[c] = "send" /\ pc' = [pc EXCEPT ![c] = "check"]
    BY DEF SendCancelled, ReadBatchOfAdd, RemovePartition
  <1>7. Kept(t)
    BY <1>2, <1>3 DEF LoadInv, Filled
  <1>8. u \in Tracker /\ Quiet(t, u) /\ u.acked = t.acked
    BY <1>3, <1>4, MovedEffect
  <1>9. Lighter(trackers[c][p][g], u)
    BY <1>3, <1>7, <1>8, LoadQuiet
  <1> QED BY <1>2, <1>4, <1>5, <1>6, <1>8, <1>9, LoadReplaced

\* A poll: a partition that is fetched was not paused, so that its tracker has
\* room.
LEMMA LoadPoll ==
    ASSUME TypeInv, TypeInv', LoadInv, NEW c \in Clients, NEW count \in [Partitions -> 0 .. FetchMax],
           PollFetches(c, count)
    PROVE  LoadInv'
  <1>1. /\ pc[c] = "poll" /\ pc' = [pc EXCEPT ![c] = "file"]
        /\ UNCHANGED <<mut, adding, pausing, paused, tracked, trackers>>
    BY DEF PollFetches
  <1>2. ASSUME NEW q \in Partitions
        PROVE  /\ Len(fetch'[c][q]) = count[q] /\ count[q] \in 0 .. FetchMax
               /\ q \in paused[c] => count[q] = 0
    <2>1. fetch'[c][q] = [i \in 1 .. count[q] |-> position[c][q] + i - 1]
      BY DEF PollFetches, TypeInv, TypeOK
    <2>2. Len(fetch'[c][q]) = count[q]
      <3>1. fetch'[c][q] \in Seq(Offsets) /\ count[q] \in Nat
        BY DEF TypeInv, TypeOK
      <3>2. DOMAIN fetch'[c][q] = 1 .. count[q]
        BY <2>1
      <3>3. DOMAIN fetch'[c][q] = 1 .. Len(fetch'[c][q]) /\ Len(fetch'[c][q]) \in Nat
        BY <3>1, LenProperties
      <3> QED BY <3>1, <3>2, <3>3
    <2>3. q \in paused[c] => count[q] = 0
      BY DEF PollFetches, Fetchable
    <2> QED BY <2>2, <2>3
  <1>3. \A d \in Clients : /\ pc'[d] = IF d = c THEN "file" ELSE pc[d]
                           /\ d # c => fetch'[d] = fetch[d]
    BY <1>1 DEF PollFetches, TypeInv, TypeOK
  <1>4. ASSUME NEW d \in Clients, NEW q \in Partitions PROVE Filled(d, q)'
    <2>1. Filled(d, q)
      BY DEF LoadInv
    <2>2. CASE d # c
      <3>1. fetch'[d][q] = fetch[d][q] /\ pc'[d] = pc[d]
        BY <1>3, <2>2
      <3>2. Ready(d, q)' => Ready(d, q)
        BY <1>1, <3>1 DEF Ready
      <3> QED BY <1>1, <2>1, <3>1, <3>2, FilledSame
    <2>3. CASE d = c
      <3>1. pausing[c] = {} /\ fetch[c][q] = <<>>
        BY <1>1 DEF LoadInv, Between
      <3>2. q \in tracked[c] => Load(TrackerOf(c, q)) \in Nat
        BY CurrentTracker, LoadType
      <3>3. q \notin paused[c] => Ready(c, q)
        BY <1>1, <3>1 DEF Ready
      <3>4. TrackerOf(c, q)' = TrackerOf(c, q)
        BY <1>1 DEF TrackerOf, Current
      <3>5. Room \in Nat
        BY RoomType
      <3>6. ASSUME q \in tracked[c]
            PROVE  Load(TrackerOf(c, q)) + Len(fetch'[c][q]) <= Room + FetchMax
        <4>1. PICK a \in Nat, n \in 0 .. FetchMax :
                 a = Load(TrackerOf(c, q)) /\ n = Len(fetch'[c][q]) /\ (q \in paused[c] => n = 0)
          BY <1>2, <3>2, <3>6
        <4>2. CASE q \in paused[c]
          <5>1. Len(fetch[c][q]) = 0
            BY <3>1
          <5>2. a + 0 <= Room + FetchMax
            BY <2>1, <2>3, <3>6, <4>1, <5>1 DEF Filled
          <5> QED BY <4>1, <4>2, <5>2
        <4>3. CASE q \notin paused[c]
          <5>1. a <= Room
            BY <2>1, <2>3, <3>3, <3>6, <4>1, <4>3 DEF Filled
          <5> QED BY <3>5, <4>1, <5>1
        <4> QED BY <4>2, <4>3
      <3>7. Ready(c, q)' => Ready(c, q)
        BY <1>1, <3>1, <3>3 DEF Ready
      <3>8. q \in tracked[c] /\ Ready(c, q) => Load(TrackerOf(c, q)) <= Room
        BY <2>1, <2>3 DEF Filled
      <3>9. \A g \in 1 .. Len(trackers[c][q]) :
               Kept(trackers[c][q][g]) /\ Load(trackers[c][q][g]) <= Room + FetchMax
        BY <2>1, <2>3 DEF Filled
      <3>10. Len(fetch'[c][q]) <= FetchMax
        BY <1>2
      <3> QED BY <1>1, <2>3, <3>4, <3>6, <3>7, <3>8, <3>9, <3>10 DEF Filled
    <2> QED BY <2>2, <2>3
  <1>5. ASSUME NEW d \in Clients PROVE Between(d)'
    BY <1>1, <1>3 DEF LoadInv, Between
  <1> QED BY <1>4, <1>5 DEF LoadInv

\* addRecord takes the first record of the fetch into a tracker, a new one if
\* need be.
LEMMA LoadAddRecord ==
    ASSUME TypeInv, TypeInv', LoadInv, NEW c \in Clients, NEW p \in Partitions, AddRecord(c, p)
    PROVE  LoadInv'
  <1>1. PICK t : t = IF p \in tracked[c] THEN TrackerOf(c, p) ELSE newPartitionTracker
    OBVIOUS
  <1>2. t \in Tracker /\ Shape(t)
    BY <1>1, CurrentTracker, NewTrackerType
  <1>3. fetch[c][p] \in Seq(Offsets) /\ fetch[c][p] # <<>>
    BY DEF AddRecord, TypeInv, TypeOK
  <1>4. PICK r \in Offsets : r = Head(fetch[c][p])
    BY <1>3, HeadTailProperties
  <1>5. PICK n \in Nat : n = Len(fetch[c][p]) - 1 /\ Len(Tail(fetch[c][p])) = n
    <2>1. Len(Tail(fetch[c][p])) = Len(fetch[c][p]) - 1 /\ Tail(fetch[c][p]) \in Seq(Offsets)
      BY <1>3, HeadTailProperties
    <2>2. Len(Tail(fetch[c][p])) \in Nat
      BY <2>1, LenProperties
    <2> QED BY <2>1, <2>2
  <1>6. PICK u \in Tracker : u = add(t, r) /\ Added(t, u, r)
    BY <1>2, AddEffect
  <1>7. /\ pc[c] = "file" /\ adding' = [adding EXCEPT ![c] = p]
        /\ fetch' = [fetch EXCEPT ![c][p] = Tail(@)]
        /\ tracked' = [tracked EXCEPT ![c] = @ \cup {p}]
        /\ trackers' = [trackers EXCEPT ![c][p] =
                          IF p \in tracked[c] THEN [@ EXCEPT ![Current(c, p)] = u] ELSE Append(@, u)]
        /\ pc' = [pc EXCEPT ![c] = IF u.byAdd = 0 THEN "check" ELSE "send"]
        /\ UNCHANGED <<pausing, paused>>
    BY <1>1, <1>4, <1>6 DEF AddRecord
  <1>8. /\ pc'[c] \in {"send", "check"} /\ adding'[c] = p /\ Len(fetch'[c][p]) = n
        /\ \A d \in Clients : d # c => pc'[d] = pc[d] /\ adding'[d] = adding[d] /\ tracked'[d] = tracked[d]
        /\ \A d \in Clients, q \in Partitions : ~(d = c /\ q = p) => fetch'[d][q] = fetch[d][q]
        /\ \A q \in Partitions : q # p => (q \in tracked'[c] <=> q \in tracked[c])
        /\ p \in tracked'[c]
    BY <1>5, <1>7 DEF TypeInv, TypeOK
  <1>9. Room \in Nat /\ FetchMax \in Nat /\ n + 1 <= FetchMax
    <2>1. Len(fetch[c][p]) <= FetchMax
      BY DEF LoadInv, Filled
    <2>2. Len(fetch[c][p]) \in Nat
      BY <1>3
    <2> QED BY <1>5, <2>1, <2>2, RoomType
  <1>10. Kept(t) /\ Load(t) \in Nat /\ Load(t) + n + 1 <= Room + FetchMax
    <2>1. CASE p \in tracked[c]
      <3>1. t = TrackerOf(c, p) /\ Current(c, p) \in 1 .. Len(trackers[c][p])
        BY <1>1, <2>1, CurrentTracker
      <3>2. Kept(t)
        BY <3>1 DEF LoadInv, Filled, TrackerOf
      <3>3. Load(t) + Len(fetch[c][p]) <= Room + FetchMax
        BY <2>1, <3>1 DEF LoadInv, Filled
      <3>4. Load(t) \in Nat
        BY <1>2, LoadType
      <3>5. Len(fetch[c][p]) = n + 1
        BY <1>3, <1>5
      <3>6. Load(t) + (n + 1) <= Room + FetchMax
        BY <3>3, <3>5
      <3> QED BY <1>9, <3>2, <3>4, <3>6
    <2>2. CASE p \notin tracked[c]
      <3>1. t = newPartitionTracker
        BY <1>1, <2>2
      <3>2. Kept(t) /\ Load(t) = 0
        BY <3>1, NewLoad
      <3> QED BY <1>9, <3>2
    <2> QED BY <2>1, <2>2
  <1>11. Kept(u) /\ Load(u) <= Load(t) + 1 /\ Load(u) \in Nat
    <2>1. Kept(u) /\ Load(u) <= Load(t) + 1
      BY <1>2, <1>6, <1>10, LoadAdded
    <2> QED BY <2>1, LoadType
  <1>12. Load(u) + n <= Room + FetchMax /\ Load(u) <= Room + FetchMax
    BY <1>9, <1>10, <1>11
  <1>13. /\ \A d \in Clients, q \in Partitions : ~(d = c /\ q = p) => trackers'[d][q] = trackers[d][q]
         /\ trackers'[c][p][Len(trackers'[c][p])] = u
         /\ \A g \in 1 .. Len(trackers'[c][p]) :
               trackers'[c][p][g] = u \/ (g \in 1 .. Len(trackers[c][p]) /\ trackers'[c][p][g] = trackers[c][p][g])
    <2>1. \A d \in Clients, q \in Partitions : ~(d = c /\ q = p) => trackers'[d][q] = trackers[d][q]
      BY <1>7 DEF TypeInv, TypeOK
    <2>2. CASE p \in tracked[c]
      <3>1. PICK g \in 1 .. Len(trackers[c][p]) : g = Current(c, p)
        BY <2>2, CurrentTracker
      <3>2. trackers' = [trackers EXCEPT ![c][p][g] = u]
        BY <1>7, <2>2, <3>1
      <3>3. TrackerReplaced(c, p, g, u)
        BY <3>2, UpdateTracker DEF TypeInv, TypeOK, TrackersType
      <3>4. /\ Len(trackers'[c][p]) = Len(trackers[c][p])
            /\ \A h \in 1 .. Len(trackers[c][p]) :
                  trackers'[c][p][h] = IF h = g THEN u ELSE trackers[c][p][h]
        BY <3>3 DEF TrackerReplaced
      <3>5. g = Len(trackers[c][p])
        BY <3>1 DEF Current
      <3> QED BY <2>1, <3>4, <3>5
    <2>3. CASE p \notin tracked[c]
      <3>1. trackers' = [trackers EXCEPT ![c][p] = Append(trackers[c][p], u)]
        BY <1>7, <2>3
      <3>2. TrackerAppended(c, p, u)
        BY <3>1, AppendTracker DEF TypeInv, TypeOK, TrackersType
      <3>3. PICK m \in Nat : m = Len(trackers[c][p])
        BY DEF TypeInv, TypeOK
      <3>4. /\ Len(trackers'[c][p]) = m + 1 /\ trackers'[c][p][m + 1] = u
            /\ \A h \in 1 .. m : trackers'[c][p][h] = trackers[c][p][h]
        BY <3>2, <3>3 DEF TrackerAppended
      <3>5. \A g \in 1 .. m + 1 : g = m + 1 \/ g \in 1 .. m
        OBVIOUS
      <3> QED BY <2>1, <3>3, <3>4, <3>5
    <2> QED BY <2>2, <2>3
  <1>14. ASSUME NEW d \in Clients, NEW q \in Partitions PROVE Filled(d, q)'
    <2>1. Filled(d, q)
      BY DEF LoadInv
    <2>2. CASE d = c /\ q = p
      <3>1. ASSUME NEW g \in 1 .. Len(trackers'[c][p])
            PROVE  Kept(trackers'[c][p][g]) /\ Load(trackers'[c][p][g]) <= Room + FetchMax
        <4>1. CASE trackers'[c][p][g] = u
          BY <1>11, <1>12, <4>1
        <4>2. CASE g \in 1 .. Len(trackers[c][p]) /\ trackers'[c][p][g] = trackers[c][p][g]
          BY <2>1, <2>2, <4>2 DEF Filled
        <4> QED BY <1>13, <4>1, <4>2
      <3>2. TrackerOf(c, p)' = u
        BY <1>13 DEF TrackerOf, Current
      <3>3. ~Ready(c, p)'
        BY <1>8 DEF Ready
      <3>4. Load(u) + Len(fetch'[c][p]) <= Room + FetchMax /\ Len(fetch'[c][p]) <= FetchMax
        BY <1>8, <1>9, <1>12
      <3> QED BY <2>2, <3>1, <3>2, <3>3, <3>4 DEF Filled
    <2>3. CASE ~(d = c /\ q = p)
      <3>1. fetch'[d][q] = fetch[d][q] /\ trackers'[d][q] = trackers[d][q]
        BY <1>8, <1>13, <2>3
      <3>2. q \in tracked'[d] => q \in tracked[d]
        BY <1>8, <2>3
      <3>3. Ready(d, q)' => Ready(d, q)
        <4>1. CASE d = c
          BY <1>7, <3>1, <4>1 DEF Ready
        <4>2. CASE d # c
          BY <1>7, <1>8, <3>1, <4>2 DEF Ready
        <4> QED BY <4>1, <4>2
      <3> QED BY <2>1, <3>1, <3>2, <3>3, FilledSame
    <2> QED BY <2>2, <2>3
  <1>15. ASSUME NEW d \in Clients PROVE Between(d)'
    <2>1. CASE d = c
      BY <1>8, <2>1 DEF Between
    <2>2. CASE d # c
      BY <1>7, <1>8, <2>2 DEF LoadInv, Between
    <2> QED BY <2>1, <2>2
  <1> QED BY <1>14, <1>15 DEF LoadInv

\* The end of addRecord: a partition that is not to be paused has room.
LEMMA LoadRecordAdded ==
    ASSUME TypeInv, TypeInv', LoadInv, NEW c \in Clients, RecordAdded(c)
    PROVE  LoadInv'
  <1>1. PICK p \in tracked[c] : p = adding[c] /\ p \in Partitions
    BY DEF RecordAdded, TypeInv, TypeOK, AddHolds
  <1>2. PICK t \in Tracker : t = TrackerOf(c, p) /\ t = trackers[c][p][Len(trackers[c][p])]
                             /\ Len(trackers[c][p]) \in 1 .. Len(trackers[c][p])
    BY CurrentTracker
  <1>3. Kept(t)
    BY <1>1, <1>2 DEF LoadInv, Filled
  <1>4. /\ pc[c] = "check" /\ pc' = [pc EXCEPT ![c] = "file"]
        /\ UNCHANGED <<fetch, paused, tracked, trackers>>
        /\ pausing' = [pausing EXCEPT ![c] = IF pauseFetch(t) THEN @ \cup {p} ELSE @]
    BY <1>1, <1>2 DEF RecordAdded
  <1>5. adding' = [adding EXCEPT ![c] = NoPartition]
    BY DEF RecordAdded
  <1>6. /\ \A d \in Clients : d # c => pc'[d] = pc[d] /\ adding'[d] = adding[d] /\ pausing'[d] = pausing[d]
        /\ pc'[c] = "file"
        /\ pausing'[c] = IF pauseFetch(t) THEN pausing[c] \cup {p} ELSE pausing[c]
    BY <1>4, <1>5 DEF TypeInv, TypeOK
  <1>7. ASSUME NEW d \in Clients, NEW q \in Partitions PROVE Filled(d, q)'
    <2>1. Filled(d, q)
      BY DEF LoadInv
    <2>2. CASE d = c /\ q = p
      <3>1. TrackerOf(c, p)' = t
        BY <1>2, <1>4 DEF TrackerOf, Current
      <3>2. Ready(c, p)' => ~pauseFetch(t)
        BY <1>6 DEF Ready
      <3>3. Ready(c, p)' => Load(t) <= Room
        BY <1>3, <3>2, LoadBelow
      <3>4. Load(t) + Len(fetch[c][p]) <= Room + FetchMax /\ Len(fetch[c][p]) <= FetchMax
            /\ \A g \in 1 .. Len(trackers[c][p]) :
                  Kept(trackers[c][p][g]) /\ Load(trackers[c][p][g]) <= Room + FetchMax
        BY <1>2, <2>1, <2>2 DEF Filled
      <3> QED BY <1>4, <2>2, <3>1, <3>3, <3>4 DEF Filled
    <2>3. CASE ~(d = c /\ q = p)
      <3>1. Ready(d, q)' => Ready(d, q)
        <4>1. CASE d = c
          BY <1>1, <1>4, <1>6, <2>3, <4>1 DEF Ready
        <4>2. CASE d # c
          BY <1>4, <1>6, <4>2 DEF Ready
        <4> QED BY <4>1, <4>2
      <3> QED BY <1>4, <2>1, <3>1, FilledSame
    <2> QED BY <2>2, <2>3
  <1>8. ASSUME NEW d \in Clients PROVE Between(d)'
    <2>1. CASE d = c
      BY <1>6, <2>1 DEF Between
    <2>2. CASE d # c
      BY <1>4, <1>6, <2>2 DEF LoadInv, Between
    <2> QED BY <2>1, <2>2
  <1> QED BY <1>7, <1>8 DEF LoadInv

\* The loop pauses what is full, and resumes what has room again.
LEMMA LoadPaused ==
    ASSUME TypeInv, TypeInv', LoadInv, NEW c \in Clients, PauseFetch(c) \/ Resume(c)
    PROVE  LoadInv'
  <1>1. UNCHANGED <<fetch, adding, tracked, trackers>>
    BY DEF PauseFetch, Resume
  <1>2. \A d \in Clients : d # c => pc'[d] = pc[d] /\ pausing'[d] = pausing[d] /\ paused'[d] = paused[d]
    <2>1. CASE PauseFetch(c)
      BY <2>1 DEF PauseFetch, TypeInv, TypeOK
    <2>2. CASE Resume(c)
      BY <2>2 DEF Resume, TypeInv, TypeOK
    <2> QED BY <2>1, <2>2
  <1>3. pc[c] \in {"file", "resume"} /\ pausing'[c] = {} /\ \A q \in Partitions : fetch[c][q] = <<>>
    <2>1. CASE PauseFetch(c)
      BY <2>1 DEF PauseFetch, Fetched, TypeInv, TypeOK
    <2>2. CASE Resume(c)
      <3>1. pc[c] = "resume" /\ pausing' = pausing
        BY <2>2 DEF Resume
      <3>2. pausing[c] = {} /\ \A q \in Partitions : fetch[c][q] = <<>>
        BY <3>1 DEF LoadInv, Between
      <3> QED BY <3>1, <3>2
    <2> QED BY <2>1, <2>2
  <1>4. ASSUME NEW d \in Clients, NEW q \in Partitions PROVE Filled(d, q)'
    <2>1. Filled(d, q)
      BY DEF LoadInv
    <2>2. CASE d # c
      <3>1. Ready(d, q)' => Ready(d, q)
        BY <1>1, <1>2, <2>2 DEF Ready
      <3> QED BY <1>1, <2>1, <3>1, FilledSame
    <2>3. CASE d = c /\ Ready(c, q)
      BY <1>1, <2>1, <2>3, FilledSame
    <2>4. CASE d = c /\ ~Ready(c, q)
      <3>1. q \in paused[c] \/ q \in pausing[c]
        BY <1>3, <2>4 DEF Ready
      <3>2. CASE PauseFetch(c)
        <4>1. q \in paused'[c]
          BY <3>1, <3>2 DEF PauseFetch, TypeInv, TypeOK
        <4>2. ~Ready(c, q)'
          BY <4>1 DEF Ready
        <4> QED BY <1>1, <2>1, <2>4, <4>2, FilledSame
      <3>3. CASE Resume(c)
        <4>1. pausing[c] = {} /\ q \in paused[c]
          BY <3>1, <3>3 DEF Resume, LoadInv, Between
        <4>2. paused'[c] = {x \in paused[c] : x \in tracked[c] /\ pauseFetch(TrackerOf(c, x))}
          BY <3>3 DEF Resume, StaysPaused, TypeInv, TypeOK
        <4>3. CASE q \in tracked[c] /\ ~pauseFetch(TrackerOf(c, q))
          <5>1. PICK t \in Tracker : t = TrackerOf(c, q) /\ t = trackers[c][q][Len(trackers[c][q])]
                                     /\ Len(trackers[c][q]) \in 1 .. Len(trackers[c][q])
            BY <4>3, CurrentTracker
          <5>2. Kept(t)
            BY <2>1, <2>4, <5>1 DEF Filled
          <5>3. Load(t) <= Room
            BY <4>3, <5>1, <5>2, LoadBelow
          <5>4. TrackerOf(c, q)' = t
            BY <1>1, <5>1 DEF TrackerOf, Current
          <5>5. Load(t) + Len(fetch[c][q]) <= Room + FetchMax /\ Len(fetch[c][q]) <= FetchMax
                /\ \A g \in 1 .. Len(trackers[c][q]) :
                      Kept(trackers[c][q][g]) /\ Load(trackers[c][q][g]) <= Room + FetchMax
            BY <2>1, <2>4, <4>3, <5>1 DEF Filled
          <5> QED BY <1>1, <2>4, <5>3, <5>4, <5>5 DEF Filled
        <4>4. CASE ~(q \in tracked[c] /\ ~pauseFetch(TrackerOf(c, q)))
          <5>1. q \in tracked[c] => ~Ready(c, q)'
            BY <4>1, <4>2, <4>4 DEF Ready
          <5> QED BY <1>1, <2>1, <2>4, <5>1, FilledSame
        <4> QED BY <4>3, <4>4
      <3> QED BY <3>2, <3>3
    <2> QED BY <2>2, <2>3, <2>4
  <1>5. ASSUME NEW d \in Clients PROVE Between(d)'
    <2>1. CASE d = c
      BY <1>1, <1>3, <2>1 DEF Between
    <2>2. CASE d # c
      BY <1>1, <1>2, <2>2 DEF LoadInv, Between
    <2> QED BY <2>1, <2>2
  <1> QED BY <1>4, <1>5 DEF LoadInv

\* checkpointTracker.close and the end of a process.
LEMMA LoadClose ==
    ASSUME TypeInv, TypeInv', LoadInv, NEW c \in Clients, CloseTrackers(c) \/ ReaderGone(c)
    PROVE  LoadInv'
  <1>1. CASE CloseTrackers(c)
    <2>1. TrackersClosed(c)
      BY <1>1, ClosedTrackers
    <2>2. /\ UNCHANGED <<fetch, adding, pausing, paused, tracked>>
          /\ \A d \in Clients : pc'[d] = pc[d] \/ (pc[d] = "exit" /\ pc'[d] = "close")
      BY <1>1 DEF CloseTrackers, TypeInv, TypeOK
    <2>3. ASSUME NEW d \in Clients, NEW q \in Partitions PROVE Filled(d, q)'
      <3>1. Filled(d, q) /\ Len(trackers'[d][q]) = Len(trackers[d][q])
        BY <2>1, Zenon DEF TrackersClosed, LoadInv
      <3>2. ASSUME NEW h \in 1 .. Len(trackers[d][q])
            PROVE  Lighter(trackers[d][q][h], trackers'[d][q][h])
        <4>1. PICK t \in Tracker : t = trackers[d][q][h] /\ Shape(t)
          BY AnyTracker DEF Current
        <4>2. trackers'[d][q][h] = trackers[d][q][h] \/ trackers'[d][q][h] = [trackers[d][q][h] EXCEPT !.closing = TRUE]
          BY <2>1, Zenon DEF TrackersClosed
        <4>3. PICK u : u = trackers'[d][q][h] /\ (u = t \/ u = [t EXCEPT !.closing = TRUE])
          BY <4>1, <4>2
        <4>4. Kept(t) /\ Load(t) \in Nat
          BY <3>1, <4>1, LoadType DEF Filled
        <4>5. CASE u = t
          BY <4>4, <4>5, <4>1, <4>3 DEF Lighter
        <4>6. CASE u = [t EXCEPT !.closing = TRUE]
          <5>1. u \in Tracker /\ Quiet(t, u) /\ u.acked = t.acked
            BY <4>1, <4>6, MovedEffect DEF Moved
          <5>2. Lighter(t, u)
            BY <4>4, <5>1, LoadQuiet
          <5> QED BY <4>1, <4>3, <5>2
        <4> QED BY <4>3, <4>5, <4>6
      <3>3. Ready(d, q)' => Ready(d, q)
        BY <2>2 DEF Ready
      <3> QED BY <2>2, <3>1, <3>2, <3>3, FilledFrame
    <2>4. ASSUME NEW d \in Clients PROVE Between(d)'
      BY <2>2 DEF LoadInv, Between
    <2> QED BY <2>3, <2>4 DEF LoadInv
  <1>2. CASE ReaderGone(c)
    <2>1. \A q \in Partitions : NoFetch[q] = <<>>
      BY DEF NoFetch
    <2>2. /\ fetch'[c] = NoFetch /\ trackers'[c] = NoFetch /\ tracked'[c] = {} /\ pausing'[c] = {}
          /\ \A d \in Clients : d # c =>
                /\ fetch'[d] = fetch[d] /\ trackers'[d] = trackers[d] /\ tracked'[d] = tracked[d]
                /\ pausing'[d] = pausing[d] /\ paused'[d] = paused[d]
                /\ adding'[d] = adding[d] /\ pc'[d] = pc[d]
      BY <1>2 DEF ReaderGone, TypeInv, TypeOK
    <2>3. ASSUME NEW d \in Clients, NEW q \in Partitions PROVE Filled(d, q)'
      <3>1. CASE d = c
        <4>1. fetch'[c][q] = <<>> /\ trackers'[c][q] = <<>> /\ q \notin tracked'[c]
          BY <2>1, <2>2
        <4>2. Len(fetch'[c][q]) = 0 /\ Len(trackers'[c][q]) = 0
          BY <4>1
        <4>3. Len(fetch'[c][q]) <= FetchMax /\ 1 .. Len(trackers'[c][q]) = {}
          BY <4>2
        <4> QED BY <3>1, <4>1, <4>3 DEF Filled
      <3>2. CASE d # c
        <4>1. Ready(d, q)' => Ready(d, q)
          BY <2>2, <3>2 DEF Ready
        <4>2. Filled(d, q)
          BY DEF LoadInv
        <4> QED BY <2>2, <3>2, <4>1, <4>2, FilledSame
      <3> QED BY <3>1, <3>2
    <2>4. ASSUME NEW d \in Clients PROVE Between(d)'
      <3>1. CASE d = c
        BY <2>1, <2>2, <3>1 DEF Between
      <3>2. CASE d # c
        BY <2>2, <3>2 DEF LoadInv, Between
      <3> QED BY <3>1, <3>2
    <2> QED BY <2>3, <2>4 DEF LoadInv
  <1> QED BY <1>1, <1>2

\* Every step keeps the trackers below the limit.
LEMMA LoadStep == TypeInv /\ TypeInv' /\ LoadInv /\ [Next]_vars => LoadInv'
  <1> SUFFICES ASSUME TypeInv, TypeInv', LoadInv, [Next]_vars PROVE LoadInv'
    OBVIOUS
  <1>1. ASSUME UNCHANGED readerVars PROVE LoadInv'
    <2>1. UNCHANGED <<trackers, fetch, paused, pausing, adding, tracked, pc>>
      BY <1>1 DEF readerVars
    <2> QED BY <2>1, LoadSame
  <1>2. ASSUME NEW c \in Clients, LoopStep(c) PROVE LoadInv'
    <2>1. CASE LoopExit(c)
      <3>1. UNCHANGED <<trackers, fetch, paused, pausing, adding, tracked>>
        BY <2>1 DEF LoopExit
      <3>2. \A d \in Clients : pc'[d] = pc[d] \/ (pc[d] \in {"poll", "close"} /\ pc'[d] \in {"exit", "stopped"})
        BY <2>1 DEF LoopExit, TypeInv, TypeOK
      <3> QED BY <3>1, <3>2, LoadSame
    <2>2. CASE Poll(c)
      BY <2>2, LoadPoll DEF Poll
    <2> QED BY <1>2, <2>1, <2>2, LoadAddRecord, LoadMoved, LoadRecordAdded, LoadPaused DEF LoopStep
  <1>3. ASSUME NEW c \in Clients, NEW p \in Partitions, NEW g \in 1 .. Current(c, p), TrackerStep(c, p, g)
        PROVE  LoadInv'
    BY <1>3, LoadTracker
  <1>4. ASSUME NEW c \in Clients, ReadBatch(c) PROVE LoadInv'
    BY <1>4, LoadMoved, LoadTracker DEF ReadBatch
  <1>5. ASSUME NEW c \in Clients, NEW p \in Partitions, AckSome(c, p) PROVE LoadInv'
    BY <1>5, LoadTracker DEF AckSome
  <1>6. ASSUME NEW c \in Clients, RemoveStep(c) PROVE LoadInv'
    <2>1. CASE LockForRemove(c) \/ UnlockAfterRemove(c) \/ Returned(c)
      <3>1. UNCHANGED <<trackers, fetch, paused, pausing, adding, tracked, pc>>
        BY <2>1 DEF LockForRemove, UnlockAfterRemove, Returned, readerVars
      <3> QED BY <3>1, LoadSame
    <2>2. CASE \E p \in Partitions : PartitionRemoved(c, p)
      <3>1. UNCHANGED <<trackers, fetch, paused, pausing, adding, pc>>
        BY <2>2 DEF PartitionRemoved
      <3>2. \A d \in Clients : tracked'[d] \subseteq tracked[d]
        BY <2>2 DEF PartitionRemoved, TypeInv, TypeOK
      <3> QED BY <3>1, <3>2, LoadSame
    <2> QED BY <1>6, <2>1, <2>2, LoadMoved DEF RemoveStep
  <1>7. ASSUME NEW c \in Clients, RebalanceStep(c) PROVE LoadInv'
    <2>1. UNCHANGED readerVars
      BY <1>7 DEF RebalanceStep, Assign, Revoke, Lost, Thrown, Committer
    <2> QED BY <1>1, <2>1
  <1>8. ASSUME NEW c \in Clients, ProcessStep(c) PROVE LoadInv'
    <2>1. CASE Close(c) \/ CloseClient(c)
      <3>1. UNCHANGED <<trackers, fetch, paused, pausing, adding, tracked, pc>>
        BY <2>1 DEF Close, CloseClient, readerVars
      <3> QED BY <3>1, LoadSame
    <2>2. CASE Stopped(c)
      <3>1. UNCHANGED <<trackers, fetch, paused, pausing, adding, tracked>>
        BY <2>2 DEF Stopped
      <3>2. \A d \in Clients : pc'[d] = pc[d] \/ (pc[d] \in {"poll", "close"} /\ pc'[d] \in {"exit", "stopped"})
        BY <2>2 DEF Stopped, TypeInv, TypeOK
      <3> QED BY <3>1, <3>2, LoadSame
    <2>3. CASE Restart(c) \/ Crash(c)
      BY <2>3, LoadClose DEF Restart, Crash
    <2> QED BY <1>8, <2>1, <2>2, <2>3, LoadClose DEF ProcessStep, CloseStep
  <1>9. CASE UNCHANGED vars
    BY <1>1, <1>9 DEF vars
  <1> QED BY <1>2, <1>3, <1>4, <1>5, <1>6, <1>7, <1>8, <1>9 DEF Next

\* checkpoint_limit bounds what a partition can pile up, for any batch policy,
\* any interleaving of polls, timed flushes, acknowledgements and rebalances, and
\* inside the poll window too: add and the loop compare the pending messages with
\* the limit only after a record and between fetches (franz_reader_unordered.go,
\* pauseFetch), so that a fetch and the incomplete batches come on top.
THEOREM PendingIsBounded == Spec => []PendingBounded
  <1>1. Init => LoadInv
    <2> SUFFICES ASSUME Init PROVE LoadInv
      OBVIOUS
    <2>1. ASSUME NEW c \in Clients, NEW p \in Partitions
          PROVE  fetch[c][p] = <<>> /\ trackers[c][p] = <<>> /\ p \notin tracked[c] /\ pausing[c] = {}
      BY DEF Init, NoFetch
    <2>2. ASSUME NEW c \in Clients, NEW p \in Partitions PROVE Filled(c, p)
      <3>1. Len(fetch[c][p]) = 0 /\ Len(trackers[c][p]) = 0
        BY <2>1
      <3>2. Len(fetch[c][p]) <= FetchMax /\ 1 .. Len(trackers[c][p]) = {}
        BY <3>1
      <3> QED BY <2>1, <3>2 DEF Filled
    <2>3. ASSUME NEW c \in Clients PROVE Between(c)
      BY DEF Init, NoFetch, Between
    <2> QED BY <2>2, <2>3 DEF LoadInv
  <1>2. TypeInv /\ LoadInv => PendingBounded
    <2> SUFFICES ASSUME TypeInv, LoadInv, NEW c \in Clients, NEW p \in Partitions, NEW g \in 1 .. Current(c, p)
                 PROVE  Load(trackers[c][p][g]) < CheckpointLimit + FetchMax + Unseen
      BY DEF PendingBounded
    <2>1. PICK n \in Nat : n = Load(trackers[c][p][g])
      BY AnyTracker, LoadType
    <2>2. n <= Room + FetchMax
      BY <2>1 DEF LoadInv, Filled, Current
    <2>3. Unseen \in Int
      BY DEF Unseen
    <2> QED BY <2>1, <2>2, <2>3 DEF Room
  <1>3. TypeInv /\ LoadInv /\ [Next]_vars => TypeInv' /\ LoadInv'
    BY TypeStep, LoadStep
  <1> QED BY <1>1, <1>2, <1>3, TypeInit, PTL DEF Spec

-----------------------------------------------------------------------------
(* The order of the records of a tracker, with one flusher.                *)

\* Batches are flushed by the poll loop alone, or by the timer alone.
OneFlusher == ~TimedFlush \/ BatchCount = 1 \/ BatchCount > NumRecords

\* top is the last record of batch b.
TopOf(b) == b.top \in b.recs /\ \A x \in b.recs : x <= b.top

\* The records of batch b are below those of batch d.
Before(b, d) == \A x \in b.recs, y \in d.recs : x < y

\* The order of the records of a tracker: batches are tracked by offset, each
\* with its last one.
InOrder(t) ==
    /\ \A i \in 1 .. Len(t.log) :
          /\ TopOf(t.log[i])
          /\ \A j \in 1 .. i - 1 : Before(t.log[j], t.log[i])
          /\ Before(t.log[i], t.flushed) /\ Before(t.log[i], t.queue)
    /\ Before(t.flushed, t.queue)
    /\ t.queue.recs # {} => TopOf(t.queue)
    /\ IF t.loop = "track" THEN TopOf(t.flushed) ELSE t.flushed.recs = {}
    /\ ~TimedFlush \/ BatchCount = 1 => t.loop # "track"
    /\ BatchCount = 1 => t.queue.recs = {}

\* Record x is in one of the first n tracked batches.
Logged(t, n, x) == \E j \in 1 .. n : x \in t.log[j].recs

Flushed(t, x) == Logged(t, Len(t.log), x) \/ x \in t.flushed.recs

Held(t, x) == Flushed(t, x) \/ x \in t.queue.recs

\* Nothing is missing before a batch: what is not among the records that are
\* delivered (D) is in an earlier batch.
Gapless(t, D) ==
    /\ \A i \in 1 .. Len(t.log) : \A x \in Below(t.log[i].top + 1) : x \in D \/ Logged(t, i, x)
    /\ t.loop = "track" => \A x \in Below(t.flushed.top + 1) : x \in D \/ Flushed(t, x)
    /\ t.queue.recs # {} => \A x \in Below(t.queue.top + 1) : x \in D \/ Held(t, x)
    /\ \A i \in t.acked : t.log[i].recs \subseteq D

\* The next record that the poll loop will add, or poll.
NextOf(c, p) == position[c][p] - Len(fetch[c][p])

FetchSound(c, p) ==
    /\ Len(fetch[c][p]) <= position[c][p]
    /\ \A i \in 1 .. Len(fetch[c][p]) : fetch[c][p][i] = NextOf(c, p) + i - 1

MarkSound(c, p) ==
    head[c][p] # NoMark => p \in assigned[c] /\ Below(head[c][p]) \subseteq delivered[p]

\* The tracker of a partition holds what the loop has added and nothing else;
\* without one, everything before the next record is delivered.
TrackedSound(c, p) ==
    IF p \in tracked[c]
    THEN /\ p \in assigned[c]
         /\ \A x \in Offsets : Held(TrackerOf(c, p), x) => x < NextOf(c, p)
         /\ \A x \in Below(NextOf(c, p)) : x \in delivered[p] \/ Held(TrackerOf(c, p), x)
    ELSE p \in assigned[c] \ callback[c].parts => Below(NextOf(c, p)) \subseteq delivered[p]

TrackerSound(c, p, g) ==
    LET t == trackers[c][p][g] IN
    /\ InOrder(t)
    /\ Gapless(t, delivered[p])
    /\ ~t.revoked => p \in tracked[c] /\ g = Current(c, p)
    /\ t.closing => t.revoked

CellSound(c, p) ==
    /\ FetchSound(c, p)
    /\ MarkSound(c, p)
    /\ TrackedSound(c, p)
    /\ \A g \in 1 .. Current(c, p) : TrackerSound(c, p, g)

LoopSound(c) ==
    /\ pc[c] \in {"poll", "resume", "exit", "close", "stopped"} => Fetched(c) = {}
    /\ Fetched(c) \subseteq assigned[c] \ callback[c].parts
    /\ callback[c].stage = "none" => callback[c].parts = {}
    /\ callback[c].stage = "clean" => callback[c].parts \cap tracked[c] = {}

\* The inductive invariant behind AtLeastOnce.
NoGaps ==
    /\ AtLeastOnce
    /\ \A c \in Clients : LoopSound(c)
    /\ \A c \in Clients, p \in Partitions : CellSound(c, p)

-----------------------------------------------------------------------------
(* What the steps of a tracker do to its records.                          *)

\* A set of offsets has no more than NumRecords members, and one that is not
\* empty has at least one.
LEMMA RecordCount ==
    ASSUME NEW S \in SUBSET Offsets
    PROVE  /\ Cardinality(S) \in Nat /\ Cardinality(S) <= NumRecords
           /\ S # {} => Cardinality(S) >= 1
  <1>1. IsFiniteSet(Offsets) /\ Cardinality(Offsets) = NumRecords
    BY FS_Interval
  <1>2. IsFiniteSet(S) /\ Cardinality(S) <= Cardinality(Offsets)
    BY <1>1, FS_Subset
  <1>3. Cardinality(S) \in Nat
    BY <1>2, FS_CardinalityType
  <1>4. S # {} => Cardinality(S) # 0
    BY <1>2, FS_EmptySet
  <1> QED BY <1>1, <1>2, <1>3, <1>4

\* Which records are in the log when a batch is tracked.
LEMMA LoggedAppended ==
    ASSUME NEW t \in Tracker, NEW u, NEW b, Appended(t, u, b)
    PROVE  /\ \A n \in 1 .. Len(t.log) : \A x : Logged(u, n, x) <=> Logged(t, n, x)
           /\ \A x : Logged(u, Len(u.log), x) <=> Logged(t, Len(t.log), x) \/ x \in b.recs
  <1>1. Len(t.log) \in Nat
    BY DEF Tracker
  <1>2. /\ Len(u.log) = Len(t.log) + 1 /\ u.log[Len(t.log) + 1] = b
        /\ \A i \in 1 .. Len(t.log) : u.log[i] = t.log[i]
    BY DEF Appended
  <1>3. ASSUME NEW n \in 1 .. Len(t.log), NEW x PROVE Logged(u, n, x) <=> Logged(t, n, x)
    <2>1. \A j \in 1 .. n : u.log[j] = t.log[j]
      BY <1>1, <1>2
    <2> QED BY <2>1 DEF Logged
  <1>4. ASSUME NEW x, Logged(u, Len(u.log), x) PROVE Logged(t, Len(t.log), x) \/ x \in b.recs
    <2>1. PICK j \in 1 .. Len(t.log) + 1 : x \in u.log[j].recs
      BY <1>2, <1>4 DEF Logged
    <2>2. CASE j = Len(t.log) + 1
      BY <1>2, <2>1, <2>2
    <2>3. CASE j # Len(t.log) + 1
      <3>1. j \in 1 .. Len(t.log)
        BY <1>1, <2>3
      <3> QED BY <1>2, <2>1, <3>1 DEF Logged
    <2> QED BY <2>2, <2>3
  <1>5. ASSUME NEW x, Logged(t, Len(t.log), x) PROVE Logged(u, Len(u.log), x)
    <2>1. PICK j \in 1 .. Len(t.log) : x \in t.log[j].recs
      BY <1>5 DEF Logged
    <2>2. j \in 1 .. Len(u.log) /\ x \in u.log[j].recs
      BY <1>1, <1>2, <2>1
    <2> QED BY <2>2 DEF Logged
  <1>6. ASSUME NEW x, x \in b.recs PROVE Logged(u, Len(u.log), x)
    <2>1. Len(u.log) \in 1 .. Len(u.log) /\ x \in u.log[Len(u.log)].recs
      BY <1>1, <1>2, <1>6
    <2> QED BY <2>1 DEF Logged
  <1> QED BY <1>3, <1>4, <1>5, <1>6

\* The records of a batch in the log are offsets.
LEMMA LogBatch ==
    ASSUME NEW t \in Tracker, NEW i \in 1 .. Len(t.log)
    PROVE  t.log[i].recs \subseteq Offsets /\ t.log[i].top \in Offsets
  <1>1. t.log[i] \in Batch
    BY DEF Tracker
  <1> QED BY <1>1 DEF Batch

\* The order of a log with one batch more, which holds later records.
LEMMA AppendInOrder ==
    ASSUME NEW t \in Tracker, InOrder(t), NEW u, NEW b, Appended(t, u, b), TopOf(b),
           \A i \in 1 .. Len(t.log) : Before(t.log[i], b),
           NEW i \in 1 .. Len(u.log)
    PROVE  TopOf(u.log[i]) /\ \A j \in 1 .. i - 1 : Before(u.log[j], u.log[i])
  <1>1. Len(t.log) \in Nat
    BY DEF Tracker
  <1>2. /\ Len(u.log) = Len(t.log) + 1 /\ u.log[Len(t.log) + 1] = b
        /\ \A j \in 1 .. Len(t.log) : u.log[j] = t.log[j]
    BY DEF Appended
  <1>3. CASE i = Len(t.log) + 1
    <2>1. \A j \in 1 .. i - 1 : j \in 1 .. Len(t.log)
      BY <1>1, <1>3
    <2> QED BY <1>2, <1>3, <2>1
  <1>4. CASE i # Len(t.log) + 1
    <2>1. i \in 1 .. Len(t.log)
      BY <1>1, <1>2, <1>4
    <2>2. TopOf(t.log[i]) /\ \A j \in 1 .. i - 1 : Before(t.log[j], t.log[i])
      BY <2>1 DEF InOrder
    <2>3. \A j \in 1 .. i - 1 : u.log[j] = t.log[j]
      BY <1>1, <1>2, <2>1
    <2> QED BY <1>2, <2>1, <2>2, <2>3
  <1> QED BY <1>3, <1>4

\* add keeps the order: the record comes behind all others, and whatever is
\* flushed meanwhile is in nobody's way.
LEMMA AddInOrder ==
    ASSUME OneFlusher, NEW t \in Tracker, InOrder(t), NEW r \in Offsets,
           \A x \in Offsets : Held(t, x) => x < r,
           NEW u \in Tracker, Added(t, u, r)
    PROVE  InOrder(u)
  <1>1. PICK b : b = [recs |-> t.queue.recs \cup {r}, top |-> r]
    OBVIOUS
  <1>2. b.recs = t.queue.recs \cup {r} /\ b.top = r
    BY <1>1
  <1>3. t.queue.recs \subseteq Offsets /\ t.flushed.recs \subseteq Offsets /\ Len(t.log) \in Nat
    BY DEF Tracker
  <1>4. b.recs \subseteq Offsets /\ b.recs # {}
    BY <1>2, <1>3
  <1>5. /\ Cardinality(b.recs) \in Nat /\ Cardinality(b.recs) <= NumRecords
        /\ Cardinality(b.recs) >= 1
    BY <1>4, RecordCount
  <1>6. (\A x \in t.queue.recs : x < r) /\ (\A x \in t.flushed.recs : x < r)
    BY <1>3 DEF Held, Flushed
  <1>7. TopOf(b)
    BY <1>2, <1>3, <1>6 DEF TopOf
  <1>8. ASSUME NEW i \in 1 .. Len(t.log) PROVE Before(t.log[i], b)
    <2>1. t.log[i].recs \subseteq Offsets
      BY LogBatch
    <2>2. \A x \in t.log[i].recs : x < r
      BY <2>1 DEF Held, Flushed, Logged
    <2>3. Before(t.log[i], t.queue)
      BY DEF InOrder
    <2> QED BY <1>2, <2>2, <2>3 DEF Before
  <1>9. Before(t.flushed, b)
    BY <1>2, <1>6 DEF InOrder, Before
  <1>10. u.flushed = t.flushed /\ u.loop = t.loop
    BY DEF Added, SameRest
  <1>11. CASE Cardinality(b.recs) >= BatchCount
    <2>1. Appended(t, u, b) /\ u.queue.recs = {}
      BY <1>1, <1>2, <1>11 DEF Added
    <2>2. ~TimedFlush \/ BatchCount = 1
      BY <1>5, <1>11 DEF OneFlusher
    <2>3. t.loop # "track" /\ t.flushed.recs = {}
      BY <2>2 DEF InOrder
    <2>4. \A i \in 1 .. Len(u.log) : TopOf(u.log[i]) /\ \A j \in 1 .. i - 1 : Before(u.log[j], u.log[i])
      BY <1>7, <1>8, <2>1, AppendInOrder
    <2>5. /\ Before(u.flushed, u.queue)
          /\ \A i \in 1 .. Len(u.log) : Before(u.log[i], u.flushed) /\ Before(u.log[i], u.queue)
      BY <1>10, <2>1, <2>3 DEF Before
    <2> QED BY <1>10, <2>1, <2>3, <2>4, <2>5 DEF InOrder
  <1>12. CASE ~(Cardinality(b.recs) >= BatchCount)
    <2>1. u.log = t.log /\ u.queue = b
      BY <1>1, <1>2, <1>12 DEF Added
    <2>2. BatchCount # 1
      BY <1>5, <1>12
    <2> QED BY <1>7, <1>8, <1>9, <1>10, <2>1, <2>2 DEF InOrder
  <1> QED BY <1>11, <1>12

\* add leaves no gap, and adds its record to those the tracker holds.
LEMMA AddGapless ==
    ASSUME NEW t \in Tracker, NEW D, Gapless(t, D), Shape(t), NEW r \in Offsets,
           \A x \in Below(r) : x \in D \/ Held(t, x),
           NEW u \in Tracker, Added(t, u, r), OneFlusher, InOrder(t)
    PROVE  Gapless(u, D) /\ \A x : Held(u, x) <=> Held(t, x) \/ x = r
  <1>1. PICK b : b = [recs |-> t.queue.recs \cup {r}, top |-> r]
    OBVIOUS
  <1>2. b.recs = t.queue.recs \cup {r} /\ b.top = r
    BY <1>1
  <1>3. t.queue.recs \subseteq Offsets /\ Len(t.log) \in Nat /\ t.acked \subseteq 1 .. Len(t.log)
    BY DEF Tracker, Shape
  <1>4. u.flushed = t.flushed /\ u.loop = t.loop /\ u.acked = t.acked
    BY DEF Added, SameRest
  <1>5. \A x \in Below(r + 1) : x \in Below(r) \/ x = r
    BY DEF Below
  <1>6. CASE Cardinality(b.recs) >= BatchCount
    <2>1. Appended(t, u, b) /\ u.queue.recs = {}
      BY <1>1, <1>2, <1>6 DEF Added
    <2>2. /\ \A n \in 1 .. Len(t.log) : \A x : Logged(u, n, x) <=> Logged(t, n, x)
          /\ \A x : Logged(u, Len(u.log), x) <=> Logged(t, Len(t.log), x) \/ x \in b.recs
      BY <2>1, LoggedAppended
    <2>3. \A x : Held(u, x) <=> Held(t, x) \/ x = r
      BY <1>2, <1>4, <2>1, <2>2 DEF Held, Flushed
    <2>4. t.loop # "track" /\ t.flushed.recs = {}
      <3>1. Cardinality(b.recs) \in Nat /\ Cardinality(b.recs) <= NumRecords
        BY <1>2, <1>3, RecordCount
      <3>2. ~TimedFlush \/ BatchCount = 1
        BY <1>6, <3>1 DEF OneFlusher
      <3> QED BY <3>2 DEF InOrder
    <2>5. ASSUME NEW i \in 1 .. Len(u.log), NEW x \in Below(u.log[i].top + 1)
          PROVE  x \in D \/ Logged(u, i, x)
      <3>1. CASE i \in 1 .. Len(t.log)
        <4>1. u.log[i] = t.log[i]
          BY <2>1, <3>1 DEF Appended
        <4> QED BY <2>2, <2>5, <3>1, <4>1 DEF Gapless
      <3>2. CASE i \notin 1 .. Len(t.log)
        <4>1. i = Len(u.log) /\ u.log[i] = b
          BY <1>3, <2>1, <3>2 DEF Appended
        <4>2. x \in Below(r) \/ x = r
          BY <1>2, <1>5, <2>5, <4>1
        <4>3. x \in D \/ Held(t, x) \/ x = r
          BY <4>2
        <4>4. x \in D \/ Logged(u, Len(u.log), x)
          BY <1>2, <2>2, <2>4, <4>3 DEF Held, Flushed
        <4> QED BY <4>1, <4>4
      <3> QED BY <3>1, <3>2
    <2>6. \A i \in u.acked : u.log[i].recs \subseteq D
      BY <1>3, <1>4, <2>1 DEF Gapless, Appended
    <2> QED BY <1>4, <2>1, <2>3, <2>4, <2>5, <2>6 DEF Gapless
  <1>7. CASE ~(Cardinality(b.recs) >= BatchCount)
    <2>1. u.log = t.log /\ u.queue = b
      BY <1>1, <1>2, <1>7 DEF Added
    <2>2. \A x : Flushed(u, x) <=> Flushed(t, x)
      BY <1>4, <2>1 DEF Flushed, Logged
    <2>3. \A x : Held(u, x) <=> Held(t, x) \/ x = r
      BY <1>2, <2>1, <2>2 DEF Held
    <2>4. \A x \in Below(u.queue.top + 1) : x \in D \/ Held(u, x)
      BY <1>2, <1>5, <2>1, <2>3
    <2> QED BY <1>4, <2>1, <2>2, <2>3, <2>4 DEF Gapless, Logged
  <1> QED BY <1>6, <1>7

\* Taking what is queued out of the batcher loses nothing.
LEMMA FlushSound ==
    ASSUME NEW t \in Tracker, InOrder(t), NEW D, Gapless(t, D), t.loop = "wait", t.queue.recs # {},
           TimedFlush, NEW u, u.log = t.log, u.flushed = t.queue, u.queue = Empty, u.loop = "track",
           u.acked = t.acked
    PROVE  InOrder(u) /\ Gapless(u, D) /\ \A x : Held(u, x) <=> Held(t, x)
  <1>1. t.flushed.recs = {} /\ BatchCount # 1 /\ TopOf(t.queue)
    BY DEF InOrder
  <1>2. u.queue.recs = {}
    BY DEF Empty
  <1>3. InOrder(u)
    BY <1>1, <1>2 DEF InOrder, Before
  <1>4. \A x : Held(u, x) <=> Held(t, x)
    BY <1>1, <1>2 DEF Held, Flushed, Logged
  <1>5. \A x : Flushed(u, x) <=> Held(t, x)
    BY <1>1 DEF Held, Flushed, Logged
  <1>6. Gapless(u, D)
    BY <1>2, <1>5 DEF Gapless, Logged
  <1> QED BY <1>3, <1>4, <1>6

\* Nor does tracking it.
LEMMA TrackSound ==
    ASSUME NEW t \in Tracker, InOrder(t), NEW D, Gapless(t, D), Shape(t), t.loop = "track",
           NEW u, Appended(t, u, t.flushed), u.queue = t.queue, u.flushed = Empty, u.loop = "send",
           u.acked = t.acked
    PROVE  InOrder(u) /\ Gapless(u, D) /\ \A x : Held(u, x) <=> Held(t, x)
  <1>1. /\ TopOf(t.flushed) /\ Before(t.flushed, t.queue)
        /\ \A i \in 1 .. Len(t.log) : Before(t.log[i], t.flushed) /\ Before(t.log[i], t.queue)
    BY DEF InOrder
  <1>2. u.flushed.recs = {} /\ Len(t.log) \in Nat /\ t.acked \subseteq 1 .. Len(t.log)
    BY DEF Empty, Tracker, Shape
  <1>3. /\ Len(u.log) = Len(t.log) + 1 /\ u.log[Len(t.log) + 1] = t.flushed
        /\ \A i \in 1 .. Len(t.log) : u.log[i] = t.log[i]
    BY DEF Appended
  <1>4. \A i \in 1 .. Len(u.log) : TopOf(u.log[i]) /\ \A j \in 1 .. i - 1 : Before(u.log[j], u.log[i])
    BY <1>1, AppendInOrder
  <1>5. ASSUME NEW i \in 1 .. Len(u.log) PROVE Before(u.log[i], u.flushed) /\ Before(u.log[i], u.queue)
    <2>1. i \in 1 .. Len(t.log) \/ i = Len(t.log) + 1
      BY <1>2, <1>3
    <2>2. Before(u.log[i], u.queue)
      BY <1>1, <1>3, <2>1
    <2> QED BY <1>2, <2>2 DEF Before
  <1>6. Before(u.flushed, u.queue)
    BY <1>2 DEF Before
  <1>7. InOrder(u)
    BY <1>2, <1>4, <1>5, <1>6 DEF InOrder
  <1>8. /\ \A n \in 1 .. Len(t.log) : \A x : Logged(u, n, x) <=> Logged(t, n, x)
        /\ \A x : Logged(u, Len(u.log), x) <=> Logged(t, Len(t.log), x) \/ x \in t.flushed.recs
    BY LoggedAppended
  <1>9. \A x : Held(u, x) <=> Held(t, x)
    BY <1>2, <1>8 DEF Held, Flushed
  <1>10. ASSUME NEW i \in 1 .. Len(u.log), NEW x \in Below(u.log[i].top + 1)
         PROVE  x \in D \/ Logged(u, i, x)
    <2>1. CASE i \in 1 .. Len(t.log)
      BY <1>3, <1>8, <1>10, <2>1 DEF Gapless
    <2>2. CASE i \notin 1 .. Len(t.log)
      <3>1. i = Len(u.log) /\ u.log[i] = t.flushed
        BY <1>2, <1>3, <2>2
      <3> QED BY <1>8, <1>10, <3>1 DEF Gapless, Flushed
    <2> QED BY <2>1, <2>2
  <1>11. Gapless(u, D)
    BY <1>2, <1>3, <1>9, <1>10 DEF Gapless
  <1> QED BY <1>7, <1>9, <1>11

\* A tracker whose records stay where they are, while others are delivered.
LEMMA QuietSound ==
    ASSUME NEW t \in Tracker, InOrder(t), NEW D, Gapless(t, D), NEW u, Quiet(t, u),
           NEW E, D \subseteq E, \A i \in u.acked : u.log[i].recs \subseteq E
    PROVE  InOrder(u) /\ Gapless(u, E) /\ \A x : Held(u, x) <=> Held(t, x)
  <1>1. u.log = t.log /\ u.queue = t.queue /\ u.flushed = t.flushed /\ (u.loop = "track" <=> t.loop = "track")
    BY DEF Quiet
  <1>2. InOrder(u)
    BY <1>1 DEF InOrder
  <1>3. \A x : /\ Held(u, x) <=> Held(t, x)
               /\ Flushed(u, x) <=> Flushed(t, x)
               /\ \A n : Logged(u, n, x) <=> Logged(t, n, x)
    BY <1>1 DEF Held, Flushed, Logged
  <1>4. Gapless(u, E)
    BY <1>1, <1>3 DEF Gapless
  <1> QED BY <1>2, <1>3, <1>4

-----------------------------------------------------------------------------
(* At-least-once delivery with one flusher, when no partition is taken     *)
(* away while the poll loop holds records of it.                           *)

\* The inductive invariant behind NoGaps.
Inv == TypeInv /\ NoGaps

\* More deliveries leave no gap.
LEMMA GaplessGrows ==
    ASSUME NEW t, NEW D, NEW E, Gapless(t, D), D \subseteq E
    PROVE  Gapless(t, E)
  BY DEF Gapless

\* A step that leaves what client d keeps for q alone, and takes nothing out
\* of the delivered records, keeps the cell sound.
LEMMA CellFrame ==
    ASSUME NEW d \in Clients, NEW q \in Partitions, CellSound(d, q),
           trackers'[d][q] = trackers[d][q], head'[d][q] = head[d][q],
           fetch'[d][q] = fetch[d][q], position'[d][q] = position[d][q],
           q \in assigned'[d] <=> q \in assigned[d],
           q \in tracked'[d] <=> q \in tracked[d],
           q \in callback[d].parts => q \in callback'[d].parts,
           delivered[q] \subseteq delivered'[q]
    PROVE  CellSound(d, q)'
  <1>1. FetchSound(d, q)' /\ MarkSound(d, q)' /\ NextOf(d, q)' = NextOf(d, q)
    BY DEF CellSound, FetchSound, MarkSound, NextOf
  <1>2. TrackerOf(d, q)' = TrackerOf(d, q)
    BY DEF TrackerOf, Current
  <1>3. TrackedSound(d, q)
    BY DEF CellSound
  <1>4. TrackedSound(d, q)'
    <2>1. CASE q \in tracked[d]
      BY <1>1, <1>2, <1>3, <2>1 DEF TrackedSound
    <2>2. CASE q \notin tracked[d]
      BY <1>1, <1>3, <2>2 DEF TrackedSound
    <2> QED BY <2>1, <2>2
  <1>5. ASSUME NEW g \in 1 .. Len(trackers[d][q])
        PROVE  TrackerSound(d, q, g)'
    <2>1. TrackerSound(d, q, g)
      BY DEF CellSound, Current
    <2>2. trackers'[d][q][g] = trackers[d][q][g] /\ Current(d, q)' = Current(d, q)
      BY DEF Current
    <2>3. Gapless(trackers[d][q][g], delivered'[q])
      BY <2>1, GaplessGrows DEF TrackerSound
    <2> QED BY <2>1, <2>2, <2>3 DEF TrackerSound
  <1> QED BY <1>1, <1>4, <1>5 DEF CellSound, Current

\* The same for what the loop of client d shares with its callbacks.
LEMMA LoopFrame ==
    ASSUME NEW d \in Clients, LoopSound(d),
           pc'[d] = pc[d] \/ pc'[d] \in {"file", "send", "check"}, fetch'[d] = fetch[d],
           tracked'[d] = tracked[d], assigned'[d] = assigned[d], callback'[d] = callback[d]
    PROVE  LoopSound(d)'
  BY DEF LoopSound, Fetched

\* A commit only stores marks, and marks are sound.
LEMMA CommitSound ==
    ASSUME Inv, NEW c \in Clients, delivered' = delivered,
           CommitMarkedOffsets(c) \/ UNCHANGED committed
    PROVE  AtLeastOnce'
  <1>1. \A q \in Partitions : \/ committed'[q] = committed[q]
                              \/ head[c][q] # NoMark /\ committed'[q] = head[c][q]
    BY CommitEffect DEF Inv, TypeInv, TypeOK
  <1>2. ASSUME NEW q \in Partitions
        PROVE  /\ Below(committed[q]) \subseteq delivered[q]
               /\ head[c][q] # NoMark => Below(head[c][q]) \subseteq delivered[q]
    BY DEF Inv, NoGaps, AtLeastOnce, CellSound, MarkSound
  <1> QED BY <1>1, <1>2 DEF AtLeastOnce

\* A process that has just connected has no gaps.
LEMMA NoGapsInit == Init => NoGaps
  <1> SUFFICES ASSUME Init PROVE NoGaps
    OBVIOUS
  <1>1. AtLeastOnce
    BY DEF AtLeastOnce, Below, Init, GroupInit
  <1>2. \A c \in Clients : LoopSound(c)
    BY DEF LoopSound, Fetched, Init, GroupInit, NoFetch, Idle
  <1>3. ASSUME NEW c \in Clients, NEW p \in Partitions PROVE CellSound(c, p)
    <2>1. /\ fetch[c][p] = <<>> /\ trackers[c][p] = <<>> /\ position[c][p] = 0 /\ head[c][p] = NoMark
          /\ tracked[c] = {} /\ assigned[c] = {}
      BY DEF Init, GroupInit, NoFetch
    <2>2. FetchSound(c, p)
      BY <2>1 DEF FetchSound
    <2> QED BY <2>1, <2>2 DEF CellSound, MarkSound, TrackedSound, Current
  <1> QED BY <1>1, <1>2, <1>3 DEF NoGaps

\* Steps of the loop that move no record.
LEMMA NoGapsLoop ==
    ASSUME Inv, NEW c \in Clients,
           RecordAdded(c) \/ PauseFetch(c) \/ Resume(c) \/ LoopExit(c) \/ Stopped(c)
    PROVE  NoGaps'
  <1>1. UNCHANGED <<groupVars, fetch, tracked, trackers>>
    BY DEF RecordAdded, PauseFetch, Resume, LoopExit, Stopped
  <1>2. AtLeastOnce'
    BY <1>1, CommittedFrame DEF Inv, NoGaps, groupVars
  <1>3. ASSUME NEW d \in Clients, NEW q \in Partitions
        PROVE  CellSound(d, q)'
    BY <1>1, CellFrame DEF Inv, NoGaps, groupVars
  <1>4. ASSUME NEW d \in Clients
        PROVE  LoopSound(d)'
    <2>1. LoopSound(d) /\ LoopSound(c)
      BY DEF Inv, NoGaps
    <2>2. pc'[c] = "file" \/ Fetched(c) = {}
      BY <2>1 DEF RecordAdded, PauseFetch, Resume, LoopExit, Stopped, LoopSound, Inv, TypeInv, TypeOK
    <2>3. d # c => pc'[d] = pc[d]
      BY DEF RecordAdded, PauseFetch, Resume, LoopExit, Stopped, Inv, TypeInv, TypeOK
    <2> QED BY <1>1, <2>1, <2>2, <2>3 DEF LoopSound, Fetched, groupVars
  <1> QED BY <1>2, <1>3, <1>4 DEF NoGaps

\* A poll extends the run of records behind those that were added.
LEMMA NoGapsPoll ==
    ASSUME Inv, NEW c \in Clients, NEW count \in [Partitions -> 0 .. FetchMax], PollFetches(c, count)
    PROVE  NoGaps'
  <1>1. /\ pc[c] = "poll" /\ pc' = [pc EXCEPT ![c] = "file"]
        /\ \A q \in Partitions : IF q \in Fetchable(c) THEN position[c][q] + count[q] <= NumRecords
                                                       ELSE count[q] = 0
        /\ fetch' = [fetch EXCEPT ![c] = [p \in Partitions |->
                       [i \in 1 .. count[p] |-> position[c][p] + i - 1]]]
        /\ position' = [position EXCEPT ![c] = [p \in Partitions |-> @[p] + count[p]]]
        /\ UNCHANGED <<committed, assigned, head, callback, delivered, tracked, trackers>>
    BY DEF PollFetches
  <1>2. /\ \A q \in Partitions :
              /\ fetch'[c][q] = [i \in 1 .. count[q] |-> position[c][q] + i - 1]
              /\ position'[c][q] = position[c][q] + count[q]
        /\ \A d \in Clients : d # c => fetch'[d] = fetch[d] /\ position'[d] = position[d] /\ pc'[d] = pc[d]
    BY <1>1 DEF Inv, TypeInv, TypeOK, GroupTypeOK
  <1>3. \A q \in Partitions : fetch[c][q] = <<>>
    BY <1>1 DEF LoopSound, Fetched, Inv, NoGaps
  <1>4. ASSUME NEW q \in Partitions
        PROVE  /\ NextOf(c, q)' = NextOf(c, q) /\ FetchSound(c, q)'
               /\ fetch'[c][q] # <<>> => count[q] # 0
    <2>1. PICK n \in Nat : n = count[q]
      OBVIOUS
    <2>2. PICK x \in Nat : x = position[c][q]
      BY DEF Inv, TypeInv, TypeOK, GroupTypeOK
    <2>3. PICK f : f = [i \in 1 .. n |-> x + i - 1]
      OBVIOUS
    <2>4. f \in Seq(Int) /\ Len(f) = n /\ \A i \in 1 .. n : f[i] = x + i - 1
      BY <2>3
    <2>5. fetch'[c][q] = f /\ position'[c][q] = x + n /\ Len(fetch[c][q]) = 0
      BY <1>2, <1>3, <2>1, <2>2, <2>3
    <2>6. NextOf(c, q)' = x /\ NextOf(c, q) = x
      BY <2>2, <2>4, <2>5 DEF NextOf
    <2>7. FetchSound(c, q)'
      BY <2>4, <2>5, <2>6 DEF FetchSound
    <2>8. f # <<>> => n # 0
      BY <2>4
    <2> QED BY <2>1, <2>5, <2>6, <2>7, <2>8
  <1>5. ASSUME NEW d \in Clients, NEW q \in Partitions
        PROVE  CellSound(d, q)'
    <2>1. CellSound(d, q)
      BY DEF Inv, NoGaps
    <2>2. CASE d # c
      BY <1>1, <1>2, <2>1, <2>2, CellFrame
    <2>3. CASE d = c
      <3>1. FetchSound(d, q)' /\ NextOf(d, q)' = NextOf(d, q)
        BY <1>4, <2>3
      <3>2. MarkSound(d, q)'
        BY <1>1, <2>1 DEF CellSound, MarkSound
      <3>3. TrackedSound(d, q)'
        BY <1>1, <2>1, <3>1 DEF CellSound, TrackedSound, TrackerOf, Current
      <3>4. \A g \in 1 .. Len(trackers[d][q]) : TrackerSound(d, q, g)'
        BY <1>1, <2>1 DEF CellSound, TrackerSound, Current
      <3> QED BY <1>1, <3>1, <3>2, <3>3, <3>4 DEF CellSound, Current
    <2> QED BY <2>2, <2>3
  <1>6. ASSUME NEW d \in Clients
        PROVE  LoopSound(d)'
    <2>1. LoopSound(d)
      BY DEF Inv, NoGaps
    <2>2. CASE d # c
      BY <1>1, <1>2, <2>1, <2>2, LoopFrame
    <2>3. CASE d = c
      <3>1. Fetched(c)' \subseteq Fetchable(c)
        BY <1>1, <1>4 DEF Fetched
      <3>2. Fetched(c)' \subseteq assigned[c] \ callback[c].parts
        BY <3>1 DEF Fetchable
      <3>3. pc'[c] = "file"
        BY <1>1 DEF Inv, TypeInv, TypeOK
      <3> QED BY <1>1, <2>1, <2>3, <3>2, <3>3 DEF LoopSound
    <2> QED BY <2>2, <2>3
  <1>7. AtLeastOnce'
    BY <1>1, CommittedFrame DEF Inv, NoGaps
  <1> QED BY <1>5, <1>6, <1>7 DEF NoGaps

\* A new tracker holds nothing.
LEMMA NewTrackerSound ==
    ASSUME NEW D
    PROVE  /\ InOrder(newPartitionTracker) /\ Gapless(newPartitionTracker, D)
           /\ \A x : ~Held(newPartitionTracker, x)
           /\ ~newPartitionTracker.closing /\ ~newPartitionTracker.revoked
  <1>1. PICK t : t = newPartitionTracker
    OBVIOUS
  <1>2. /\ t.log = <<>> /\ t.queue.recs = {} /\ t.flushed.recs = {} /\ t.loop # "track"
        /\ t.acked = {} /\ ~t.closing /\ ~t.revoked /\ Len(t.log) = 0
    BY <1>1 DEF newPartitionTracker, Empty
  <1>3. InOrder(t) /\ Gapless(t, D) /\ \A x : ~Held(t, x)
    BY <1>2 DEF InOrder, Gapless, Held, Flushed, Logged, Before
  <1> QED BY <1>1, <1>2, <1>3

\* What add does to a sound tracker that holds everything before its record.
LEMMA AddSound ==
    ASSUME OneFlusher, NEW t \in Tracker, Shape(t), InOrder(t), NEW D, Gapless(t, D),
           NEW r \in Offsets, \A x \in Offsets : Held(t, x) => x < r,
           \A x \in Below(r) : x \in D \/ Held(t, x)
    PROVE  /\ add(t, r) \in Tracker /\ InOrder(add(t, r)) /\ Gapless(add(t, r), D)
           /\ \A x \in Offsets : Held(add(t, r), x) => x < r + 1
           /\ \A x \in Below(r + 1) : x \in D \/ Held(add(t, r), x)
           /\ add(t, r).closing = t.closing /\ add(t, r).revoked = t.revoked
  <1>1. PICK u \in Tracker : u = add(t, r) /\ Added(t, u, r)
    BY AddEffect
  <1>2. InOrder(u) /\ Gapless(u, D) /\ \A x : Held(u, x) <=> Held(t, x) \/ x = r
    BY <1>1, AddInOrder, AddGapless
  <1>3. ASSUME NEW x \in Offsets, Held(u, x) PROVE x < r + 1
    BY <1>2, <1>3
  <1>4. ASSUME NEW x \in Below(r + 1) PROVE x \in D \/ Held(u, x)
    <2>1. x \in Below(r) \/ x = r
      BY DEF Below
    <2> QED BY <1>2, <2>1
  <1>5. u.closing = t.closing /\ u.revoked = t.revoked
    BY <1>1 DEF Added, SameRest
  <1> QED BY <1>1, <1>2, <1>3, <1>4, <1>5

\* addRecord takes the next record of the partition.
LEMMA NoGapsAddRecord ==
    ASSUME OneFlusher, Inv, NEW c \in Clients, NEW p \in Partitions, AddRecord(c, p)
    PROVE  NoGaps'
  <1>1. PICK t : t = IF p \in tracked[c] THEN TrackerOf(c, p) ELSE newPartitionTracker
    OBVIOUS
  <1>2. t \in Tracker /\ Shape(t)
    BY <1>1, CurrentTracker, NewTrackerType DEF Inv
  <1>3. PICK f \in Seq(Offsets) : f = fetch[c][p] /\ f # <<>>
    BY DEF AddRecord, Inv, TypeInv, TypeOK
  <1>4. /\ Head(f) \in Offsets /\ Head(f) = f[1] /\ Tail(f) \in Seq(Offsets) /\ Len(f) \in Nat
        /\ Len(f) >= 1 /\ Len(Tail(f)) = Len(f) - 1 /\ \A i \in 1 .. Len(Tail(f)) : Tail(f)[i] = f[i + 1]
    <2>1. /\ Head(f) \in Offsets /\ Tail(f) \in Seq(Offsets) /\ Len(Tail(f)) = Len(f) - 1
          /\ \A i \in 1 .. Len(Tail(f)) : Tail(f)[i] = f[i + 1]
      BY <1>3, HeadTailProperties
    <2>2. Head(f) = f[1] /\ Len(f) \in Nat /\ Len(f) # 0
      BY <1>3
    <2> QED BY <2>1, <2>2
  <1>5. PICK r \in Offsets : r = Head(f)
    BY <1>4
  <1>6. PICK u : u = add(t, r)
    OBVIOUS
  <1>7. /\ fetch' = [fetch EXCEPT ![c][p] = Tail(@)]
        /\ tracked' = [tracked EXCEPT ![c] = @ \cup {p}]
        /\ trackers' = [trackers EXCEPT ![c][p] =
                          IF p \in tracked[c] THEN [@ EXCEPT ![Current(c, p)] = u] ELSE Append(@, u)]
        /\ pc' = [pc EXCEPT ![c] = IF u.byAdd = 0 THEN "check" ELSE "send"]
        /\ UNCHANGED groupVars
    BY <1>1, <1>3, <1>5, <1>6 DEF AddRecord
  <1>8. CellSound(c, p) /\ LoopSound(c)
    BY DEF Inv, NoGaps
  <1>9. PICK n \in Nat : n = position[c][p]
    BY DEF Inv, TypeInv, TypeOK, GroupTypeOK
  <1>10. NextOf(c, p) = n - Len(f) /\ NextOf(c, p) = r /\ Len(f) <= n
    <2>1. Len(f) <= n /\ NextOf(c, p) = n - Len(f)
          /\ \A i \in 1 .. Len(f) : f[i] = NextOf(c, p) + i - 1
      BY <1>3, <1>8, <1>9 DEF CellSound, FetchSound, NextOf
    <2>2. f[1] = NextOf(c, p) + 1 - 1
      BY <1>4, <2>1
    <2> QED BY <1>4, <1>5, <1>9, <2>1, <2>2
  <1>11. /\ fetch'[c][p] = Tail(f) /\ position'[c][p] = n
         /\ \A d \in Clients, q \in Partitions : ~(d = c /\ q = p) => fetch'[d][q] = fetch[d][q]
    BY <1>3, <1>7, <1>9 DEF Inv, TypeInv, TypeOK, groupVars
  <1>12. NextOf(c, p)' = r + 1 /\ FetchSound(c, p)'
    <2>1. NextOf(c, p)' = r + 1
      BY <1>4, <1>10, <1>11, SMTT(60) DEF NextOf
    <2>2. Len(Tail(f)) <= n
      BY <1>4, <1>10
    <2>3. ASSUME NEW i \in 1 .. Len(Tail(f)) PROVE Tail(f)[i] = r + 1 + i - 1
      <3>1. i + 1 \in 1 .. Len(f) /\ Tail(f)[i] = f[i + 1]
        BY <1>4
      <3>2. f[i + 1] = NextOf(c, p) + (i + 1) - 1
        BY <1>3, <1>8, <3>1 DEF CellSound, FetchSound
      <3> QED BY <1>10, <3>1, <3>2
    <2> QED BY <1>11, <2>1, <2>2, <2>3 DEF FetchSound
  <1>13. p \in assigned[c] \ callback[c].parts
    BY <1>3, <1>8 DEF LoopSound, Fetched
  <1>14. /\ InOrder(t) /\ Gapless(t, delivered[p]) /\ (t.closing => t.revoked)
         /\ \A x \in Offsets : Held(t, x) => x < r
         /\ \A x \in Below(r) : x \in delivered[p] \/ Held(t, x)
    <2>1. CASE p \in tracked[c]
      <3>1. PICK g \in 1 .. Current(c, p) : g = Current(c, p)
        BY <2>1, CurrentTracker DEF Inv
      <3>2. t = TrackerOf(c, p) /\ t = trackers[c][p][g]
        BY <1>1, <2>1, <3>1 DEF TrackerOf
      <3>3. TrackerSound(c, p, g)
        BY <1>8 DEF CellSound
      <3> QED BY <1>8, <1>10, <2>1, <3>2, <3>3 DEF TrackerSound, CellSound, TrackedSound
    <2>2. CASE p \notin tracked[c]
      <3>1. t = newPartitionTracker
        BY <1>1, <2>2
      <3>2. Below(r) \subseteq delivered[p]
        BY <1>8, <1>10, <1>13, <2>2 DEF CellSound, TrackedSound
      <3> QED BY <3>1, <3>2, NewTrackerSound
    <2> QED BY <2>1, <2>2
  <1>15. /\ u \in Tracker /\ InOrder(u) /\ Gapless(u, delivered[p]) /\ (u.closing => u.revoked)
         /\ \A x \in Offsets : Held(u, x) => x < r + 1
         /\ \A x \in Below(r + 1) : x \in delivered[p] \/ Held(u, x)
    BY <1>2, <1>6, <1>14, AddSound
  <1>16. /\ p \in tracked'[c] /\ UNCHANGED <<committed, assigned, position, head, callback, delivered>>
         /\ \A d \in Clients : tracked'[d] = IF d = c THEN tracked[c] \cup {p} ELSE tracked[d]
    BY <1>7 DEF Inv, TypeInv, TypeOK, groupVars
  <1>17. PICK m \in Nat : m = Len(trackers[c][p])
    BY DEF Inv, TypeInv, TypeOK
  <1>18. /\ Len(trackers'[c][p]) = IF p \in tracked[c] THEN m ELSE m + 1
         /\ trackers'[c][p][Len(trackers'[c][p])] = u
         /\ \A h \in 1 .. m : h # Len(trackers'[c][p]) => trackers'[c][p][h] = trackers[c][p][h]
         /\ \A d \in Clients, q \in Partitions : ~(d = c /\ q = p) => trackers'[d][q] = trackers[d][q]
    <2>1. TrackersType
      BY DEF Inv, TypeInv, TypeOK, TrackersType
    <2>2. \A d \in Clients, q \in Partitions : ~(d = c /\ q = p) => trackers'[d][q] = trackers[d][q]
      BY <1>7 DEF Inv, TypeInv, TypeOK
    <2>3. CASE p \in tracked[c]
      <3>1. PICK g \in 1 .. Len(trackers[c][p]) : g = Current(c, p)
        BY <2>3, CurrentTracker DEF Inv
      <3>2. trackers' = [trackers EXCEPT ![c][p][g] = u]
        BY <1>7, <2>3, <3>1
      <3>3. TrackerReplaced(c, p, g, u)
        BY <1>15, <2>1, <3>2, UpdateTracker
      <3> QED BY <1>17, <2>2, <2>3, <3>1, <3>3 DEF TrackerReplaced, Current
    <2>4. CASE p \notin tracked[c]
      <3>1. trackers' = [trackers EXCEPT ![c][p] = Append(trackers[c][p], u)]
        BY <1>7, <2>4
      <3>2. TrackerAppended(c, p, u)
        BY <1>15, <2>1, <3>1, AppendTracker
      <3> QED BY <1>17, <2>2, <2>4, <3>2 DEF TrackerAppended
    <2> QED BY <2>3, <2>4
  <1>19. CellSound(c, p)'
    <2>1. MarkSound(c, p)'
      BY <1>8, <1>16 DEF CellSound, MarkSound
    <2>2. TrackerOf(c, p)' = u
      BY <1>18 DEF TrackerOf, Current
    <2>3. TrackedSound(c, p)'
      BY <1>12, <1>13, <1>15, <1>16, <2>2 DEF TrackedSound
    <2>4. ASSUME NEW h \in 1 .. Len(trackers'[c][p]) PROVE TrackerSound(c, p, h)'
      <3>1. CASE h = Len(trackers'[c][p])
        <4>1. trackers'[c][p][h] = u /\ h = Current(c, p)'
          BY <1>18, <3>1 DEF Current
        <4> QED BY <1>15, <1>16, <4>1 DEF TrackerSound
      <3>2. CASE h # Len(trackers'[c][p])
        <4>1. h \in 1 .. m /\ h # (IF p \in tracked[c] THEN m ELSE m + 1)
          BY <1>18, <3>2
        <4>2. trackers'[c][p][h] = trackers[c][p][h]
          BY <1>18, <3>2, <4>1
        <4>3. TrackerSound(c, p, h)
          BY <1>8, <1>17, <4>1 DEF CellSound, Current
        <4>4. trackers[c][p][h].revoked
          BY <1>17, <4>1, <4>3 DEF TrackerSound, Current
        <4> QED BY <1>16, <4>2, <4>3, <4>4 DEF TrackerSound
      <3> QED BY <3>1, <3>2
    <2> QED BY <1>12, <2>1, <2>3, <2>4 DEF CellSound, Current
  <1>20. ASSUME NEW d \in Clients, NEW q \in Partitions, ~(d = c /\ q = p)
         PROVE  CellSound(d, q)'
    <2>1. CellSound(d, q)
      BY DEF Inv, NoGaps
    <2>2. q \in tracked'[d] <=> q \in tracked[d]
      BY <1>16, <1>20
    <2> QED BY <1>11, <1>16, <1>18, <1>20, <2>1, <2>2, CellFrame
  <1>21. ASSUME NEW d \in Clients PROVE LoopSound(d)'
    <2>1. LoopSound(d)
      BY DEF Inv, NoGaps
    <2>2. CASE d = c
      <3>1. pc'[c] \in {"check", "send"}
        BY <1>7 DEF Inv, TypeInv, TypeOK
      <3>2. Fetched(c)' \subseteq Fetched(c)
        BY <1>3, <1>11 DEF Fetched
      <3> QED BY <1>13, <1>16, <2>1, <2>2, <3>1, <3>2 DEF LoopSound
    <2>3. CASE d # c
      <3>1. pc'[d] = pc[d] /\ fetch'[d] = fetch[d] /\ tracked'[d] = tracked[d]
        BY <1>7, <1>16, <2>3 DEF Inv, TypeInv, TypeOK
      <3> QED BY <1>16, <2>1, <3>1, LoopFrame
    <2> QED BY <2>2, <2>3
  <1>22. AtLeastOnce'
    BY <1>16, CommittedFrame DEF Inv, NoGaps
  <1> QED BY <1>19, <1>20, <1>21, <1>22 DEF NoGaps

\* Replacing a tracker by one that holds the same records.
LEMMA ReplaceSound ==
    ASSUME Inv, NEW c \in Clients, NEW p \in Partitions, NEW g \in 1 .. Len(trackers[c][p]),
           NEW u \in Tracker, trackers' = [trackers EXCEPT ![c][p][g] = u],
           InOrder(u), Gapless(u, delivered'[p]), \A x : Held(u, x) <=> Held(trackers[c][p][g], x),
           u.closing => u.revoked, trackers[c][p][g].revoked => u.revoked,
           UNCHANGED <<assigned, tracked, fetch, position, callback>>,
           \A q \in Partitions : delivered[q] \subseteq delivered'[q],
           \A d \in Clients, q \in Partitions : ~(d = c /\ q = p) => head'[d][q] = head[d][q],
           MarkSound(c, p)'
    PROVE  \A d \in Clients, q \in Partitions : CellSound(d, q)'
  <1>1. TrackerReplaced(c, p, g, u)
    BY UpdateTracker DEF Inv, TypeInv, TypeOK, TrackersType
  <1>2. CellSound(c, p)
    BY DEF Inv, NoGaps
  <1>3. /\ Len(trackers'[c][p]) = Len(trackers[c][p]) /\ trackers'[c][p][g] = u
        /\ \A h \in 1 .. Len(trackers[c][p]) : h # g => trackers'[c][p][h] = trackers[c][p][h]
    BY <1>1 DEF TrackerReplaced
  <1>4. ASSUME NEW h \in 1 .. Len(trackers[c][p]) PROVE TrackerSound(c, p, h)'
    <2>1. TrackerSound(c, p, h) /\ Current(c, p)' = Current(c, p)
      BY <1>2, <1>3 DEF CellSound, Current
    <2>2. CASE h # g
      <3>1. trackers'[c][p][h] = trackers[c][p][h]
        BY <1>3, <2>2
      <3>2. Gapless(trackers[c][p][h], delivered'[p])
        BY <2>1, GaplessGrows DEF TrackerSound
      <3> QED BY <2>1, <3>1, <3>2 DEF TrackerSound
    <2>3. CASE h = g
      BY <1>3, <2>1, <2>3 DEF TrackerSound
    <2> QED BY <2>2, <2>3
  <1>5. NextOf(c, p)' = NextOf(c, p) /\ FetchSound(c, p)'
    BY <1>2 DEF CellSound, NextOf, FetchSound
  <1>6. TrackedSound(c, p)'
    <2>1. TrackedSound(c, p)
      BY <1>2 DEF CellSound
    <2>2. CASE p \in tracked[c]
      <3>1. PICK last \in 1 .. Len(trackers[c][p]) : last = Current(c, p) /\ last = Len(trackers[c][p])
        BY <2>2, CurrentTracker DEF Inv
      <3>2. TrackerOf(c, p) = trackers[c][p][last] /\ TrackerOf(c, p)' = trackers'[c][p][last]
        BY <1>3, <3>1 DEF TrackerOf, Current
      <3>3. \A x : Held(TrackerOf(c, p)', x) <=> Held(TrackerOf(c, p), x)
        BY <1>3, <3>1, <3>2
      <3> QED BY <1>5, <2>1, <2>2, <3>3 DEF TrackedSound
    <2>3. CASE p \notin tracked[c]
      BY <1>5, <2>1, <2>3 DEF TrackedSound
    <2> QED BY <2>2, <2>3
  <1>7. CellSound(c, p)'
    BY <1>3, <1>4, <1>5, <1>6 DEF CellSound, Current
  <1>8. ASSUME NEW d \in Clients, NEW q \in Partitions, ~(d = c /\ q = p)
        PROVE  CellSound(d, q)'
    <2>1. trackers'[d][q] = trackers[d][q]
      BY <1>8 DEF Inv, TypeInv, TypeOK
    <2>2. head'[d][q] = head[d][q] /\ CellSound(d, q)
      BY <1>8 DEF Inv, NoGaps
    <2> QED BY <2>1, <2>2, CellFrame
  <1> QED BY <1>7, <1>8

\* The tracker of a step, and what is known of it.
LEMMA SoundTracker ==
    ASSUME Inv, NEW c \in Clients, NEW p \in Partitions, NEW g \in 1 .. Current(c, p)
    PROVE  /\ g \in 1 .. Len(trackers[c][p]) /\ trackers[c][p][g] \in Tracker /\ Shape(trackers[c][p][g])
           /\ InOrder(trackers[c][p][g]) /\ Gapless(trackers[c][p][g], delivered[p])
           /\ trackers[c][p][g].closing => trackers[c][p][g].revoked
           /\ ~trackers[c][p][g].revoked => p \in assigned[c]
           /\ MarkSound(c, p)
  <1>1. CellSound(c, p) /\ TrackerSound(c, p, g)
    BY DEF Inv, NoGaps, CellSound
  <1>2. p \in tracked[c] => p \in assigned[c]
    BY <1>1 DEF CellSound, TrackedSound
  <1> QED BY <1>1, <1>2, AnyTracker DEF Inv, TrackerSound, CellSound

\* A tracker changes, and nothing outside the reader does.
LEMMA NoGapsReplace ==
    ASSUME Inv, NEW c \in Clients, NEW p \in Partitions, NEW g \in 1 .. Current(c, p),
           NEW u \in Tracker, SetTracker(c, p, g, u),
           InOrder(u), Gapless(u, delivered[p]), \A x : Held(u, x) <=> Held(trackers[c][p][g], x),
           u.closing => u.revoked, trackers[c][p][g].revoked => u.revoked,
           UNCHANGED <<groupVars, tracked, fetch>>,
           \A d \in Clients : pc'[d] = pc[d] \/ pc'[d] \in {"file", "send", "check"}
    PROVE  NoGaps'
  <1>1. g \in 1 .. Len(trackers[c][p]) /\ MarkSound(c, p)
    BY SoundTracker
  <1>2. UNCHANGED <<assigned, position, callback, delivered, head, committed>>
    BY DEF groupVars
  <1>3. MarkSound(c, p)'
    BY <1>1, <1>2 DEF MarkSound
  <1>4. \A d \in Clients, q \in Partitions : CellSound(d, q)'
    BY <1>1, <1>2, <1>3, ReplaceSound DEF SetTracker
  <1>5. AtLeastOnce'
    BY <1>2, CommittedFrame DEF Inv, NoGaps
  <1>6. \A d \in Clients : LoopSound(d)'
    BY <1>2, LoopFrame DEF Inv, NoGaps
  <1> QED BY <1>4, <1>5, <1>6 DEF NoGaps

\* The goroutine of a tracker, and ReadBatch on the other end of its send.
LEMMA NoGapsGoroutine ==
    ASSUME Inv, NEW c \in Clients, NEW p \in Partitions, NEW g \in 1 .. Current(c, p),
           TrackerStep(c, p, g) \/ ReadBatchOfLoop(c, p, g)
    PROVE  NoGaps'
  <1>1. PICK t \in Tracker : /\ t = trackers[c][p][g] /\ Shape(t) /\ InOrder(t) /\ Gapless(t, delivered[p])
                             /\ t.closing => t.revoked
    BY SoundTracker
  <1>2. UNCHANGED <<groupVars, pc, fetch, tracked>>
    BY DEF TrackerStep, FlushTimer, TrackFlushed, LoopStopped, ReadBatchOfLoop
  <1>3. \A i \in t.acked : t.log[i].recs \subseteq delivered[p]
    BY <1>1 DEF Gapless
  <1>4. PICK u \in Tracker : /\ SetTracker(c, p, g, u) /\ InOrder(u) /\ Gapless(u, delivered[p])
                             /\ \A x : Held(u, x) <=> Held(t, x)
                             /\ u.closing = t.closing /\ u.revoked = t.revoked
    <2>1. CASE FlushTimer(c, p, g)
      <3>1. PICK u : FlushedFrom(t, u)
        BY DEF FlushedFrom
      <3>2. SetTracker(c, p, g, u) /\ t.loop = "wait" /\ t.queue.recs # {} /\ TimedFlush
        BY <1>1, <2>1, <3>1 DEF FlushTimer, FlushedFrom
      <3>3. /\ u \in Tracker /\ u.log = t.log /\ u.flushed = t.queue /\ u.queue = Empty
            /\ u.loop = "track" /\ u.acked = t.acked /\ u.revoked = t.revoked
        BY <1>1, <3>1, <3>2, FlushEffect
      <3>4. u.closing = t.closing
        BY <3>1 DEF FlushedFrom, Tracker
      <3>5. InOrder(u) /\ Gapless(u, delivered[p]) /\ \A x : Held(u, x) <=> Held(t, x)
        BY <1>1, <3>2, <3>3, FlushSound
      <3> QED BY <3>2, <3>3, <3>4, <3>5
    <2>2. CASE TrackFlushed(c, p, g)
      <3>1. PICK u : TrackedFrom(t, u)
        BY DEF TrackedFrom
      <3>2. SetTracker(c, p, g, u) /\ t.loop = "track"
        BY <1>1, <2>2, <3>1 DEF TrackFlushed, TrackedFrom
      <3>3. /\ u \in Tracker /\ Appended(t, u, t.flushed) /\ u.queue = t.queue /\ u.flushed = Empty
            /\ u.loop = "send" /\ u.acked = t.acked /\ u.revoked = t.revoked
        BY <1>1, <3>1, <3>2, TrackEffect
      <3>4. u.closing = t.closing
        BY <3>1 DEF TrackedFrom, Track, Tracker
      <3>5. InOrder(u) /\ Gapless(u, delivered[p]) /\ \A x : Held(u, x) <=> Held(t, x)
        BY <1>1, <3>2, <3>3, TrackSound
      <3> QED BY <3>2, <3>3, <3>4, <3>5
    <2>3. CASE LoopStopped(c, p, g)
      <3>1. PICK u : u = [t EXCEPT !.loop = "stopped", !.byLoop = 0]
        OBVIOUS
      <3>2. SetTracker(c, p, g, u) /\ t.loop \in {"wait", "send"}
        BY <1>1, <2>3, <3>1 DEF LoopStopped, MayStop
      <3>3. u \in Tracker /\ Quiet(t, u) /\ u.acked = t.acked
        <4>1. Moved(t, u)
          BY <3>1, <3>2 DEF Moved
        <4> QED BY <1>1, <4>1, MovedEffect
      <3>4. u.closing = t.closing /\ u.revoked = t.revoked
        BY <3>1 DEF Tracker
      <3>5. InOrder(u) /\ Gapless(u, delivered[p]) /\ \A x : Held(u, x) <=> Held(t, x)
        BY <1>1, <1>3, <3>3, QuietSound DEF Quiet
      <3> QED BY <3>2, <3>3, <3>4, <3>5
    <2>4. CASE ReadBatchOfLoop(c, p, g)
      <3>1. PICK u : u = [t EXCEPT !.out = t.out \cup {t.byLoop}, !.byLoop = 0, !.loop = "wait"]
        OBVIOUS
      <3>2. SetTracker(c, p, g, u) /\ t.loop = "send"
        BY <1>1, <2>4, <3>1 DEF ReadBatchOfLoop
      <3>3. u \in Tracker /\ Quiet(t, u) /\ u.acked = t.acked
        <4>1. Moved(t, u)
          BY <3>1, <3>2 DEF Moved
        <4> QED BY <1>1, <4>1, MovedEffect
      <3>4. u.closing = t.closing /\ u.revoked = t.revoked
        BY <3>1 DEF Tracker
      <3>5. InOrder(u) /\ Gapless(u, delivered[p]) /\ \A x : Held(u, x) <=> Held(t, x)
        BY <1>1, <1>3, <3>3, QuietSound DEF Quiet
      <3> QED BY <3>2, <3>3, <3>4, <3>5
    <2> QED BY <2>1, <2>2, <2>3, <2>4 DEF TrackerStep
  <1> QED BY <1>1, <1>2, <1>4, NoGapsReplace

\* The send of add ends, and removeTopicPartitions marks a tracker revoked.
LEMMA NoGapsMoved ==
    ASSUME Inv, NEW c \in Clients,
           SendCancelled(c) \/ ReadBatchOfAdd(c) \/ \E p \in Partitions : RemovePartition(c, p)
    PROVE  NoGaps'
  <1>1. PICK p \in tracked[c] : \/ /\ p = adding[c] /\ TrackerOf(c, p).byAdd # 0
                                   /\ SendCancelled(c) \/ ReadBatchOfAdd(c)
                                \/ RemovePartition(c, p)
    BY DEF SendCancelled, ReadBatchOfAdd, Inv, TypeInv, AddHolds, RemovePartition, Leaving
  <1>2. PICK g \in 1 .. Current(c, p) : g = Current(c, p) /\ p \in Partitions
    BY CurrentTracker DEF Inv
  <1>3. PICK t \in Tracker : /\ t = TrackerOf(c, p) /\ t = trackers[c][p][g] /\ Shape(t)
                             /\ InOrder(t) /\ Gapless(t, delivered[p]) /\ (t.closing => t.revoked)
    BY <1>2, SoundTracker DEF TrackerOf
  <1>4. PICK u : /\ SetTracker(c, p, g, u) /\ Moved(t, u)
                 /\ (u.closing => u.revoked) /\ (t.revoked => u.revoked)
    <2>1. CASE p = adding[c] /\ SendCancelled(c)
      <3>1. PICK u : u = [t EXCEPT !.byAdd = 0]
        OBVIOUS
      <3>2. SetTracker(c, p, g, u)
        BY <1>2, <1>3, <2>1, <3>1 DEF SendCancelled, SetTracker
      <3>3. u.closing = t.closing /\ u.revoked = t.revoked
        BY <3>1 DEF Tracker
      <3> QED BY <1>3, <3>1, <3>2, <3>3 DEF Moved
    <2>2. CASE p = adding[c] /\ TrackerOf(c, p).byAdd # 0 /\ ReadBatchOfAdd(c)
      <3>1. PICK u : u = [t EXCEPT !.out = t.out \cup {t.byAdd}, !.byAdd = 0]
        OBVIOUS
      <3>2. SetTracker(c, p, g, u)
        BY <1>2, <1>3, <2>2, <3>1 DEF ReadBatchOfAdd
      <3>3. u.closing = t.closing /\ u.revoked = t.revoked
        BY <3>1 DEF Tracker
      <3>4. Moved(t, u)
        BY <1>3, <2>2, <3>1 DEF Moved
      <3> QED BY <1>3, <3>2, <3>3, <3>4
    <2>3. CASE RemovePartition(c, p)
      <3>1. PICK u : u = [t EXCEPT !.revoked = TRUE, !.closing = TRUE]
        OBVIOUS
      <3>2. SetTracker(c, p, g, u)
        <4>1. SetTracker(c, p, Current(c, p), [markRevoked(TrackerOf(c, p)) EXCEPT !.closing = TRUE])
          BY <2>3 DEF RemovePartition
        <4>2. [markRevoked(t) EXCEPT !.closing = TRUE] = u
          BY <3>1 DEF markRevoked, Tracker
        <4> QED BY <1>2, <1>3, <4>1, <4>2
      <3>3. u.revoked
        BY <3>1 DEF Tracker
      <3> QED BY <3>1, <3>2, <3>3 DEF Moved
    <2> QED BY <1>1, <2>1, <2>2, <2>3
  <1>5. u \in Tracker /\ Quiet(t, u) /\ u.acked = t.acked
    BY <1>3, <1>4, MovedEffect
  <1>6. \A i \in u.acked : u.log[i].recs \subseteq delivered[p]
    BY <1>3, <1>5 DEF Gapless, Quiet
  <1>7. InOrder(u) /\ Gapless(u, delivered[p]) /\ \A x : Held(u, x) <=> Held(t, x)
    BY <1>3, <1>5, <1>6, QuietSound
  <1>8. UNCHANGED <<groupVars, tracked, fetch>>
    BY DEF SendCancelled, ReadBatchOfAdd, RemovePartition
  <1>9. \A d \in Clients : pc'[d] = pc[d] \/ pc'[d] \in {"file", "send", "check"}
    BY DEF SendCancelled, ReadBatchOfAdd, RemovePartition, Inv, TypeInv, TypeOK
  <1> QED BY <1>2, <1>3, <1>4, <1>5, <1>7, <1>8, <1>9, NoGapsReplace

\* What an acknowledgement marks lies behind no record that is not delivered.
LEMMA ResolvedDelivered ==
    ASSUME NEW t \in Tracker, NEW D, Gapless(t, D), NEW h \in Resolved(t), h \in 1 .. Len(t.log)
    PROVE  Below(t.log[h].top + 1) \subseteq D
  <1> SUFFICES ASSUME NEW x \in Below(t.log[h].top + 1), x \notin D PROVE FALSE
    OBVIOUS
  <1>1. Logged(t, h, x)
    BY DEF Gapless
  <1>2. PICK j \in 1 .. h : x \in t.log[j].recs
    BY <1>1 DEF Logged
  <1>3. j \in t.acked
    BY DEF Resolved
  <1> QED BY <1>2, <1>3 DEF Gapless

\* An acknowledgement: the batch is delivered, and the resolved part of the log
\* is marked, unless the tracker is revoked.
LEMMA NoGapsAck ==
    ASSUME Inv, NEW c \in Clients, NEW p \in Partitions, NEW g \in 1 .. Current(c, p),
           NEW i, Ack(c, p, g, i)
    PROVE  NoGaps'
  <1>1. PICK t \in Tracker : /\ t = trackers[c][p][g] /\ Shape(t) /\ InOrder(t) /\ Gapless(t, delivered[p])
                             /\ (t.closing => t.revoked) /\ (~t.revoked => p \in assigned[c])
    BY SoundTracker
  <1>2. PICK u : u = [t EXCEPT !.acked = t.acked \cup {i}]
    OBVIOUS
  <1>3. /\ i \in t.out /\ SetTracker(c, p, g, u)
        /\ delivered' = [delivered EXCEPT ![p] = @ \cup t.log[i].recs]
        /\ IF u.revoked \/ Resolved(u) = {} THEN head' = head
           ELSE MarkCommitRecords(c, p, u.log[Max(Resolved(u))].top)
        /\ UNCHANGED <<assigned, tracked, fetch, position, callback, committed, pc>>
    BY <1>1, <1>2 DEF Ack, commitFn
  <1>4. /\ u \in Tracker /\ Shape(u) /\ Quiet(t, u) /\ u.acked = t.acked \cup {i}
        /\ u.revoked = t.revoked
    BY <1>1, <1>2, <1>3, AckEffect
  <1>5. u.closing = t.closing
    BY <1>2 DEF Tracker
  <1>6. GroupTypeOK
    BY DEF Inv, TypeInv, TypeOK
  <1>7. /\ \A q \in Partitions : delivered[q] \subseteq delivered'[q]
        /\ delivered'[p] = delivered[p] \cup t.log[i].recs
    BY <1>3, <1>6 DEF GroupTypeOK
  <1>8. \A k \in u.acked : u.log[k].recs \subseteq delivered'[p]
    BY <1>1, <1>4, <1>7 DEF Gapless, Quiet
  <1>9. InOrder(u) /\ Gapless(u, delivered'[p]) /\ \A x : Held(u, x) <=> Held(t, x)
    BY <1>1, <1>4, <1>7, <1>8, QuietSound
  <1>10. MarkSound(c, p)
    BY SoundTracker
  <1>11. MarkSound(c, p)' /\ \A d \in Clients, q \in Partitions :
                                ~(d = c /\ q = p) => head'[d][q] = head[d][q]
    <2>1. CASE head' = head
      BY <1>3, <1>7, <1>10, <2>1 DEF MarkSound
    <2>2. CASE ~u.revoked /\ Resolved(u) # {} /\ MarkCommitRecords(c, p, u.log[Max(Resolved(u))].top)
      <3>1. PICK h \in Resolved(u) : h = Max(Resolved(u)) /\ h \in 1 .. Len(u.log)
        BY <1>4, <2>2, ResolvedMax
      <3>2. Below(u.log[h].top + 1) \subseteq delivered'[p]
        BY <1>4, <1>9, <3>1, ResolvedDelivered
      <3>3. p \in assigned[c]
        BY <1>1, <1>4, <2>2
      <3>4. head'[c][p] = head[c][p] \/ head'[c][p] = u.log[h].top + 1
        BY <1>6, <2>2, <3>1 DEF MarkCommitRecords, GroupTypeOK
      <3>5. head[c][p] # NoMark => Below(head[c][p]) \subseteq delivered'[p]
        BY <1>7, <1>10 DEF MarkSound
      <3>6. MarkSound(c, p)'
        BY <1>3, <3>2, <3>3, <3>4, <3>5 DEF MarkSound
      <3>7. \A d \in Clients, q \in Partitions :
               ~(d = c /\ q = p) => head'[d][q] = head[d][q]
        BY <1>6, <2>2 DEF MarkCommitRecords, GroupTypeOK
      <3> QED BY <3>6, <3>7
    <2> QED BY <1>3, <2>1, <2>2
  <1>12. g \in 1 .. Len(trackers[c][p])
    BY DEF Current
  <1>13. \A d \in Clients, q \in Partitions : CellSound(d, q)'
    <2>1. /\ (u.closing => u.revoked) /\ (trackers[c][p][g].revoked => u.revoked)
          /\ \A x : Held(u, x) <=> Held(trackers[c][p][g], x)
      BY <1>1, <1>4, <1>5, <1>9
    <2>2. trackers' = [trackers EXCEPT ![c][p][g] = u]
      BY <1>3 DEF SetTracker
    <2> QED BY <1>3, <1>4, <1>7, <1>9, <1>11, <1>12, <2>1, <2>2, ReplaceSound
  <1>14. AtLeastOnce'
    BY <1>3, <1>7, CommittedFrame DEF Inv, NoGaps
  <1>15. \A d \in Clients : LoopSound(d)'
    BY <1>3, LoopFrame DEF Inv, NoGaps
  <1> QED BY <1>13, <1>14, <1>15 DEF NoGaps

\* A partition is taken up at the committed offset, below which all is delivered.
LEMMA NoGapsAssign ==
    ASSUME Inv, NEW c \in Clients, NEW p \in Partitions, Assign(c, p)
    PROVE  NoGaps'
  <1>1. /\ p \notin assigned[c] /\ callback[c] = Idle
        /\ assigned' = [assigned EXCEPT ![c] = @ \cup {p}]
        /\ position' = [position EXCEPT ![c][p] = committed[p]]
        /\ head' = [head EXCEPT ![c][p] = committed[p]]
        /\ UNCHANGED <<committed, callback, delivered, pc, fetch, tracked, trackers>>
    BY DEF Assign, AssignPartition, readerVars
  <1>2. CellSound(c, p) /\ LoopSound(c)
    BY DEF Inv, NoGaps
  <1>3. p \notin tracked[c] /\ fetch[c][p] = <<>>
    BY <1>1, <1>2 DEF CellSound, TrackedSound, LoopSound, Fetched
  <1>4. Below(committed[p]) \subseteq delivered[p] /\ committed[p] \in Nat
    BY DEF Inv, NoGaps, AtLeastOnce, TypeInv, TypeOK, GroupTypeOK
  <1>5. p \in assigned'[c] /\ position'[c][p] = committed[p] /\ head'[c][p] = committed[p]
    BY <1>1 DEF Inv, TypeInv, TypeOK, GroupTypeOK
  <1>6. CellSound(c, p)'
    <2>1. Len(fetch'[c][p]) = 0
      BY <1>1, <1>3
    <2>2. NextOf(c, p)' = committed[p]
      BY <1>4, <1>5, <2>1 DEF NextOf
    <2>3. FetchSound(c, p)'
      BY <1>4, <1>5, <2>1 DEF FetchSound
    <2>4. MarkSound(c, p)'
      BY <1>1, <1>4, <1>5 DEF MarkSound
    <2>5. TrackedSound(c, p)'
      BY <1>1, <1>3, <1>4, <2>2 DEF TrackedSound
    <2>6. \A g \in 1 .. Len(trackers[c][p]) : TrackerSound(c, p, g)'
      BY <1>1, <1>2 DEF CellSound, TrackerSound, Current
    <2> QED BY <1>1, <2>3, <2>4, <2>5, <2>6 DEF CellSound, Current
  <1>7. ASSUME NEW d \in Clients, NEW q \in Partitions, ~(d = c /\ q = p)
        PROVE  CellSound(d, q)'
    <2>1. /\ head'[d][q] = head[d][q] /\ position'[d][q] = position[d][q]
          /\ q \in assigned'[d] <=> q \in assigned[d]
      BY <1>1, <1>7 DEF Inv, TypeInv, TypeOK, GroupTypeOK
    <2>2. CellSound(d, q)
      BY DEF Inv, NoGaps
    <2> QED BY <1>1, <2>1, <2>2, CellFrame
  <1>8. ASSUME NEW d \in Clients
        PROVE  LoopSound(d)'
    <2>1. LoopSound(d)
      BY DEF Inv, NoGaps
    <2>2. CASE d = c
      <3>1. assigned'[c] = assigned[c] \cup {p} /\ callback[c].parts = {} /\ callback[c].stage = "none"
        BY <1>1 DEF Idle, Inv, TypeInv, TypeOK, GroupTypeOK
      <3> QED BY <1>1, <2>1, <2>2, <3>1 DEF LoopSound, Fetched
    <2>3. CASE d # c
      <3>1. assigned'[d] = assigned[d]
        BY <1>1, <2>3 DEF Inv, TypeInv, TypeOK, GroupTypeOK
      <3> QED BY <1>1, <2>1, <3>1, LoopFrame
    <2> QED BY <2>2, <2>3
  <1>9. AtLeastOnce'
    BY <1>1, CommittedFrame DEF Inv, NoGaps
  <1> QED BY <1>6, <1>7, <1>8, <1>9 DEF NoGaps

\* Steps outside the reader that change neither marks nor assignments.
LEMMA NoGapsGroup ==
    ASSUME Inv, NEW c \in Clients, UNCHANGED <<assigned, position, head, callback, delivered>>,
           UNCHANGED <<pc, fetch, tracked, trackers>>,
           CommitMarkedOffsets(c) \/ UNCHANGED committed
    PROVE  NoGaps'
  <1>1. AtLeastOnce'
    BY CommitSound
  <1>2. \A d \in Clients, q \in Partitions : CellSound(d, q)'
    BY CellFrame DEF Inv, NoGaps
  <1>3. \A d \in Clients : LoopSound(d)'
    BY LoopFrame DEF Inv, NoGaps
  <1> QED BY <1>1, <1>2, <1>3 DEF NoGaps

\* Entering a callback: kgo takes away partitions of which the loop holds no
\* record.
LEMMA NoGapsCallback ==
    ASSUME Inv, NEW c \in Clients, NEW parts \in SUBSET Partitions,
           parts \cap Fetched(c) = {}, callback[c] = Idle,
           callback' = [callback EXCEPT ![c] = [stage |-> "remove", parts |-> parts]],
           UNCHANGED <<assigned, position, head, delivered, readerVars>>,
           CommitMarkedOffsets(c) \/ UNCHANGED committed
    PROVE  NoGaps'
  <1>1. AtLeastOnce'
    BY CommitSound
  <1>2. /\ callback'[c].stage = "remove" /\ callback'[c].parts = parts /\ callback[c].parts = {}
        /\ \A d \in Clients : d # c => callback'[d] = callback[d]
    BY DEF Idle, Inv, TypeInv, TypeOK, GroupTypeOK
  <1>3. UNCHANGED <<pc, fetch, tracked, trackers>>
    BY DEF readerVars
  <1>4. ASSUME NEW d \in Clients, NEW q \in Partitions PROVE CellSound(d, q)'
    <2>1. CellSound(d, q) /\ (q \in callback[d].parts => q \in callback'[d].parts)
      BY <1>2 DEF Inv, NoGaps
    <2> QED BY <1>3, <2>1, CellFrame
  <1>5. ASSUME NEW d \in Clients
        PROVE  LoopSound(d)'
    <2>1. LoopSound(d)
      BY DEF Inv, NoGaps
    <2>2. CASE d = c
      <3>1. Fetched(c)' = Fetched(c)
        BY <1>3 DEF Fetched
      <3> QED BY <1>2, <1>3, <2>1, <2>2, <3>1 DEF LoopSound
    <2>3. CASE d # c
      BY <1>2, <1>3, <2>1, <2>3, LoopFrame
    <2> QED BY <2>2, <2>3
  <1> QED BY <1>1, <1>4, <1>5 DEF NoGaps

\* removeTopicPartitions takes the mutex and gives it back, and a removed
\* partition has no live tracker left.
LEMMA NoGapsRemove ==
    ASSUME Inv, NEW c \in Clients,
           \/ LockForRemove(c) \/ UnlockAfterRemove(c)
           \/ \E p \in Partitions : PartitionRemoved(c, p)
    PROVE  NoGaps'
  <1>1. CASE LockForRemove(c)
    BY <1>1, NoGapsGroup DEF LockForRemove, groupVars
  <1>2. CASE UnlockAfterRemove(c)
    <2>1. /\ callback[c].parts \cap tracked[c] = {}
          /\ callback' = [callback EXCEPT ![c].stage = "clean"]
          /\ UNCHANGED <<committed, assigned, position, head, delivered, pc, fetch, tracked, trackers>>
      BY <1>2 DEF UnlockAfterRemove, Leaving
    <2>2. /\ callback'[c].parts = callback[c].parts /\ callback'[c].stage = "clean"
          /\ \A d \in Clients : d # c => callback'[d] = callback[d]
      BY <2>1 DEF Inv, TypeInv, TypeOK, GroupTypeOK
    <2>3. ASSUME NEW d \in Clients, NEW q \in Partitions PROVE CellSound(d, q)'
      <3>1. CellSound(d, q) /\ (q \in callback[d].parts => q \in callback'[d].parts)
        BY <2>2 DEF Inv, NoGaps
      <3> QED BY <2>1, <3>1, CellFrame
    <2>4. ASSUME NEW d \in Clients PROVE LoopSound(d)'
      <3>1. LoopSound(d)
        BY DEF Inv, NoGaps
      <3>2. CASE d = c
        <4>1. Fetched(c)' = Fetched(c)
          BY <2>1 DEF Fetched
        <4> QED BY <2>1, <2>2, <3>1, <3>2, <4>1 DEF LoopSound
      <3>3. CASE d # c
        BY <2>1, <2>2, <3>1, <3>3, LoopFrame
      <3> QED BY <3>2, <3>3
    <2>5. AtLeastOnce'
      BY <2>1, CommittedFrame DEF Inv, NoGaps
    <2> QED BY <2>3, <2>4, <2>5 DEF NoGaps
  <1>3. ASSUME NEW p \in Partitions, PartitionRemoved(c, p) PROVE NoGaps'
    <2>1. /\ p \in callback[c].parts /\ p \in tracked[c] /\ TrackerOf(c, p).closing
          /\ tracked' = [tracked EXCEPT ![c] = @ \ {p}]
          /\ UNCHANGED <<groupVars, pc, fetch, trackers>>
      BY <1>3 DEF PartitionRemoved, Closing, Leaving
    <2>2. \A d \in Clients : tracked'[d] = IF d = c THEN tracked[c] \ {p} ELSE tracked[d]
      BY <2>1 DEF Inv, TypeInv, TypeOK
    <2>3. UNCHANGED <<committed, assigned, position, head, callback, delivered>>
      BY <2>1 DEF groupVars
    <2>4. CellSound(c, p)'
      <3>1. CellSound(c, p)
        BY DEF Inv, NoGaps
      <3>2. FetchSound(c, p)' /\ MarkSound(c, p)'
        BY <2>1, <2>3, <3>1 DEF CellSound, FetchSound, MarkSound, NextOf
      <3>3. TrackedSound(c, p)'
        BY <2>1, <2>2, <2>3 DEF TrackedSound
      <3>4. ASSUME NEW g \in 1 .. Len(trackers[c][p]) PROVE TrackerSound(c, p, g)'
        <4>1. TrackerSound(c, p, g)
          BY <3>1 DEF CellSound, Current
        <4>2. trackers[c][p][g].revoked
          <5>1. CASE g = Current(c, p)
            BY <2>1, <4>1, <5>1 DEF TrackerSound, TrackerOf
          <5>2. CASE g # Current(c, p)
            BY <4>1, <5>2 DEF TrackerSound
          <5> QED BY <5>1, <5>2
        <4> QED BY <2>1, <2>3, <4>1, <4>2 DEF TrackerSound
      <3> QED BY <2>1, <3>2, <3>3, <3>4 DEF CellSound, Current
    <2>5. ASSUME NEW d \in Clients, NEW q \in Partitions, ~(d = c /\ q = p) PROVE CellSound(d, q)'
      <3>1. CellSound(d, q) /\ (q \in tracked'[d] <=> q \in tracked[d])
        BY <2>2, <2>5 DEF Inv, NoGaps
      <3> QED BY <2>1, <2>3, <3>1, CellFrame
    <2>6. ASSUME NEW d \in Clients PROVE LoopSound(d)'
      <3>1. LoopSound(d) /\ Fetched(d)' = Fetched(d) /\ tracked'[d] \subseteq tracked[d]
        BY <2>1, <2>2 DEF Inv, NoGaps, Fetched
      <3> QED BY <2>1, <2>3, <3>1 DEF LoopSound
    <2>7. AtLeastOnce'
      BY <2>3, CommittedFrame DEF Inv, NoGaps
    <2> QED BY <2>4, <2>5, <2>6, <2>7 DEF NoGaps
  <1> QED BY <1>1, <1>2, <1>3

\* When the callback has returned, the client drops the marks of partitions of
\* which no live tracker is left.
LEMMA NoGapsReturned ==
    ASSUME Inv, NEW c \in Clients, Returned(c)
    PROVE  NoGaps'
  <1>1. PICK parts : parts = callback[c].parts
    OBVIOUS
  <1>2. /\ callback[c].stage = "clean"
        /\ \A q \in Partitions :
              /\ head'[c][q] = IF q \in parts THEN NoMark ELSE head[c][q]
              /\ position'[c][q] = IF q \in parts THEN 0 ELSE position[c][q]
        /\ assigned'[c] = assigned[c] \ parts
        /\ callback'[c] = Idle
        /\ \A d \in Clients : d # c => /\ head'[d] = head[d] /\ position'[d] = position[d]
                                       /\ assigned'[d] = assigned[d] /\ callback'[d] = callback[d]
        /\ UNCHANGED <<committed, delivered, pc, fetch, tracked, trackers>>
    BY <1>1 DEF Returned, CallbackReturned, readerVars, Inv, TypeInv, TypeOK, GroupTypeOK
  <1>3. parts \cap tracked[c] = {} /\ \A q \in parts : q \in Partitions => fetch[c][q] = <<>>
    BY <1>1, <1>2 DEF Inv, NoGaps, LoopSound, Fetched
  <1>4. ASSUME NEW d \in Clients, NEW q \in Partitions
        PROVE  CellSound(d, q)'
    <2>1. CellSound(d, q)
      BY DEF Inv, NoGaps
    <2>2. CASE d = c /\ q \in parts
      <3>1. MarkSound(d, q)' /\ TrackedSound(d, q)'
        BY <1>2, <1>3, <2>2 DEF MarkSound, TrackedSound
      <3>2. FetchSound(d, q)'
        <4>1. Len(fetch'[d][q]) = 0 /\ position'[d][q] = 0
          BY <1>2, <1>3, <2>2
        <4> QED BY <4>1 DEF FetchSound
      <3>3. \A g \in 1 .. Len(trackers[d][q]) : TrackerSound(d, q, g)'
        BY <1>2, <2>1 DEF CellSound, TrackerSound, Current
      <3> QED BY <1>2, <3>1, <3>2, <3>3 DEF CellSound, Current
    <2>3. CASE d = c /\ q \notin parts
      BY <1>1, <1>2, <2>1, <2>3, CellFrame
    <2>4. CASE d # c
      BY <1>2, <2>1, <2>4, CellFrame
    <2> QED BY <2>2, <2>3, <2>4
  <1>5. ASSUME NEW d \in Clients
        PROVE  LoopSound(d)'
    <2>1. LoopSound(d)
      BY DEF Inv, NoGaps
    <2>2. CASE d = c
      <3>1. Fetched(c)' = Fetched(c) /\ callback'[c].parts = {} /\ callback'[c].stage = "none"
        BY <1>2 DEF Fetched, Idle
      <3> QED BY <1>1, <1>2, <2>1, <2>2, <3>1 DEF LoopSound
    <2>3. CASE d # c
      BY <1>2, <2>1, <2>3, LoopFrame
    <2> QED BY <2>2, <2>3
  <1>6. AtLeastOnce'
    BY <1>2, CommittedFrame DEF Inv, NoGaps
  <1> QED BY <1>4, <1>5, <1>6 DEF NoGaps

\* checkpointTracker.close finds no tracker: the partitions are all revoked.
LEMMA NoGapsCloseTrackers ==
    ASSUME Inv, NEW c \in Clients, CloseTrackers(c)
    PROVE  NoGaps'
  <1>1. /\ pc[c] = "exit" /\ assigned[c] = {} /\ pc' = [pc EXCEPT ![c] = "close"]
        /\ trackers' = [trackers EXCEPT ![c] = [p \in Partitions |->
             IF p \in tracked[c] THEN [@[p] EXCEPT ![Current(c, p)].closing = TRUE] ELSE @[p]]]
        /\ UNCHANGED <<groupVars, fetch, tracked>>
    BY DEF CloseTrackers
  <1>2. \A p \in Partitions : p \notin tracked[c]
    BY <1>1 DEF Inv, NoGaps, CellSound, TrackedSound
  <1>3. ASSUME NEW d \in Clients, NEW q \in Partitions PROVE trackers'[d][q] = trackers[d][q]
    BY <1>1, <1>2 DEF Inv, TypeInv, TypeOK
  <1>4. ASSUME NEW d \in Clients, NEW q \in Partitions PROVE CellSound(d, q)'
    BY <1>1, <1>3, CellFrame DEF Inv, NoGaps, groupVars
  <1>5. ASSUME NEW d \in Clients PROVE LoopSound(d)'
    <2>1. LoopSound(d)
      BY DEF Inv, NoGaps
    <2>2. CASE d = c
      <3>1. Fetched(c)' = Fetched(c) /\ Fetched(c) = {}
        BY <1>1, <2>1, <2>2 DEF Fetched, LoopSound
      <3> QED BY <1>1, <2>1, <2>2, <3>1 DEF LoopSound, groupVars
    <2>3. CASE d # c
      <3>1. pc'[d] = pc[d]
        BY <1>1, <2>3 DEF Inv, TypeInv, TypeOK
      <3> QED BY <1>1, <2>1, <3>1, LoopFrame DEF groupVars
    <2> QED BY <2>2, <2>3
  <1>6. AtLeastOnce'
    BY <1>1, CommittedFrame DEF Inv, NoGaps, groupVars
  <1> QED BY <1>4, <1>5, <1>6 DEF NoGaps

\* A process that is gone leaves nothing behind but the committed offset.
LEMMA NoGapsGone ==
    ASSUME Inv, NEW c \in Clients, Restart(c) \/ Crash(c)
    PROVE  NoGaps'
  <1>1. ProcessGone(c) /\ ReaderGone(c)
    BY DEF Restart, Crash
  <1>2. /\ \A q \in Partitions : head'[c][q] = NoMark /\ position'[c][q] = 0
        /\ assigned'[c] = {} /\ callback'[c] = Idle
        /\ UNCHANGED <<committed, delivered>>
    BY <1>1 DEF ProcessGone, Inv, TypeInv, TypeOK, GroupTypeOK
  <1>3. /\ \A q \in Partitions : fetch'[c][q] = <<>> /\ trackers'[c][q] = <<>>
        /\ tracked'[c] = {} /\ pc'[c] = "poll"
    BY <1>1 DEF ReaderGone, NoFetch, Inv, TypeInv, TypeOK
  <1>4. \A d \in Clients : d # c =>
           /\ head'[d] = head[d] /\ position'[d] = position[d] /\ assigned'[d] = assigned[d]
           /\ callback'[d] = callback[d]
    BY <1>1 DEF ProcessGone, Inv, TypeInv, TypeOK, GroupTypeOK
  <1>5. \A d \in Clients : d # c => /\ pc'[d] = pc[d] /\ fetch'[d] = fetch[d]
                                    /\ tracked'[d] = tracked[d] /\ trackers'[d] = trackers[d]
    BY <1>1 DEF ReaderGone, Inv, TypeInv, TypeOK
  <1>6. ASSUME NEW d \in Clients, NEW q \in Partitions
        PROVE  CellSound(d, q)'
    <2>1. CASE d = c
      <3>1. FetchSound(c, q)'
        BY <1>2, <1>3 DEF FetchSound
      <3> QED BY <1>2, <1>3, <2>1, <3>1 DEF CellSound, MarkSound, TrackedSound, Current
    <2>2. CASE d # c
      <3>1. CellSound(d, q)
        BY DEF Inv, NoGaps
      <3> QED BY <1>2, <1>4, <1>5, <2>2, <3>1, CellFrame
    <2> QED BY <2>1, <2>2
  <1>7. ASSUME NEW d \in Clients
        PROVE  LoopSound(d)'
    <2>1. CASE d = c
      BY <1>2, <1>3, <2>1 DEF LoopSound, Fetched, Idle
    <2>2. CASE d # c
      <3>1. LoopSound(d)
        BY DEF Inv, NoGaps
      <3> QED BY <1>4, <1>5, <2>2, <3>1, LoopFrame
    <2> QED BY <2>1, <2>2
  <1>8. AtLeastOnce'
    BY <1>2, CommittedFrame DEF Inv, NoGaps
  <1> QED BY <1>6, <1>7, <1>8 DEF NoGaps

\* Revocations, losses, evictions, autocommits and closes leave no gap, as
\* long as they stay out of the poll window.
LEMMA NoGapsRebalance ==
    ASSUME Inv, ~RebalanceInPollWindow, NEW c \in Clients,
           \/ \E parts \in SUBSET Partitions : Revoke(c, parts)
           \/ Lost(c) \/ Thrown(c) \/ Committer(c) \/ CloseClient(c) \/ Close(c)
    PROVE  NoGaps'
  <1>1. CASE \E parts \in SUBSET Partitions : Revoke(c, parts)
    <2>1. PICK parts \in SUBSET Partitions : Revoke(c, parts)
      BY <1>1
    <2> QED BY <2>1, NoGapsCallback
            DEF Revoke, OutsidePollWindow, OnPartitionsRevoked
  <1>2. CASE Lost(c)
    <2>1. assigned[c] \in SUBSET Partitions /\ assigned[c] \cap Fetched(c) = {}
      BY <1>2 DEF Lost, OutsidePollWindow, Inv, TypeInv, TypeOK, GroupTypeOK
    <2> QED BY <1>2, <2>1, NoGapsCallback DEF Lost, OnPartitionsLost
  <1>3. CASE CloseClient(c)
    <2>1. assigned[c] \in SUBSET Partitions /\ assigned[c] \cap Fetched(c) = {}
      BY <1>3 DEF CloseClient, Inv, NoGaps, LoopSound, TypeInv, TypeOK, GroupTypeOK
    <2> QED BY <1>3, <2>1, NoGapsCallback DEF CloseClient, OnPartitionsRevoked
  <1>4. CASE Thrown(c)
    BY <1>4, NoGapsGroup DEF Thrown, Evict, readerVars
  <1>5. CASE Committer(c)
    BY <1>5, NoGapsGroup DEF Committer, AutoCommit, readerVars
  <1>6. CASE Close(c)
    BY <1>6, NoGapsGroup DEF Close
  <1> QED BY <1>1, <1>2, <1>3, <1>4, <1>5, <1>6

\* Every step of any process preserves NoGaps, with one flusher and rebalances
\* that stay out of the poll window.
LEMMA NoGapsStep ==
    ASSUME ~RebalanceInPollWindow, OneFlusher, Inv, [Next]_vars
    PROVE  NoGaps'
  <1>1. CASE UNCHANGED vars
    <2>1. AtLeastOnce'
      BY <1>1, CommittedFrame DEF vars, groupVars, Inv, NoGaps
    <2>2. \A d \in Clients, q \in Partitions : CellSound(d, q)'
      BY <1>1, CellFrame DEF vars, groupVars, readerVars, Inv, NoGaps
    <2>3. \A d \in Clients : LoopSound(d)'
      BY <1>1, LoopFrame DEF vars, groupVars, readerVars, Inv, NoGaps
    <2> QED BY <2>1, <2>2, <2>3 DEF NoGaps
  <1>2. ASSUME NEW c \in Clients, LoopStep(c) PROVE NoGaps'
    BY <1>2, NoGapsPoll, NoGapsAddRecord, NoGapsMoved, NoGapsLoop DEF LoopStep, Poll
  <1>3. ASSUME NEW c \in Clients, NEW p \in Partitions, NEW g \in 1 .. Current(c, p), TrackerStep(c, p, g)
        PROVE  NoGaps'
    BY <1>3, NoGapsGoroutine
  <1>4. ASSUME NEW c \in Clients, ReadBatch(c) PROVE NoGaps'
    BY <1>4, NoGapsMoved, NoGapsGoroutine DEF ReadBatch
  <1>5. ASSUME NEW c \in Clients, NEW p \in Partitions, AckSome(c, p) PROVE NoGaps'
    BY <1>5, NoGapsAck DEF AckSome
  <1>6. ASSUME NEW c \in Clients, RemoveStep(c) PROVE NoGaps'
    BY <1>6, NoGapsMoved, NoGapsRemove, NoGapsReturned DEF RemoveStep
  <1>7. ASSUME NEW c \in Clients, RebalanceStep(c) PROVE NoGaps'
    BY <1>7, NoGapsAssign, NoGapsRebalance DEF RebalanceStep
  <1>8. ASSUME NEW c \in Clients, ProcessStep(c) PROVE NoGaps'
    BY <1>8, NoGapsRebalance, NoGapsCloseTrackers, NoGapsLoop, NoGapsGone DEF ProcessStep, CloseStep
  <1> QED BY <1>1, <1>2, <1>3, <1>4, <1>5, <1>6, <1>7, <1>8 DEF Next

\* The inductive invariant: with one flusher, and when no partition is taken
\* away while the poll loop holds records of it, marks, trackers and records on
\* their way to them never leave a gap.
THEOREM NoGapsInvariant ==
    ASSUME ~RebalanceInPollWindow, OneFlusher
    PROVE  Spec => []NoGaps
  <1>1. Init => Inv
    BY TypeInit, NoGapsInit DEF Inv
  <1>2. Inv /\ [Next]_vars => Inv'
    BY TypeStep, NoGapsStep DEF Inv
  <1>3. Inv => NoGaps
    BY DEF Inv
  <1> QED BY <1>1, <1>2, <1>3, PTL DEF Spec

\* At-least-once delivery: the committed offset of a partition never passes a
\* record that no output has confirmed, with one flusher, outside the poll
\* window, for any other interleaving of polls, flushes, acknowledgements,
\* evictions, revocations, closes and crashes.
THEOREM AtLeastOnceDelivery ==
    ASSUME ~RebalanceInPollWindow, OneFlusher
    PROVE  Spec => []AtLeastOnce
  <1>1. NoGaps => AtLeastOnce
    BY DEF NoGaps
  <1> QED BY <1>1, NoGapsInvariant, PTL

\* No offset outlives a revoke: a client marks offsets only for partitions it
\* is assigned (markRevoked and the revoked check of onAck).
THEOREM MarksAreOwned ==
    ASSUME ~RebalanceInPollWindow, OneFlusher
    PROVE  Spec => []MarksOnlyOwned
  <1>1. NoGaps => MarksOnlyOwned
    BY DEF NoGaps, CellSound, MarkSound, MarksOnlyOwned
  <1> QED BY <1>1, NoGapsInvariant, PTL

-----------------------------------------------------------------------------
(* Committed offsets only go forward, under the same conditions.           *)

\* An acknowledgement marks offsets of partitions the client is assigned.
LEMMA OwnershipAck ==
    ASSUME Inv, Ownership, NEW c \in Clients, NEW p \in Partitions,
           NEW g \in 1 .. Current(c, p), NEW i, Ack(c, p, g, i)
    PROVE  Ownership' /\ Forward
  <1>1. PICK t \in Tracker : t = trackers[c][p][g] /\ Shape(t) /\ (~t.revoked => p \in assigned[c])
    BY SoundTracker
  <1>2. PICK u : u = [t EXCEPT !.acked = t.acked \cup {i}]
    OBVIOUS
  <1>3. /\ i \in t.out
        /\ IF u.revoked \/ Resolved(u) = {} THEN head' = head
           ELSE MarkCommitRecords(c, p, u.log[Max(Resolved(u))].top)
        /\ UNCHANGED <<owner, committed, fenced, assigned, callback>>
    BY <1>1, <1>2 DEF Ack, commitFn
  <1>4. u \in Tracker /\ Shape(u) /\ u.revoked = t.revoked
    BY <1>1, <1>2, <1>3, AckEffect
  <1>5. GroupTypeOK
    BY DEF Inv, TypeInv, TypeOK
  <1>6. CASE head' = head
    BY <1>3, <1>5, <1>6, OwnershipFrame
  <1>7. CASE ~u.revoked /\ Resolved(u) # {} /\ MarkCommitRecords(c, p, u.log[Max(Resolved(u))].top)
    <2>1. u.log[Max(Resolved(u))].top \in Offsets
      BY <1>4, <1>7, ResolvedMax
    <2>2. p \in assigned[c]
      BY <1>1, <1>4, <1>7
    <2> QED BY <1>3, <1>5, <1>7, <2>1, <2>2, OwnershipMark
  <1> QED BY <1>3, <1>6, <1>7

\* The steps of the reader that leave the group alone.
LEMMA ReaderSteps ==
    ASSUME NEW c \in Clients,
           \/ LoopStep(c) \/ ReadBatch(c) \/ LockForRemove(c)
           \/ \E p \in Partitions : \E g \in 1 .. Current(c, p) : TrackerStep(c, p, g)
           \/ \E p \in Partitions : RemovePartition(c, p) \/ PartitionRemoved(c, p)
           \/ CloseTrackers(c) \/ Stopped(c)
    PROVE  UNCHANGED <<owner, committed, fenced, assigned, head, callback, delivered>>
  <1>1. ASSUME UNCHANGED groupVars
        PROVE  UNCHANGED <<owner, committed, fenced, assigned, head, callback, delivered>>
    BY <1>1 DEF groupVars
  <1>2. CASE Poll(c)
    BY <1>2 DEF Poll, PollFetches
  <1>3. CASE (\E p \in Partitions : AddRecord(c, p)) \/ SendCancelled(c) \/ RecordAdded(c)
    BY <1>1, <1>3 DEF AddRecord, SendCancelled, RecordAdded
  <1>4. CASE PauseFetch(c) \/ Resume(c) \/ LoopExit(c) \/ CloseTrackers(c) \/ Stopped(c)
    BY <1>1, <1>4 DEF PauseFetch, Resume, LoopExit, CloseTrackers, Stopped
  <1>5. ASSUME NEW p, NEW g, TrackerStep(c, p, g) \/ ReadBatchOfLoop(c, p, g)
        PROVE  UNCHANGED <<owner, committed, fenced, assigned, head, callback, delivered>>
    <2>1. FlushTimer(c, p, g) => UNCHANGED groupVars
      BY DEF FlushTimer
    <2>2. TrackFlushed(c, p, g) => UNCHANGED groupVars
      BY DEF TrackFlushed
    <2>3. LoopStopped(c, p, g) => UNCHANGED groupVars
      BY DEF LoopStopped
    <2>4. ReadBatchOfLoop(c, p, g) => UNCHANGED groupVars
      BY DEF ReadBatchOfLoop
    <2> QED BY <1>1, <1>5, <2>1, <2>2, <2>3, <2>4 DEF TrackerStep
  <1>6. CASE ReadBatchOfAdd(c) \/ LockForRemove(c)
    BY <1>1, <1>6 DEF ReadBatchOfAdd, LockForRemove
  <1>7. CASE \E p \in Partitions : RemovePartition(c, p) \/ PartitionRemoved(c, p)
    BY <1>1, <1>7 DEF RemovePartition, PartitionRemoved
  <1> QED BY <1>1, <1>2, <1>3, <1>4, <1>5, <1>6, <1>7 DEF LoopStep, ReadBatch

\* A callback that holds the mutex is still removing partitions.
RemoveHolds == \A c \in Clients : mut[c] = "callback" => callback[c].stage = "remove"

\* Every step keeps that.
LEMMA RemoveHoldsStep ==
    ASSUME TypeInv, RemoveHolds, [Next]_vars
    PROVE  RemoveHolds'
  <1>1. GroupTypeOK /\ mut \in [Clients -> {"free", "loop", "callback"}]
    BY DEF TypeInv, TypeOK
  <1>2. CASE UNCHANGED vars
    BY <1>2 DEF vars, groupVars, readerVars, RemoveHolds
  <1>3. ASSUME UNCHANGED <<mut, callback>> PROVE RemoveHolds'
    BY <1>3 DEF RemoveHolds
  <1>4. ASSUME NEW c \in Clients, NEW x \in {"free", "loop"}, mut' = [mut EXCEPT ![c] = x],
               \A d \in Clients : d # c => callback'[d] = callback[d]
        PROVE  RemoveHolds'
    <2>1. \A d \in Clients : mut'[d] = IF d = c THEN x ELSE mut[d]
      BY <1>1, <1>4
    <2> QED BY <1>4, <2>1 DEF RemoveHolds
  <1>5. ASSUME NEW c \in Clients, UNCHANGED mut, callback[c].stage # "remove",
               \A d \in Clients : d # c => callback'[d] = callback[d]
        PROVE  RemoveHolds'
    BY <1>5 DEF RemoveHolds
  <1>6. ASSUME NEW c \in Clients, LoopStep(c) PROVE RemoveHolds'
    <2>1. CASE Poll(c)
      BY <1>3, <2>1 DEF Poll, PollFetches
    <2>2. ASSUME NEW p \in Partitions, AddRecord(c, p) PROVE RemoveHolds'
      <3>1. mut' = [mut EXCEPT ![c] = "loop"] /\ UNCHANGED groupVars
        BY <2>2 DEF AddRecord
      <3> QED BY <1>4, <3>1 DEF groupVars
    <2>3. CASE RecordAdded(c)
      <3>1. mut' = [mut EXCEPT ![c] = "free"] /\ UNCHANGED groupVars
        BY <2>3 DEF RecordAdded
      <3> QED BY <1>4, <3>1 DEF groupVars
    <2>4. CASE SendCancelled(c) \/ PauseFetch(c) \/ Resume(c) \/ LoopExit(c)
      BY <1>3, <2>4 DEF SendCancelled, PauseFetch, Resume, LoopExit, groupVars
    <2> QED BY <1>6, <2>1, <2>2, <2>3, <2>4 DEF LoopStep
  <1>7. ASSUME NEW c \in Clients, NEW p, NEW g, TrackerStep(c, p, g) \/ ReadBatchOfLoop(c, p, g)
        PROVE  RemoveHolds'
    <2>1. FlushTimer(c, p, g) => UNCHANGED <<groupVars, mut>>
      BY DEF FlushTimer
    <2>2. TrackFlushed(c, p, g) => UNCHANGED <<groupVars, mut>>
      BY DEF TrackFlushed
    <2>3. LoopStopped(c, p, g) => UNCHANGED <<groupVars, mut>>
      BY DEF LoopStopped
    <2>4. ReadBatchOfLoop(c, p, g) => UNCHANGED <<groupVars, mut>>
      BY DEF ReadBatchOfLoop
    <2> QED BY <1>3, <1>7, <2>1, <2>2, <2>3, <2>4 DEF TrackerStep, groupVars
  <1>8. ASSUME NEW c \in Clients, ReadBatchOfAdd(c) PROVE RemoveHolds'
    <2>1. UNCHANGED <<groupVars, mut>>
      BY <1>8 DEF ReadBatchOfAdd
    <2> QED BY <1>3, <2>1 DEF groupVars
  <1>9. ASSUME NEW c \in Clients, NEW p, NEW g, NEW i, Ack(c, p, g, i) PROVE RemoveHolds'
    <2>1. UNCHANGED <<callback, mut>>
      BY <1>9 DEF Ack
    <2> QED BY <1>3, <2>1
  <1>10. ASSUME NEW c \in Clients, RemoveStep(c) PROVE RemoveHolds'
    <2>1. CASE LockForRemove(c)
      <3>1. \A d \in Clients : mut'[d] = IF d = c THEN "callback" ELSE mut[d]
        BY <1>1, <2>1 DEF LockForRemove
      <3>2. callback[c].stage = "remove" /\ UNCHANGED callback
        BY <2>1 DEF LockForRemove, groupVars
      <3> QED BY <3>1, <3>2 DEF RemoveHolds
    <2>2. ASSUME NEW p, RemovePartition(c, p) \/ PartitionRemoved(c, p) PROVE RemoveHolds'
      <3>1. UNCHANGED <<groupVars, mut>>
        BY <2>2 DEF RemovePartition, PartitionRemoved
      <3> QED BY <1>3, <3>1 DEF groupVars
    <2>3. CASE UnlockAfterRemove(c)
      <3>1. mut' = [mut EXCEPT ![c] = "free"] /\ callback' = [callback EXCEPT ![c].stage = "clean"]
        BY <2>3 DEF UnlockAfterRemove
      <3>2. \A d \in Clients : d # c => callback'[d] = callback[d]
        BY <1>1, <3>1 DEF GroupTypeOK
      <3> QED BY <1>4, <3>1, <3>2
    <2>4. CASE Returned(c)
      BY <1>1, <1>5, <2>4 DEF Returned, CallbackReturned, readerVars, GroupTypeOK
    <2> QED BY <1>10, <2>1, <2>2, <2>3, <2>4 DEF RemoveStep
  <1>11. ASSUME NEW c \in Clients, RebalanceStep(c) PROVE RemoveHolds'
    <2>1. ASSUME NEW p \in Partitions, Assign(c, p) PROVE RemoveHolds'
      BY <1>3, <2>1 DEF Assign, AssignPartition, readerVars
    <2>2. ASSUME NEW parts \in SUBSET Partitions, Revoke(c, parts) PROVE RemoveHolds'
      BY <1>1, <1>5, <2>2 DEF Revoke, OnPartitionsRevoked, readerVars, GroupTypeOK, Idle
    <2>3. CASE Lost(c)
      BY <1>1, <1>5, <2>3 DEF Lost, OnPartitionsLost, readerVars, GroupTypeOK, Idle
    <2>4. CASE Thrown(c) \/ Committer(c)
      BY <1>3, <2>4 DEF Thrown, Evict, Committer, AutoCommit, readerVars
    <2> QED BY <1>11, <2>1, <2>2, <2>3, <2>4 DEF RebalanceStep
  <1>12. ASSUME NEW c \in Clients, ProcessStep(c) PROVE RemoveHolds'
    <2>1. CASE Close(c)
      BY <1>3, <2>1 DEF Close
    <2>2. CASE CloseClient(c)
      BY <1>1, <1>5, <2>2 DEF CloseClient, OnPartitionsRevoked, readerVars, GroupTypeOK, Idle
    <2>3. CASE CloseTrackers(c) \/ Stopped(c)
      <3>1. UNCHANGED <<groupVars, mut>>
        BY <2>3 DEF CloseTrackers, Stopped
      <3> QED BY <1>3, <3>1 DEF groupVars
    <2>4. CASE Restart(c) \/ Crash(c)
      <3>1. ReaderGone(c) /\ ProcessGone(c)
        BY <2>4 DEF Restart, Crash
      <3>2. mut' = [mut EXCEPT ![c] = "free"] /\ callback' = [callback EXCEPT ![c] = Idle]
        BY <3>1 DEF ReaderGone, ProcessGone
      <3>3. \A d \in Clients : d # c => callback'[d] = callback[d]
        BY <1>1, <3>2 DEF GroupTypeOK
      <3> QED BY <1>4, <3>2, <3>3
    <2> QED BY <1>12, <2>1, <2>2, <2>3, <2>4 DEF ProcessStep, CloseStep
  <1> QED BY <1>2, <1>6, <1>7, <1>8, <1>9, <1>10, <1>11, <1>12 DEF Next, AckSome, ReadBatch

\* Every step keeps the owners, and moves no committed offset back.
LEMMA OwnershipStep ==
    ASSUME Inv, RemoveHolds, Ownership, [Next]_vars
    PROVE  Ownership' /\ Forward
  <1>1. GroupTypeOK /\ MarksOnlyOwned
    BY DEF Inv, TypeInv, TypeOK, NoGaps, CellSound, MarkSound, MarksOnlyOwned
  <1>2. CASE UNCHANGED vars
    BY <1>1, <1>2, OwnershipFrame DEF vars, groupVars
  <1>3. ASSUME UNCHANGED <<owner, committed, fenced, assigned, head, callback>> PROVE Ownership' /\ Forward
    BY <1>1, <1>3, OwnershipFrame
  <1>4. ASSUME NEW c \in Clients,
               \/ LoopStep(c) \/ ReadBatch(c)
               \/ \E p \in Partitions : \E g \in 1 .. Current(c, p) : TrackerStep(c, p, g)
        PROVE  Ownership' /\ Forward
    BY <1>3, <1>4, ReaderSteps
  <1>5. ASSUME NEW c \in Clients, NEW p \in Partitions, AckSome(c, p) PROVE Ownership' /\ Forward
    BY <1>5, OwnershipAck DEF AckSome
  <1>6. ASSUME NEW c \in Clients, RemoveStep(c) PROVE Ownership' /\ Forward
    <2>1. CASE LockForRemove(c) \/ \E p \in Partitions : RemovePartition(c, p) \/ PartitionRemoved(c, p)
      BY <1>3, <2>1, ReaderSteps
    <2>2. CASE Returned(c)
      BY <1>1, <2>2, OwnershipCallback DEF Returned
    <2>3. CASE UnlockAfterRemove(c)
      <3>1. /\ callback' = [callback EXCEPT ![c].stage = "clean"]
            /\ UNCHANGED <<owner, committed, fenced, assigned, head>>
        BY <2>3 DEF UnlockAfterRemove
      <3>2. /\ callback'[c].parts = callback[c].parts /\ callback'[c].stage = "clean"
            /\ \A d \in Clients : d # c => callback'[d] = callback[d]
        BY <1>1, <3>1 DEF GroupTypeOK
      <3>3. callback[c] # Idle
        BY <2>3 DEF UnlockAfterRemove, RemoveHolds, Idle
      <3> QED BY <1>1, <3>1, <3>2, <3>3, OwnershipFrame
    <2> QED BY <1>6, <2>1, <2>2, <2>3 DEF RemoveStep
  <1>7. ASSUME NEW c \in Clients, RebalanceStep(c) PROVE Ownership' /\ Forward
    <2>1. ASSUME NEW p \in Partitions, Assign(c, p) PROVE Ownership' /\ Forward
      BY <1>1, <2>1, OwnershipAssign DEF Assign
    <2>2. ASSUME NEW parts \in SUBSET Partitions, Revoke(c, parts) PROVE Ownership' /\ Forward
      <3>1. /\ CommitMarkedOffsets(c) \/ UNCHANGED committed
            /\ UNCHANGED <<owner, fenced, assigned, head>> /\ c \notin fenced
            /\ \A d \in Clients : d # c => callback'[d] = callback[d]
        BY <1>1, <2>2 DEF Revoke, OnPartitionsRevoked, GroupTypeOK
      <3> QED BY <1>1, <3>1, OwnershipCommit
    <2>3. CASE Lost(c)
      BY <1>1, <2>3, OwnershipCallback DEF Lost
    <2>4. CASE Thrown(c)
      BY <1>1, <2>4, OwnershipLeave DEF Thrown
    <2>5. CASE Committer(c)
      BY <1>1, <2>5, OwnershipCommit DEF Committer, AutoCommit
    <2> QED BY <1>7, <2>1, <2>2, <2>3, <2>4, <2>5 DEF RebalanceStep
  <1>8. ASSUME NEW c \in Clients, ProcessStep(c) PROVE Ownership' /\ Forward
    <2>1. CASE Close(c)
      BY <1>3, <2>1 DEF Close
    <2>2. CASE CloseClient(c)
      <3>1. /\ CommitMarkedOffsets(c) \/ UNCHANGED committed
            /\ UNCHANGED <<owner, fenced, assigned, head>> /\ c \notin fenced
            /\ \A d \in Clients : d # c => callback'[d] = callback[d]
        BY <1>1, <2>2 DEF CloseClient, OnPartitionsRevoked, GroupTypeOK
      <3> QED BY <1>1, <3>1, OwnershipCommit
    <2>3. CASE Restart(c) \/ Crash(c)
      BY <1>1, <2>3, OwnershipLeave DEF Restart, Crash
    <2>4. CASE CloseTrackers(c) \/ Stopped(c)
      BY <1>3, <2>4, ReaderSteps
    <2> QED BY <1>8, <2>1, <2>2, <2>3, <2>4 DEF ProcessStep, CloseStep
  <1> QED BY <1>2, <1>4, <1>5, <1>6, <1>7, <1>8 DEF Next

\* Types, gaps and owners, all the time.
LEMMA OwnershipAlways ==
    ASSUME ~RebalanceInPollWindow, OneFlusher
    PROVE  Spec => [](Inv /\ RemoveHolds /\ Ownership)
  <1>1. Init => Inv /\ RemoveHolds /\ Ownership
    BY TypeInit, NoGapsInit, OwnershipInit DEF Inv, Init, RemoveHolds
  <1>2. Inv /\ RemoveHolds /\ Ownership /\ [Next]_vars => Inv' /\ RemoveHolds' /\ Ownership'
    BY TypeStep, NoGapsStep, RemoveHoldsStep, OwnershipStep DEF Inv
  <1> QED BY <1>1, <1>2, PTL DEF Spec

\* No step moves a committed offset back: a member the coordinator has not
\* thrown out has marks only for partitions it owns, and marks only go up.
THEOREM CommitsGoForward ==
    ASSUME ~RebalanceInPollWindow, OneFlusher
    PROVE  Spec => CommitNeverRewinds
  <1>1. Inv /\ RemoveHolds /\ Ownership /\ [Next]_vars => [\A p \in Partitions : committed'[p] >= committed[p]]_vars
    BY OwnershipStep DEF Forward
  <1> QED BY <1>1, OwnershipAlways, PTL DEF Spec, CommitNeverRewinds

\* A step confirms nothing, or it is an acknowledgement, which confirms records
\* of one partition and commits nothing.
LEMMA StepDelivers ==
    ASSUME TypeInv, [Next]_vars
    PROVE  \/ delivered' = delivered
           \/ /\ committed' = committed
              /\ \E p \in Partitions : \E D \in SUBSET Offsets :
                    delivered' = [delivered EXCEPT ![p] = @ \cup D]
  <1>1. CASE UNCHANGED vars
    BY <1>1 DEF vars, groupVars
  <1>2. ASSUME NEW c \in Clients,
               \/ LoopStep(c) \/ ReadBatch(c)
               \/ \E p \in Partitions : \E g \in 1 .. Current(c, p) : TrackerStep(c, p, g)
        PROVE  delivered' = delivered
    BY <1>2, ReaderSteps
  <1>3. ASSUME NEW c \in Clients, NEW p \in Partitions, NEW g \in 1 .. Current(c, p), NEW i, Ack(c, p, g, i)
        PROVE  /\ committed' = committed
               /\ \E D \in SUBSET Offsets : delivered' = [delivered EXCEPT ![p] = @ \cup D]
    <2>1. PICK t \in Tracker : t = trackers[c][p][g] /\ Shape(t)
      BY AnyTracker
    <2>2. PICK D : D = t.log[i].recs
      OBVIOUS
    <2>3. i \in t.out /\ committed' = committed /\ delivered' = [delivered EXCEPT ![p] = @ \cup D]
      BY <1>3, <2>1, <2>2 DEF Ack
    <2>4. i \in 1 .. Len(t.log)
      BY <2>1, <2>3 DEF Shape
    <2>5. D \in SUBSET Offsets
      BY <2>2, <2>4, LogBatch
    <2> QED BY <2>3, <2>5
  <1>4. ASSUME NEW c \in Clients, RemoveStep(c) PROVE delivered' = delivered
    <2>1. CASE LockForRemove(c) \/ \E p \in Partitions : RemovePartition(c, p) \/ PartitionRemoved(c, p)
      BY <2>1, ReaderSteps
    <2>2. CASE Returned(c) \/ UnlockAfterRemove(c)
      BY <2>2 DEF Returned, CallbackReturned, UnlockAfterRemove
    <2> QED BY <1>4, <2>1, <2>2 DEF RemoveStep
  <1>5. ASSUME NEW c \in Clients, RebalanceStep(c) PROVE delivered' = delivered
    <2>1. ASSUME NEW p \in Partitions, Assign(c, p) PROVE delivered' = delivered
      BY <2>1 DEF Assign, AssignPartition
    <2>2. ASSUME NEW parts \in SUBSET Partitions, Revoke(c, parts) PROVE delivered' = delivered
      BY <2>2 DEF Revoke, OnPartitionsRevoked
    <2>3. CASE Lost(c) \/ Thrown(c) \/ Committer(c)
      BY <2>3 DEF Lost, OnPartitionsLost, Thrown, Evict, Committer, AutoCommit
    <2> QED BY <1>5, <2>1, <2>2, <2>3 DEF RebalanceStep
  <1>6. ASSUME NEW c \in Clients, ProcessStep(c) PROVE delivered' = delivered
    <2>1. CASE CloseTrackers(c) \/ Stopped(c)
      BY <2>1, ReaderSteps
    <2>2. CASE Close(c) \/ CloseClient(c) \/ Restart(c) \/ Crash(c)
      BY <2>2 DEF Close, CloseClient, OnPartitionsRevoked, Restart, Crash, ProcessGone
    <2> QED BY <1>6, <2>1, <2>2 DEF ProcessStep, CloseStep
  <1> QED BY <1>1, <1>2, <1>3, <1>4, <1>5, <1>6 DEF Next, AckSome

\* Any run of a group of unordered readers with one flusher, outside the poll
\* window, with its rebalances, evictions, crashes and failed commits, is a run
\* of an input that moves one position per partition forward over confirmed
\* records.
THEOREM ImplementsAtLeastOnceInput ==
    ASSUME ~RebalanceInPollWindow, OneFlusher
    PROVE  Spec => ImplementsInput
  <1>1. Init => Group!Init
    BY GroupStarts DEF Init
  <1>2. ASSUME Inv, RemoveHolds, Ownership, Inv', [Next]_vars PROVE [Group!Next]_(Group!inputVars)
    <2>1. Forward
      BY <1>2, OwnershipStep
    <2>2. TypeInv /\ GroupTypeOK /\ GroupTypeOK' /\ AtLeastOnce'
      BY <1>2 DEF Inv, TypeInv, TypeOK, NoGaps
    <2> QED BY <1>2, <2>1, <2>2, StepDelivers, GroupSteps
  <1>3. Inv /\ RemoveHolds /\ Ownership /\ Inv' /\ [Next]_vars => [Group!Next]_(Group!inputVars)
    BY <1>2
  <1> QED BY <1>1, <1>3, OwnershipAlways, PTL DEF Spec, ImplementsInput, Group!Spec

=============================================================================
