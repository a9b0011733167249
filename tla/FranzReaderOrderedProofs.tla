---------------------- MODULE FranzReaderOrderedProofs ----------------------
(***************************************************************************)
(* Theorems about FranzReaderOrdered, for any number of clients,           *)
(* partitions, records and disruptions and for any sizes.                  *)
(***************************************************************************)
EXTENDS FranzReaderOrdered, KgoGroupProofs, SumProofs, SequenceTheorems, TLAPS

\* Every cache of every process has the shape of a cache.
Shape ==
    \A c \in Clients, p \in Partitions : \A g \in 1 .. Current(c, p) :
        CacheShape(caches[c][p][g])

\* A tracked partition has a cache.
TrackedCached ==
    \A c \in Clients, p \in Partitions : p \in tracked[c] => Current(c, p) > 0

\* The inductive invariant behind TypeOK.
TypeInv == TypeOK /\ Shape /\ TrackedCached

USE NumRecordsAssumption, DisruptionsAssumption, NoClientAssumption, SizesAssumption
    DEF NoMark, NoClient, Offsets, Positions

-----------------------------------------------------------------------------
(* Facts about caches.                                                     *)

\* A new cache has the type and the shape of a cache.
LEMMA NewCacheType ==
    ASSUME NEW start \in Positions
    PROVE  /\ newPartitionCache(start) \in Cache
           /\ CacheShape(newPartitionCache(start))
  BY DEF newPartitionCache, Cache, CacheShape

\* push appends the records and keeps type and shape: whatever the sizes, a
\* batch ends at a record of the cache.
LEMMA PushType ==
    ASSUME NEW k \in Cache, CacheShape(k), NEW recs \in Seq(Offsets)
    PROVE  /\ push(k, recs) \in Cache
           /\ CacheShape(push(k, recs))
           /\ push(k, recs) = [k EXCEPT !.recs = k.recs \o recs,
                                        !.ends = push(k, recs).ends]
  <1>1. k.recs \o recs \in Seq(Offsets) /\ Len(k.recs \o recs) = Len(k.recs) + Len(recs)
    BY DEF Cache
  <1>2. PushEnds(k, recs) \subseteq 1 .. Len(k.recs \o recs)
    <2>1. PushEnds(k, recs) \subseteq {e \in k.ends : e <= k.out}
                                  \cup ((k.out + 1) .. Len(k.recs \o recs))
      BY DEF PushEnds
    <2>2. k.out \in Nat /\ Len(k.recs) \in Nat /\ Len(recs) \in Nat
      BY DEF Cache
    <2>3. k.ends \subseteq 1 .. Len(k.recs)
      BY DEF CacheShape
    <2>4. PICK n \in Nat : n = Len(k.recs \o recs) /\ Len(k.recs) <= n
      BY <1>1, <2>2
    <2>5. 1 .. Len(k.recs) \subseteq 1 .. n /\ (k.out + 1) .. n \subseteq 1 .. n
      BY <2>2, <2>4
    <2> QED BY <2>1, <2>3, <2>4, <2>5
  <1>3. PushEnds(k, recs) \in SUBSET Nat
    BY <1>1, <1>2
  <1>4. push(k, recs) = [k EXCEPT !.recs = k.recs \o recs, !.ends = PushEnds(k, recs)]
    BY DEF push
  <1>5. push(k, recs) \in Cache
    BY <1>1, <1>3, <1>4 DEF Cache
  <1>6. CacheShape(push(k, recs))
    BY <1>1, <1>2, <1>4 DEF Cache, CacheShape
  <1> QED BY <1>4, <1>5, <1>6 DEF Cache

\* The records of a batch lie in the cache up to the end of the batch.
LEMMA BatchOfType ==
    ASSUME NEW k \in Cache, CacheShape(k), NEW e \in k.ends
    PROVE  /\ BatchOf(k, e) \subseteq 1 .. e
           /\ BatchOf(k, e) \subseteq 1 .. Len(k.recs)
           /\ \A i \in BatchOf(k, e) : k.recs[i] \in Offsets
  <1>1. /\ e \in 1 .. Len(k.recs) /\ Len(k.recs) \in Nat
        /\ \A i \in 1 .. Len(k.recs) : k.recs[i] \in Offsets
    BY SMTT(60) DEF Cache, CacheShape
  <1>2. BatchOf(k, e) \subseteq 1 .. e
    BY DEF BatchOf
  <1>3. 1 .. e \subseteq 1 .. Len(k.recs)
    BY <1>1
  <1> QED BY <1>1, <1>2, <1>3

\* A batch has a first record, whose offset is its key in pendingDispatch.
LEMMA BatchIDType ==
    ASSUME NEW k \in Cache, CacheShape(k), NEW e \in k.ends
    PROVE  /\ Min(BatchOf(k, e)) \in BatchOf(k, e)
           /\ BatchID(k, e) \in Offsets
  <1>1. PICK B : B = BatchOf(k, e)
    OBVIOUS
  <1>2. e \in 1 .. Len(k.recs) /\ k.ends \subseteq Nat
    BY DEF Cache, CacheShape
  <1>3. e \in B
    BY <1>1, <1>2 DEF BatchOf
  <1>4. B \subseteq 1 .. e
    BY <1>1, BatchOfType
  <1>5. B \in SUBSET Nat
    BY <1>4
  <1>6. \E n \in B : \A m \in B : n <= m
    BY <1>3, <1>5, Least
  <1>7. Min(B) \in B
    BY <1>6 DEF Min
  <1> QED BY <1>1, <1>7, BatchOfType DEF BatchID

\* Different batches of a cache share no record.
LEMMA BatchesApart ==
    ASSUME NEW k \in Cache, NEW x \in k.ends, NEW e \in k.ends, x # e
    PROVE  BatchOf(k, x) \cap BatchOf(k, e) = {}
  <1>1. x \in Nat /\ e \in Nat
    BY DEF Cache
  <1>2. CASE x < e
    <2>1. \A i \in BatchOf(k, e) : x < i /\ i \in Nat
      BY <1>1, <1>2 DEF BatchOf
    <2>2. \A i \in BatchOf(k, x) : i <= x /\ i \in Nat
      BY <1>1 DEF BatchOf
    <2> QED BY <1>1, <2>1, <2>2
  <1>3. CASE e < x
    <2>1. \A i \in BatchOf(k, x) : e < i /\ i \in Nat
      BY <1>1, <1>3 DEF BatchOf
    <2>2. \A i \in BatchOf(k, e) : i <= e /\ i \in Nat
      BY <1>1 DEF BatchOf
    <2> QED BY <1>1, <2>1, <2>2
  <1> QED BY <1>1, <1>2, <1>3

\* push leaves the batches that were handed out as they are.
LEMMA PushHandedOut ==
    ASSUME NEW k \in Cache, CacheShape(k), NEW recs \in Seq(Offsets)
    PROVE  /\ InFlight(push(k, recs)) = InFlight(k)
           /\ \A e \in k.ends : e <= k.out => BatchOf(push(k, recs), e) = BatchOf(k, e)
           /\ k.out \in k.ends => k.out \in push(k, recs).ends
  <1>1. PICK r : r = push(k, recs)
    OBVIOUS
  <1>2. r.ends = PushEnds(k, recs) /\ r.out = k.out /\ r.acked = k.acked
    BY <1>1 DEF push, Cache
  <1>3. k.out \in Nat /\ k.ends \subseteq Nat /\ Len(k.recs \o recs) \in Nat
    BY DEF Cache
  <1>4. ASSUME NEW x PROVE x <= k.out => (x \in r.ends <=> x \in k.ends)
    <2>1. /\ PushEnds(k, recs) \subseteq {e \in k.ends : e <= k.out}
                                   \cup ((k.out + 1) .. Len(k.recs \o recs))
          /\ {e \in k.ends : e <= k.out} \subseteq PushEnds(k, recs)
      BY DEF PushEnds
    <2>2. x \in (k.out + 1) .. Len(k.recs \o recs) => ~(x <= k.out)
      BY <1>3
    <2> QED BY <1>2, <2>1, <2>2
  <1>5. InFlight(r) = InFlight(k)
    BY <1>2, <1>4 DEF InFlight
  <1>6. ASSUME NEW e \in k.ends, e <= k.out PROVE BatchOf(r, e) = BatchOf(k, e)
    <2>1. e \in Nat /\ e <= k.out
      BY <1>3, <1>6
    <2>2. r.ends \subseteq Nat
      <3>1. r \in Cache
        BY <1>1, PushType
      <3> QED BY <3>1 DEF Cache
    <2>3. ASSUME NEW x PROVE x \in r.ends /\ x < e <=> x \in k.ends /\ x < e
      <3>1. CASE x \in Nat
        BY <1>3, <1>4, <2>1, <3>1
      <3>2. CASE x \notin Nat
        BY <1>3, <2>2, <3>2
      <3> QED BY <3>1, <3>2
    <2> QED BY <2>3 DEF BatchOf
  <1>7. k.out \in k.ends => k.out \in r.ends
    BY <1>3, <1>4
  <1> QED BY <1>1, <1>5, <1>6, <1>7

\* The shape of a cache depends on four of its fields.
LEMMA SameShape ==
    ASSUME NEW k, NEW r, CacheShape(k),
           r.out = k.out, r.recs = k.recs, r.ends = k.ends, r.acked = k.acked
    PROVE  CacheShape(r)
  BY DEF CacheShape

CachesType == caches \in [Clients -> [Partitions -> Seq(Cache)]]

\* Cache g of client c for p becomes r, and nothing else changes.
CacheReplaced(c, p, g, r) ==
    \A d \in Clients, q \in Partitions :
        /\ Len(caches'[d][q]) = Len(caches[d][q])
        /\ \A h \in 1 .. Len(caches[d][q]) :
              caches'[d][q][h] = IF d = c /\ q = p /\ h = g THEN r ELSE caches[d][q][h]

\* Client c gets the cache r for p, behind those it has.
CacheAppended(c, p, r) ==
    /\ \A d \in Clients, q \in Partitions :
          /\ Len(caches'[d][q]) = IF d = c /\ q = p THEN Len(caches[d][q]) + 1
                                                   ELSE Len(caches[d][q])
          /\ \A h \in 1 .. Len(caches[d][q]) : caches'[d][q][h] = caches[d][q][h]
    /\ caches'[c][p][Len(caches[c][p]) + 1] = r

\* Replacing one cache leaves all others as they are.
LEMMA UpdateCache ==
    ASSUME CachesType, NEW c \in Clients, NEW p \in Partitions,
           NEW g \in 1 .. Len(caches[c][p]), NEW r \in Cache,
           caches' = [caches EXCEPT ![c][p][g] = r]
    PROVE  CachesType' /\ CacheReplaced(c, p, g, r)
  <1> DEFINE new == [caches[c][p] EXCEPT ![g] = r]
  <1>1. caches[c][p] \in Seq(Cache)
    BY DEF CachesType
  <1>2. new \in Seq(Cache) /\ Len(new) = Len(caches[c][p])
        /\ \A h \in 1 .. Len(caches[c][p]) : new[h] = IF h = g THEN r ELSE caches[c][p][h]
    BY <1>1, ExceptSeq
  <1>3. caches' = [caches EXCEPT ![c][p] = new]
    OBVIOUS
  <1> HIDE DEF new
  <1>4. CachesType'
    BY <1>2, <1>3 DEF CachesType
  <1>5. \A d \in Clients, q \in Partitions :
           caches'[d][q] = IF d = c /\ q = p THEN new ELSE caches[d][q]
    <2>1. caches'[c] = [caches[c] EXCEPT ![p] = new]
          /\ \A d \in Clients : d # c => caches'[d] = caches[d]
      BY <1>3 DEF CachesType
    <2>2. caches[c] \in [Partitions -> Seq(Cache)]
      BY DEF CachesType
    <2>3. \A q \in Partitions : caches'[c][q] = IF q = p THEN new ELSE caches[c][q]
      BY <2>1, <2>2
    <2> QED BY <2>1, <2>3
  <1> QED BY <1>2, <1>4, <1>5 DEF CacheReplaced

\* Appending a cache leaves the earlier ones as they are.
LEMMA AppendCache ==
    ASSUME CachesType, NEW c \in Clients, NEW p \in Partitions, NEW r \in Cache,
           caches' = [caches EXCEPT ![c][p] = Append(caches[c][p], r)]
    PROVE  CachesType' /\ CacheAppended(c, p, r)
  <1>1. CachesType'
    BY DEF CachesType
  <1>2. \A d \in Clients, q \in Partitions :
           caches'[d][q] = IF d = c /\ q = p THEN Append(caches[c][p], r) ELSE caches[d][q]
    BY DEF CachesType
  <1>3. caches[c][p] \in Seq(Cache)
    BY DEF CachesType
  <1>4. /\ Len(Append(caches[c][p], r)) = Len(caches[c][p]) + 1
        /\ Append(caches[c][p], r)[Len(caches[c][p]) + 1] = r
        /\ \A h \in 1 .. Len(caches[c][p]) : Append(caches[c][p], r)[h] = caches[c][p][h]
    BY <1>3
  <1>5. caches'[c][p] = Append(caches[c][p], r)
    BY <1>2
  <1>6. ASSUME NEW d \in Clients, NEW q \in Partitions
        PROVE  /\ Len(caches'[d][q]) = IF d = c /\ q = p THEN Len(caches[d][q]) + 1
                                                         ELSE Len(caches[d][q])
               /\ \A h \in 1 .. Len(caches[d][q]) : caches'[d][q][h] = caches[d][q][h]
    <2>1. CASE d = c /\ q = p
      BY <1>4, <1>5, <2>1
    <2>2. CASE ~(d = c /\ q = p)
      <3>1. caches'[d][q] = caches[d][q]
        BY <1>2, <2>2
      <3> QED BY <2>2, <3>1
    <2> QED BY <2>1, <2>2
  <1> QED BY <1>1, <1>4, <1>5, <1>6 DEF CacheAppended

-----------------------------------------------------------------------------
(* Type correctness.                                                       *)

\* Steps that leave the caches alone keep their shape.
LEMMA SameCaches ==
    ASSUME Shape, TrackedCached, UNCHANGED <<caches, tracked>>
    PROVE  Shape' /\ TrackedCached'
  BY DEF Shape, TrackedCached, Current

\* Replacing a cache by one of the right type and shape keeps Shape.
LEMMA UpdateShape ==
    ASSUME TypeInv, NEW c \in Clients, NEW p \in Partitions,
           NEW g \in 1 .. Len(caches[c][p]), NEW r \in Cache, CacheShape(r),
           caches' = [caches EXCEPT ![c][p][g] = r],
           tracked' = tracked
    PROVE  CachesType' /\ Shape' /\ TrackedCached'
  <1>1. CachesType
    BY DEF TypeInv, TypeOK, CachesType
  <1>2. CachesType' /\ CacheReplaced(c, p, g, r)
    BY <1>1, UpdateCache
  <1>3. ASSUME NEW d \in Clients, NEW q \in Partitions, NEW h \in 1 .. Len(caches'[d][q])
        PROVE  CacheShape(caches'[d][q][h])
    <2>1. h \in 1 .. Len(caches[d][q]) /\ CacheShape(caches[d][q][h])
      BY <1>2 DEF TypeInv, Shape, Current, CacheReplaced
    <2> QED BY <1>2, <2>1 DEF CacheReplaced
  <1>4. TrackedCached'
    BY <1>2 DEF TypeInv, TrackedCached, Current, CacheReplaced
  <1> QED BY <1>2, <1>3, <1>4 DEF Shape, Current

\* Appending a cache of the right type and shape keeps Shape.
LEMMA AppendShape ==
    ASSUME TypeInv, NEW c \in Clients, NEW p \in Partitions, NEW r \in Cache, CacheShape(r),
           caches' = [caches EXCEPT ![c][p] = Append(caches[c][p], r)],
           tracked' = [tracked EXCEPT ![c] = @ \cup {p}]
    PROVE  CachesType' /\ Shape' /\ TrackedCached'
  <1>1. CachesType
    BY DEF TypeInv, TypeOK, CachesType
  <1>2. CachesType' /\ CacheAppended(c, p, r)
    BY <1>1, AppendCache
  <1>3. ASSUME NEW d \in Clients, NEW q \in Partitions, NEW h \in 1 .. Len(caches'[d][q])
        PROVE  CacheShape(caches'[d][q][h])
    <2>1. Len(caches[d][q]) \in Nat
      BY <1>1 DEF CachesType
    <2>2. CASE h \in 1 .. Len(caches[d][q])
      BY <1>2, <2>2 DEF TypeInv, Shape, Current, CacheAppended
    <2>3. CASE h \notin 1 .. Len(caches[d][q])
      <3>1. d = c /\ q = p /\ h = Len(caches[c][p]) + 1
        BY <1>2, <2>1, <2>3 DEF CacheAppended
      <3> QED BY <1>2, <3>1 DEF CacheAppended
    <2> QED BY <2>2, <2>3
  <1>4. \A d \in Clients, q \in Partitions : Len(caches[d][q]) \in Nat
    BY <1>1 DEF CachesType
  <1>5. TrackedCached'
    BY <1>2, <1>4 DEF TypeInv, TypeOK, TrackedCached, Current, CacheAppended
  <1> QED BY <1>2, <1>3, <1>5 DEF Shape, Current

\* A process that has just connected satisfies the type invariant.
LEMMA TypeInit == Init => TypeInv
  BY DEF Init, GroupInit, Idle, NoFetch, TypeInv, TypeOK, GroupTypeOK, Shape,
         TrackedCached, Current

\* PollFetches preserves the type invariant: it gives records the partition
\* has.
LEMMA TypePoll ==
    ASSUME TypeInv, NEW c \in Clients, NEW count \in [Partitions -> 0 .. FetchMax],
           PollFetches(c, count)
    PROVE  TypeInv'
  <1> USE DEF PollFetches, TypeInv, TypeOK, GroupTypeOK
  <1>1. ASSUME NEW p \in Partitions
        PROVE  position[c][p] + count[p] \in Positions
    BY <1>1
  <1>2. ASSUME NEW p \in Partitions
        PROVE  [i \in 1 .. count[p] |-> position[c][p] + i - 1] \in Seq(Offsets)
    <2>1. \A i \in 1 .. count[p] : position[c][p] + i - 1 \in Offsets
      BY <1>1
    <2>2. count[p] \in Nat
      OBVIOUS
    <2> HIDE DEF PollFetches, TypeInv, TypeOK, GroupTypeOK
    <2> QED BY <2>1, <2>2
  <1>3. position' \in [Clients -> [Partitions -> Positions]]
    BY <1>1
  <1>4. fetch' \in [Clients -> [Partitions -> Seq(Offsets)]]
    BY <1>2
  <1>5. Shape' /\ TrackedCached'
    BY SameCaches
  <1> QED BY <1>3, <1>4, <1>5

\* addRecords for the polled records of one partition preserves it, with an
\* old cache or a new one.
LEMMA TypeFile ==
    ASSUME TypeInv, NEW c \in Clients, NEW p \in Partitions, FileRecords(c, p)
    PROVE  TypeInv'
  <1> DEFINE recs == fetch[c][p]
             g == Current(c, p)
  <1>1. recs \in Seq(Offsets) /\ recs # <<>> /\ recs[1] \in Positions
    BY DEF FileRecords, TypeInv, TypeOK
  <1>2. CachesType' /\ Shape' /\ TrackedCached'
    <2>1. CASE p \in tracked[c]
      <3>1. caches' = [caches EXCEPT ![c][p][g] = push(caches[c][p][g], recs)]
        BY <2>1 DEF FileRecords, addRecords
      <3>2. g \in 1 .. Len(caches[c][p]) /\ caches[c][p][g] \in Cache
        BY <2>1 DEF TypeInv, TypeOK, TrackedCached, Current
      <3>3. CacheShape(caches[c][p][g])
        BY <3>2 DEF TypeInv, Shape, Current
      <3>4. /\ push(caches[c][p][g], recs) \in Cache
            /\ CacheShape(push(caches[c][p][g], recs))
        BY <1>1, <3>2, <3>3, PushType
      <3>5. tracked' = tracked
        BY <2>1 DEF FileRecords, addRecords, TypeInv, TypeOK
      <3> HIDE DEF g, recs
      <3> QED BY <3>1, <3>2, <3>4, <3>5, UpdateShape
    <2>2. CASE p \notin tracked[c]
      <3> DEFINE r == push(newPartitionCache(recs[1]), recs)
      <3>1. caches' = [caches EXCEPT ![c][p] = Append(caches[c][p], r)]
        BY <2>2 DEF FileRecords, addRecords
      <3>2. r \in Cache /\ CacheShape(r)
        BY <1>1, NewCacheType, PushType
      <3>3. tracked' = [tracked EXCEPT ![c] = @ \cup {p}]
        BY DEF FileRecords, addRecords
      <3> HIDE DEF r
      <3> QED BY <3>1, <3>2, <3>3, AppendShape
    <2> QED BY <2>1, <2>2
  <1>3. fetch' \in [Clients -> [Partitions -> Seq(Offsets)]]
    BY DEF FileRecords, TypeInv, TypeOK
  <1>4. tracked' \in [Clients -> SUBSET Partitions] /\ pausing' \in [Clients -> SUBSET Partitions]
    BY DEF FileRecords, addRecords, TypeInv, TypeOK
  <1>5. GroupTypeOK' /\ UNCHANGED <<softStop, pc, paused>>
    BY DEF FileRecords, TypeInv, TypeOK, GroupTypeOK, groupVars
  <1> QED
    BY <1>2, <1>3, <1>4, <1>5 DEF TypeInv, TypeOK, CachesType

\* Pausing, resuming and leaving the poll loop preserve it.
LEMMA TypeLoop ==
    ASSUME TypeInv, NEW c \in Clients, PauseFetch(c) \/ Resume(c) \/ LoopExit(c)
    PROVE  TypeInv'
  <1>1. Shape' /\ TrackedCached'
    BY SameCaches DEF TypeInv, PauseFetch, Resume, LoopExit
  <1>2. CASE PauseFetch(c)
    BY <1>1, <1>2 DEF PauseFetch, groupVars, TypeInv, TypeOK, GroupTypeOK
  <1>3. CASE Resume(c)
    BY <1>1, <1>3 DEF Resume, groupVars, TypeInv, TypeOK, GroupTypeOK
  <1>4. CASE LoopExit(c)
    BY <1>1, <1>4 DEF LoopExit, groupVars, TypeInv, TypeOK, GroupTypeOK
  <1> QED BY <1>2, <1>3, <1>4

\* Handing out the oldest queued batch (pop) preserves it.
LEMMA TypePop ==
    ASSUME TypeInv, NEW c \in Clients, NEW p \in Partitions, Pop(c, p)
    PROVE  TypeInv'
  <1> DEFINE g == Current(c, p)
             k == caches[c][p][g]
  <1>1. PICK e \in k.ends :
           /\ e > k.out
           /\ caches' = [caches EXCEPT ![c][p][g] =
                 [k EXCEPT !.out = e, !.pending = k.pending \cup {BatchID(k, e)}]]
    BY DEF Pop
  <1> DEFINE r == [k EXCEPT !.out = e, !.pending = k.pending \cup {BatchID(k, e)}]
  <1>2. g \in 1 .. Len(caches[c][p]) /\ k \in Cache
    BY DEF Pop, TypeInv, TypeOK, TrackedCached, Current
  <1>3. CacheShape(k)
    BY <1>2 DEF TypeInv, Shape, Current
  <1> HIDE DEF g, k
  <1>4. r \in Cache /\ CacheShape(r)
    <2>1. e \in 1 .. Len(k.recs) /\ Len(k.recs) \in Nat /\ k.out \in Nat /\ e \in Nat
      BY <1>2, <1>3 DEF Cache, CacheShape
    <2>2. BatchID(k, e) \in Offsets
      BY <1>2, <1>3, BatchIDType
    <2>3. r \in Cache
      BY <1>2, <2>1, <2>2 DEF Cache
    <2>4. r.out = e /\ r.recs = k.recs /\ r.ends = k.ends /\ r.acked = k.acked
      BY <1>2 DEF Cache
    <2> QED BY <1>1, <1>3, <2>1, <2>3, <2>4 DEF CacheShape
  <1> HIDE DEF r
  <1>5. CachesType' /\ Shape' /\ TrackedCached'
    <2>1. tracked' = tracked
      BY DEF Pop
    <2> QED BY <1>1, <1>2, <1>4, <2>1, UpdateShape DEF r
  <1> QED BY <1>5 DEF Pop, TypeInv, TypeOK, CachesType, GroupTypeOK, groupVars

\* A dispatch signal of one record preserves it.
LEMMA TypeDispatch ==
    ASSUME TypeInv, NEW c \in Clients, NEW p \in Partitions,
           NEW g \in 1 .. Current(c, p), NEW e, NEW i, Dispatch(c, p, g, e, i)
    PROVE  TypeInv'
  <1> DEFINE k == caches[c][p][g]
             r == [k EXCEPT !.fired = k.fired \cup {i},
                            !.pending = IF BatchOf(k, e) \subseteq k.fired \cup {i}
                                        THEN k.pending \ {BatchID(k, e)} ELSE k.pending]
  <1>1. caches' = [caches EXCEPT ![c][p][g] = r] /\ i \in BatchOf(k, e) /\ e \in k.ends
    BY DEF Dispatch, InFlight
  <1>2. g \in 1 .. Len(caches[c][p]) /\ k \in Cache /\ CacheShape(k)
    BY DEF TypeInv, TypeOK, Current, Shape
  <1>3. i \in Nat
    <2>1. BatchOf(k, e) \subseteq 1 .. Len(k.recs)
      BY <1>1, <1>2, BatchOfType
    <2> QED BY <1>1, <2>1
  <1>4. r \in Cache /\ CacheShape(r)
    BY <1>2, <1>3 DEF Cache, CacheShape
  <1> HIDE DEF k, r
  <1>5. CachesType' /\ Shape' /\ TrackedCached'
    <2>1. tracked' = tracked
      BY DEF Dispatch
    <2> QED BY <1>1, <1>2, <1>4, <2>1, UpdateShape
  <1> QED BY <1>5 DEF Dispatch, TypeInv, TypeOK, CachesType, GroupTypeOK, groupVars

\* An acknowledgement (onAck) preserves it: what it marks is an offset of the
\* partition.
LEMMA TypeAck ==
    ASSUME TypeInv, NEW c \in Clients, NEW p \in Partitions,
           NEW g \in 1 .. Current(c, p), NEW e, Ack(c, p, g, e)
    PROVE  TypeInv'
  <1> DEFINE k == caches[c][p][g]
             r == [k EXCEPT !.acked   = k.acked \cup BatchOf(k, e),
                            !.fired   = k.fired \ BatchOf(k, e),
                            !.pending = k.pending \ {BatchID(k, e)}]
  <1>1. caches' = [caches EXCEPT ![c][p][g] = r] /\ e \in k.ends /\ e <= k.out
    BY DEF Ack, InFlight
  <1>2. g \in 1 .. Len(caches[c][p]) /\ k \in Cache /\ CacheShape(k)
    BY DEF TypeInv, TypeOK, Current, Shape
  <1>3. /\ BatchOf(k, e) \subseteq 1 .. e
        /\ \A i \in BatchOf(k, e) : k.recs[i] \in Offsets
    BY <1>1, <1>2, BatchOfType
  <1>4. r \in Cache /\ CacheShape(r) /\ r.recs = k.recs /\ r.ends = k.ends
    <2> HIDE DEF k
    <2>1. BatchOf(k, e) \in SUBSET Nat /\ k.out \in Nat /\ e \in Nat
      BY <1>1, <1>2, <1>3 DEF Cache, CacheShape
    <2>2. r \in Cache
      BY <1>2, <2>1 DEF Cache
    <2>3. r.out = k.out /\ r.recs = k.recs /\ r.ends = k.ends
          /\ r.acked = k.acked \cup BatchOf(k, e)
      BY <1>2 DEF Cache
    <2> QED BY <1>1, <1>2, <1>3, <2>1, <2>2, <2>3 DEF CacheShape
  <1>5. CachesType' /\ Shape' /\ TrackedCached'
    <2>1. tracked' = tracked
      BY DEF Ack
    <2> HIDE DEF k, r
    <2> QED BY <1>1, <1>2, <1>4, <2>1, UpdateShape
  <1>6. delivered' \in [Partitions -> SUBSET Offsets]
    <2>1. PICK D : D = {k.recs[i] : i \in BatchOf(k, e)}
      OBVIOUS
    <2>2. D \subseteq Offsets
      BY <1>3, <2>1
    <2>3. delivered' = [delivered EXCEPT ![p] = @ \cup D]
      BY <2>1 DEF Ack
    <2>4. delivered \in [Partitions -> SUBSET Offsets]
      BY DEF TypeInv, TypeOK, GroupTypeOK
    <2> HIDE DEF k, r
    <2> QED BY <2>2, <2>3, <2>4
  <1>7. head' \in [Clients -> [Partitions -> Positions \cup {NoMark}]]
    <2>1. head' = head \/ \E h \in r.ends : MarkCommitRecords(c, p, r.recs[h])
      BY DEF Ack, Resolved, commitFn
    <2>2. \A h \in r.ends : r.recs[h] \in Offsets
      <3>1. r.recs \in Seq(Offsets) /\ r.ends \subseteq 1 .. Len(r.recs)
        <4> HIDE DEF r
        <4> QED BY <1>4 DEF Cache, CacheShape
      <3> HIDE DEF r
      <3> QED BY <3>1
    <2>3. GroupTypeOK
      BY DEF TypeInv, TypeOK
    <2>4. CASE head' = head
      BY <2>3, <2>4 DEF GroupTypeOK
    <2>5. CASE \E h \in r.ends : MarkCommitRecords(c, p, r.recs[h])
      <3>1. PICK h \in r.ends : MarkCommitRecords(c, p, r.recs[h])
        BY <2>5
      <3>2. r.recs[h] \in Offsets
        BY <2>2
      <3> HIDE DEF r
      <3> QED BY <2>3, <3>1, <3>2, MarkType
    <2> QED BY <2>1, <2>4, <2>5
  <1> QED
    BY <1>5, <1>6, <1>7 DEF Ack, TypeInv, TypeOK, CachesType, GroupTypeOK

\* OnPartitionsAssigned preserves it.
LEMMA TypeAssign ==
    ASSUME TypeInv, NEW c \in Clients, NEW p \in Partitions, Assign(c, p)
    PROVE  TypeInv'
  <1>1. committed[p] \in Positions
    BY DEF TypeInv, TypeOK, GroupTypeOK
  <1>2. CachesType' /\ Shape' /\ TrackedCached'
    <2>1. CASE p \in tracked[c]
      <3>1. UNCHANGED <<caches, tracked>>
        BY <2>1 DEF Assign, TypeInv, TypeOK
      <3> QED BY <3>1, SameCaches DEF TypeInv, TypeOK, CachesType
    <2>2. CASE p \notin tracked[c]
      <3> DEFINE r == newPartitionCache(committed[p])
      <3>1. /\ caches' = [caches EXCEPT ![c][p] = Append(caches[c][p], r)]
            /\ tracked' = [tracked EXCEPT ![c] = @ \cup {p}]
        BY <2>2 DEF Assign
      <3>2. r \in Cache /\ CacheShape(r)
        BY <1>1, NewCacheType
      <3> HIDE DEF r
      <3> QED BY <3>1, <3>2, AppendShape
    <2> QED BY <2>1, <2>2
  <1>3. GroupTypeOK'
    BY <1>1 DEF Assign, AssignPartition, TypeInv, TypeOK, GroupTypeOK
  <1> QED
    BY <1>2, <1>3 DEF Assign, TypeInv, TypeOK, CachesType

\* Entering OnPartitionsRevoked preserves it, whether or not its commit
\* succeeds.
LEMMA TypeRevoked ==
    ASSUME TypeInv, NEW c \in Clients, NEW parts \in SUBSET Partitions,
           OnPartitionsRevoked(c, parts), UNCHANGED readerVars,
           disruptions' \in 0 .. MaxDisruptions
    PROVE  TypeInv'
  <1>1. GroupTypeOK
    BY DEF TypeInv, TypeOK
  <1>2. GroupTypeOK'
    BY <1>1, RevokedTypes
  <1>3. Shape' /\ TrackedCached'
    BY SameCaches DEF TypeInv, readerVars
  <1> QED BY <1>2, <1>3 DEF TypeInv, TypeOK, readerVars

\* The client's other steps (lost partitions, cleanup, eviction, autocommit,
\* close) preserve it.
LEMMA TypeRebalance ==
    ASSUME TypeInv, NEW c \in Clients,
           \/ \E p \in Partitions : Revoke(c, p)
           \/ Lost(c) \/ Returned(c) \/ Thrown(c) \/ Committer(c)
           \/ CloseClient(c) \/ Close(c)
    PROVE  TypeInv'
  <1>1. GroupTypeOK
    BY DEF TypeInv, TypeOK
  <1>2. CASE \E p \in Partitions : Revoke(c, p)
    <2>1. PICK p \in Partitions : Revoke(c, p)
      BY <1>2
    <2>2. disruptions' \in 0 .. MaxDisruptions
      BY <1>1, <2>1 DEF Revoke, GroupTypeOK
    <2> QED BY <2>1, <2>2, TypeRevoked DEF Revoke
  <1>3. CASE CloseClient(c)
    <2>1. disruptions' \in 0 .. MaxDisruptions /\ assigned[c] \in SUBSET Partitions
      BY <1>1, <1>3 DEF CloseClient, GroupTypeOK
    <2> QED BY <1>3, <2>1, TypeRevoked DEF CloseClient
  <1>4. ASSUME UNCHANGED <<caches, tracked>>
        PROVE  Shape' /\ TrackedCached'
    BY <1>4, SameCaches DEF TypeInv
  <1>5. CASE Lost(c)
    <2>1. GroupTypeOK'
      BY <1>1, <1>5, GroupTypes DEF Lost
    <2> QED BY <1>4, <1>5, <2>1 DEF Lost, TypeInv, TypeOK, readerVars
  <1>6. CASE Returned(c)
    <2>1. GroupTypeOK'
      BY <1>1, <1>6, GroupTypes DEF Returned
    <2> QED BY <1>4, <1>6, <2>1 DEF Returned, TypeInv, TypeOK, readerVars
  <1>7. CASE Thrown(c)
    <2>1. GroupTypeOK'
      BY <1>1, <1>7, GroupTypes DEF Thrown
    <2> QED BY <1>4, <1>7, <2>1 DEF Thrown, TypeInv, TypeOK, readerVars
  <1>8. CASE Committer(c)
    <2>1. GroupTypeOK'
      BY <1>1, <1>8, GroupTypes DEF Committer
    <2> QED BY <1>4, <1>8, <2>1 DEF Committer, TypeInv, TypeOK, readerVars
  <1>9. CASE Close(c)
    <2>1. GroupTypeOK'
      BY <1>1, <1>9 DEF Close, GroupTypeOK
    <2> QED BY <1>4, <1>9, <2>1 DEF Close, TypeInv, TypeOK
  <1> QED BY <1>2, <1>3, <1>5, <1>6, <1>7, <1>8, <1>9

\* What removeTopicPartitions does to the caches: the tracked ones of the
\* partitions that go away are flagged, and nothing else changes.
CachesFlagged(c) ==
    \A d \in Clients, q \in Partitions :
        /\ Len(caches'[d][q]) = Len(caches[d][q])
        /\ \A h \in 1 .. Len(caches[d][q]) :
              caches'[d][q][h] =
                  IF d = c /\ q \in callback[c].parts \cap tracked[c] /\ h = Current(c, q)
                  THEN [caches[d][q][h] EXCEPT !.revoked = TRUE]
                  ELSE caches[d][q][h]

\* removeTopicPartitions changes nothing in the caches but the revoked flag
\* of the tracked caches it removes.
LEMMA RemovedCaches ==
    ASSUME TypeInv, NEW c \in Clients, RemoveTopicPartitions(c)
    PROVE  CachesType' /\ CachesFlagged(c)
  <1> DEFINE gone == callback[c].parts \cap tracked[c]
             flagged(q) == [caches[c][q] EXCEPT ![Current(c, q)] =
                                [caches[c][q][Current(c, q)] EXCEPT !.revoked = TRUE]]
             cell(q) == IF q \in gone THEN flagged(q) ELSE caches[c][q]
  <1>1. \A d \in Clients, q \in Partitions : caches[d][q] \in Seq(Cache)
    BY DEF TypeInv, TypeOK
  <1>2. ASSUME NEW q \in Partitions, q \in gone
        PROVE  /\ flagged(q) \in Seq(Cache)
               /\ Len(flagged(q)) = Len(caches[c][q])
               /\ \A h \in 1 .. Len(caches[c][q]) : flagged(q)[h] =
                     IF h = Current(c, q) THEN [caches[c][q][h] EXCEPT !.revoked = TRUE]
                                          ELSE caches[c][q][h]
    <2>1. Current(c, q) \in 1 .. Len(caches[c][q])
      BY <1>1, <1>2 DEF TypeInv, TrackedCached, Current
    <2>2. caches[c][q][Current(c, q)] \in Cache
      BY <1>1, <2>1
    <2>3. [caches[c][q][Current(c, q)] EXCEPT !.revoked = TRUE] \in Cache
      BY <2>2 DEF Cache
    <2> DEFINE x == [caches[c][q][Current(c, q)] EXCEPT !.revoked = TRUE]
    <2>4. caches[c][q] \in Seq(Cache) /\ x \in Cache
      BY <1>1, <2>3
    <2> HIDE DEF x
    <2>5. LET f == [caches[c][q] EXCEPT ![Current(c, q)] = x] IN
          /\ f \in Seq(Cache)
          /\ Len(f) = Len(caches[c][q])
          /\ \A h \in 1 .. Len(caches[c][q]) : f[h] = IF h = Current(c, q) THEN x ELSE caches[c][q][h]
      BY <2>1, <2>4, ExceptSeq
    <2>6. \A h : h = Current(c, q) => x = [caches[c][q][h] EXCEPT !.revoked = TRUE]
      BY DEF x
    <2>7. flagged(q) = [caches[c][q] EXCEPT ![Current(c, q)] = x]
      BY DEF x
    <2> HIDE DEF flagged
    <2> QED BY <2>5, <2>6, <2>7
  <1>3. caches' = [caches EXCEPT ![c] = [q \in Partitions |-> cell(q)]]
    BY DEF RemoveTopicPartitions, markRevoked
  <1>4. ASSUME NEW q \in Partitions
        PROVE  /\ cell(q) \in Seq(Cache) /\ Len(cell(q)) = Len(caches[c][q])
               /\ \A h \in 1 .. Len(caches[c][q]) : cell(q)[h] =
                     IF q \in gone /\ h = Current(c, q)
                     THEN [caches[c][q][h] EXCEPT !.revoked = TRUE] ELSE caches[c][q][h]
    <2> HIDE DEF flagged, gone
    <2> QED BY <1>1, <1>2
  <1> HIDE DEF cell, gone
  <1>5. CachesType'
    BY <1>3, <1>4 DEF CachesType, TypeInv, TypeOK
  <1>6. \A d \in Clients, q \in Partitions :
           caches'[d][q] = IF d = c THEN cell(q) ELSE caches[d][q]
    BY <1>3 DEF TypeInv, TypeOK
  <1>7. ASSUME NEW d \in Clients, NEW q \in Partitions
        PROVE  /\ Len(caches'[d][q]) = Len(caches[d][q])
               /\ \A h \in 1 .. Len(caches[d][q]) : caches'[d][q][h] =
                     IF d = c /\ q \in gone /\ h = Current(c, q)
                     THEN [caches[d][q][h] EXCEPT !.revoked = TRUE] ELSE caches[d][q][h]
    <2>1. CASE d = c
      <3>1. caches'[d][q] = cell(q)
        BY <1>6, <2>1
      <3> QED BY <1>4, <2>1, <3>1
    <2>2. CASE d # c
      BY <1>6, <2>2
    <2> QED BY <2>1, <2>2
  <1> QED BY <1>5, <1>7 DEF gone, CachesFlagged

\* removeTopicPartitions preserves the type invariant.
LEMMA TypeRemove ==
    ASSUME TypeInv, NEW c \in Clients, RemoveTopicPartitions(c)
    PROVE  TypeInv'
  <1>1. ASSUME NEW d \in Clients, NEW q \in Partitions, NEW h \in 1 .. Len(caches[d][q])
        PROVE  CacheShape([caches[d][q][h] EXCEPT !.revoked = TRUE])
    <2>1. caches[d][q][h] \in Cache /\ CacheShape(caches[d][q][h])
      BY DEF TypeInv, TypeOK, Shape, Current
    <2> QED BY <2>1 DEF Cache, CacheShape
  <1>2. CachesType' /\ CachesFlagged(c)
    BY RemovedCaches
  <1>3. Shape'
    <2>1. ASSUME NEW d \in Clients, NEW q \in Partitions, NEW h \in 1 .. Len(caches'[d][q])
          PROVE  CacheShape(caches'[d][q][h])
      <3>0. Len(caches'[d][q]) = Len(caches[d][q])
        BY <1>2 DEF CachesFlagged
      <3>1. h \in 1 .. Len(caches[d][q]) /\ CacheShape(caches[d][q][h])
        BY <3>0 DEF TypeInv, Shape, Current
      <3>2. \/ caches'[d][q][h] = [caches[d][q][h] EXCEPT !.revoked = TRUE]
            \/ caches'[d][q][h] = caches[d][q][h]
        <4>1. \A i \in 1 .. Len(caches[d][q]) : caches'[d][q][i] =
                 IF d = c /\ q \in callback[c].parts \cap tracked[c] /\ i = Current(c, q)
                 THEN [caches[d][q][i] EXCEPT !.revoked = TRUE] ELSE caches[d][q][i]
          BY <1>2, Zenon DEF CachesFlagged
        <4>2. caches'[d][q][h] =
                 IF d = c /\ q \in callback[c].parts \cap tracked[c] /\ h = Current(c, q)
                 THEN [caches[d][q][h] EXCEPT !.revoked = TRUE] ELSE caches[d][q][h]
          BY <3>1, <4>1, Zenon
        <4> QED BY <4>2, Zenon
      <3>3. CacheShape([caches[d][q][h] EXCEPT !.revoked = TRUE])
        BY <1>1, <3>1
      <3> QED BY <3>1, <3>2, <3>3, Zenon
    <2> QED BY <2>1 DEF Shape, Current
  <1>4. tracked' \in [Clients -> SUBSET Partitions]
        /\ \A d \in Clients : tracked'[d] \subseteq tracked[d]
    BY DEF RemoveTopicPartitions, TypeInv, TypeOK
  <1>5. TrackedCached'
    BY <1>2, <1>4 DEF TypeInv, TrackedCached, Current, CachesFlagged
  <1>6. callback' \in [Clients -> [stage : {"none", "remove", "clean"},
                                   parts : SUBSET Partitions]]
    <2>1. [callback[c] EXCEPT !.stage = "clean"] \in [stage : {"none", "remove", "clean"},
                                                      parts : SUBSET Partitions]
      <3>1. callback[c] \in [stage : {"none", "remove", "clean"}, parts : SUBSET Partitions]
        BY DEF TypeInv, TypeOK, GroupTypeOK
      <3>2. [callback[c] EXCEPT !.stage = "clean"]
                = [stage |-> "clean", parts |-> callback[c].parts]
        BY <3>1
      <3> QED BY <3>1, <3>2
    <2>2. callback' = [callback EXCEPT ![c] = [callback[c] EXCEPT !.stage = "clean"]]
      BY DEF RemoveTopicPartitions
    <2> DEFINE new == [callback[c] EXCEPT !.stage = "clean"]
    <2> HIDE DEF new
    <2>3. callback' = [callback EXCEPT ![c] = new]
      BY <2>2 DEF new
    <2>4. new \in [stage : {"none", "remove", "clean"}, parts : SUBSET Partitions]
      BY <2>1 DEF new
    <2> QED BY <2>3, <2>4 DEF TypeInv, TypeOK, GroupTypeOK
  <1>7. GroupTypeOK'
    BY <1>6 DEF RemoveTopicPartitions, TypeInv, TypeOK, GroupTypeOK
  <1> QED
    BY <1>2, <1>3, <1>4, <1>5, <1>7
    DEF RemoveTopicPartitions, TypeInv, TypeOK, CachesType

\* The end of a process, closed or crashed, preserves it.
LEMMA TypeGone ==
    ASSUME TypeInv, NEW c \in Clients, Restart(c) \/ Crash(c)
    PROVE  TypeInv'
  <1>1. ProcessGone(c) /\ ReaderGone(c) /\ disruptions' \in 0 .. MaxDisruptions
    BY DEF Restart, Crash, TypeInv, TypeOK, GroupTypeOK
  <1>2. GroupTypeOK'
    BY <1>1 DEF ProcessGone, Idle, TypeInv, TypeOK, GroupTypeOK
  <1>3. /\ CachesType' /\ \A q \in Partitions : caches'[c][q] = <<>>
        /\ \A d \in Clients : d # c => caches'[d] = caches[d]
    BY <1>1 DEF ReaderGone, NoFetch, CachesType, TypeInv, TypeOK
  <1>4. /\ tracked' \in [Clients -> SUBSET Partitions] /\ tracked'[c] = {}
        /\ \A d \in Clients : d # c => tracked'[d] = tracked[d]
    BY <1>1 DEF ReaderGone, TypeInv, TypeOK
  <1>5. ASSUME NEW d \in Clients, NEW q \in Partitions
        PROVE  /\ \A h \in 1 .. Len(caches'[d][q]) : CacheShape(caches'[d][q][h])
               /\ q \in tracked'[d] => Len(caches'[d][q]) > 0
    <2>1. CASE d = c
      BY <1>3, <1>4, <2>1
    <2>2. CASE d # c
      BY <1>3, <1>4, <2>2 DEF TypeInv, Shape, TrackedCached, Current
    <2> QED BY <2>1, <2>2
  <1>6. Shape' /\ TrackedCached'
    BY <1>5 DEF Shape, TrackedCached, Current
  <1>7. TypeOK'
    BY <1>1, <1>2, <1>3, <1>4 DEF ReaderGone, NoFetch, TypeInv, TypeOK, CachesType
  <1> QED BY <1>6, <1>7 DEF TypeInv

\* Every step of any process preserves the type invariant.
LEMMA TypeStep == TypeInv /\ [Next]_vars => TypeInv'
  <1> SUFFICES ASSUME TypeInv, [Next]_vars
               PROVE  TypeInv'
    OBVIOUS
  <1>1. CASE UNCHANGED vars
    BY <1>1, SameCaches
    DEF vars, groupVars, readerVars, TypeInv, TypeOK, GroupTypeOK
  <1>2. ASSUME NEW c \in Clients, LoopStep(c)
        PROVE  TypeInv'
    BY <1>2, TypePoll, TypeFile, TypeLoop DEF LoopStep, Poll
  <1>3. ASSUME NEW c \in Clients, PipelineStep(c)
        PROVE  TypeInv'
    BY <1>3, TypePop, TypeDispatch, TypeAck DEF PipelineStep
  <1>4. ASSUME NEW c \in Clients, RebalanceStep(c) \/ ProcessStep(c)
        PROVE  TypeInv'
    BY <1>4, TypeAssign, TypeRebalance, TypeRemove, TypeGone
    DEF RebalanceStep, ProcessStep
  <1> QED BY <1>1, <1>2, <1>3, <1>4 DEF Next

\* Every state of the ordered reader is well typed: whatever the order of
\* polls, acknowledgements and callbacks, positions, marks and committed
\* offsets stay within the partition.
THEOREM TypeCorrect == Spec => []TypeOK
  <1>1. TypeInv => TypeOK
    BY DEF TypeInv
  <1> QED BY <1>1, TypeInit, TypeStep, PTL DEF Spec

-----------------------------------------------------------------------------
(* At-least-once delivery, when no partition is taken away while the poll  *)
(* loop holds records of it.  NoGaps is inductive relative to TypeInv.     *)

\* The inductive invariant behind NoGaps.
Inv == TypeInv /\ NoGaps

\* A step that leaves what client d keeps for q alone, and takes nothing out
\* of the delivered records, keeps the cell sound.
LEMMA CellFrame ==
    ASSUME NEW d \in Clients, NEW q \in Partitions, CellSound(d, q),
           caches'[d][q] = caches[d][q], head'[d][q] = head[d][q],
           fetch'[d][q] = fetch[d][q], position'[d][q] = position[d][q],
           q \in assigned'[d] <=> q \in assigned[d],
           q \in tracked'[d] <=> q \in tracked[d],
           delivered[q] \subseteq delivered'[q]
    PROVE  CellSound(d, q)'
  <1>1. MarkSound(d, q)'
    BY DEF CellSound, MarkSound
  <1>2. q \in tracked'[d] => TrackedSound(d, q)'
    BY DEF CellSound, TrackedSound, Current
  <1>3. ASSUME NEW g \in 1 .. Len(caches[d][q])
        PROVE  CacheSound(d, q, g)' /\ LiveCacheTracked(d, q, g)'
    <2>1. CacheSound(d, q, g) /\ LiveCacheTracked(d, q, g)
      BY DEF CellSound, Current
    <2>2. caches'[d][q][g] = caches[d][q][g]
      OBVIOUS
    <2> HIDE DEF CacheShape
    <2>3. CacheSound(d, q, g)'
      BY <2>1, <2>2 DEF CacheSound
    <2> QED BY <2>1, <2>2, <2>3 DEF LiveCacheTracked, Current
  <1> QED BY <1>1, <1>2, <1>3 DEF CellSound, Current

\* The same for what the loop of client d shares with its callbacks.
LEMMA LoopFrame ==
    ASSUME NEW d \in Clients, LoopSound(d), pc'[d] = pc[d], fetch'[d] = fetch[d],
           tracked'[d] = tracked[d], assigned'[d] = assigned[d], callback'[d] = callback[d]
    PROVE  LoopSound(d)'
  BY DEF LoopSound, Fetched

\* A commit only stores marks, and marks are sound.
LEMMA CommitSound ==
    ASSUME Inv, NEW c \in Clients, delivered' = delivered,
           CommitMarkedOffsets(c) \/ UNCHANGED committed
    PROVE  AtLeastOnce'
  <1>1. \A q \in Partitions : \/ committed'[q] = committed[q]
                              \/ head[c][q] # NoMark /\ committed'[q] = head[c][q]
    BY CommitEffect DEF Inv, TypeInv, TypeOK
  <1>2. ASSUME NEW q \in Partitions
        PROVE  /\ Below(committed[q]) \subseteq delivered[q]
               /\ head[c][q] # NoMark => Below(head[c][q]) \subseteq delivered[q]
    BY DEF Inv, NoGaps, AtLeastOnce, CellSound, MarkSound
  <1> QED BY <1>1, <1>2 DEF AtLeastOnce

\* A process that has just connected has no gaps.
LEMMA NoGapsInit == Init => NoGaps
  <1> SUFFICES ASSUME Init PROVE NoGaps
    OBVIOUS
  <1> USE DEF Init, GroupInit, Idle, NoFetch
  <1>1. AtLeastOnce
    BY DEF AtLeastOnce, Below
  <1>2. \A c \in Clients : LoopSound(c)
    BY DEF LoopSound, Fetched
  <1>3. \A c \in Clients, p \in Partitions : CellSound(c, p)
    BY DEF CellSound, MarkSound, Current
  <1> QED BY <1>1, <1>2, <1>3 DEF NoGaps

\* Steps of the loop that move no record.
LEMMA NoGapsLoop ==
    ASSUME Inv, NEW c \in Clients, PauseFetch(c) \/ Resume(c) \/ LoopExit(c)
    PROVE  NoGaps'
  <1>1. UNCHANGED <<groupVars, fetch, tracked, caches>>
    BY DEF PauseFetch, Resume, LoopExit
  <1>2. AtLeastOnce'
    BY <1>1, CommittedFrame DEF Inv, NoGaps, groupVars
  <1>3. ASSUME NEW d \in Clients, NEW q \in Partitions
        PROVE  CellSound(d, q)'
    BY <1>1, CellFrame DEF Inv, NoGaps, groupVars
  <1>4. ASSUME NEW d \in Clients
        PROVE  LoopSound(d)'
    <2>1. LoopSound(d)
      BY DEF Inv, NoGaps
    <2>2. Fetched(c) = {}
      BY DEF PauseFetch, Resume, LoopExit, LoopSound, Inv, NoGaps
    <2>3. d # c => pc'[d] = pc[d]
      BY DEF PauseFetch, Resume, LoopExit, Inv, TypeInv, TypeOK
    <2> QED BY <1>1, <2>1, <2>2, <2>3 DEF LoopSound, Fetched, groupVars
  <1> QED BY <1>2, <1>3, <1>4 DEF NoGaps

\* A poll extends the run of records behind the tracked cache.
LEMMA NoGapsPoll ==
    ASSUME Inv, NEW c \in Clients, NEW count \in [Partitions -> 0 .. FetchMax],
           PollFetches(c, count)
    PROVE  NoGaps'
  <1> USE DEF PollFetches, Inv, TypeInv, TypeOK, GroupTypeOK
  <1>1. \A q \in Partitions : fetch[c][q] = <<>>
    BY DEF LoopSound, Fetched, NoGaps
  <1>2. /\ \A q \in Partitions :
              /\ fetch'[c][q] = [i \in 1 .. count[q] |-> position[c][q] + i - 1]
              /\ position'[c][q] = position[c][q] + count[q]
        /\ \A d \in Clients : d # c => fetch'[d] = fetch[d] /\ position'[d] = position[d]
    OBVIOUS
  <1>3. \A q \in Partitions : /\ count[q] \in Nat /\ position[c][q] \in Nat
                              /\ Len(fetch'[c][q]) = count[q]
                              /\ \A i \in 1 .. count[q] : fetch'[c][q][i] = position[c][q] + i - 1
    BY <1>2
  <1>4. ASSUME NEW d \in Clients, NEW q \in Partitions
        PROVE  CellSound(d, q)'
    <2>1. CellSound(d, q)
      BY DEF NoGaps
    <2>2. CASE d # c
      BY <1>2, <2>1, <2>2, CellFrame
    <2>3. CASE d = c
      <3>1. MarkSound(d, q)'
        BY <2>1 DEF CellSound, MarkSound
      <3>2. \A g \in 1 .. Len(caches[d][q]) : CacheSound(d, q, g)' /\ LiveCacheTracked(d, q, g)'
        BY <2>1 DEF CellSound, CacheSound, LiveCacheTracked, Current
      <3>3. ASSUME q \in tracked[c]
            PROVE  TrackedSound(c, q)'
        <4> DEFINE k == caches[c][q][Len(caches[c][q])]
        <4>1. TrackedSound(c, q)
          BY <2>1, <2>3, <3>3 DEF CellSound
        <4>2. k.base + Len(k.recs) = position[c][q] /\ q \in assigned[c] /\ Len(caches[c][q]) > 0
          <5>1. Len(caches[c][q]) > 0 /\ k \in Cache
            BY <4>1 DEF TrackedSound, Current
          <5>2. k.base \in Nat /\ Len(k.recs) \in Nat /\ Len(fetch[c][q]) = 0
            <6> HIDE DEF k, PollFetches, Inv, TypeInv, TypeOK, GroupTypeOK
            <6>1. k.base \in Nat /\ Len(k.recs) \in Nat
              BY <5>1 DEF Cache
            <6>2. Len(fetch[c][q]) = 0
              BY <1>1
            <6> QED BY <6>1, <6>2
          <5>3. k.base + Len(k.recs) + Len(fetch[c][q]) = position[c][q] /\ q \in assigned[c]
            BY <4>1 DEF TrackedSound, Current
          <5> HIDE DEF k, PollFetches, Inv, TypeInv, TypeOK, GroupTypeOK
          <5> QED BY <5>1, <5>2, <5>3
        <4>3. caches' = caches /\ assigned' = assigned
          OBVIOUS
        <4> HIDE DEF PollFetches, Inv, TypeInv, TypeOK, GroupTypeOK
        <4>4. k.base + Len(k.recs) + Len(fetch'[c][q]) = position'[c][q]
          BY <1>2, <1>3, <4>2
        <4>5. \A i \in 1 .. Len(fetch'[c][q]) : fetch'[c][q][i] = k.base + Len(k.recs) + i - 1
          BY <1>2, <1>3, <4>2
        <4> QED BY <4>2, <4>3, <4>4, <4>5 DEF TrackedSound, Current
      <3> QED BY <2>3, <3>1, <3>2, <3>3 DEF CellSound, Current
    <2> QED BY <2>2, <2>3
  <1>5. ASSUME NEW d \in Clients
        PROVE  LoopSound(d)'
    <2>1. LoopSound(d)
      BY DEF NoGaps
    <2>2. CASE d # c
      BY <1>2, <2>1, <2>2, LoopFrame
    <2>3. CASE d = c
      <3>1. Fetched(c)' \subseteq Fetchable(c)
        BY <1>2, <1>3 DEF Fetched
      <3>2. Fetched(c)' \subseteq tracked[c] \ callback[c].parts
        BY <2>1, <2>3, <3>1 DEF LoopSound, Fetchable
      <3> QED BY <2>1, <2>3, <3>2 DEF LoopSound
    <2> QED BY <2>2, <2>3
  <1>6. AtLeastOnce'
    BY CommittedFrame DEF NoGaps
  <1> QED BY <1>4, <1>5, <1>6 DEF NoGaps

\* Indexing a concatenation.
LEMMA ConcatIndex ==
    ASSUME NEW S, NEW s \in Seq(S), NEW t \in Seq(S)
    PROVE  /\ \A i \in 1 .. Len(s) : (s \o t)[i] = s[i]
           /\ \A j \in 1 .. Len(t) : (s \o t)[Len(s) + j] = t[j]
  OBVIOUS

\* Filing moves the run of records from the fetch into the tracked cache.
LEMMA NoGapsFile ==
    ASSUME Inv, NEW c \in Clients, NEW p \in Partitions, FileRecords(c, p)
    PROVE  NoGaps'
  <1>0. PICK g : g = Len(caches[c][p])
    OBVIOUS
  <1> DEFINE recs == fetch[c][p]
             k == caches[c][p][g]
             r == push(k, recs)
  <1>1. p \in tracked[c] /\ tracked' = tracked /\ UNCHANGED <<groupVars, pc>>
    BY DEF FileRecords, addRecords, Inv, NoGaps, LoopSound, Fetched, TypeInv, TypeOK
  <1>2. CellSound(c, p) /\ TrackedSound(c, p)
    BY <1>1 DEF Inv, NoGaps, CellSound
  <1>3. caches' = [caches EXCEPT ![c][p][g] = r]
    BY <1>0, <1>1 DEF FileRecords, addRecords, Current
  <1>4. g \in 1 .. Len(caches[c][p]) /\ k \in Cache /\ recs \in Seq(Offsets)
    BY <1>0, <1>1, <1>2 DEF Inv, TypeInv, TypeOK, TrackedSound, Current
  <1>5. CacheShape(k) /\ CacheSound(c, p, g) /\ LiveCacheTracked(c, p, g)
    BY <1>2, <1>4 DEF CellSound, CacheSound, Current
  <1>6. r \in Cache /\ CacheShape(r)
        /\ r = [k EXCEPT !.recs = k.recs \o recs, !.ends = r.ends]
    BY <1>4, <1>5, PushType
  <1>7. CachesType /\ CacheReplaced(c, p, g, r)
    <2>1. CachesType
      BY DEF CachesType, Inv, TypeInv, TypeOK
    <2> HIDE DEF r
    <2> QED BY <1>3, <1>4, <1>6, <2>1, UpdateCache
  <1>8. /\ r.recs = k.recs \o recs /\ r.base = k.base /\ r.acked = k.acked
        /\ r.revoked = k.revoked /\ r.out = k.out
    <2> HIDE DEF r, k, recs
    <2> QED BY <1>4, <1>6 DEF Cache
  <1>9. /\ k.base \in Nat /\ k.recs \in Seq(Offsets)
        /\ Len(k.recs) \in Nat /\ Len(recs) \in Nat /\ Len(r.recs) = Len(k.recs) + Len(recs)
    <2> HIDE DEF r, k, recs
    <2> QED BY <1>4, <1>8 DEF Cache
  <1>10. \A i \in 1 .. Len(r.recs) : r.recs[i] = k.base + i - 1
    <2>1. \A i \in 1 .. Len(k.recs) : k.recs[i] = k.base + i - 1
      BY <1>5 DEF CacheSound
    <2>2. \A i \in 1 .. Len(recs) : recs[i] = k.base + Len(k.recs) + i - 1
      BY <1>0, <1>2 DEF TrackedSound, Current
    <2> HIDE DEF r, k, recs
    <2>4. /\ \A i \in 1 .. Len(k.recs) : (k.recs \o recs)[i] = k.recs[i]
          /\ \A j \in 1 .. Len(recs) : (k.recs \o recs)[Len(k.recs) + j] = recs[j]
      BY <1>4, <1>9, ConcatIndex
    <2>3. ASSUME NEW i \in 1 .. Len(r.recs)
          PROVE  r.recs[i] = k.base + i - 1
      <3>1. CASE i \in 1 .. Len(k.recs)
        BY <1>8, <1>9, <2>1, <2>4, <3>1
      <3>2. CASE i \notin 1 .. Len(k.recs)
        <4>1. PICK j \in 1 .. Len(recs) : i = Len(k.recs) + j
          <5>1. i - Len(k.recs) \in 1 .. Len(recs) /\ i = Len(k.recs) + (i - Len(k.recs))
            BY <1>9, <3>2
          <5> QED BY <5>1
        <4>2. r.recs[i] = recs[j]
          <5>1. r.recs[i] = (k.recs \o recs)[Len(k.recs) + j]
            BY <1>8, <4>1
          <5>2. (k.recs \o recs)[Len(k.recs) + j] = recs[j]
            BY <2>4
          <5> QED BY <5>1, <5>2
        <4>3. recs[j] = k.base + Len(k.recs) + j - 1
          BY <2>2
        <4>4. k.base \in Nat /\ Len(k.recs) \in Nat /\ j \in Nat
          BY <1>9
        <4>5. k.base + Len(k.recs) + j - 1 = k.base + (Len(k.recs) + j) - 1
          BY <4>4
        <4> QED BY <4>1, <4>2, <4>3, <4>5
      <3> QED BY <3>1, <3>2
    <2> QED BY <2>3
  <1>11. /\ fetch' = [fetch EXCEPT ![c][p] = <<>>]
         /\ fetch'[c][p] = <<>>
         /\ \A d \in Clients, q \in Partitions : ~(d = c /\ q = p) => fetch'[d][q] = fetch[d][q]
    BY DEF FileRecords, Inv, TypeInv, TypeOK
  <1>12. CellSound(c, p)'
    <2>0. /\ Len(caches'[c][p]) = g /\ caches'[c][p][g] = r
          /\ \A h \in 1 .. g : h # g => caches'[c][p][h] = caches[c][p][h]
      BY <1>0, <1>4, <1>7 DEF CacheReplaced
    <2>1. MarkSound(c, p)'
      BY <1>1, <1>2 DEF CellSound, MarkSound, groupVars
    <2>2. TrackedSound(c, p)'
      <3>1. p \in assigned[c] /\ k.base + Len(k.recs) + Len(recs) = position[c][p]
        BY <1>0, <1>2 DEF TrackedSound, Current
      <3>2. /\ p \in assigned'[c] /\ r.base + Len(r.recs) + Len(fetch'[c][p]) = position'[c][p]
            /\ \A i \in 1 .. Len(fetch'[c][p]) : FALSE
        <4>1. Len(fetch'[c][p]) = 0 /\ position' = position /\ assigned' = assigned
          BY <1>1, <1>11 DEF groupVars
        <4> HIDE DEF r, k, recs
        <4>2. r.base + Len(r.recs) + Len(fetch'[c][p]) = position'[c][p]
          <5>1. r.base = k.base
            BY <1>8
          <5>2. position'[c][p] = position[c][p]
            BY <4>1
          <5>3. k.base \in Nat /\ Len(k.recs) \in Nat /\ Len(recs) \in Nat
            BY <1>9
          <5>4. k.base + Len(k.recs) + Len(recs) = k.base + (Len(k.recs) + Len(recs)) + 0
            BY <5>3
          <5>5. Len(r.recs) = Len(k.recs) + Len(recs) /\ Len(fetch'[c][p]) = 0
            BY <1>9, <4>1
          <5> QED BY <3>1, <5>1, <5>2, <5>4, <5>5
        <4> QED BY <3>1, <4>1, <4>2
      <3> HIDE DEF r, k, recs
      <3> QED BY <1>4, <2>0, <3>2 DEF TrackedSound, Current
    <2>3. CacheSound(c, p, g)'
      <3>1. Below(k.base) \subseteq delivered[p] /\ \A i \in k.acked : k.recs[i] \in delivered[p]
        BY <1>5 DEF CacheSound
      <3>2. \A i \in k.acked : i \in 1 .. Len(k.recs) /\ i \in 1 .. Len(r.recs)
        <4> HIDE DEF r, k, recs
        <4>1. k.acked \subseteq 1 .. k.out /\ k.out <= Len(k.recs)
          BY <1>5 DEF CacheShape
        <4>2. k.out \in Nat
          BY <1>4 DEF Cache
        <4>3. Len(k.recs) \in Nat /\ Len(recs) \in Nat /\ Len(r.recs) = Len(k.recs) + Len(recs)
          BY <1>9
        <4>4. 1 .. k.out \subseteq 1 .. Len(k.recs) /\ 1 .. Len(k.recs) \subseteq 1 .. Len(r.recs)
          BY <4>1, <4>2, <4>3
        <4> QED BY <4>1, <4>4
      <3>3. \A i \in k.acked : r.recs[i] = k.recs[i]
        <4>1. \A i \in 1 .. Len(k.recs) : k.recs[i] = k.base + i - 1
          BY <1>5 DEF CacheSound
        <4> HIDE DEF r, k, recs
        <4>2. ASSUME NEW i \in k.acked
              PROVE  r.recs[i] = k.recs[i]
          <5>1. r.recs[i] = k.base + i - 1
            BY <1>10, <3>2
          <5>2. k.recs[i] = k.base + i - 1
            BY <3>2, <4>1
          <5> QED BY <5>1, <5>2
        <4> QED BY <4>2
      <3> HIDE DEF r, k, recs
      <3>4. delivered' = delivered /\ caches'[c][p][g] = r
        BY <1>1, <2>0 DEF groupVars
      <3> QED BY <1>6, <1>8, <1>10, <3>1, <3>3, <3>4 DEF CacheSound
    <2>4. LiveCacheTracked(c, p, g)'
      <3> HIDE DEF r, k, recs
      <3> QED BY <1>1, <2>0 DEF LiveCacheTracked, Current
    <2>5. \A h \in 1 .. g : h # g => CacheSound(c, p, h)' /\ LiveCacheTracked(c, p, h)'
      <3>1. ASSUME NEW h \in 1 .. g, h # g
            PROVE  CacheSound(c, p, h)' /\ LiveCacheTracked(c, p, h)'
        <4>1. CacheSound(c, p, h) /\ LiveCacheTracked(c, p, h) /\ caches'[c][p][h] = caches[c][p][h]
          BY <1>0, <1>2, <2>0, <3>1 DEF CellSound, Current
        <4>2. CacheSound(c, p, h)'
          BY <1>1, <4>1 DEF CacheSound, groupVars
        <4>3. LiveCacheTracked(c, p, h)'
          BY <1>0, <3>1, <4>1 DEF LiveCacheTracked, Current
        <4> QED BY <4>2, <4>3
      <3> QED BY <3>1
    <2> HIDE DEF r, k, recs
    <2> QED BY <1>1, <2>0, <2>1, <2>2, <2>3, <2>4, <2>5 DEF CellSound, Current
  <1>13. ASSUME NEW d \in Clients, NEW q \in Partitions, ~(d = c /\ q = p)
         PROVE  CellSound(d, q)'
    <2>1. UNCHANGED <<assigned, tracked, position, head, delivered>>
      BY <1>1 DEF groupVars
    <2>2. caches'[d][q] = caches[d][q] /\ fetch'[d][q] = fetch[d][q]
      <3> HIDE DEF r
      <3> QED BY <1>3, <1>11, <1>13 DEF Inv, TypeInv, TypeOK
    <2>3. CellSound(d, q)
      BY DEF Inv, NoGaps
    <2> QED BY <2>1, <2>2, <2>3, CellFrame
  <1>14. ASSUME NEW d \in Clients
         PROVE  LoopSound(d)'
    <2>1. LoopSound(d) /\ pc[c] = "file"
      BY DEF Inv, NoGaps, FileRecords
    <2>2. Fetched(d)' \subseteq Fetched(d)
      BY <1>11 DEF Fetched
    <2> QED BY <1>1, <1>11, <2>1, <2>2 DEF LoopSound, groupVars
  <1>15. AtLeastOnce'
    BY <1>1, CommittedFrame DEF Inv, NoGaps, groupVars
  <1> QED BY <1>12, <1>13, <1>14, <1>15 DEF NoGaps

\* Replacing a cache by one with the same records, as the pipeline's steps do,
\* keeps every cell sound when what it acknowledges is delivered.
LEMMA ReplaceSound ==
    ASSUME Inv, NEW c \in Clients, NEW p \in Partitions,
           NEW g \in 1 .. Len(caches[c][p]), NEW r \in Cache, CacheShape(r),
           caches' = [caches EXCEPT ![c][p][g] = r],
           r.base = caches[c][p][g].base, r.recs = caches[c][p][g].recs,
           r.revoked = caches[c][p][g].revoked,
           UNCHANGED <<assigned, tracked, fetch, position>>,
           \A q \in Partitions : delivered[q] \subseteq delivered'[q],
           \A i \in r.acked : r.recs[i] \in delivered'[p],
           \A d \in Clients, q \in Partitions :
              ~(d = c /\ q = p) => head'[d][q] = head[d][q],
           MarkSound(c, p)'
    PROVE  \A d \in Clients, q \in Partitions : CellSound(d, q)'
  <1>1. CachesType /\ CacheReplaced(c, p, g, r)
    <2>1. CachesType
      BY DEF CachesType, Inv, TypeInv, TypeOK
    <2> QED BY <2>1, UpdateCache
  <1>2. CellSound(c, p)
    BY DEF Inv, NoGaps
  <1>3. /\ Len(caches'[c][p]) = Len(caches[c][p]) /\ caches'[c][p][g] = r
        /\ \A h \in 1 .. Len(caches[c][p]) : h # g => caches'[c][p][h] = caches[c][p][h]
    BY <1>1 DEF CacheReplaced
  <1>4. ASSUME NEW h \in 1 .. Len(caches[c][p])
        PROVE  CacheSound(c, p, h)' /\ LiveCacheTracked(c, p, h)'
    <2>1. CacheSound(c, p, h) /\ LiveCacheTracked(c, p, h)
      BY <1>2 DEF CellSound, Current
    <2>2. CASE h # g
      <3>1. caches'[c][p][h] = caches[c][p][h]
        BY <1>3, <2>2
      <3>2. CacheSound(c, p, h)'
        BY <2>1, <3>1 DEF CacheSound
      <3> QED BY <1>3, <2>1, <3>1, <3>2 DEF LiveCacheTracked, Current
    <2>3. CASE h = g
      <3>1. CacheSound(c, p, g)'
        BY <1>3, <2>1, <2>3, SMTT(60) DEF CacheSound
      <3> QED BY <1>3, <2>1, <2>3, <3>1 DEF LiveCacheTracked, Current
    <2> QED BY <2>2, <2>3
  <1>5. p \in tracked'[c] => TrackedSound(c, p)'
    <2> SUFFICES ASSUME p \in tracked[c]
                 PROVE  TrackedSound(c, p)'
      OBVIOUS
    <2>1. TrackedSound(c, p)
      BY <1>2 DEF CellSound
    <2>2. PICK last : last = Len(caches[c][p])
      OBVIOUS
    <2>3. last \in 1 .. Len(caches[c][p])
      BY <1>1, <2>1, <2>2 DEF TrackedSound, Current, CachesType
    <2>4. /\ caches'[c][p][last].base = caches[c][p][last].base
          /\ caches'[c][p][last].recs = caches[c][p][last].recs
      BY <1>3, <2>3
    <2> QED BY <1>3, <2>1, <2>2, <2>4 DEF TrackedSound, Current
  <1>6. CellSound(c, p)'
    BY <1>3, <1>4, <1>5 DEF CellSound, Current
  <1>7. ASSUME NEW d \in Clients, NEW q \in Partitions, ~(d = c /\ q = p)
        PROVE  CellSound(d, q)'
    <2>1. caches'[d][q] = caches[d][q]
      BY <1>7 DEF Inv, TypeInv, TypeOK
    <2>2. head'[d][q] = head[d][q] /\ CellSound(d, q)
      BY <1>7 DEF Inv, NoGaps
    <2> QED BY <2>1, <2>2, CellFrame
  <1> QED BY <1>6, <1>7

\* Handing a batch to the pipeline and its dispatch signals touch no offset.
LEMMA NoGapsPop ==
    ASSUME Inv, NEW c \in Clients, NEW p \in Partitions, NEW g \in 1 .. Len(caches[c][p]),
           NEW r \in Cache, CacheShape(r), caches' = [caches EXCEPT ![c][p][g] = r],
           r.base = caches[c][p][g].base, r.recs = caches[c][p][g].recs,
           r.acked = caches[c][p][g].acked, r.revoked = caches[c][p][g].revoked,
           UNCHANGED <<groupVars, pc, fetch, tracked>>
    PROVE  NoGaps'
  <1> USE DEF groupVars
  <1>1. CellSound(c, p)
    BY DEF Inv, NoGaps
  <1>2. MarkSound(c, p)'
    BY <1>1 DEF CellSound, MarkSound
  <1>3. \A i \in r.acked : r.recs[i] \in delivered'[p]
    BY <1>1 DEF CellSound, CacheSound, Current
  <1>4. \A d \in Clients, q \in Partitions : CellSound(d, q)'
    BY <1>2, <1>3, ReplaceSound
  <1>5. AtLeastOnce'
    BY CommittedFrame DEF Inv, NoGaps
  <1>6. \A d \in Clients : LoopSound(d)'
    BY LoopFrame DEF Inv, NoGaps
  <1> QED BY <1>4, <1>5, <1>6 DEF NoGaps

\* The offset that onAck marks lies behind delivered records only.
LEMMA ResolvedDelivered ==
    ASSUME NEW k \in Cache, CacheShape(k), NEW D, NEW h \in Resolved(k),
           \A i \in 1 .. Len(k.recs) : k.recs[i] = k.base + i - 1,
           Below(k.base) \subseteq D,
           \A i \in k.acked : k.recs[i] \in D
    PROVE  Below(k.recs[h] + 1) \subseteq D
  <1>1. h \in 1 .. Len(k.recs) /\ 1 .. h \subseteq k.acked /\ k.base \in Nat /\ Len(k.recs) \in Nat
    <2>1. k.base \in Nat /\ Len(k.recs) \in Nat
      BY DEF Cache
    <2>2. h \in k.ends /\ 1 .. h \subseteq k.acked
      BY DEF Resolved
    <2>3. k.ends \subseteq 1 .. Len(k.recs)
      BY DEF CacheShape
    <2> QED BY <2>1, <2>2, <2>3
  <1>2. k.recs[h] + 1 = k.base + h
    <2>1. k.recs[h] = k.base + h - 1
      BY <1>1
    <2>2. PICK b \in Nat : b = k.base
      BY <1>1
    <2>3. h \in Nat
      BY <1>1
    <2>4. b + h - 1 + 1 = b + h
      BY <2>3
    <2>5. k.recs[h] = b + h - 1
      BY <2>1, <2>2
    <2> QED BY <2>2, <2>4, <2>5
  <1>3. ASSUME NEW o \in Offsets, o < k.base + h
        PROVE  o \in D
    <2>1. CASE o < k.base
      BY <2>1 DEF Below
    <2>2. CASE ~(o < k.base)
      <3>1. PICK i \in 1 .. h : o = k.base + i - 1
        <4>1. PICK b \in Nat : b = k.base
          BY <1>1
        <4>2. h \in Nat /\ o \in Nat
          BY <1>1
        <4>3. o < b + h /\ ~(o < b)
          BY <1>3, <2>2, <4>1
        <4>4. o - b + 1 \in 1 .. h /\ o = b + (o - b + 1) - 1
          BY <4>2, <4>3
        <4> QED BY <4>1, <4>4
      <3>2. i \in k.acked /\ i \in 1 .. Len(k.recs)
        BY <1>1
      <3> QED BY <3>1, <3>2
    <2> QED BY <2>1, <2>2
  <1> QED BY <1>2, <1>3 DEF Below

\* Handing out a batch (ReadBatch, pop) leaves no gap.
LEMMA NoGapsReadBatch ==
    ASSUME Inv, NEW c \in Clients, NEW p \in Partitions, Pop(c, p)
    PROVE  NoGaps'
  <1>0. PICK g : g = Len(caches[c][p])
    OBVIOUS
  <1>1. g \in 1 .. Len(caches[c][p]) /\ caches[c][p][g] \in Cache /\ CacheShape(caches[c][p][g])
    BY <1>0 DEF Pop, Inv, TypeInv, TypeOK, TrackedCached, Shape, Current
  <1>2. PICK k : k = caches[c][p][g]
    OBVIOUS
  <1>3. PICK e \in k.ends :
           /\ e > k.out
           /\ caches' = [caches EXCEPT ![c][p][g] =
                 [k EXCEPT !.out = e, !.pending = k.pending \cup {BatchID(k, e)}]]
    BY <1>0, <1>2 DEF Pop, Current
  <1>4. PICK r : r = [k EXCEPT !.out = e, !.pending = k.pending \cup {BatchID(k, e)}]
    OBVIOUS
  <1>5. /\ r \in Cache /\ r.out = e /\ r.recs = k.recs /\ r.ends = k.ends
        /\ r.acked = k.acked /\ r.base = k.base /\ r.revoked = k.revoked
    <2>1. e \in Nat
      BY <1>1, <1>2 DEF CacheShape, Cache
    <2>2. BatchID(k, e) \in Offsets
      BY <1>1, <1>2, BatchIDType
    <2> QED BY <1>1, <1>2, <1>4, <2>1, <2>2 DEF Cache
  <1>6. CacheShape(r)
    <2>1. e \in 1 .. Len(k.recs) /\ Len(k.recs) \in Nat /\ k.out \in Nat
      BY <1>1, <1>2 DEF Cache, CacheShape
    <2>2. /\ k.ends \subseteq 1 .. Len(k.recs) /\ k.acked \subseteq 1 .. k.out
      BY <1>1, <1>2 DEF CacheShape
    <2>3. 1 .. k.out \subseteq 1 .. e /\ e <= Len(k.recs)
      BY <1>3, <2>1
    <2>4. r.acked \subseteq 1 .. r.out
      BY <1>5, <2>2, <2>3
    <2>5. r.out <= Len(r.recs) /\ r.ends \subseteq 1 .. Len(r.recs)
      BY <1>5, <2>2, <2>3
    <2> QED BY <2>4, <2>5 DEF CacheShape
  <1>7. UNCHANGED <<groupVars, pc, fetch, tracked>>
    BY DEF Pop
  <1> QED BY <1>1, <1>2, <1>3, <1>4, <1>5, <1>6, <1>7, NoGapsPop

\* A dispatch signal leaves no gap.
LEMMA NoGapsDispatch ==
    ASSUME Inv, NEW c \in Clients, NEW p \in Partitions,
           NEW g \in 1 .. Current(c, p), NEW e, NEW i, Dispatch(c, p, g, e, i)
    PROVE  NoGaps'
  <1>1. g \in 1 .. Len(caches[c][p]) /\ caches[c][p][g] \in Cache /\ CacheShape(caches[c][p][g])
    BY DEF Inv, TypeInv, TypeOK, Shape, Current
  <1>2. PICK k : k = caches[c][p][g]
    OBVIOUS
  <1>3. PICK r : r = [k EXCEPT !.fired = k.fired \cup {i},
                               !.pending = IF BatchOf(k, e) \subseteq k.fired \cup {i}
                                           THEN k.pending \ {BatchID(k, e)} ELSE k.pending]
    OBVIOUS
  <1>4. caches' = [caches EXCEPT ![c][p][g] = r] /\ i \in BatchOf(k, e) /\ e \in k.ends
    BY <1>2, <1>3 DEF Dispatch, InFlight
  <1>5. i \in Nat
    <2>1. BatchOf(k, e) \subseteq 1 .. Len(k.recs)
      BY <1>1, <1>2, <1>4, BatchOfType
    <2> QED BY <1>4, <2>1
  <1>6. /\ r \in Cache /\ r.out = k.out /\ r.recs = k.recs /\ r.ends = k.ends
        /\ r.acked = k.acked /\ r.base = k.base /\ r.revoked = k.revoked
    BY <1>1, <1>2, <1>3, <1>5 DEF Cache
  <1>7. CacheShape(r)
    BY <1>1, <1>2, <1>6 DEF CacheShape
  <1>8. UNCHANGED <<groupVars, pc, fetch, tracked>>
    BY DEF Dispatch
  <1> QED BY <1>1, <1>2, <1>4, <1>6, <1>7, <1>8, NoGapsPop

\* An acknowledgement marks an offset only when its cache is not revoked, and
\* then the partition is still assigned and everything below is delivered.
LEMMA NoGapsAck ==
    ASSUME Inv, NEW c \in Clients, NEW p \in Partitions,
           NEW g \in 1 .. Current(c, p), NEW e, Ack(c, p, g, e)
    PROVE  NoGaps'
  <1>1. g \in 1 .. Len(caches[c][p]) /\ caches[c][p][g] \in Cache /\ CacheShape(caches[c][p][g])
    BY DEF Inv, TypeInv, TypeOK, Shape, Current
  <1>2. PICK k : k = caches[c][p][g]
    OBVIOUS
  <1>3. PICK r : r = [k EXCEPT !.acked   = k.acked \cup BatchOf(k, e),
                               !.fired   = k.fired \ BatchOf(k, e),
                               !.pending = k.pending \ {BatchID(k, e)}]
    OBVIOUS
  <1>4. /\ caches' = [caches EXCEPT ![c][p][g] = r] /\ e \in k.ends /\ e <= k.out
        /\ delivered' = [delivered EXCEPT ![p] = @ \cup {k.recs[i] : i \in BatchOf(k, e)}]
        /\ UNCHANGED <<assigned, tracked, fetch, position, committed, pc, callback>>
    BY <1>2, <1>3 DEF Ack, InFlight
  <1>5. \/ head' = head
        \/ ~r.revoked /\ \E h \in Resolved(r) : MarkCommitRecords(c, p, r.recs[h])
    BY <1>2, <1>3 DEF Ack, commitFn
  <1>6. BatchOf(k, e) \subseteq 1 .. e /\ BatchOf(k, e) \subseteq 1 .. Len(k.recs)
    BY <1>1, <1>2, <1>4, BatchOfType
  <1>7. /\ r \in Cache /\ r.out = k.out /\ r.recs = k.recs /\ r.ends = k.ends
        /\ r.acked = k.acked \cup BatchOf(k, e) /\ r.base = k.base /\ r.revoked = k.revoked
    <2>1. BatchOf(k, e) \in SUBSET Nat
      BY <1>6
    <2> QED BY <1>1, <1>2, <1>3, <2>1 DEF Cache
  <1>8. CacheShape(r)
    <2>1. k.out \in Nat /\ e \in Nat
      BY <1>1, <1>2, <1>4 DEF Cache, CacheShape
    <2>2. /\ k.out <= Len(k.recs) /\ k.ends \subseteq 1 .. Len(k.recs)
          /\ k.acked \subseteq 1 .. k.out
      BY <1>1, <1>2 DEF CacheShape
    <2>3. 1 .. e \subseteq 1 .. k.out
      BY <1>4, <2>1
    <2>4. r.acked \subseteq 1 .. r.out
      BY <1>6, <1>7, <2>2, <2>3
    <2>5. r.out <= Len(r.recs) /\ r.ends \subseteq 1 .. Len(r.recs)
      BY <1>7, <2>2
    <2> QED BY <2>4, <2>5 DEF CacheShape
  <1>9. CellSound(c, p) /\ CacheSound(c, p, g) /\ LiveCacheTracked(c, p, g)
    BY DEF Inv, NoGaps, CellSound
  <1>10. \A q \in Partitions : delivered[q] \subseteq delivered'[q]
    BY <1>4 DEF Inv, TypeInv, TypeOK, GroupTypeOK
  <1>11. \A i \in r.acked : r.recs[i] \in delivered'[p]
    <2>1. delivered'[p] = delivered[p] \cup {k.recs[i] : i \in BatchOf(k, e)}
      BY <1>4 DEF Inv, TypeInv, TypeOK, GroupTypeOK
    <2>2. \A i \in k.acked : k.recs[i] \in delivered[p]
      BY <1>2, <1>9 DEF CacheSound
    <2> QED BY <1>7, <2>1, <2>2
  <1>12. MarkSound(c, p)' /\ \A d \in Clients, q \in Partitions :
                                ~(d = c /\ q = p) => head'[d][q] = head[d][q]
    <2>1. CASE head' = head
      BY <1>4, <1>9, <1>10, <2>1 DEF CellSound, MarkSound
    <2>2. CASE ~r.revoked /\ \E h \in Resolved(r) : MarkCommitRecords(c, p, r.recs[h])
      <3>1. PICK h \in Resolved(r) : MarkCommitRecords(c, p, r.recs[h])
        BY <2>2
      <3>2. p \in assigned[c]
        BY <1>2, <1>7, <1>9, <2>2 DEF LiveCacheTracked, CellSound, TrackedSound
      <3>3. Below(r.recs[h] + 1) \subseteq delivered'[p]
        <4>1. /\ \A i \in 1 .. Len(r.recs) : r.recs[i] = r.base + i - 1
              /\ Below(r.base) \subseteq delivered'[p]
          BY <1>2, <1>7, <1>9, <1>10 DEF CacheSound
        <4>2. PICK D : D = delivered'[p]
          OBVIOUS
        <4> QED BY <1>7, <1>8, <1>11, <4>1, <4>2, ResolvedDelivered
      <3>4. head'[c][p] = head[c][p] \/ head'[c][p] = r.recs[h] + 1
        BY <3>1 DEF MarkCommitRecords, Inv, TypeInv, TypeOK, GroupTypeOK
      <3>5. head[c][p] # NoMark => Below(head[c][p]) \subseteq delivered'[p]
        BY <1>9, <1>10 DEF CellSound, MarkSound
      <3>6. MarkSound(c, p)'
        BY <1>4, <3>2, <3>3, <3>4, <3>5 DEF MarkSound
      <3>7. \A d \in Clients, q \in Partitions :
               ~(d = c /\ q = p) => head'[d][q] = head[d][q]
        BY <3>1 DEF MarkCommitRecords, Inv, TypeInv, TypeOK, GroupTypeOK
      <3> QED BY <3>6, <3>7
    <2> QED BY <1>5, <2>1, <2>2
  <1>13. \A d \in Clients, q \in Partitions : CellSound(d, q)'
    BY <1>1, <1>2, <1>4, <1>7, <1>8, <1>10, <1>11, <1>12, ReplaceSound
  <1>14. AtLeastOnce'
    BY <1>4, <1>10, CommittedFrame DEF Inv, NoGaps
  <1>15. \A d \in Clients : LoopSound(d)'
    BY <1>4, LoopFrame DEF Inv, NoGaps
  <1> QED BY <1>13, <1>14, <1>15 DEF NoGaps

\* A partition is taken up at the committed offset, below which all is delivered.
LEMMA NoGapsAssign ==
    ASSUME Inv, NEW c \in Clients, NEW p \in Partitions, Assign(c, p)
    PROVE  NoGaps'
  <1>1. /\ p \notin assigned[c] /\ callback[c] = Idle
        /\ assigned' = [assigned EXCEPT ![c] = @ \cup {p}]
        /\ position' = [position EXCEPT ![c][p] = committed[p]]
        /\ head' = [head EXCEPT ![c][p] = committed[p]]
        /\ tracked' = [tracked EXCEPT ![c] = @ \cup {p}]
        /\ UNCHANGED <<committed, callback, delivered, pc, fetch>>
    BY DEF Assign, AssignPartition
  <1>2. p \notin tracked[c] /\ fetch[c][p] = <<>>
    BY <1>1 DEF Inv, NoGaps, CellSound, TrackedSound, LoopSound, Fetched
  <1>3. PICK r : r = newPartitionCache(committed[p])
    OBVIOUS
  <1>4. /\ r \in Cache /\ CacheShape(r) /\ r.base = committed[p] /\ r.recs = <<>>
        /\ r.acked = {}
    <2>1. committed[p] \in Positions
      BY DEF Inv, TypeInv, TypeOK, GroupTypeOK
    <2> QED BY <1>3, <2>1, NewCacheType DEF newPartitionCache
  <1>5. caches' = [caches EXCEPT ![c][p] = Append(caches[c][p], r)]
    BY <1>2, <1>3 DEF Assign
  <1>6. CachesType /\ CacheAppended(c, p, r)
    <2>1. CachesType
      BY DEF CachesType, Inv, TypeInv, TypeOK
    <2> QED BY <1>4, <1>5, <2>1, AppendCache
  <1>7. PICK n \in Nat : n = Len(caches[c][p])
    BY <1>6 DEF CachesType
  <1>8. /\ Len(caches'[c][p]) = n + 1 /\ caches'[c][p][n + 1] = r
        /\ \A h \in 1 .. n : caches'[c][p][h] = caches[c][p][h]
    BY <1>6, <1>7 DEF CacheAppended
  <1>9. Below(committed[p]) \subseteq delivered[p] /\ committed[p] \in Nat
    BY DEF Inv, NoGaps, AtLeastOnce, TypeInv, TypeOK, GroupTypeOK
  <1>10. /\ p \in assigned'[c] /\ p \in tracked'[c]
         /\ position'[c][p] = committed[p] /\ head'[c][p] = committed[p]
    BY <1>1 DEF Inv, TypeInv, TypeOK, GroupTypeOK
  <1>11. CellSound(c, p)'
    <2>1. MarkSound(c, p)'
      BY <1>1, <1>9, <1>10 DEF MarkSound
    <2>2. TrackedSound(c, p)'
      <3>1. Len(fetch'[c][p]) = 0 /\ Len(r.recs) = 0
        BY <1>1, <1>2, <1>4
      <3> QED BY <1>4, <1>8, <1>9, <1>10, <3>1 DEF TrackedSound, Current
    <2>3. CacheSound(c, p, n + 1)' /\ LiveCacheTracked(c, p, n + 1)'
      <3>1. Len(r.recs) = 0 /\ delivered' = delivered
        BY <1>1, <1>4
      <3>2. CacheSound(c, p, n + 1)'
        BY <1>4, <1>8, <1>9, <3>1 DEF CacheSound
      <3> QED BY <1>8, <1>10, <3>2 DEF LiveCacheTracked, Current
    <2>4. ASSUME NEW h \in 1 .. n
          PROVE  CacheSound(c, p, h)' /\ LiveCacheTracked(c, p, h)'
      <3>1. CacheSound(c, p, h) /\ LiveCacheTracked(c, p, h)
        BY <1>7 DEF Inv, NoGaps, CellSound, Current
      <3>2. caches'[c][p][h] = caches[c][p][h]
        BY <1>8
      <3>3. CacheSound(c, p, h)'
        BY <1>1, <3>1, <3>2 DEF CacheSound
      <3>4. caches[c][p][h].revoked
        BY <1>2, <3>1 DEF LiveCacheTracked
      <3> QED BY <3>2, <3>3, <3>4 DEF LiveCacheTracked
    <2> QED BY <1>8, <2>1, <2>2, <2>3, <2>4 DEF CellSound, Current
  <1>12. ASSUME NEW d \in Clients, NEW q \in Partitions, ~(d = c /\ q = p)
         PROVE  CellSound(d, q)'
    <2>1. caches'[d][q] = caches[d][q]
      BY <1>5, <1>12 DEF Inv, TypeInv, TypeOK
    <2>2. /\ head'[d][q] = head[d][q] /\ position'[d][q] = position[d][q]
          /\ q \in assigned'[d] <=> q \in assigned[d]
          /\ q \in tracked'[d] <=> q \in tracked[d]
      BY <1>1, <1>12 DEF Inv, TypeInv, TypeOK, GroupTypeOK
    <2>3. CellSound(d, q)
      BY DEF Inv, NoGaps
    <2> QED BY <1>1, <2>1, <2>2, <2>3, CellFrame
  <1>13. ASSUME NEW d \in Clients
         PROVE  LoopSound(d)'
    <2>1. LoopSound(d)
      BY DEF Inv, NoGaps
    <2>2. CASE d = c
      <3>1. assigned'[c] = assigned[c] \cup {p} /\ tracked'[c] = tracked[c] \cup {p}
            /\ callback[c].parts = {} /\ callback[c].stage = "none"
        BY <1>1 DEF Idle, Inv, TypeInv, TypeOK, GroupTypeOK
      <3> QED BY <1>1, <2>1, <2>2, <3>1 DEF LoopSound, Fetched
    <2>3. CASE d # c
      <3>1. assigned'[d] = assigned[d] /\ tracked'[d] = tracked[d]
        BY <1>1, <2>3 DEF Inv, TypeInv, TypeOK, GroupTypeOK
      <3> QED BY <1>1, <2>1, <3>1, LoopFrame
    <2> QED BY <2>2, <2>3
  <1>14. AtLeastOnce'
    BY <1>1, CommittedFrame DEF Inv, NoGaps
  <1> QED BY <1>11, <1>12, <1>13, <1>14 DEF NoGaps

\* Steps outside the reader that change neither marks nor assignments.
LEMMA NoGapsGroup ==
    ASSUME Inv, NEW c \in Clients, UNCHANGED <<assigned, position, head, callback, delivered>>,
           UNCHANGED <<pc, fetch, tracked, caches>>,
           CommitMarkedOffsets(c) \/ UNCHANGED committed
    PROVE  NoGaps'
  <1>1. AtLeastOnce'
    BY CommitSound
  <1>2. \A d \in Clients, q \in Partitions : CellSound(d, q)'
    BY CellFrame DEF Inv, NoGaps
  <1>3. \A d \in Clients : LoopSound(d)'
    BY LoopFrame DEF Inv, NoGaps
  <1> QED BY <1>1, <1>2, <1>3 DEF NoGaps

\* Entering a callback: kgo takes away partitions of which the loop holds no
\* record.
LEMMA NoGapsCallback ==
    ASSUME Inv, NEW c \in Clients, NEW parts \in SUBSET Partitions,
           parts \cap Fetched(c) = {}, callback[c] = Idle,
           callback' = [callback EXCEPT ![c] = [stage |-> "remove", parts |-> parts]],
           UNCHANGED <<assigned, position, head, delivered, readerVars>>,
           CommitMarkedOffsets(c) \/ UNCHANGED committed
    PROVE  NoGaps'
  <1> USE DEF readerVars
  <1>1. AtLeastOnce'
    BY CommitSound
  <1>2. \A d \in Clients, q \in Partitions : CellSound(d, q)'
    BY CellFrame DEF Inv, NoGaps
  <1>3. ASSUME NEW d \in Clients
        PROVE  LoopSound(d)'
    <2>1. LoopSound(d)
      BY DEF Inv, NoGaps
    <2>2. CASE d = c
      <3>1. callback'[c].stage = "remove" /\ callback'[c].parts = parts /\ callback[c].parts = {}
        BY DEF Idle, Inv, TypeInv, TypeOK, GroupTypeOK
      <3>2. Fetched(c)' = Fetched(c)
        BY DEF Fetched
      <3> QED BY <2>1, <2>2, <3>1, <3>2 DEF LoopSound
    <2>3. CASE d # c
      BY <2>1, <2>3, LoopFrame DEF Inv, TypeInv, TypeOK, GroupTypeOK
    <2> QED BY <2>2, <2>3
  <1> QED BY <1>1, <1>2, <1>3 DEF NoGaps

\* removeTopicPartitions: a removed partition has no live cache left.
LEMMA NoGapsRemove ==
    ASSUME Inv, NEW c \in Clients, RemoveTopicPartitions(c)
    PROVE  NoGaps'
  <1>1. PICK gone : gone = callback[c].parts \cap tracked[c]
    OBVIOUS
  <1>2. CachesFlagged(c)
    BY RemovedCaches DEF Inv
  <1>3. /\ tracked'[c] = tracked[c] \ gone
        /\ \A d \in Clients : d # c => tracked'[d] = tracked[d] /\ callback'[d] = callback[d]
        /\ callback'[c].parts = callback[c].parts /\ callback'[c].stage = "clean"
        /\ UNCHANGED <<committed, assigned, position, head, delivered, pc, fetch>>
    BY <1>1 DEF RemoveTopicPartitions, Inv, TypeInv, TypeOK, GroupTypeOK
  <1>4. ASSUME NEW d \in Clients, NEW q \in Partitions
        PROVE  CellSound(d, q)'
    <2>0. CellSound(d, q) /\ caches[d][q] \in Seq(Cache)
      BY DEF Inv, NoGaps, TypeInv, TypeOK
    <2>1. PICK n \in Nat : n = Len(caches[d][q])
      BY <2>0
    <2>2. /\ Len(caches'[d][q]) = n
          /\ \A h \in 1 .. n : caches'[d][q][h] =
                IF d = c /\ q \in gone /\ h = n
                THEN [caches[d][q][h] EXCEPT !.revoked = TRUE] ELSE caches[d][q][h]
      BY <1>1, <1>2, <2>1 DEF CachesFlagged, Current
    <2>3. ASSUME NEW h \in 1 .. n
          PROVE  /\ caches'[d][q][h].base = caches[d][q][h].base
                 /\ caches'[d][q][h].recs = caches[d][q][h].recs
                 /\ caches'[d][q][h].acked = caches[d][q][h].acked
                 /\ caches'[d][q][h].out = caches[d][q][h].out
                 /\ caches'[d][q][h].ends = caches[d][q][h].ends
                 /\ ~caches'[d][q][h].revoked
                       => ~caches[d][q][h].revoked /\ ~(d = c /\ q \in gone /\ h = n)
      <3>1. caches[d][q][h] \in Cache
        BY <2>0, <2>1
      <3> QED BY <2>2, <3>1 DEF Cache
    <2>4. MarkSound(d, q)'
      BY <1>3, <2>0 DEF CellSound, MarkSound
    <2>5. q \in tracked'[d] => q \in tracked[d] /\ ~(d = c /\ q \in gone)
      BY <1>3
    <2>6. q \in tracked'[d] => TrackedSound(d, q)'
      <3> SUFFICES ASSUME q \in tracked'[d]
                   PROVE  TrackedSound(d, q)'
        OBVIOUS
      <3>1. TrackedSound(d, q)
        BY <2>0, <2>5 DEF CellSound
      <3>2. n \in 1 .. n
        BY <2>1, <3>1 DEF TrackedSound, Current
      <3>3. PICK k : k = caches[d][q][n]
        OBVIOUS
      <3>4. PICK r : r = caches'[d][q][n]
        OBVIOUS
      <3>5. r.base = k.base /\ r.recs = k.recs
        BY <2>3, <3>2, <3>3, <3>4
      <3>6. /\ q \in assigned[d] /\ n > 0
            /\ k.base + Len(k.recs) + Len(fetch[d][q]) = position[d][q]
            /\ \A i \in 1 .. Len(fetch[d][q]) : fetch[d][q][i] = k.base + Len(k.recs) + i - 1
        BY <2>1, <3>1, <3>3 DEF TrackedSound, Current
      <3>7. assigned' = assigned /\ fetch' = fetch /\ position' = position
        BY <1>3
      <3>8. /\ q \in assigned'[d] /\ n > 0
            /\ r.base + Len(r.recs) + Len(fetch'[d][q]) = position'[d][q]
            /\ \A i \in 1 .. Len(fetch'[d][q]) : fetch'[d][q][i] = r.base + Len(r.recs) + i - 1
        BY <3>5, <3>6, <3>7
      <3> QED BY <2>2, <3>4, <3>8 DEF TrackedSound, Current
    <2>7. ASSUME NEW h \in 1 .. n
          PROVE  CacheSound(d, q, h)' /\ LiveCacheTracked(d, q, h)'
      <3>1. CacheSound(d, q, h) /\ LiveCacheTracked(d, q, h)
        BY <2>0, <2>1 DEF CellSound, Current
      <3>2. CacheSound(d, q, h)'
        <4>1. PICK k : k = caches[d][q][h]
          OBVIOUS
        <4>2. PICK r : r = caches'[d][q][h]
          OBVIOUS
        <4>3. /\ r.base = k.base /\ r.recs = k.recs /\ r.acked = k.acked
              /\ r.out = k.out /\ r.ends = k.ends
          BY <2>3, <4>1, <4>2
        <4>4. CacheShape(r)
          BY <3>1, <4>1, <4>3, SameShape DEF CacheSound
        <4>5. /\ \A i \in 1 .. Len(k.recs) : k.recs[i] = k.base + i - 1
              /\ Below(k.base) \subseteq delivered[q]
              /\ \A i \in k.acked : k.recs[i] \in delivered[q]
          BY <3>1, <4>1 DEF CacheSound
        <4>6. delivered' = delivered
          BY <1>3
        <4>7. /\ \A i \in 1 .. Len(r.recs) : r.recs[i] = r.base + i - 1
              /\ Below(r.base) \subseteq delivered'[q]
              /\ \A i \in r.acked : r.recs[i] \in delivered'[q]
          BY <4>3, <4>5, <4>6
        <4> QED BY <4>2, <4>4, <4>7 DEF CacheSound
      <3>3. LiveCacheTracked(d, q, h)'
        <4> SUFFICES ASSUME ~caches'[d][q][h].revoked
                     PROVE  q \in tracked'[d] /\ h = n
          BY <2>2 DEF LiveCacheTracked, Current
        <4>1. q \in tracked[d] /\ h = n
          BY <2>1, <2>3, <3>1 DEF LiveCacheTracked, Current
        <4> QED BY <1>3, <2>3, <4>1
      <3> QED BY <3>2, <3>3
    <2> QED BY <2>2, <2>4, <2>6, <2>7 DEF CellSound, Current
  <1>5. ASSUME NEW d \in Clients
        PROVE  LoopSound(d)'
    <2>1. LoopSound(d)
      BY DEF Inv, NoGaps
    <2>2. CASE d = c
      <3>1. Fetched(c)' = Fetched(c)
        BY <1>3 DEF Fetched
      <3> QED BY <1>1, <1>3, <2>1, <2>2, <3>1 DEF LoopSound
    <2>3. CASE d # c
      BY <1>3, <2>1, <2>3, LoopFrame
    <2> QED BY <2>2, <2>3
  <1>6. AtLeastOnce'
    BY <1>3, CommittedFrame DEF Inv, NoGaps
  <1> QED BY <1>4, <1>5, <1>6 DEF NoGaps

\* When the callback has returned, the client drops the marks of partitions of
\* which no live cache is left.
LEMMA NoGapsReturned ==
    ASSUME Inv, NEW c \in Clients, Returned(c)
    PROVE  NoGaps'
  <1>1. PICK parts : parts = callback[c].parts
    OBVIOUS
  <1>2. /\ callback[c].stage = "clean"
        /\ \A q \in Partitions :
              /\ head'[c][q] = IF q \in parts THEN NoMark ELSE head[c][q]
              /\ position'[c][q] = IF q \in parts THEN 0 ELSE position[c][q]
        /\ assigned'[c] = assigned[c] \ parts
        /\ callback'[c] = Idle
        /\ \A d \in Clients : d # c => /\ head'[d] = head[d] /\ position'[d] = position[d]
                                       /\ assigned'[d] = assigned[d] /\ callback'[d] = callback[d]
        /\ UNCHANGED <<committed, delivered, pc, fetch, tracked, caches>>
    BY <1>1 DEF Returned, CallbackReturned, readerVars, Inv, TypeInv, TypeOK, GroupTypeOK
  <1>3. parts \cap tracked[c] = {}
    BY <1>1, <1>2 DEF Inv, NoGaps, LoopSound
  <1>4. ASSUME NEW d \in Clients, NEW q \in Partitions
        PROVE  CellSound(d, q)'
    <2>0. CellSound(d, q)
      BY DEF Inv, NoGaps
    <2>1. CASE d = c /\ q \in parts
      <3>1. MarkSound(d, q)' /\ q \notin tracked'[d]
        BY <1>2, <1>3, <2>1 DEF MarkSound
      <3>2. \A g \in 1 .. Len(caches[d][q]) : CacheSound(d, q, g)' /\ LiveCacheTracked(d, q, g)'
        BY <1>2, <2>0 DEF CellSound, CacheSound, LiveCacheTracked, Current
      <3> QED BY <1>2, <3>1, <3>2 DEF CellSound, Current
    <2>2. CASE ~(d = c /\ q \in parts)
      BY <1>2, <2>0, <2>2, CellFrame
    <2> QED BY <2>1, <2>2
  <1>5. ASSUME NEW d \in Clients
        PROVE  LoopSound(d)'
    <2>1. LoopSound(d)
      BY DEF Inv, NoGaps
    <2>2. CASE d = c
      <3>1. Fetched(c)' = Fetched(c) /\ callback'[c].parts = {} /\ callback'[c].stage = "none"
        BY <1>2 DEF Fetched, Idle
      <3> QED BY <1>1, <1>2, <2>1, <2>2, <3>1 DEF LoopSound
    <2>3. CASE d # c
      BY <1>2, <2>1, <2>3, LoopFrame
    <2> QED BY <2>2, <2>3
  <1>6. AtLeastOnce'
    BY <1>2, CommittedFrame DEF Inv, NoGaps
  <1> QED BY <1>4, <1>5, <1>6 DEF NoGaps

\* A process that is gone leaves nothing behind but the committed offset.
LEMMA NoGapsGone ==
    ASSUME Inv, NEW c \in Clients, Restart(c) \/ Crash(c)
    PROVE  NoGaps'
  <1>1. ProcessGone(c) /\ ReaderGone(c)
    BY DEF Restart, Crash
  <1>2. /\ \A q \in Partitions : head'[c][q] = NoMark /\ fetch'[c][q] = <<>> /\ caches'[c][q] = <<>>
        /\ tracked'[c] = {} /\ assigned'[c] = {} /\ callback'[c] = Idle /\ pc'[c] = "poll"
        /\ UNCHANGED <<committed, delivered>>
    BY <1>1 DEF ProcessGone, ReaderGone, NoFetch, Inv, TypeInv, TypeOK, GroupTypeOK
  <1>3. \A d \in Clients : d # c =>
           /\ head'[d] = head[d] /\ position'[d] = position[d] /\ assigned'[d] = assigned[d]
           /\ callback'[d] = callback[d] /\ pc'[d] = pc[d] /\ fetch'[d] = fetch[d]
           /\ tracked'[d] = tracked[d] /\ caches'[d] = caches[d]
    BY <1>1 DEF ProcessGone, ReaderGone, Inv, TypeInv, TypeOK, GroupTypeOK
  <1>4. ASSUME NEW d \in Clients, NEW q \in Partitions
        PROVE  CellSound(d, q)'
    <2>1. CASE d = c
      BY <1>2, <2>1 DEF CellSound, MarkSound, Current
    <2>2. CASE d # c
      <3>1. CellSound(d, q)
        BY DEF Inv, NoGaps
      <3> QED BY <1>2, <1>3, <2>2, <3>1, CellFrame
    <2> QED BY <2>1, <2>2
  <1>5. ASSUME NEW d \in Clients
        PROVE  LoopSound(d)'
    <2>1. CASE d = c
      BY <1>2, <2>1 DEF LoopSound, Fetched, Idle
    <2>2. CASE d # c
      <3>1. LoopSound(d)
        BY DEF Inv, NoGaps
      <3> QED BY <1>3, <2>2, <3>1, LoopFrame
    <2> QED BY <2>1, <2>2
  <1>6. AtLeastOnce'
    BY <1>2, CommittedFrame DEF Inv, NoGaps
  <1> QED BY <1>4, <1>5, <1>6 DEF NoGaps

\* Revocations, losses, evictions, autocommits and closes leave no gap, as
\* long as they stay out of the poll window.
LEMMA NoGapsRebalance ==
    ASSUME Inv, ~RebalanceInPollWindow, NEW c \in Clients,
           \/ \E p \in Partitions : Revoke(c, p)
           \/ Lost(c) \/ Thrown(c) \/ Committer(c) \/ CloseClient(c) \/ Close(c)
    PROVE  NoGaps'
  <1>1. CASE \E p \in Partitions : Revoke(c, p)
    <2>1. PICK p \in Partitions : Revoke(c, p)
      BY <1>1
    <2> QED BY <2>1, NoGapsCallback
            DEF Revoke, OutsidePollWindow, OnPartitionsRevoked
  <1>2. CASE Lost(c)
    <2>1. assigned[c] \in SUBSET Partitions /\ assigned[c] \cap Fetched(c) = {}
      BY <1>2 DEF Lost, OutsidePollWindow, Inv, TypeInv, TypeOK, GroupTypeOK
    <2> QED BY <1>2, <2>1, NoGapsCallback DEF Lost, OnPartitionsLost
  <1>3. CASE CloseClient(c)
    <2>1. assigned[c] \in SUBSET Partitions /\ assigned[c] \cap Fetched(c) = {}
      BY <1>3 DEF CloseClient, Inv, NoGaps, LoopSound, TypeInv, TypeOK, GroupTypeOK
    <2> QED BY <1>3, <2>1, NoGapsCallback DEF CloseClient, OnPartitionsRevoked
  <1>4. CASE Thrown(c)
    BY <1>4, NoGapsGroup DEF Thrown, Evict, readerVars
  <1>5. CASE Committer(c)
    BY <1>5, NoGapsGroup DEF Committer, AutoCommit, readerVars
  <1>6. CASE Close(c)
    BY <1>6, NoGapsGroup DEF Close
  <1> QED BY <1>1, <1>2, <1>3, <1>4, <1>5, <1>6

\* Every step of any process preserves NoGaps when rebalances stay out of the
\* poll window.
LEMMA NoGapsStep ==
    ASSUME ~RebalanceInPollWindow, Inv, [Next]_vars
    PROVE  NoGaps'
  <1>1. CASE UNCHANGED vars
    <2>1. AtLeastOnce'
      BY <1>1, CommittedFrame DEF vars, groupVars, Inv, NoGaps
    <2>2. \A d \in Clients, q \in Partitions : CellSound(d, q)'
      BY <1>1, CellFrame DEF vars, groupVars, readerVars, Inv, NoGaps
    <2>3. \A d \in Clients : LoopSound(d)'
      BY <1>1, LoopFrame DEF vars, groupVars, readerVars, Inv, NoGaps
    <2> QED BY <2>1, <2>2, <2>3 DEF NoGaps
  <1>2. ASSUME NEW c \in Clients, LoopStep(c)
        PROVE  NoGaps'
    BY <1>2, NoGapsPoll, NoGapsFile, NoGapsLoop DEF LoopStep, Poll
  <1>3. ASSUME NEW c \in Clients, PipelineStep(c)
        PROVE  NoGaps'
    BY <1>3, NoGapsReadBatch, NoGapsDispatch, NoGapsAck DEF PipelineStep
  <1>4. ASSUME NEW c \in Clients, RebalanceStep(c) \/ ProcessStep(c)
        PROVE  NoGaps'
    BY <1>4, NoGapsAssign, NoGapsRebalance, NoGapsRemove, NoGapsReturned, NoGapsGone
    DEF RebalanceStep, ProcessStep
  <1> QED BY <1>1, <1>2, <1>3, <1>4 DEF Next

\* The inductive invariant: when no partition is taken away while the poll
\* loop holds records of it, marks, caches and records on their way to the
\* caches never leave a gap.
THEOREM NoGapsInvariant ==
    ASSUME ~RebalanceInPollWindow
    PROVE  Spec => []NoGaps
  <1>1. Init => Inv
    BY TypeInit, NoGapsInit DEF Inv
  <1>2. Inv /\ [Next]_vars => Inv'
    BY TypeStep, NoGapsStep DEF Inv
  <1>3. Inv => NoGaps
    BY DEF Inv
  <1> QED BY <1>1, <1>2, <1>3, PTL DEF Spec

\* At-least-once delivery: the committed offset of a partition never passes a
\* record that no output has confirmed, for any number of processes,
\* partitions and records and any sequence of evictions, revocations, closes
\* and crashes outside the poll window.
THEOREM AtLeastOnceDelivery ==
    ASSUME ~RebalanceInPollWindow
    PROVE  Spec => []AtLeastOnce
  <1>1. NoGaps => AtLeastOnce
    BY DEF NoGaps
  <1> QED BY <1>1, NoGapsInvariant, PTL

\* No offset outlives a revoke: a client marks offsets only for partitions it
\* is assigned (markRevoked and the revoked check of onAck).
THEOREM MarksAreOwned ==
    ASSUME ~RebalanceInPollWindow
    PROVE  Spec => []MarksOnlyOwned
  <1>1. NoGaps => MarksOnlyOwned
    BY DEF NoGaps, CellSound, MarkSound, MarksOnlyOwned
  <1> QED BY <1>1, NoGapsInvariant, PTL

-----------------------------------------------------------------------------
(* Committed offsets only go forward, under the same condition.            *)

\* An acknowledgement marks offsets of partitions the client is assigned.
LEMMA OwnershipAck ==
    ASSUME Inv, Ownership, NEW c \in Clients, NEW p \in Partitions,
           NEW g \in 1 .. Current(c, p), NEW e, Ack(c, p, g, e)
    PROVE  Ownership' /\ Forward
  <1>1. g \in 1 .. Len(caches[c][p]) /\ caches[c][p][g] \in Cache /\ CacheShape(caches[c][p][g])
    BY DEF Inv, TypeInv, TypeOK, Shape, Current
  <1>2. PICK k : k = caches[c][p][g]
    OBVIOUS
  <1>3. PICK r : r = [k EXCEPT !.acked   = k.acked \cup BatchOf(k, e),
                               !.fired   = k.fired \ BatchOf(k, e),
                               !.pending = k.pending \ {BatchID(k, e)}]
    OBVIOUS
  <1>4. r.recs = k.recs /\ r.ends = k.ends /\ r.revoked = k.revoked
    BY <1>1, <1>2, <1>3 DEF Cache
  <1>5. /\ head' = head \/ (~r.revoked /\ \E h \in Resolved(r) : MarkCommitRecords(c, p, r.recs[h]))
        /\ UNCHANGED <<owner, committed, fenced, assigned, callback>>
    BY <1>2, <1>3 DEF Ack, commitFn
  <1>6. GroupTypeOK
    BY DEF Inv, TypeInv, TypeOK
  <1>7. CASE head' = head
    BY <1>5, <1>6, <1>7, OwnershipFrame
  <1>8. ASSUME ~r.revoked, NEW h \in Resolved(r), MarkCommitRecords(c, p, r.recs[h])
        PROVE  Ownership' /\ Forward
    <2>1. h \in k.ends /\ r.recs[h] \in Offsets
      BY <1>1, <1>2, <1>4, <1>8, SMTT(60) DEF Resolved, Cache, CacheShape
    <2>2. p \in assigned[c]
      <3>1. CellSound(c, p) /\ ~caches[c][p][g].revoked
        BY <1>2, <1>4, <1>8 DEF Inv, NoGaps
      <3>2. p \in tracked[c]
        BY <3>1 DEF CellSound, LiveCacheTracked
      <3> QED BY <3>1, <3>2 DEF CellSound, TrackedSound
    <2> QED BY <1>5, <1>6, <1>8, <2>1, <2>2, OwnershipMark
  <1> QED BY <1>5, <1>7, <1>8

\* Every step keeps the owners, and moves no committed offset back.
LEMMA OwnershipStep ==
    ASSUME Inv, Ownership, [Next]_vars
    PROVE  Ownership' /\ Forward
  <1>1. GroupTypeOK /\ MarksOnlyOwned
    BY DEF Inv, TypeInv, TypeOK, NoGaps, CellSound, MarkSound, MarksOnlyOwned
  <1>2. CASE UNCHANGED vars
    BY <1>1, <1>2, OwnershipFrame DEF vars, groupVars
  <1>3. ASSUME NEW c \in Clients, LoopStep(c) PROVE Ownership' /\ Forward
    <2>1. UNCHANGED <<owner, committed, fenced, assigned, head, callback>>
      <3>1. CASE Poll(c)
        BY <3>1 DEF Poll, PollFetches
      <3>2. ASSUME NEW p \in Partitions, FileRecords(c, p)
            PROVE  UNCHANGED <<owner, committed, fenced, assigned, head, callback>>
        BY <3>2 DEF FileRecords, groupVars
      <3>3. CASE PauseFetch(c) \/ Resume(c) \/ LoopExit(c)
        BY <3>3 DEF PauseFetch, Resume, LoopExit, groupVars
      <3> QED BY <1>3, <3>1, <3>2, <3>3 DEF LoopStep
    <2> QED BY <1>1, <2>1, OwnershipFrame
  <1>4. ASSUME NEW c \in Clients, PipelineStep(c) PROVE Ownership' /\ Forward
    <2>1. ASSUME NEW p \in Partitions, Pop(c, p) PROVE Ownership' /\ Forward
      <3>1. UNCHANGED groupVars
        BY <2>1 DEF Pop
      <3> QED BY <1>1, <3>1, OwnershipFrame DEF groupVars
    <2>2. ASSUME NEW p \in Partitions, NEW g \in 1 .. Current(c, p), NEW e, NEW i, Dispatch(c, p, g, e, i)
          PROVE  Ownership' /\ Forward
      <3>1. UNCHANGED groupVars
        BY <2>2 DEF Dispatch
      <3> QED BY <1>1, <3>1, OwnershipFrame DEF groupVars
    <2>3. ASSUME NEW p \in Partitions, NEW g \in 1 .. Current(c, p), NEW e, Ack(c, p, g, e)
          PROVE  Ownership' /\ Forward
      BY <2>3, OwnershipAck
    <2> QED BY <1>4, <2>1, <2>2, <2>3 DEF PipelineStep
  <1>5. ASSUME NEW c \in Clients, RebalanceStep(c) PROVE Ownership' /\ Forward
    <2>1. ASSUME NEW p \in Partitions, Assign(c, p) PROVE Ownership' /\ Forward
      BY <1>1, <2>1, OwnershipAssign DEF Assign
    <2>2. ASSUME NEW p \in Partitions, Revoke(c, p) PROVE Ownership' /\ Forward
      <3>1. /\ CommitMarkedOffsets(c) \/ UNCHANGED committed
            /\ UNCHANGED <<owner, fenced, assigned, head>> /\ c \notin fenced
            /\ \A d \in Clients : d # c => callback'[d] = callback[d]
        BY <1>1, <2>2 DEF Revoke, OnPartitionsRevoked, GroupTypeOK
      <3> QED BY <1>1, <3>1, OwnershipCommit
    <2>3. CASE Lost(c) \/ Returned(c)
      BY <1>1, <2>3, OwnershipCallback DEF Lost, Returned
    <2>4. CASE RemoveTopicPartitions(c)
      <3>1. /\ callback[c].stage = "remove" /\ callback' = [callback EXCEPT ![c].stage = "clean"]
            /\ UNCHANGED <<owner, committed, fenced, assigned, head>>
        BY <2>4 DEF RemoveTopicPartitions
      <3>2. callback[c] # Idle /\ callback'[c].parts = callback[c].parts
            /\ \A d \in Clients : d # c => callback'[d] = callback[d]
        BY <1>1, <3>1 DEF Idle, GroupTypeOK
      <3> QED BY <1>1, <3>1, <3>2, OwnershipFrame
    <2>5. CASE Thrown(c)
      BY <1>1, <2>5, OwnershipLeave DEF Thrown
    <2>6. CASE Committer(c)
      BY <1>1, <2>6, OwnershipCommit DEF Committer, AutoCommit
    <2> QED BY <1>5, <2>1, <2>2, <2>3, <2>4, <2>5, <2>6 DEF RebalanceStep
  <1>6. ASSUME NEW c \in Clients, ProcessStep(c) PROVE Ownership' /\ Forward
    <2>1. CASE Close(c)
      <3>1. UNCHANGED <<owner, committed, fenced, assigned, head, callback>>
        BY <2>1 DEF Close
      <3> QED BY <1>1, <3>1, OwnershipFrame
    <2>2. CASE CloseClient(c)
      <3>1. /\ CommitMarkedOffsets(c) \/ UNCHANGED committed
            /\ UNCHANGED <<owner, fenced, assigned, head>> /\ c \notin fenced
            /\ \A d \in Clients : d # c => callback'[d] = callback[d]
        BY <1>1, <2>2 DEF CloseClient, OnPartitionsRevoked, GroupTypeOK
      <3> QED BY <1>1, <3>1, OwnershipCommit
    <2>3. CASE Restart(c) \/ Crash(c)
      BY <1>1, <2>3, OwnershipLeave DEF Restart, Crash
    <2> QED BY <1>6, <2>1, <2>2, <2>3 DEF ProcessStep
  <1> QED BY <1>2, <1>3, <1>4, <1>5, <1>6 DEF Next

\* Types, gaps and owners, all the time.
LEMMA OwnershipAlways ==
    ASSUME ~RebalanceInPollWindow
    PROVE  Spec => [](Inv /\ Ownership)
  <1>1. Init => Inv /\ Ownership
    BY TypeInit, NoGapsInit, OwnershipInit DEF Inv, Init
  <1>2. Inv /\ Ownership /\ [Next]_vars => Inv' /\ Ownership'
    BY TypeStep, NoGapsStep, OwnershipStep DEF Inv
  <1> QED BY <1>1, <1>2, PTL DEF Spec

\* No step moves a committed offset back: the coordinator takes the offsets of
\* any member it has not thrown out, but such a member has marks only for
\* partitions it owns (the revoked check of onAck keeps late acknowledgements
\* from making others), and marks only go up.
THEOREM CommitsGoForward ==
    ASSUME ~RebalanceInPollWindow
    PROVE  Spec => CommitNeverRewinds
  <1>1. Inv /\ Ownership /\ [Next]_vars => [\A p \in Partitions : committed'[p] >= committed[p]]_vars
    BY OwnershipStep DEF Forward
  <1> QED BY <1>1, OwnershipAlways, PTL DEF Spec, CommitNeverRewinds

\* A step confirms nothing, or it is an acknowledgement, which confirms records
\* of one partition and commits nothing.
LEMMA StepDelivers ==
    ASSUME TypeInv, [Next]_vars
    PROVE  \/ delivered' = delivered
           \/ /\ committed' = committed
              /\ \E p \in Partitions : \E D \in SUBSET Offsets :
                    delivered' = [delivered EXCEPT ![p] = @ \cup D]
  <1>1. CASE UNCHANGED vars
    BY <1>1 DEF vars, groupVars
  <1>2. ASSUME NEW c \in Clients, LoopStep(c) PROVE delivered' = delivered
    <2>1. CASE Poll(c)
      BY <2>1 DEF Poll, PollFetches
    <2>2. ASSUME NEW p \in Partitions, FileRecords(c, p) PROVE delivered' = delivered
      BY <2>2 DEF FileRecords, groupVars
    <2>3. CASE PauseFetch(c) \/ Resume(c) \/ LoopExit(c)
      BY <2>3 DEF PauseFetch, Resume, LoopExit, groupVars
    <2> QED BY <1>2, <2>1, <2>2, <2>3 DEF LoopStep
  <1>3. ASSUME NEW c \in Clients, NEW p \in Partitions, Pop(c, p) PROVE delivered' = delivered
    BY <1>3 DEF Pop, groupVars
  <1>4. ASSUME NEW c \in Clients, NEW p \in Partitions, NEW g, NEW e, NEW i, Dispatch(c, p, g, e, i)
        PROVE  delivered' = delivered
    BY <1>4 DEF Dispatch, groupVars
  <1>5. ASSUME NEW c \in Clients, NEW p \in Partitions, NEW g \in 1 .. Current(c, p), NEW e, Ack(c, p, g, e)
        PROVE  /\ committed' = committed
               /\ \E D \in SUBSET Offsets : delivered' = [delivered EXCEPT ![p] = @ \cup D]
    <2>1. PICK k : k = caches[c][p][g]
      OBVIOUS
    <2>2. PICK D : D = {k.recs[i] : i \in BatchOf(k, e)}
      OBVIOUS
    <2>3. e \in k.ends /\ committed' = committed /\ delivered' = [delivered EXCEPT ![p] = @ \cup D]
      BY <1>5, <2>1, <2>2 DEF Ack, InFlight
    <2>4. k \in Cache /\ CacheShape(k)
      BY <2>1 DEF TypeInv, TypeOK, Current, Shape
    <2>5. D \subseteq Offsets
      BY <2>2, <2>3, <2>4, BatchOfType
    <2> QED BY <2>3, <2>5
  <1>6. ASSUME NEW c \in Clients, PipelineStep(c)
        PROVE  \/ delivered' = delivered
               \/ /\ committed' = committed
                  /\ \E p \in Partitions : \E D \in SUBSET Offsets :
                        delivered' = [delivered EXCEPT ![p] = @ \cup D]
    BY <1>3, <1>4, <1>5, <1>6 DEF PipelineStep
  <1>7. ASSUME NEW c \in Clients, RebalanceStep(c) PROVE delivered' = delivered
    <2>1. ASSUME NEW p \in Partitions, Assign(c, p) \/ Revoke(c, p) PROVE delivered' = delivered
      BY <2>1 DEF Assign, AssignPartition, Revoke, OnPartitionsRevoked
    <2>2. CASE Lost(c) \/ Returned(c) \/ Thrown(c)
      BY <2>2 DEF Lost, OnPartitionsLost, Returned, CallbackReturned, Thrown, Evict
    <2>3. CASE RemoveTopicPartitions(c) \/ Committer(c)
      BY <2>3 DEF RemoveTopicPartitions, Committer, AutoCommit
    <2> QED BY <1>7, <2>1, <2>2, <2>3 DEF RebalanceStep
  <1>8. ASSUME NEW c \in Clients, ProcessStep(c) PROVE delivered' = delivered
    BY <1>8 DEF ProcessStep, Close, CloseClient, OnPartitionsRevoked, Restart, Crash, ProcessGone
  <1> QED BY <1>1, <1>2, <1>6, <1>7, <1>8 DEF Next

\* Any run of a group of ordered readers outside the poll window, with its
\* rebalances, evictions, crashes and failed commits, is a run of an input that
\* moves one position per partition forward over confirmed records.
THEOREM ImplementsAtLeastOnceInput ==
    ASSUME ~RebalanceInPollWindow
    PROVE  Spec => ImplementsInput
  <1>1. Init => Group!Init
    BY GroupStarts DEF Init
  <1>2. ASSUME Inv, Ownership, Inv', [Next]_vars PROVE [Group!Next]_(Group!inputVars)
    <2>1. Forward
      BY <1>2, OwnershipStep
    <2>2. TypeInv /\ GroupTypeOK /\ GroupTypeOK' /\ AtLeastOnce'
      BY <1>2 DEF Inv, TypeInv, TypeOK, NoGaps
    <2> QED BY <1>2, <2>1, <2>2, StepDelivers, GroupSteps
  <1>3. Inv /\ Ownership /\ Inv' /\ [Next]_vars => [Group!Next]_(Group!inputVars)
    BY <1>2
  <1> QED BY <1>1, <1>3, OwnershipAlways, PTL DEF Spec, ImplementsInput, Group!Spec

-----------------------------------------------------------------------------
(* One batch at a time, under the same condition: pendingDispatch tells    *)
(* batches apart by their first offset, so no offset may be twice in a     *)
(* cache.                                                                  *)

\* The records of a cache have different offsets.
Distinct(k) == \A i, j \in 1 .. Len(k.recs) : k.recs[i] = k.recs[j] => i = j

\* A batch in flight that is not dispatched is the last one handed out, and
\* waits.
Waiting(k) ==
    \A e \in InFlight(k) :
        \/ BatchOf(k, e) \subseteq k.fired
        \/ e = k.out /\ BatchID(k, e) \in k.pending

\* The inductive invariant behind OrderedDispatch.
DispatchInv ==
    \A c \in Clients, p \in Partitions : \A g \in 1 .. Len(caches[c][p]) :
        Waiting(caches[c][p][g])

\* Without gaps no offset is twice in a cache.
LEMMA CachesDistinct ==
    ASSUME Inv, NEW c \in Clients, NEW p \in Partitions, NEW g \in 1 .. Len(caches[c][p])
    PROVE  Distinct(caches[c][p][g])
  <1>1. PICK k \in Cache : k = caches[c][p][g]
    BY DEF Inv, TypeInv, TypeOK
  <1>2. \A i \in 1 .. Len(k.recs) : k.recs[i] = k.base + i - 1
    BY <1>1 DEF Inv, NoGaps, CellSound, CacheSound, Current
  <1>3. k.base \in Int
    BY DEF Cache
  <1>4. ASSUME NEW i \in 1 .. Len(k.recs), NEW j \in 1 .. Len(k.recs), k.recs[i] = k.recs[j]
        PROVE  i = j
    <2>1. k.base + i - 1 = k.base + j - 1
      BY <1>2, <1>4
    <2> QED BY <1>3, <2>1
  <1> QED BY <1>1, <1>4 DEF Distinct

\* Then different batches have different keys.
LEMMA BatchIDsApart ==
    ASSUME NEW k \in Cache, CacheShape(k), Distinct(k), NEW x \in k.ends, NEW e \in k.ends, x # e
    PROVE  BatchID(k, x) # BatchID(k, e)
  <1>1. PICK i, j : i = Min(BatchOf(k, x)) /\ j = Min(BatchOf(k, e))
    OBVIOUS
  <1>2. i \in BatchOf(k, x) /\ j \in BatchOf(k, e)
    BY <1>1, BatchIDType
  <1>3. i \in 1 .. Len(k.recs) /\ j \in 1 .. Len(k.recs)
    <2>1. BatchOf(k, x) \subseteq 1 .. Len(k.recs) /\ BatchOf(k, e) \subseteq 1 .. Len(k.recs)
      BY BatchOfType
    <2> QED BY <1>2, <2>1
  <1>4. i # j
    BY <1>2, BatchesApart
  <1>5. k.recs[i] # k.recs[j]
    BY <1>3, <1>4 DEF Distinct
  <1> QED BY <1>1, <1>5 DEF BatchID

\* Nothing waits in a new cache.
LEMMA WaitingNew ==
    ASSUME NEW start
    PROVE  Waiting(newPartitionCache(start))
  BY DEF Waiting, newPartitionCache, InFlight

\* push leaves the batches that wait as they are.
LEMMA WaitingPush ==
    ASSUME NEW k \in Cache, CacheShape(k), Waiting(k), NEW recs \in Seq(Offsets)
    PROVE  Waiting(push(k, recs))
  <1>1. PICK r : r = push(k, recs)
    OBVIOUS
  <1>2. r.out = k.out /\ r.fired = k.fired /\ r.pending = k.pending
    BY <1>1 DEF push, Cache
  <1>3. InFlight(r) = InFlight(k)
    BY <1>1, PushHandedOut
  <1>4. ASSUME NEW e \in InFlight(k)
        PROVE  BatchOf(r, e) = BatchOf(k, e) /\ BatchID(r, e) = BatchID(k, e)
    <2>1. e \in k.ends /\ e <= k.out
      BY DEF InFlight
    <2>2. BatchOf(r, e) = BatchOf(k, e)
      BY <1>1, <2>1, PushHandedOut
    <2>3. PICK i : i = Min(BatchOf(k, e))
      OBVIOUS
    <2>4. i \in 1 .. Len(k.recs)
      <3>1. i \in BatchOf(k, e) /\ BatchOf(k, e) \subseteq 1 .. Len(k.recs)
        BY <2>1, <2>3, BatchIDType, BatchOfType
      <3> QED BY <3>1
    <2>5. r.recs = k.recs \o recs /\ k.recs \in Seq(Offsets)
      BY <1>1 DEF push, Cache
    <2>6. r.recs[i] = k.recs[i]
      BY <2>4, <2>5
    <2> QED BY <2>2, <2>3, <2>6 DEF BatchID
  <1>5. Waiting(r)
    BY <1>2, <1>3, <1>4 DEF Waiting
  <1> QED BY <1>1, <1>5

\* A batch is handed out when none waits, and waits then.
LEMMA WaitingPop ==
    ASSUME NEW k \in Cache, CacheShape(k), Waiting(k), k.pending = {},
           NEW e \in k.ends, e > k.out, \A x \in k.ends : x > k.out => e <= x
    PROVE  Waiting([k EXCEPT !.out = e, !.pending = k.pending \cup {BatchID(k, e)}])
  <1>1. PICK r : r = [k EXCEPT !.out = e, !.pending = k.pending \cup {BatchID(k, e)}]
    OBVIOUS
  <1>2. /\ r.ends = k.ends /\ r.out = e /\ r.acked = k.acked
        /\ r.fired = k.fired /\ r.recs = k.recs /\ r.pending = {BatchID(k, e)}
    BY <1>1 DEF Cache
  <1>3. k.out \in Nat /\ k.ends \subseteq Nat /\ e \in Nat
    BY DEF Cache
  <1>4. ASSUME NEW x \in InFlight(r), x # e PROVE x \in InFlight(k)
    <2>1. x \in k.ends /\ x <= e /\ x \notin k.acked /\ x \in Nat
      BY <1>2, <1>3, <1>4 DEF InFlight
    <2>2. x <= k.out
      BY <1>3, <1>4, <2>1
    <2> QED BY <2>1, <2>2 DEF InFlight
  <1>5. \A x : BatchOf(r, x) = BatchOf(k, x) /\ BatchID(r, x) = BatchID(k, x)
    BY <1>2 DEF BatchOf, BatchID
  <1>6. Waiting(r)
    BY <1>2, <1>4, <1>5 DEF Waiting
  <1> QED BY <1>1, <1>6

\* A dispatch signal ends the wait only when it was the last of the batch.
LEMMA WaitingDispatch ==
    ASSUME NEW k \in Cache, CacheShape(k), Distinct(k), Waiting(k), NEW e \in InFlight(k), NEW i,
           NEW r, r = [k EXCEPT !.fired = k.fired \cup {i},
                                !.pending = IF BatchOf(k, e) \subseteq k.fired \cup {i}
                                            THEN k.pending \ {BatchID(k, e)} ELSE k.pending]
    PROVE  Waiting(r)
  <1>1. /\ r.ends = k.ends /\ r.out = k.out /\ r.acked = k.acked /\ r.fired = k.fired \cup {i}
        /\ r.recs = k.recs
        /\ r.pending = IF BatchOf(k, e) \subseteq k.fired \cup {i}
                       THEN k.pending \ {BatchID(k, e)} ELSE k.pending
    BY DEF Cache
  <1>2. /\ InFlight(r) = InFlight(k)
        /\ \A x : BatchOf(r, x) = BatchOf(k, x) /\ BatchID(r, x) = BatchID(k, x)
    BY <1>1 DEF InFlight, BatchOf, BatchID
  <1>3. ASSUME NEW x \in InFlight(k)
        PROVE  BatchOf(k, x) \subseteq r.fired \/ (x = k.out /\ BatchID(k, x) \in r.pending)
    <2>1. CASE BatchOf(k, x) \subseteq k.fired
      BY <1>1, <2>1
    <2>2. CASE x = k.out /\ BatchID(k, x) \in k.pending
      <3>1. CASE x = e
        BY <1>1, <2>2, <3>1
      <3>2. CASE x # e
        <4>1. BatchID(k, x) # BatchID(k, e)
          BY <3>2, BatchIDsApart DEF InFlight
        <4> QED BY <1>1, <2>2, <4>1
      <3> QED BY <3>1, <3>2
    <2> QED BY <2>1, <2>2 DEF Waiting
  <1> QED BY <1>1, <1>2, <1>3 DEF Waiting

\* An acknowledgement forgets the signals and the wait of its own batch only.
LEMMA WaitingAck ==
    ASSUME NEW k \in Cache, CacheShape(k), Distinct(k), Waiting(k), NEW e \in InFlight(k),
           NEW r, r = [k EXCEPT !.acked   = k.acked \cup BatchOf(k, e),
                                !.fired   = k.fired \ BatchOf(k, e),
                                !.pending = k.pending \ {BatchID(k, e)}]
    PROVE  Waiting(r)
  <1>1. /\ r.ends = k.ends /\ r.out = k.out /\ r.acked = k.acked \cup BatchOf(k, e)
        /\ r.fired = k.fired \ BatchOf(k, e) /\ r.pending = k.pending \ {BatchID(k, e)}
        /\ r.recs = k.recs
    BY DEF Cache
  <1>2. \A x : BatchOf(r, x) = BatchOf(k, x) /\ BatchID(r, x) = BatchID(k, x)
    BY <1>1 DEF BatchOf, BatchID
  <1>3. k.ends \subseteq Nat \ {0} /\ e \in k.ends
    BY DEF CacheShape, InFlight, Cache
  <1>4. e \in BatchOf(k, e)
    BY <1>3 DEF BatchOf
  <1>5. ASSUME NEW x \in InFlight(r)
        PROVE  BatchOf(r, x) \subseteq r.fired \/ (x = r.out /\ BatchID(r, x) \in r.pending)
    <2>1. x \in InFlight(k) /\ x # e /\ x \in k.ends /\ x \in Nat /\ e \in Nat
      BY <1>1, <1>3, <1>4 DEF InFlight
    <2>2. BatchOf(k, x) \cap BatchOf(k, e) = {} /\ BatchID(k, x) # BatchID(k, e)
      BY <1>3, <2>1, BatchesApart, BatchIDsApart
    <2>3. BatchOf(k, x) \subseteq k.fired \/ (x = k.out /\ BatchID(k, x) \in k.pending)
      BY <2>1 DEF Waiting
    <2> QED BY <1>1, <1>2, <2>1, <2>2, <2>3
  <1> QED BY <1>5 DEF Waiting

\* A revoked cache has the same batches.
LEMMA WaitingRevoked ==
    ASSUME NEW k \in Cache, Waiting(k)
    PROVE  Waiting([k EXCEPT !.revoked = TRUE])
  <1>1. PICK r : r = [k EXCEPT !.revoked = TRUE]
    OBVIOUS
  <1>2. /\ r.ends = k.ends /\ r.out = k.out /\ r.acked = k.acked
        /\ r.fired = k.fired /\ r.pending = k.pending /\ r.recs = k.recs
    BY <1>1 DEF Cache
  <1>3. /\ InFlight(r) = InFlight(k)
        /\ \A x : BatchOf(r, x) = BatchOf(k, x) /\ BatchID(r, x) = BatchID(k, x)
    BY <1>2 DEF InFlight, BatchOf, BatchID
  <1> QED BY <1>1, <1>2, <1>3 DEF Waiting

\* One cache is replaced by one in which the right batches wait.
LEMMA DispatchReplace ==
    ASSUME TypeInv, DispatchInv, NEW c \in Clients, NEW p \in Partitions,
           NEW g \in 1 .. Len(caches[c][p]), NEW r \in Cache, Waiting(r),
           caches' = [caches EXCEPT ![c][p][g] = r]
    PROVE  DispatchInv'
  <1>1. CacheReplaced(c, p, g, r)
    BY UpdateCache DEF TypeInv, TypeOK, CachesType
  <1>2. ASSUME NEW d \in Clients, NEW q \in Partitions, NEW h \in 1 .. Len(caches'[d][q])
        PROVE  Waiting(caches'[d][q][h])
    <2>1. h \in 1 .. Len(caches[d][q])
      BY <1>1 DEF CacheReplaced
    <2>2. caches'[d][q][h] = IF d = c /\ q = p /\ h = g THEN r ELSE caches[d][q][h]
      BY <1>1, <2>1 DEF CacheReplaced
    <2> QED BY <2>1, <2>2 DEF DispatchInv
  <1> QED BY <1>2 DEF DispatchInv

\* A cache is added in which the right batches wait.
LEMMA DispatchAppend ==
    ASSUME TypeInv, DispatchInv, NEW c \in Clients, NEW p \in Partitions, NEW r \in Cache, Waiting(r),
           caches' = [caches EXCEPT ![c][p] = Append(caches[c][p], r)]
    PROVE  DispatchInv'
  <1>1. CacheAppended(c, p, r)
    BY AppendCache DEF TypeInv, TypeOK, CachesType
  <1>2. ASSUME NEW d \in Clients, NEW q \in Partitions, NEW h \in 1 .. Len(caches'[d][q])
        PROVE  Waiting(caches'[d][q][h])
    <2>1. Len(caches[d][q]) \in Nat
      BY DEF TypeInv, TypeOK
    <2>2. CASE h \in 1 .. Len(caches[d][q])
      BY <1>1, <2>2 DEF DispatchInv, CacheAppended
    <2>3. CASE h \notin 1 .. Len(caches[d][q])
      <3>1. d = c /\ q = p /\ h = Len(caches[c][p]) + 1
        BY <1>1, <2>1, <2>3 DEF CacheAppended
      <3> QED BY <1>1, <3>1 DEF CacheAppended
    <2> QED BY <2>2, <2>3
  <1> QED BY <1>2 DEF DispatchInv

\* The poll loop files records into a cache, a new one if need be.
LEMMA DispatchFile ==
    ASSUME TypeInv, DispatchInv, NEW c \in Clients, NEW p \in Partitions, FileRecords(c, p)
    PROVE  DispatchInv'
  <1>1. PICK recs : recs = fetch[c][p]
    OBVIOUS
  <1>2. recs \in Seq(Offsets) /\ recs[1] \in Positions
    BY <1>1 DEF FileRecords, TypeInv, TypeOK
  <1>3. CASE p \in tracked[c]
    <2>1. PICK g \in 1 .. Len(caches[c][p]) : g = Current(c, p)
      BY <1>3 DEF TypeInv, TypeOK, TrackedCached, Current
    <2>2. PICK k \in Cache : k = caches[c][p][g]
      BY <2>1 DEF TypeInv, TypeOK
    <2>3. CacheShape(k) /\ Waiting(k)
      BY <2>1, <2>2 DEF TypeInv, Shape, DispatchInv, Current
    <2>4. push(k, recs) \in Cache /\ Waiting(push(k, recs))
      BY <1>2, <2>3, PushType, WaitingPush
    <2>5. caches' = [caches EXCEPT ![c][p][g] = push(k, recs)]
      BY <1>1, <1>3, <2>1, <2>2 DEF FileRecords, addRecords
    <2> QED BY <2>4, <2>5, DispatchReplace
  <1>4. CASE p \notin tracked[c]
    <2>1. PICK k : k = newPartitionCache(recs[1])
      OBVIOUS
    <2>2. k \in Cache /\ CacheShape(k) /\ Waiting(k)
      BY <1>2, <2>1, NewCacheType, WaitingNew
    <2>3. push(k, recs) \in Cache /\ Waiting(push(k, recs))
      BY <1>2, <2>2, PushType, WaitingPush
    <2>4. caches' = [caches EXCEPT ![c][p] = Append(caches[c][p], push(k, recs))]
      BY <1>1, <1>4, <2>1 DEF FileRecords, addRecords
    <2> QED BY <2>3, <2>4, DispatchAppend
  <1> QED BY <1>3, <1>4

\* ReadBatch hands out a batch.
LEMMA DispatchPop ==
    ASSUME TypeInv, DispatchInv, NEW c \in Clients, NEW p \in Partitions, Pop(c, p)
    PROVE  DispatchInv'
  <1>1. PICK g \in 1 .. Len(caches[c][p]) : g = Current(c, p)
    <2>1. p \in tracked[c]
      BY DEF Pop
    <2> QED BY <2>1 DEF TypeInv, TypeOK, TrackedCached, Current
  <1>2. PICK k \in Cache : k = caches[c][p][g]
    BY <1>1 DEF TypeInv, TypeOK
  <1>3. CacheShape(k) /\ Waiting(k) /\ k.pending = {}
    BY <1>1, <1>2 DEF TypeInv, Shape, DispatchInv, Current, Pop, MayPop
  <1>4. PICK e \in k.ends :
           /\ e > k.out /\ \A x \in k.ends : x > k.out => e <= x
           /\ caches' = [caches EXCEPT ![c][p][g] =
                 [k EXCEPT !.out = e, !.pending = k.pending \cup {BatchID(k, e)}]]
    BY <1>1, <1>2 DEF Pop
  <1>5. PICK r : r = [k EXCEPT !.out = e, !.pending = k.pending \cup {BatchID(k, e)}]
    OBVIOUS
  <1>6. r \in Cache
    <2>1. e \in Nat /\ BatchID(k, e) \in Offsets
      BY <1>3, BatchIDType DEF Cache
    <2> QED BY <1>5, <2>1 DEF Cache
  <1>7. Waiting(r)
    BY <1>3, <1>4, <1>5, WaitingPop
  <1> QED BY <1>4, <1>5, <1>6, <1>7, DispatchReplace

\* A dispatch signal and an acknowledgement.
LEMMA DispatchSignal ==
    ASSUME Inv, DispatchInv, NEW c \in Clients, NEW p \in Partitions,
           NEW g \in 1 .. Current(c, p), NEW e,
           (\E i : Dispatch(c, p, g, e, i)) \/ Ack(c, p, g, e)
    PROVE  DispatchInv'
  <1>1. g \in 1 .. Len(caches[c][p])
    BY DEF Current
  <1>2. PICK k \in Cache : k = caches[c][p][g]
    BY <1>1 DEF Inv, TypeInv, TypeOK
  <1>3. CacheShape(k) /\ Distinct(k) /\ Waiting(k) /\ TypeInv
    BY <1>1, <1>2, CachesDistinct DEF Inv, TypeInv, Shape, DispatchInv, Current
  <1>4. e \in InFlight(k) /\ e \in k.ends
    BY <1>2 DEF Dispatch, Ack, InFlight
  <1>5. BatchOf(k, e) \subseteq Nat
    <2>1. BatchOf(k, e) \subseteq 1 .. Len(k.recs)
      BY <1>3, <1>4, BatchOfType
    <2> QED BY <2>1
  <1>6. CASE \E i : Dispatch(c, p, g, e, i)
    <2>1. PICK i : Dispatch(c, p, g, e, i)
      BY <1>6
    <2>2. PICK r : r = [k EXCEPT !.fired = k.fired \cup {i},
                                 !.pending = IF BatchOf(k, e) \subseteq k.fired \cup {i}
                                             THEN k.pending \ {BatchID(k, e)} ELSE k.pending]
      OBVIOUS
    <2>3. caches' = [caches EXCEPT ![c][p][g] = r] /\ i \in Nat
      BY <1>2, <1>5, <2>1, <2>2 DEF Dispatch
    <2>4. r \in Cache
      BY <2>2, <2>3 DEF Cache
    <2>5. Waiting(r)
      BY <1>3, <1>4, <2>2, WaitingDispatch
    <2> QED BY <1>1, <1>3, <2>3, <2>4, <2>5, DispatchReplace
  <1>7. CASE Ack(c, p, g, e)
    <2>1. PICK r : r = [k EXCEPT !.acked   = k.acked \cup BatchOf(k, e),
                                 !.fired   = k.fired \ BatchOf(k, e),
                                 !.pending = k.pending \ {BatchID(k, e)}]
      OBVIOUS
    <2>2. caches' = [caches EXCEPT ![c][p][g] = r]
      BY <1>2, <1>7, <2>1 DEF Ack
    <2>3. r \in Cache
      BY <1>5, <2>1 DEF Cache
    <2>4. Waiting(r)
      BY <1>3, <1>4, <2>1, WaitingAck
    <2> QED BY <1>1, <1>3, <2>2, <2>3, <2>4, DispatchReplace
  <1> QED BY <1>6, <1>7

\* OnPartitionsAssigned starts a cache in which nothing waits.
LEMMA DispatchAssign ==
    ASSUME TypeInv, DispatchInv, NEW c \in Clients, NEW p \in Partitions, Assign(c, p)
    PROVE  DispatchInv'
  <1>1. CASE p \in tracked[c]
    BY <1>1 DEF Assign, DispatchInv
  <1>2. CASE p \notin tracked[c]
    <2>1. PICK k : k = newPartitionCache(committed[p])
      OBVIOUS
    <2>2. committed[p] \in Positions
      BY DEF TypeInv, TypeOK, GroupTypeOK
    <2>3. k \in Cache /\ Waiting(k)
      BY <2>1, <2>2, NewCacheType, WaitingNew
    <2>4. caches' = [caches EXCEPT ![c][p] = Append(caches[c][p], k)]
      BY <1>2, <2>1 DEF Assign
    <2> QED BY <2>3, <2>4, DispatchAppend
  <1> QED BY <1>1, <1>2

\* removeTopicPartitions leaves the batches alone.
LEMMA DispatchRemove ==
    ASSUME TypeInv, DispatchInv, NEW c \in Clients, RemoveTopicPartitions(c)
    PROVE  DispatchInv'
  <1>1. CachesFlagged(c)
    BY RemovedCaches
  <1>2. ASSUME NEW d \in Clients, NEW q \in Partitions, NEW h \in 1 .. Len(caches'[d][q])
        PROVE  Waiting(caches'[d][q][h])
    <2>1. h \in 1 .. Len(caches[d][q])
      BY <1>1 DEF CachesFlagged
    <2>2. PICK k \in Cache : k = caches[d][q][h]
      BY <2>1 DEF TypeInv, TypeOK
    <2>3. Waiting(k)
      BY <2>1, <2>2 DEF DispatchInv
    <2>4. caches'[d][q][h] = caches[d][q][h]
          \/ caches'[d][q][h] = [caches[d][q][h] EXCEPT !.revoked = TRUE]
      <3>1. caches'[d][q][h] =
                IF d = c /\ q \in callback[c].parts \cap tracked[c] /\ h = Current(c, q)
                THEN [caches[d][q][h] EXCEPT !.revoked = TRUE]
                ELSE caches[d][q][h]
        BY <1>1, <2>1, Zenon DEF CachesFlagged
      <3> QED BY <3>1, Zenon
    <2> QED BY <2>2, <2>3, <2>4, WaitingRevoked
  <1> QED BY <1>2 DEF DispatchInv

\* A process that is gone has no caches.
LEMMA DispatchGone ==
    ASSUME TypeInv, DispatchInv, NEW c \in Clients, ReaderGone(c)
    PROVE  DispatchInv'
  <1>1. ASSUME NEW d \in Clients, NEW q \in Partitions, NEW h \in 1 .. Len(caches'[d][q])
        PROVE  Waiting(caches'[d][q][h])
    <2>1. caches'[d] = IF d = c THEN NoFetch ELSE caches[d]
      BY DEF ReaderGone, TypeInv, TypeOK
    <2>2. CASE d = c
      BY <2>1, <2>2 DEF NoFetch
    <2>3. CASE d # c
      BY <2>1, <2>3 DEF DispatchInv
    <2> QED BY <2>2, <2>3
  <1> QED BY <1>1 DEF DispatchInv

\* Every step keeps the batches in line.
LEMMA DispatchStep == Inv /\ DispatchInv /\ [Next]_vars => DispatchInv'
  <1> SUFFICES ASSUME Inv, TypeInv, DispatchInv, [Next]_vars PROVE DispatchInv'
    BY DEF Inv
  <1>1. ASSUME UNCHANGED caches PROVE DispatchInv'
    BY <1>1 DEF DispatchInv
  <1>2. ASSUME NEW c \in Clients, LoopStep(c) PROVE DispatchInv'
    <2>1. CASE \E p \in Partitions : FileRecords(c, p)
      BY <2>1, DispatchFile
    <2>2. CASE Poll(c) \/ PauseFetch(c) \/ Resume(c) \/ LoopExit(c)
      BY <1>1, <2>2 DEF Poll, PollFetches, PauseFetch, Resume, LoopExit
    <2> QED BY <1>2, <2>1, <2>2 DEF LoopStep
  <1>3. ASSUME NEW c \in Clients, PipelineStep(c) PROVE DispatchInv'
    BY <1>3, DispatchPop, DispatchSignal DEF PipelineStep
  <1>4. ASSUME NEW c \in Clients, RebalanceStep(c) PROVE DispatchInv'
    <2>1. CASE \E p \in Partitions : Assign(c, p)
      BY <2>1, DispatchAssign
    <2>2. CASE RemoveTopicPartitions(c)
      BY <2>2, DispatchRemove
    <2>3. CASE (\E p \in Partitions : Revoke(c, p)) \/ Lost(c) \/ Returned(c) \/ Thrown(c) \/ Committer(c)
      BY <1>1, <2>3 DEF Revoke, Lost, Returned, Thrown, Committer, readerVars
    <2> QED BY <1>4, <2>1, <2>2, <2>3 DEF RebalanceStep
  <1>5. ASSUME NEW c \in Clients, ProcessStep(c) PROVE DispatchInv'
    <2>1. CASE Close(c) \/ CloseClient(c)
      BY <1>1, <2>1 DEF Close, CloseClient, readerVars
    <2>2. CASE Restart(c) \/ Crash(c)
      BY <2>2, DispatchGone DEF Restart, Crash
    <2> QED BY <1>5, <2>1, <2>2 DEF ProcessStep
  <1>6. CASE UNCHANGED vars
    BY <1>1, <1>6 DEF vars, readerVars
  <1> QED BY <1>2, <1>3, <1>4, <1>5, <1>6 DEF Next

\* The reader's documented promise (franz_reader_ordered.go:250-312, pop),
\* whatever the rebalances, crashes and orders of acknowledgement outside the
\* poll window: while a record of a batch in flight has not reached an output's
\* dispatch, pop hands out no later batch of the same cache.
THEOREM DispatchInOrder ==
    ASSUME ~RebalanceInPollWindow
    PROVE  Spec => []OrderedDispatch
  <1>1. Init => DispatchInv
    BY DEF Init, DispatchInv, NoFetch
  <1>2. TypeInv /\ DispatchInv => OrderedDispatch
    <2> SUFFICES ASSUME TypeInv, DispatchInv, NEW c \in Clients, NEW p \in Partitions,
                        NEW g \in 1 .. Current(c, p), NEW e \in InFlight(caches[c][p][g]),
                        NEW x \in InFlight(caches[c][p][g]), x > e
                 PROVE  BatchOf(caches[c][p][g], e) \subseteq caches[c][p][g].fired
      BY DEF OrderedDispatch, AllCaches
    <2>1. PICK k \in Cache : k = caches[c][p][g]
      BY DEF TypeInv, TypeOK, Current
    <2>2. Waiting(k)
      BY <2>1 DEF DispatchInv, Current
    <2>3. x <= k.out /\ e \in Nat /\ x \in Nat /\ k.out \in Nat
      BY <2>1 DEF InFlight, Cache
    <2>4. e # k.out
      BY <2>3
    <2> QED BY <2>1, <2>2, <2>4 DEF Waiting
  <1>3. Init => Inv /\ DispatchInv
    BY <1>1, TypeInit, NoGapsInit DEF Inv
  <1>4. Inv /\ DispatchInv /\ [Next]_vars => Inv' /\ DispatchInv'
    BY TypeStep, NoGapsStep, DispatchStep DEF Inv
  <1>5. Inv /\ DispatchInv => OrderedDispatch
    BY <1>2 DEF Inv
  <1> QED BY <1>3, <1>4, <1>5, PTL DEF Spec

-----------------------------------------------------------------------------
(* Bytes as sums.                                                          *)

\* Bytes of each record of a sequence.
Sizes(recs) == [i \in 1 .. Len(recs) |-> RecordSize[recs[i]]]

\* What MapThenSumSet comes to for the records of a sequence.
SizeFold(f, recs, I) ==
    f = [s \in SUBSET I |-> IF s = {} THEN 0
                            ELSE RecordSize[recs[CHOOSE x \in s : TRUE]] + f[s \ {CHOOSE x \in s : TRUE}]]

\* It computes the sum of the sizes.
LEMMA SizeFoldSum ==
    ASSUME NEW recs \in Seq(Offsets), NEW I \in SUBSET (1 .. Len(recs))
    PROVE  /\ (CHOOSE f : SizeFold(f, recs, I))[I] = Sum(Sizes(recs), I)
           /\ Weighted(Sizes(recs), 1 .. Len(recs), I)
  <1>1. PICK w : w = Sizes(recs)
    OBVIOUS
  <1>2. w \in [1 .. Len(recs) -> Nat] /\ \A i \in 1 .. Len(recs) : w[i] = RecordSize[recs[i]]
    <2>1. ASSUME NEW i \in 1 .. Len(recs) PROVE RecordSize[recs[i]] \in Nat
      <3>1. recs[i] \in Offsets
        OBVIOUS
      <3>2. PICK o \in Offsets : o = recs[i]
        BY <3>1
      <3>3. RecordSize[o] \in Nat
        BY SizesAssumption
      <3> QED BY <3>2, <3>3
    <2> QED BY <1>1, <2>1, Zenon DEF Sizes
  <1>3. IsFiniteSet(1 .. Len(recs)) /\ IsFiniteSet(I)
    <2>1. Len(recs) \in Nat
      OBVIOUS
    <2>2. IsFiniteSet(1 .. Len(recs))
      BY <2>1, FS_Interval
    <2> QED BY <2>2, FS_Subset
  <1>4. ASSUME NEW f PROVE SizeFold(f, recs, I) <=> IsFold(f, w, I)
    <2>1. ASSUME NEW s \in SUBSET I, s # {}
          PROVE  w[Pick(s)] = RecordSize[recs[CHOOSE x \in s : TRUE]] /\ Pick(s) = CHOOSE x \in s : TRUE
      <3>1. Pick(s) \in 1 .. Len(recs)
        BY <2>1, PickIn
      <3>2. Pick(s) = CHOOSE x \in s : TRUE
        BY DEF Pick
      <3> QED BY <1>2, <3>1, <3>2, Zenon
    <2>2. [s \in SUBSET I |-> IF s = {} THEN 0
                              ELSE RecordSize[recs[CHOOSE x \in s : TRUE]] + f[s \ {CHOOSE x \in s : TRUE}]]
          = [s \in SUBSET I |-> IF s = {} THEN 0 ELSE w[Pick(s)] + f[s \ {Pick(s)}]]
      <3>1. ASSUME NEW s \in SUBSET I
            PROVE  (IF s = {} THEN 0
                    ELSE RecordSize[recs[CHOOSE x \in s : TRUE]] + f[s \ {CHOOSE x \in s : TRUE}])
                   = (IF s = {} THEN 0 ELSE w[Pick(s)] + f[s \ {Pick(s)}])
        <4>1. CASE s = {}
          BY <4>1, Zenon
        <4>2. CASE s # {}
          <5>1. w[Pick(s)] = RecordSize[recs[CHOOSE x \in s : TRUE]] /\ Pick(s) = CHOOSE x \in s : TRUE
            BY <2>1, <4>2
          <5>2. w[Pick(s)] + f[s \ {Pick(s)}]
                = RecordSize[recs[CHOOSE x \in s : TRUE]] + f[s \ {CHOOSE x \in s : TRUE}]
            BY <5>1
          <5> QED BY <4>2, <5>2
        <4> QED BY <4>1, <4>2
      <3> QED BY <3>1, Zenon
    <2> QED BY <2>2, Zenon DEF SizeFold, IsFold
  <1>5. \E f : IsFold(f, w, I)
    BY <1>3, FoldExists
  <1>6. PICK f, g : f = (CHOOSE h : SizeFold(h, recs, I)) /\ g = (CHOOSE h : IsFold(h, w, I))
    OBVIOUS
  <1>7. IsFold(f, w, I) /\ IsFold(g, w, I)
    BY <1>4, <1>5, <1>6
  <1>8. f[I] = g[I]
    BY <1>3, <1>7, FoldsAgree
  <1>9. Sum(w, I) = g[I]
    BY <1>6 DEF Sum
  <1>10. Weighted(w, 1 .. Len(recs), I)
    BY <1>2, <1>3 DEF Weighted
  <1> QED BY <1>1, <1>6, <1>8, <1>9, <1>10

\* The bytes of a cache and of a fetch are such sums.
LEMMA BytesSum ==
    ASSUME NEW k \in Cache, NEW I \in SUBSET (1 .. Len(k.recs))
    PROVE  Bytes(k, I) = Sum(Sizes(k.recs), I) /\ Weighted(Sizes(k.recs), 1 .. Len(k.recs), I)
  <1>1. Bytes(k, I) = (CHOOSE f : SizeFold(f, k.recs, I))[I]
    BY Zenon DEF Bytes, MapThenSumSet, MapThenFoldSet, SizeFold
  <1>2. k.recs \in Seq(Offsets)
    BY DEF Cache
  <1> QED BY <1>1, <1>2, SizeFoldSum

\* And of the records of one fetch.
LEMMA FetchSum ==
    ASSUME NEW recs \in Seq(Offsets)
    PROVE  SumSizes(recs) = Sum(Sizes(recs), 1 .. Len(recs)) /\ Weighted(Sizes(recs), 1 .. Len(recs), 1 .. Len(recs))
  <1>1. SumSizes(recs) = (CHOOSE f : SizeFold(f, recs, 1 .. Len(recs)))[1 .. Len(recs)]
    BY Zenon DEF SumSizes, MapThenSumSet, MapThenFoldSet, SizeFold
  <1> QED BY <1>1, SizeFoldSum

\* Caches with the same records have the same bytes.
LEMMA SameBytes ==
    ASSUME NEW k \in Cache, NEW r \in Cache, r.recs = k.recs, NEW I \in SUBSET (1 .. Len(k.recs))
    PROVE  Bytes(r, I) = Bytes(k, I)
  <1>1. Bytes(k, I) = Sum(Sizes(k.recs), I)
    BY BytesSum
  <1>2. I \in SUBSET (1 .. Len(r.recs))
    OBVIOUS
  <1>3. Bytes(r, I) = Sum(Sizes(r.recs), I)
    BY <1>2, BytesSum
  <1> QED BY <1>1, <1>3

-----------------------------------------------------------------------------
(* How push cuts batches.                                                  *)

\* Record i of all joins the batch b that ends before it.
Joins(k, all, b, i) ==
    IF i <= Len(k.recs) THEN (i - 1) \notin k.ends
    ELSE /\ b.size + RecordSize[all[i]] <= MaxBatchSize
         /\ b.first > Len(k.recs) \/ b.size < MaxBatchSize

\* The batch of record i, as far as that record.
NextBatch(k, all, b, i) ==
    IF i = k.out + 1 \/ ~Joins(k, all, b, i)
    THEN [first |-> i, size |-> RecordSize[all[i]]]
    ELSE [b EXCEPT !.size = b.size + RecordSize[all[i]]]

\* f gives the batch of every record from the first queued one to record n.
Cuts(f, k, all, n) ==
    f = [i \in (k.out + 1) .. n |-> NextBatch(k, all, f[i - 1], i)]

\* There is such a function, although nothing but its recursion defines it.
LEMMA CutsExist ==
    ASSUME NEW k, NEW all, k.out \in Nat, NEW n \in Nat, k.out <= n
    PROVE  \E f : Cuts(f, k, all, n)
  <1>1. PICK o \in Nat : o = k.out
    OBVIOUS
  <1> DEFINE S == {m \in Nat : o <= m /\ ~\E f : Cuts(f, k, all, m)}
  <1>2. S \in SUBSET Nat /\ \A m \in Nat : m \in S <=> o <= m /\ ~\E f : Cuts(f, k, all, m)
    OBVIOUS
  <1>3. SUFFICES ASSUME S # {} PROVE FALSE
    BY <1>1, <1>2
  <1> HIDE DEF S
  <1>4. PICK m \in S : \A x \in S : m <= x
    BY <1>2, <1>3, Least
  <1>5. m \in Nat /\ o <= m /\ ~\E f : Cuts(f, k, all, m)
    BY <1>2, <1>4
  <1>6. CASE m = o
    <2>1. (k.out + 1) .. m = {}
      BY <1>1, <1>6
    <2>2. PICK f : f = [i \in {} |-> 0]
      OBVIOUS
    <2>3. f = [i \in {} |-> NextBatch(k, all, f[i - 1], i)]
      BY <2>2
    <2>4. Cuts(f, k, all, m)
      BY <2>1, <2>3, Zenon DEF Cuts
    <2> QED BY <1>5, <2>4
  <1>7. CASE m > o
    <2>1. PICK l \in Nat : l = m - 1 /\ o <= l
      BY <1>1, <1>5, <1>7
    <2>2. l \notin S
      BY <1>4, <1>5, <2>1
    <2>3. PICK f : Cuts(f, k, all, l)
      BY <1>2, <2>1, <2>2
    <2>4. PICK g : g = [i \in o + 1 .. m |-> NextBatch(k, all, f[i - 1], i)]
      OBVIOUS
    <2>5. ASSUME NEW i \in o + 1 .. m
          PROVE  NextBatch(k, all, f[i - 1], i) = NextBatch(k, all, g[i - 1], i)
      <3>1. CASE i = o + 1
        <4>1. i = k.out + 1
          BY <1>1, <3>1
        <4>2. /\ NextBatch(k, all, f[i - 1], i) = [first |-> i, size |-> RecordSize[all[i]]]
              /\ NextBatch(k, all, g[i - 1], i) = [first |-> i, size |-> RecordSize[all[i]]]
          BY <4>1, Zenon DEF NextBatch
        <4> QED BY <4>2
      <3>2. CASE i # o + 1
        <4>1. PICK j \in o + 1 .. l : j = i - 1
          BY <1>1, <1>5, <2>1, <3>2
        <4>2. j \in o + 1 .. m
          BY <1>1, <1>5, <2>1, <4>1
        <4>3. g[j] = NextBatch(k, all, f[j - 1], j)
          BY <2>4, <4>2
        <4>4. f[j] = NextBatch(k, all, f[j - 1], j)
          BY <1>1, <2>3, <4>1 DEF Cuts
        <4> QED BY <4>1, <4>3, <4>4
      <3> QED BY <3>1, <3>2
    <2>6. g = [i \in o + 1 .. m |-> NextBatch(k, all, g[i - 1], i)]
      BY <2>4, <2>5
    <2>7. Cuts(g, k, all, m)
      BY <1>1, <2>6, Zenon DEF Cuts
    <2> QED BY <1>5, <2>7
  <1> QED BY <1>1, <1>5, <1>6, <1>7

\* PushEnds in these terms.
CutBy(f, k, recs, all) ==
    /\ Cuts(f, k, all, Len(all))
    /\ PushEnds(k, recs) = {e \in k.ends : e <= k.out} \cup
          {i \in (k.out + 1) .. Len(all) : i = Len(all) \/ f[i + 1].first = i + 1}

\* What push leaves in a cache is cut by such a function.
LEMMA PushCuts ==
    ASSUME NEW k, NEW recs, NEW all, all = k.recs \o recs,
           k.out \in Nat, Len(all) \in Nat, k.out <= Len(all)
    PROVE  \E f : CutBy(f, k, recs, all)
  <1>1. PushEnds(k, recs) = {e \in k.ends : e <= k.out} \cup
           {i \in (k.out + 1) .. Len(k.recs \o recs) :
               i = Len(k.recs \o recs) \/
               (CHOOSE h : Cuts(h, k, k.recs \o recs, Len(k.recs \o recs)))[i + 1].first = i + 1}
    BY Zenon DEF PushEnds, Cuts, NextBatch, Joins
  <1>2. PICK f : f = CHOOSE h : Cuts(h, k, k.recs \o recs, Len(k.recs \o recs))
    OBVIOUS
  <1>3. \E h : Cuts(h, k, k.recs \o recs, Len(k.recs \o recs))
    <2>1. \E h : Cuts(h, k, all, Len(all))
      BY CutsExist
    <2> QED BY <2>1
  <1>4. Cuts(f, k, k.recs \o recs, Len(k.recs \o recs))
    BY <1>2, <1>3
  <1>5. PushEnds(k, recs) = {e \in k.ends : e <= k.out} \cup
           {i \in (k.out + 1) .. Len(k.recs \o recs) : i = Len(k.recs \o recs) \/ f[i + 1].first = i + 1}
    BY <1>1, <1>2
  <1>6. CutBy(f, k, recs, all)
    BY <1>4, <1>5 DEF CutBy
  <1> QED BY <1>6

\* The bytes of the first records do not change when others are appended.
LEMMA PrefixBytes ==
    ASSUME NEW k \in Cache, NEW recs \in Seq(Offsets), NEW I \in SUBSET (1 .. Len(k.recs))
    PROVE  /\ Bytes(k, I) = Sum(Sizes(k.recs \o recs), I)
           /\ Weighted(Sizes(k.recs \o recs), 1 .. Len(k.recs \o recs), I)
  <1>1. PICK all \in Seq(Offsets) : all = k.recs \o recs
    <2>1. k.recs \in Seq(Offsets)
      BY DEF Cache
    <2>2. k.recs \o recs \in Seq(Offsets)
      BY <2>1
    <2> QED BY <2>2
  <1>2. PICK d \in Nat : d = Len(k.recs)
    BY DEF Cache
  <1>3. PICK n \in Nat : n = Len(all)
    BY <1>1
  <1>4. d <= n /\ \A i \in 1 .. d : all[i] = k.recs[i]
    BY <1>1, <1>2, <1>3 DEF Cache
  <1>5. PICK u, w : u = Sizes(k.recs) /\ w = Sizes(all)
    OBVIOUS
  <1>6. Bytes(k, I) = Sum(u, I) /\ Weighted(u, 1 .. d, I)
    BY <1>2, <1>5, BytesSum
  <1>7. Weighted(w, 1 .. n, 1 .. n)
    BY <1>1, <1>3, <1>5, FetchSum
  <1>8. I \subseteq 1 .. d /\ 1 .. d \subseteq 1 .. n
    BY <1>2, <1>3, <1>4
  <1>9. Weighted(w, 1 .. n, I)
    BY <1>7, <1>8 DEF Weighted
  <1>10. ASSUME NEW i \in 1 .. d PROVE u[i] = w[i]
    <2>1. i \in 1 .. Len(all) /\ i \in 1 .. Len(k.recs)
      BY <1>2, <1>3, <1>8
    <2>2. w[i] = RecordSize[all[i]] /\ u[i] = RecordSize[k.recs[i]]
      BY <1>5, <2>1, Zenon DEF Sizes
    <2> QED BY <1>4, <2>2
  <1>11. Sum(u, I) = Sum(w, I)
    <2>1. IsFiniteSet(I)
      BY <1>6, FS_Subset DEF Weighted
    <2> QED BY <1>8, <1>10, <2>1, SumEqual
  <1> QED BY <1>1, <1>3, <1>5, <1>6, <1>9, <1>11

\* No batch of several records exceeds MaxBatchSize, the last record ends a
\* batch, and so does the last record that was handed out.
Cut(k) ==
    /\ Len(k.recs) \in k.ends \cup {0}
    /\ k.out \in k.ends \cup {0}
    /\ \A e \in k.ends : Cardinality(BatchOf(k, e)) > 1 => Bytes(k, BatchOf(k, e)) <= MaxBatchSize

\* Records of a cache with no end of a batch between them fit in one batch.
LEMMA QueuedFit ==
    ASSUME NEW k \in Cache, CacheShape(k), Cut(k), NEW recs \in Seq(Offsets),
           NEW first \in Nat, NEW i \in Nat, 0 < first, first < i, i <= Len(k.recs),
           \A j \in first .. i - 1 : j \notin k.ends
    PROVE  Sum(Sizes(k.recs \o recs), first .. i) <= MaxBatchSize
  <1>1. PICK d \in Nat : d = Len(k.recs)
    BY DEF Cache
  <1>2. k.ends \subseteq 1 .. d /\ d \in k.ends
    BY <1>1 DEF Cut, CacheShape
  <1> DEFINE S == {x \in k.ends : x >= i}
  <1>3. \A x : x \in S <=> x \in k.ends /\ x >= i
    OBVIOUS
  <1> HIDE DEF S
  <1>4. S \in SUBSET Nat /\ S # {}
    BY <1>1, <1>2, <1>3
  <1>5. PICK e \in S : \A x \in S : e <= x
    BY <1>4, Least
  <1>6. e \in k.ends /\ e >= i /\ e \in Nat /\ e <= d
    BY <1>1, <1>2, <1>3, <1>5
  <1>7. PICK B : B = BatchOf(k, e)
    OBVIOUS
  <1>8. B \subseteq 1 .. d
    BY <1>1, <1>6, <1>7, BatchOfType
  <1>9. first .. i \subseteq B
    <2>1. ASSUME NEW j \in first .. i, NEW x \in k.ends, x < e PROVE x < j
      <3>1. x \in Nat
        BY <1>2
      <3>2. x < i
        BY <1>3, <1>5, <1>6, <2>1, <3>1
      <3>3. x < first
        BY <2>1, <3>1, <3>2
      <3> QED BY <2>1, <3>1, <3>3
    <2>2. first .. i \subseteq 1 .. e
      BY <1>6
    <2> QED BY <1>7, <2>1, <2>2 DEF BatchOf
  <1>10. Cardinality(B) > 1
    <2>1. first \in B /\ i \in B /\ first # i
      BY <1>9
    <2>2. IsFiniteSet(B)
      <3>1. IsFiniteSet(1 .. d)
        BY <1>1, FS_Interval
      <3> QED BY <1>8, <3>1, FS_Subset
    <2> QED BY <2>1, <2>2, Several
  <1>11. Bytes(k, B) <= MaxBatchSize
    BY <1>6, <1>7, <1>10 DEF Cut
  <1>12. PICK w, U : w = Sizes(k.recs \o recs) /\ U = 1 .. Len(k.recs \o recs)
    OBVIOUS
  <1>13. Bytes(k, B) = Sum(w, B) /\ Weighted(w, U, B)
    BY <1>1, <1>8, <1>12, PrefixBytes
  <1>14. PICK T : T = first .. i
    OBVIOUS
  <1>15. Sum(w, T) <= Sum(w, B) /\ Sum(w, T) \in Nat /\ Sum(w, B) \in Nat
    BY <1>9, <1>13, <1>14, SumPart
  <1>16. Sum(w, T) <= MaxBatchSize
    BY <1>11, <1>13, <1>15
  <1> QED BY <1>12, <1>14, <1>16

\* b is the batch of record i, as far as that record.
Batched(k, w, b, i) ==
    /\ b \in [first : Nat, size : Nat]
    /\ b.first \in k.out + 1 .. i
    /\ b.size = Sum(w, b.first .. i)
    /\ b.first < i => b.size <= MaxBatchSize
    /\ i <= Len(k.recs) => \A j \in b.first .. i - 1 : j \notin k.ends

\* A batch starts with its first record.
LEMMA BatchedStart ==
    ASSUME NEW k, k.out \in Nat, NEW n \in Nat, NEW i \in k.out + 1 .. n,
           NEW w, w \in [1 .. n -> Nat], NEW b, b = [first |-> i, size |-> w[i]]
    PROVE  Batched(k, w, b, i)
  <1>1. b.first = i /\ b.size = w[i] /\ i \in 1 .. n
    OBVIOUS
  <1>2. PICK s, U : s = i .. i /\ U = 1 .. n
    OBVIOUS
  <1>3. s = {i} /\ s \subseteq U /\ i \in U
    BY <1>1, <1>2
  <1>4. Weighted(w, U, s)
    <2>1. IsFiniteSet(1 .. n)
      BY FS_Interval
    <2> QED BY <1>2, <1>3, <2>1 DEF Weighted
  <1>5. Sum(w, s) = w[i]
    BY <1>3, <1>4, SumOne
  <1>6. i \in k.out + 1 .. i /\ i .. i - 1 = {} /\ ~(i < i)
    OBVIOUS
  <1>7. b \in [first : Nat, size : Nat]
    BY <1>1
  <1> QED BY <1>1, <1>2, <1>5, <1>6, <1>7 DEF Batched

\* all are the records of k followed by recs, and w are their sizes.
Appended(k, recs, all, w) == all = k.recs \o recs /\ w = Sizes(all)

\* A record that joins a batch leaves it within the limit.
LEMMA BatchedJoin ==
    ASSUME NEW k \in Cache, CacheShape(k), Cut(k), NEW recs \in Seq(Offsets),
           NEW all, NEW w, Appended(k, recs, all, w),
           NEW l \in Nat, NEW i \in k.out + 1 .. Len(all), l = i - 1, k.out < l,
           NEW b, Batched(k, w, b, l), Joins(k, all, b, i),
           NEW a, a = [b EXCEPT !.size = b.size + w[i]]
    PROVE  Batched(k, w, a, i)
  <1>1. PICK n \in Nat : n = Len(all)
    <2>1. k.recs \in Seq(Offsets)
      BY DEF Cache
    <2>2. all \in Seq(Offsets)
      BY <2>1 DEF Appended
    <2>3. Len(all) \in Nat
      BY <2>2, LenProperties
    <2> QED BY <2>3
  <1>2. k.out \in Nat /\ i \in 1 .. n /\ i \in Nat
    BY <1>1 DEF Cache
  <1>3. Weighted(w, 1 .. n, 1 .. n)
    <2>1. k.recs \in Seq(Offsets)
      BY DEF Cache
    <2>2. all \in Seq(Offsets)
      BY <2>1 DEF Appended
    <2>3. w = Sizes(all)
      BY DEF Appended
    <2> QED BY <1>1, <2>2, <2>3, FetchSum
  <1>4. PICK f \in Nat : f = b.first /\ k.out + 1 <= f /\ f <= l
    BY <1>2 DEF Batched
  <1>5. PICK s, t : s = f .. i /\ t = f .. l
    OBVIOUS
  <1>6. 0 < f /\ f <= l /\ i = l + 1 /\ i <= n /\ i \in Nat /\ n \in Nat
    BY <1>1, <1>2, <1>4
  <1>7. /\ Removed(f .. l, f .. i, i) /\ f .. i \subseteq 1 .. n
        /\ \A j \in f .. i - 1 : j = l \/ j \in f .. l - 1
        /\ f < i
    BY <1>4, <1>6, IntervalStep
  <1>8. Removed(t, s, i) /\ s \subseteq 1 .. n
    BY <1>5, <1>7
  <1>9. Weighted(w, 1 .. n, s)
    BY <1>3, <1>8 DEF Weighted
  <1>10. Sum(w, s) = w[i] + Sum(w, t)
    BY <1>8, <1>9, SumTake
  <1>11. Weighted(w, 1 .. n, t)
    BY <1>8, <1>9 DEF Weighted, Removed
  <1>12. b.size = Sum(w, t) /\ Sum(w, t) \in Nat
    BY <1>4, <1>5, <1>11, SumNat DEF Batched
  <1>13. w[i] \in Nat
    BY <1>2, <1>3 DEF Weighted
  <1>14. a.first = f /\ a.size = Sum(w, s) /\ a \in [first : Nat, size : Nat]
    <2>1. b \in [first : Nat, size : Nat]
      BY DEF Batched
    <2>2. b.size + w[i] \in Nat /\ b.size + w[i] = Sum(w, s)
      BY <1>10, <1>12, <1>13
    <2> QED BY <1>4, <2>1, <2>2
  <1>15. ASSUME i <= Len(k.recs) PROVE \A j \in f .. i - 1 : j \notin k.ends
    <2>1. l \notin k.ends
      BY <1>15 DEF Joins
    <2>2. \A j \in f .. l - 1 : j \notin k.ends
      <3>1. Len(k.recs) \in Nat
        BY DEF Cache
      <3>2. l <= Len(k.recs)
        BY <1>2, <1>15, <3>1
      <3> QED BY <1>4, <3>2 DEF Batched
    <2> QED BY <1>7, <2>1, <2>2
  <1>16. a.size <= MaxBatchSize
    <2>1. CASE i <= Len(k.recs)
      <3>1. 0 < f /\ f < i
        BY <1>6, <1>7
      <3>2. Sum(w, f .. i) <= MaxBatchSize
        <4>1. Sum(Sizes(k.recs \o recs), f .. i) <= MaxBatchSize
          BY <1>2, <1>4, <1>15, <2>1, <3>1, QueuedFit
        <4> QED BY <4>1 DEF Appended
      <3> QED BY <1>5, <1>14, <3>2
    <2>2. CASE ~(i <= Len(k.recs))
      <3>1. w[i] = RecordSize[all[i]]
        BY <1>1, <1>2, Zenon DEF Sizes, Appended
      <3>2. b.size + RecordSize[all[i]] <= MaxBatchSize
        BY <2>2 DEF Joins
      <3>3. a.size = b.size + w[i]
        BY <1>10, <1>12, <1>13, <1>14
      <3> QED BY <3>1, <3>2, <3>3
    <2> QED BY <2>1, <2>2
  <1>17. f \in k.out + 1 .. i
    BY <1>2, <1>4
  <1> QED BY <1>4, <1>5, <1>14, <1>15, <1>16, <1>17 DEF Batched

\* Every queued record up to n is in a batch, and the first record of its batch
\* starts one.
AllBatched(k, w, f, n) ==
    \A i \in k.out + 1 .. n : Batched(k, w, f[i], i) /\ f[f[i].first].first = f[i].first

\* By induction over the records: no batch that push forms outgrows the limit.
LEMMA CutsSound ==
    ASSUME NEW k \in Cache, CacheShape(k), Cut(k), NEW recs \in Seq(Offsets),
           NEW all, NEW w, Appended(k, recs, all, w), NEW f, Cuts(f, k, all, Len(all))
    PROVE  AllBatched(k, w, f, Len(all))
  <1>1. all = k.recs \o recs /\ w = Sizes(all)
    BY DEF Appended
  <1>2. PICK n \in Nat : n = Len(all) /\ w \in [1 .. n -> Nat]
    <2>1. k.recs \in Seq(Offsets)
      BY DEF Cache
    <2>2. all \in Seq(Offsets)
      BY <1>1, <2>1
    <2>3. Weighted(Sizes(all), 1 .. Len(all), 1 .. Len(all))
      BY <2>2, FetchSum, Zenon
    <2>4. w \in [1 .. Len(all) -> Nat]
      BY <1>1, <2>3 DEF Weighted
    <2>5. Len(all) \in Nat
      BY <2>2
    <2> QED BY <2>4, <2>5
  <1>3. PICK o \in Nat : o = k.out
    BY DEF Cache
  <1> DEFINE S == {i \in o + 1 .. n : ~(Batched(k, w, f[i], i) /\ f[f[i].first].first = f[i].first)}
  <1>4. \A i : i \in S <=> i \in o + 1 .. n /\ ~(Batched(k, w, f[i], i) /\ f[f[i].first].first = f[i].first)
    OBVIOUS
  <1>5. SUFFICES ASSUME S # {} PROVE FALSE
    BY <1>2, <1>3, <1>4 DEF AllBatched
  <1> HIDE DEF S
  <1>6. S \in SUBSET Nat
    BY <1>3, <1>4
  <1>7. PICK i \in S : \A x \in S : i <= x
    BY <1>5, <1>6, Least
  <1>8. i \in o + 1 .. n /\ ~(Batched(k, w, f[i], i) /\ f[f[i].first].first = f[i].first)
    BY <1>4, <1>7
  <1>9. f[i] = NextBatch(k, all, f[i - 1], i)
    BY <1>2, <1>3, <1>8 DEF Cuts
  <1>10. w[i] = RecordSize[all[i]]
    <2>1. i \in 1 .. Len(all)
      BY <1>2, <1>3, <1>8
    <2> QED BY <1>1, <2>1, Zenon DEF Sizes
  <1>11. CASE i = k.out + 1 \/ ~Joins(k, all, f[i - 1], i)
    <2>1. f[i] = [first |-> i, size |-> w[i]]
      BY <1>9, <1>10, <1>11, Zenon DEF NextBatch
    <2>2. Batched(k, w, f[i], i)
      BY <1>2, <1>3, <1>8, <2>1, BatchedStart
    <2>3. f[f[i].first].first = f[i].first
      BY <2>1
    <2> QED BY <1>8, <2>2, <2>3
  <1>12. CASE i # k.out + 1 /\ Joins(k, all, f[i - 1], i)
    <2>1. PICK l \in Nat : l = i - 1 /\ l \in o + 1 .. n
      BY <1>2, <1>3, <1>8, <1>12
    <2>2. l \notin S
      BY <1>2, <1>3, <1>7, <1>8, <2>1
    <2>3. PICK b : b = f[l]
      OBVIOUS
    <2>4. Batched(k, w, b, l) /\ f[b.first].first = b.first /\ Joins(k, all, b, i)
      BY <1>4, <1>12, <2>1, <2>2, <2>3
    <2>5. PICK a : a = [b EXCEPT !.size = b.size + w[i]]
      OBVIOUS
    <2>6. f[i] = a
      <3>1. ~(i = k.out + 1 \/ ~Joins(k, all, f[i - 1], i))
        BY <1>12
      <3>2. f[i] = [f[i - 1] EXCEPT !.size = f[i - 1].size + RecordSize[all[i]]]
        BY <1>9, <3>1, Zenon DEF NextBatch
      <3> QED BY <1>10, <2>1, <2>3, <2>5, <3>2
    <2>7. k.out < l /\ i \in k.out + 1 .. Len(all)
      BY <1>2, <1>3, <1>8, <2>1
    <2>8. Batched(k, w, a, i)
      BY <2>1, <2>4, <2>5, <2>7, BatchedJoin
    <2>9. a.first = b.first
      <3>1. b \in [first : Nat, size : Nat]
        BY <2>4 DEF Batched
      <3> QED BY <2>5, <3>1
    <2> QED BY <1>8, <2>4, <2>6, <2>8, <2>9
  <1> QED BY <1>11, <1>12

\* push cuts what it appends.
LEMMA CutPush ==
    ASSUME NEW k \in Cache, CacheShape(k), Cut(k), NEW recs \in Seq(Offsets)
    PROVE  Cut(push(k, recs))
  <1>1. PICK r \in Cache : r = push(k, recs)
    BY PushType
  <1>2. PICK all \in Seq(Offsets) : all = k.recs \o recs
    <2>1. k.recs \in Seq(Offsets)
      BY DEF Cache
    <2>2. k.recs \o recs \in Seq(Offsets)
      BY <2>1
    <2> QED BY <2>2
  <1>3. r.recs = all /\ r.ends = PushEnds(k, recs) /\ r.out = k.out
    BY <1>1, <1>2 DEF push, Cache
  <1>4. PICK n \in Nat : n = Len(all)
    BY <1>2
  <1>5. k.out \in Nat /\ k.out <= n
    BY <1>2, <1>4 DEF Cache, CacheShape
  <1>6. PICK f : /\ Cuts(f, k, all, Len(all))
                 /\ PushEnds(k, recs) = {e \in k.ends : e <= k.out} \cup
                       {i \in (k.out + 1) .. Len(all) : i = Len(all) \/ f[i + 1].first = i + 1}
    <2>1. \E f : CutBy(f, k, recs, all)
      BY <1>2, <1>4, <1>5, PushCuts
    <2> QED BY <2>1 DEF CutBy
  <1>7. r.ends = {e \in k.ends : e <= k.out} \cup
            {i \in (k.out + 1) .. n : i = n \/ f[i + 1].first = i + 1}
    BY <1>3, <1>4, <1>6
  <1>8. PICK w : w = Sizes(all)
    OBVIOUS
  <1>9. \A i \in k.out + 1 .. n : Batched(k, w, f[i], i) /\ f[f[i].first].first = f[i].first
    <2>1. Appended(k, recs, all, w)
      BY <1>2, <1>8 DEF Appended
    <2>2. AllBatched(k, w, f, Len(all))
      BY <1>6, <2>1, CutsSound
    <2> QED BY <1>4, <2>2 DEF AllBatched
  <1>10. r.out \in r.ends \cup {0}
    BY <1>3, <1>5, <1>7 DEF Cut
  <1>11. Len(r.recs) \in r.ends \cup {0}
    <2>1. CASE k.out = n
      BY <1>3, <1>4, <1>10, <2>1
    <2>2. CASE k.out < n
      <3>1. n \in k.out + 1 .. n
        BY <1>4, <1>5, <2>2
      <3> QED BY <1>3, <1>4, <1>7, <3>1
    <2> QED BY <1>4, <1>5, <2>1, <2>2
  <1>12. \A I \in SUBSET (1 .. n) : Bytes(r, I) = Sum(w, I) /\ Weighted(w, 1 .. n, I)
    BY <1>3, <1>4, <1>8, BytesSum
  <1>13. ASSUME NEW e \in r.ends, Cardinality(BatchOf(r, e)) > 1
         PROVE  Bytes(r, BatchOf(r, e)) <= MaxBatchSize
    <2>1. CASE e \in k.ends /\ e <= k.out
      <3>1. PICK B : B = BatchOf(k, e)
        OBVIOUS
      <3>2. BatchOf(r, e) = B
        BY <1>1, <2>1, <3>1, PushHandedOut
      <3>3. Bytes(k, B) <= MaxBatchSize
        BY <1>13, <2>1, <3>1, <3>2 DEF Cut
      <3>4. B \subseteq 1 .. Len(k.recs)
        BY <2>1, <3>1, BatchOfType
      <3>5. Bytes(k, B) = Sum(w, B)
        BY <1>2, <1>8, <3>4, PrefixBytes
      <3>6. B \subseteq 1 .. n
        BY <1>2, <1>4, <3>4 DEF Cache
      <3>7. Bytes(r, B) = Sum(w, B)
        BY <1>12, <3>6
      <3> QED BY <3>2, <3>3, <3>5, <3>7
    <2>2. CASE e \in k.out + 1 .. n
      <3>1. PICK b : b = f[e]
        OBVIOUS
      <3>2. Batched(k, w, b, e) /\ f[b.first].first = b.first
        BY <1>9, <2>2, <3>1
      <3>3. PICK x \in Nat : x = b.first /\ k.out + 1 <= x /\ x <= e
        BY <1>5, <2>2, <3>2 DEF Batched
      <3>4. x = 1 \/ x - 1 \in r.ends
        <4>1. CASE x = k.out + 1
          <5>1. x - 1 = k.out
            BY <1>5, <4>1
          <5>2. CASE k.out = 0
            BY <4>1, <5>2
          <5>3. CASE k.out \in k.ends
            BY <1>5, <1>7, <5>1, <5>3
          <5> QED BY <5>2, <5>3 DEF Cut
        <4>2. CASE x # k.out + 1
          <5>1. x - 1 \in k.out + 1 .. n /\ (x - 1) + 1 = x
            <6>1. PICK o \in Nat : o = k.out
              BY <1>5
            <6>2. e \in Nat /\ e <= n /\ x <= e /\ o + 1 <= x /\ x # o + 1
              BY <1>4, <2>2, <3>3, <4>2, <6>1
            <6>3. x \in Nat /\ n \in Nat /\ o \in Nat
              BY <1>4, <3>3, <6>1
            <6>4. x - 1 \in o + 1 .. n /\ (x - 1) + 1 = x
              BY <6>2, <6>3
            <6> QED BY <6>1, <6>4
          <5>2. f[(x - 1) + 1].first = (x - 1) + 1
            BY <3>2, <3>3, <5>1
          <5> QED BY <1>7, <5>1, <5>2
        <4> QED BY <4>1, <4>2
      <3>5. PICK B : B = BatchOf(r, e)
        OBVIOUS
      <3>6. PICK T : T = x .. e
        OBVIOUS
      <3>7. B \subseteq T
        <4>1. ASSUME NEW j \in B PROVE j \in T
          <5>1. j \in 1 .. e /\ \A y \in r.ends : y < e => y < j
            BY <3>5 DEF BatchOf
          <5>2. x <= j
            <6>1. CASE x = 1
              BY <5>1, <6>1
            <6>2. CASE x - 1 \in r.ends
              <7>1. x - 1 < e
                BY <1>5, <2>2, <3>3
              <7>2. x - 1 < j
                BY <5>1, <6>2, <7>1
              <7> QED BY <1>5, <2>2, <3>3, <5>1, <7>2
            <6> QED BY <3>4, <6>1, <6>2
          <5> QED BY <1>5, <2>2, <3>3, <3>6, <5>1, <5>2
        <4> QED BY <4>1
      <3>8. T \subseteq 1 .. n
        <4>1. 1 <= x /\ x \in Nat /\ e \in Nat /\ e <= n /\ n \in Nat
          BY <1>4, <1>5, <2>2, <3>3
        <4> QED BY <3>6, <4>1
      <3>9. Bytes(r, B) = Sum(w, B) /\ Weighted(w, 1 .. n, T)
        BY <1>12, <3>7, <3>8
      <3>10. x < e
        <4>1. IsFiniteSet(B)
          <5>1. IsFiniteSet(1 .. n)
            BY <1>4, FS_Interval
          <5> QED BY <3>7, <3>8, <5>1, FS_Subset
        <4>2. PICK y \in B, z \in B : y # z
          BY <1>13, <3>5, <4>1, Several
        <4>3. y \in x .. e /\ z \in x .. e
          BY <3>6, <3>7, <4>2
        <4> QED BY <1>5, <2>2, <3>3, <4>2, <4>3
      <3>11. Sum(w, T) <= MaxBatchSize
        BY <3>2, <3>3, <3>6, <3>10 DEF Batched
      <3>12. Sum(w, B) <= Sum(w, T) /\ Sum(w, B) \in Nat /\ Sum(w, T) \in Nat
        BY <3>7, <3>9, SumPart
      <3> QED BY <3>5, <3>9, <3>11, <3>12
    <2> QED BY <1>7, <2>1, <2>2
  <1> QED BY <1>1, <1>10, <1>11, <1>13 DEF Cut

\* The batches depend on the records and on the ends.
LEMMA CutSame ==
    ASSUME NEW k \in Cache, CacheShape(k), Cut(k), NEW r \in Cache,
           r.recs = k.recs, r.ends = k.ends, r.out \in r.ends \cup {0}
    PROVE  Cut(r)
  <1>1. ASSUME NEW e \in r.ends, Cardinality(BatchOf(r, e)) > 1
        PROVE  Bytes(r, BatchOf(r, e)) <= MaxBatchSize
    <2>1. PICK B : B = BatchOf(k, e)
      OBVIOUS
    <2>2. BatchOf(r, e) = B
      BY <2>1 DEF BatchOf
    <2>3. B \subseteq 1 .. Len(k.recs)
      BY <2>1, BatchOfType
    <2>4. Bytes(r, B) = Bytes(k, B)
      BY <2>3, SameBytes
    <2>5. Bytes(k, B) <= MaxBatchSize
      BY <1>1, <2>1, <2>2 DEF Cut
    <2> QED BY <2>2, <2>4, <2>5
  <1> QED BY <1>1 DEF Cut

-----------------------------------------------------------------------------
(* What a cache holds, in bytes.                                           *)

\* The records of a cache that are queued or in flight.
Held(k) == (1 .. Len(k.recs)) \ k.acked

\* n counts the bytes of the records k holds; what is in flight is held, and the
\* batches are cut to size.
Sized(k, n) ==
    /\ n \in Nat /\ n = Bytes(k, Held(k))
    /\ Cut(k)
    /\ \A e \in InFlight(k) : BatchOf(k, e) \cap k.acked = {}

\* A new cache holds nothing.
LEMMA SizedNew ==
    ASSUME NEW start \in Positions
    PROVE  Sized(newPartitionCache(start), 0)
  <1>1. PICK k \in Cache : k = newPartitionCache(start)
    BY NewCacheType
  <1>2. k.recs = <<>> /\ k.acked = {} /\ k.ends = {} /\ k.out = 0
    BY <1>1 DEF newPartitionCache
  <1>3. Held(k) = {} /\ Held(k) \subseteq 1 .. Len(k.recs)
    BY <1>2 DEF Held
  <1>4. Bytes(k, Held(k)) = Sum(Sizes(k.recs), Held(k))
    BY <1>3, BytesSum
  <1>5. Sum(Sizes(k.recs), Held(k)) = 0
    <2>1. IsFiniteSet(Held(k))
      BY <1>3, FS_EmptySet
    <2> QED BY <1>3, <2>1, SumRec
  <1>6. InFlight(k) = {}
    BY <1>2 DEF InFlight
  <1>7. Cut(k)
    BY <1>2 DEF Cut
  <1>8. Sized(k, 0)
    BY <1>4, <1>5, <1>6, <1>7 DEF Sized
  <1> QED BY <1>1, <1>8

\* The size does not depend on dispatch signals or on revocation.
LEMMA SizedSame ==
    ASSUME NEW k \in Cache, CacheShape(k), NEW n, Sized(k, n), NEW r \in Cache,
           r.recs = k.recs, r.ends = k.ends, r.out = k.out, r.acked = k.acked
    PROVE  Sized(r, n)
  <1>1. InFlight(r) = InFlight(k) /\ (\A e : BatchOf(r, e) = BatchOf(k, e)) /\ Held(r) = Held(k)
    BY DEF InFlight, BatchOf, Held
  <1>2. Bytes(r, Held(r)) = Bytes(k, Held(k))
    BY <1>1, SameBytes DEF Held
  <1>3. Cut(r)
    BY CutSame DEF Sized, Cut
  <1> QED BY <1>1, <1>2, <1>3 DEF Sized

\* A batch that is handed out is still held.
LEMMA SizedPop ==
    ASSUME NEW k \in Cache, CacheShape(k), NEW n, Sized(k, n),
           NEW e \in k.ends, e > k.out, \A x \in k.ends : x > k.out => e <= x,
           NEW r \in Cache, r = [k EXCEPT !.out = e, !.pending = k.pending \cup {BatchID(k, e)}]
    PROVE  Sized(r, n)
  <1>1. r.recs = k.recs /\ r.ends = k.ends /\ r.out = e /\ r.acked = k.acked
    BY DEF Cache
  <1>2. (\A x : BatchOf(r, x) = BatchOf(k, x)) /\ Held(r) = Held(k)
    BY <1>1 DEF BatchOf, Held
  <1>3. Bytes(r, Held(r)) = Bytes(k, Held(k))
    <2>1. PICK h : h = Held(k) /\ h \subseteq 1 .. Len(k.recs)
      BY DEF Held
    <2>2. Bytes(r, h) = Bytes(k, h)
      BY <1>1, <2>1, SameBytes
    <2> QED BY <1>2, <2>1, <2>2
  <1>4. k.out \in Nat /\ k.ends \subseteq Nat /\ e \in Nat /\ k.acked \subseteq 1 .. k.out
    BY DEF Cache, CacheShape
  <1>5. ASSUME NEW x \in InFlight(r) PROVE BatchOf(r, x) \cap r.acked = {}
    <2>1. x \in k.ends /\ x <= e /\ x \notin k.acked /\ x \in Nat
      BY <1>1, <1>4 DEF InFlight
    <2>2. CASE x <= k.out
      <3>1. x \in InFlight(k)
        BY <2>1, <2>2 DEF InFlight
      <3>2. BatchOf(k, x) \cap k.acked = {}
        BY <3>1 DEF Sized
      <3> QED BY <1>1, <1>2, <3>2
    <2>3. CASE k.out < x
      <3>1. CASE k.out = 0
        <4>1. k.acked = {}
          BY <1>4, <3>1
        <4> QED BY <1>1, <4>1
      <3>2. CASE k.out \in k.ends
        <4>1. \A i \in BatchOf(k, x) : k.out < i /\ i \in Nat
          BY <2>1, <2>3, <3>2 DEF BatchOf
        <4>2. \A i \in k.acked : i <= k.out /\ i \in Nat
          BY <1>4
        <4> QED BY <1>1, <1>2, <1>4, <4>1, <4>2
      <3> QED BY <3>1, <3>2 DEF Sized, Cut
    <2> QED BY <1>4, <2>1, <2>2, <2>3
  <1>6. Cut(r)
    BY <1>1, CutSame DEF Sized
  <1> QED BY <1>1, <1>3, <1>5, <1>6 DEF Sized

\* onAck gives back the bytes of its batch.
LEMMA SizedAck ==
    ASSUME NEW k \in Cache, CacheShape(k), NEW n, Sized(k, n), NEW e \in InFlight(k),
           NEW r \in Cache, r = [k EXCEPT !.acked   = k.acked \cup BatchOf(k, e),
                                !.fired   = k.fired \ BatchOf(k, e),
                                !.pending = k.pending \ {BatchID(k, e)}]
    PROVE  Sized(r, n - ReleasedBytes(k, e)) /\ ReleasedBytes(k, e) \in Nat
  <1>1. r.recs = k.recs /\ r.ends = k.ends /\ r.out = k.out /\ r.acked = k.acked \cup BatchOf(k, e)
    BY DEF Cache
  <1>2. (\A x : BatchOf(r, x) = BatchOf(k, x)) /\ e \in k.ends
    BY <1>1 DEF BatchOf, InFlight
  <1>3. PICK B : B = BatchOf(k, e)
    OBVIOUS
  <1>4. B \subseteq 1 .. Len(k.recs) /\ B \cap k.acked = {} /\ r.acked = k.acked \cup B
    BY <1>1, <1>2, <1>3, BatchOfType DEF Sized
  <1>5. PICK w : w = Sizes(k.recs)
    OBVIOUS
  <1>6. PICK h, j : h = Held(k) /\ j = Held(r)
    OBVIOUS
  <1>7. Divided(h, B, j) /\ h \subseteq 1 .. Len(k.recs) /\ j \subseteq 1 .. Len(r.recs)
    BY <1>1, <1>4, <1>6 DEF Divided, Held
  <1>8. /\ Bytes(k, h) = Sum(w, h) /\ Weighted(w, 1 .. Len(k.recs), h)
        /\ Bytes(k, B) = Sum(w, B)
    BY <1>4, <1>5, <1>7, BytesSum
  <1>9. Bytes(r, j) = Sum(w, j)
    BY <1>1, <1>5, <1>7, BytesSum
  <1>10. Sum(w, h) = Sum(w, B) + Sum(w, j) /\ Sum(w, B) \in Nat /\ Sum(w, j) \in Nat
    BY <1>7, <1>8, SumDivided
  <1>11. ReleasedBytes(k, e) = Sum(w, B)
    BY <1>3, <1>8 DEF ReleasedBytes
  <1>12. n = Sum(w, h)
    BY <1>6, <1>8 DEF Sized
  <1>13. n - ReleasedBytes(k, e) = Bytes(r, Held(r)) /\ n - ReleasedBytes(k, e) \in Nat
    BY <1>6, <1>9, <1>10, <1>11, <1>12
  <1>14. e \in B
    <2>1. k.ends \subseteq Nat \ {0}
      BY DEF CacheShape, Cache
    <2> QED BY <1>2, <1>3, <2>1 DEF BatchOf
  <1>15. ASSUME NEW x \in InFlight(r) PROVE BatchOf(r, x) \cap r.acked = {}
    <2>1. x \in InFlight(k) /\ x # e /\ x \in k.ends
      BY <1>1, <1>4, <1>14 DEF InFlight
    <2>2. BatchOf(k, x) \cap BatchOf(k, e) = {}
      BY <1>2, <2>1, BatchesApart
    <2>3. BatchOf(k, x) \cap k.acked = {}
      BY <2>1 DEF Sized
    <2> QED BY <1>1, <1>2, <2>2, <2>3
  <1>16. Cut(r)
    BY <1>1, CutSame DEF Sized, Cut
  <1> QED BY <1>10, <1>11, <1>13, <1>15, <1>16 DEF Sized

\* push takes up the bytes of the records it appends.
LEMMA SizedPush ==
    ASSUME NEW k \in Cache, CacheShape(k), NEW n, Sized(k, n), NEW recs \in Seq(Offsets)
    PROVE  Sized(push(k, recs), n + SumSizes(recs)) /\ SumSizes(recs) \in Nat
  <1>1. PICK r \in Cache : r = push(k, recs)
    BY PushType
  <1>2. r.recs = k.recs \o recs /\ r.out = k.out /\ r.acked = k.acked
    BY <1>1 DEF push, Cache
  <1>3. PICK d \in Nat : d = Len(k.recs)
    BY DEF Cache
  <1>4. PICK m \in Nat : m = Len(recs)
    OBVIOUS
  <1>5. k.recs \in Seq(Offsets) /\ r.recs \in Seq(Offsets)
    BY DEF Cache
  <1>6. /\ Len(r.recs) = d + m
        /\ \A i \in 1 .. d : r.recs[i] = k.recs[i]
        /\ \A i \in 1 .. m : r.recs[d + i] = recs[i]
    BY <1>2, <1>3, <1>4, <1>5
  <1>7. PICK u, v, w : u = Sizes(k.recs) /\ v = Sizes(recs) /\ w = Sizes(r.recs)
    OBVIOUS
  <1>8. Held(k) = (1 .. d) \ k.acked /\ Held(r) = (1 .. d + m) \ k.acked
    BY <1>2, <1>3, <1>6 DEF Held
  <1>9. k.acked \subseteq 1 .. d
    BY <1>3 DEF CacheShape, Cache
  <1>10. PICK h, j, t : h = Held(k) /\ j = Held(r) /\ t = d + 1 .. d + m
    OBVIOUS
  <1>11. h \subseteq 1 .. d /\ j \subseteq 1 .. d + m
    BY <1>8, <1>10
  <1>12. Divided(j, h, t)
    <2>1. 1 .. d + m = (1 .. d) \cup t /\ (1 .. d) \cap t = {}
      BY <1>10
    <2> QED BY <1>8, <1>9, <1>10, <2>1 DEF Divided
  <1>13. Bytes(k, h) = Sum(u, h) /\ Weighted(u, 1 .. d, h)
    BY <1>3, <1>7, <1>11, BytesSum
  <1>14. Bytes(r, j) = Sum(w, j) /\ Weighted(w, 1 .. d + m, j)
    BY <1>6, <1>7, <1>11, BytesSum
  <1>15. SumSizes(recs) = Sum(v, 1 .. m) /\ Weighted(v, 1 .. m, 1 .. m)
    BY <1>4, <1>7, FetchSum
  <1>16. Sum(w, j) = Sum(w, h) + Sum(w, t) /\ Sum(w, h) \in Nat /\ Sum(w, t) \in Nat
    BY <1>12, <1>14, SumDivided
  <1>17. Sum(w, h) = Sum(u, h)
    <2>1. IsFiniteSet(h)
      BY <1>13, FS_Subset DEF Weighted
    <2>2. ASSUME NEW i \in 1 .. d PROVE w[i] = u[i]
      <3>1. i \in 1 .. Len(r.recs) /\ i \in 1 .. Len(k.recs)
        BY <1>3, <1>6
      <3>2. w[i] = RecordSize[r.recs[i]] /\ u[i] = RecordSize[k.recs[i]]
        BY <1>7, <3>1, Zenon DEF Sizes
      <3> QED BY <1>6, <3>2
    <2> QED BY <1>11, <2>1, <2>2, SumEqual
  <1>18. Sum(w, t) = Sum(v, 1 .. m)
    <2>1. ASSUME NEW i \in 1 .. m PROVE w[d + i] = v[i]
      <3>1. d + i \in 1 .. Len(r.recs) /\ i \in 1 .. Len(recs)
        BY <1>4, <1>6
      <3>2. w[d + i] = RecordSize[r.recs[d + i]] /\ v[i] = RecordSize[recs[i]]
        BY <1>7, <3>1, Zenon DEF Sizes
      <3> QED BY <1>6, <3>2
    <2>2. w \in [1 .. d + m -> Nat] /\ v \in [1 .. m -> Nat]
      BY <1>14, <1>15 DEF Weighted
    <2>3. Shifted(w, v, d, m, t)
      BY <1>10, <2>1, <2>2 DEF Shifted
    <2> QED BY <1>3, <1>4, <2>3, SumShifted
  <1>19. n = Sum(u, h)
    BY <1>10, <1>13 DEF Sized
  <1>20. SumSizes(recs) \in Nat /\ n + SumSizes(recs) = Bytes(r, Held(r)) /\ n + SumSizes(recs) \in Nat
    BY <1>10, <1>14, <1>15, <1>16, <1>17, <1>18, <1>19
  <1>21. Cut(r)
    BY <1>1, CutPush DEF Sized
  <1>22. ASSUME NEW e \in InFlight(r) PROVE BatchOf(r, e) \cap r.acked = {}
    <2>1. e \in InFlight(k) /\ e \in k.ends /\ e <= k.out
      BY <1>1, <1>22, PushHandedOut DEF InFlight
    <2>2. BatchOf(r, e) = BatchOf(k, e) /\ BatchOf(k, e) \cap k.acked = {}
      BY <1>1, <2>1, PushHandedOut DEF Sized
    <2> QED BY <1>2, <2>2
  <1> QED BY <1>1, <1>20, <1>21, <1>22 DEF Sized

-----------------------------------------------------------------------------
(* cacheSize is exact.                                                     *)

\* Every cache has a size.
SizesType ==
    /\ cacheSize \in [Clients -> [Partitions -> Seq(Nat)]]
    /\ \A c \in Clients, p \in Partitions : Len(cacheSize[c][p]) = Len(caches[c][p])

\* The inductive invariant behind CacheSizeExact and BatchesBounded.
SizeInv ==
    /\ SizesType
    /\ \A c \in Clients, p \in Partitions : \A g \in 1 .. Len(caches[c][p]) :
          Sized(caches[c][p][g], cacheSize[c][p][g])

\* The size of cache g of client c for p becomes n, and nothing else changes.
SizeReplaced(c, p, g, n) ==
    \A d \in Clients, q \in Partitions :
        /\ Len(cacheSize'[d][q]) = Len(cacheSize[d][q])
        /\ \A h \in 1 .. Len(cacheSize[d][q]) :
              cacheSize'[d][q][h] = IF d = c /\ q = p /\ h = g THEN n ELSE cacheSize[d][q][h]

\* Client c gets a size n for p, behind those it has.
SizeAppended(c, p, n) ==
    /\ \A d \in Clients, q \in Partitions :
          /\ Len(cacheSize'[d][q]) = IF d = c /\ q = p THEN Len(cacheSize[d][q]) + 1
                                                      ELSE Len(cacheSize[d][q])
          /\ \A h \in 1 .. Len(cacheSize[d][q]) : cacheSize'[d][q][h] = cacheSize[d][q][h]
    /\ cacheSize'[c][p][Len(cacheSize[c][p]) + 1] = n

\* Replacing one size leaves all others as they are.
LEMMA UpdateSize ==
    ASSUME cacheSize \in [Clients -> [Partitions -> Seq(Nat)]],
           NEW c \in Clients, NEW p \in Partitions,
           NEW g \in 1 .. Len(cacheSize[c][p]), NEW n \in Nat,
           cacheSize' = [cacheSize EXCEPT ![c][p][g] = n]
    PROVE  cacheSize' \in [Clients -> [Partitions -> Seq(Nat)]] /\ SizeReplaced(c, p, g, n)
  <1> DEFINE new == [cacheSize[c][p] EXCEPT ![g] = n]
  <1>1. cacheSize[c][p] \in Seq(Nat)
    OBVIOUS
  <1>2. new \in Seq(Nat) /\ Len(new) = Len(cacheSize[c][p])
        /\ \A h \in 1 .. Len(cacheSize[c][p]) : new[h] = IF h = g THEN n ELSE cacheSize[c][p][h]
    BY <1>1, ExceptSeq
  <1>3. cacheSize' = [cacheSize EXCEPT ![c][p] = new]
    OBVIOUS
  <1> HIDE DEF new
  <1>4. cacheSize' \in [Clients -> [Partitions -> Seq(Nat)]]
    BY <1>2, <1>3
  <1>5. \A d \in Clients, q \in Partitions :
           cacheSize'[d][q] = IF d = c /\ q = p THEN new ELSE cacheSize[d][q]
    <2>1. cacheSize'[c] = [cacheSize[c] EXCEPT ![p] = new]
          /\ \A d \in Clients : d # c => cacheSize'[d] = cacheSize[d]
      BY <1>3
    <2>2. cacheSize[c] \in [Partitions -> Seq(Nat)]
      OBVIOUS
    <2>3. \A q \in Partitions : cacheSize'[c][q] = IF q = p THEN new ELSE cacheSize[c][q]
      BY <2>1, <2>2
    <2> QED BY <2>1, <2>3
  <1> QED BY <1>2, <1>4, <1>5 DEF SizeReplaced

\* Appending a size leaves the earlier ones as they are.
LEMMA AppendSize ==
    ASSUME cacheSize \in [Clients -> [Partitions -> Seq(Nat)]],
           NEW c \in Clients, NEW p \in Partitions, NEW n \in Nat,
           cacheSize' = [cacheSize EXCEPT ![c][p] = Append(cacheSize[c][p], n)]
    PROVE  cacheSize' \in [Clients -> [Partitions -> Seq(Nat)]] /\ SizeAppended(c, p, n)
  <1>1. cacheSize' \in [Clients -> [Partitions -> Seq(Nat)]]
    OBVIOUS
  <1>2. \A d \in Clients, q \in Partitions :
           cacheSize'[d][q] = IF d = c /\ q = p THEN Append(cacheSize[c][p], n) ELSE cacheSize[d][q]
    OBVIOUS
  <1>3. cacheSize[c][p] \in Seq(Nat)
    OBVIOUS
  <1>4. /\ Len(Append(cacheSize[c][p], n)) = Len(cacheSize[c][p]) + 1
        /\ Append(cacheSize[c][p], n)[Len(cacheSize[c][p]) + 1] = n
        /\ \A h \in 1 .. Len(cacheSize[c][p]) : Append(cacheSize[c][p], n)[h] = cacheSize[c][p][h]
    BY <1>3
  <1>5. cacheSize'[c][p] = Append(cacheSize[c][p], n)
    BY <1>2
  <1>6. ASSUME NEW d \in Clients, NEW q \in Partitions
        PROVE  /\ Len(cacheSize'[d][q]) = IF d = c /\ q = p THEN Len(cacheSize[d][q]) + 1
                                                            ELSE Len(cacheSize[d][q])
               /\ \A h \in 1 .. Len(cacheSize[d][q]) : cacheSize'[d][q][h] = cacheSize[d][q][h]
    <2>1. CASE d = c /\ q = p
      BY <1>4, <1>5, <2>1
    <2>2. CASE ~(d = c /\ q = p)
      <3>1. cacheSize'[d][q] = cacheSize[d][q]
        BY <1>2, <2>2
      <3> QED BY <2>2, <3>1
    <2> QED BY <2>1, <2>2
  <1> QED BY <1>1, <1>4, <1>5, <1>6 DEF SizeAppended

\* One cache is replaced, and its size with it.
LEMMA SizeReplace ==
    ASSUME TypeInv, SizeInv, NEW c \in Clients, NEW p \in Partitions,
           NEW g \in 1 .. Len(caches[c][p]), NEW r \in Cache, NEW n \in Nat, Sized(r, n),
           caches' = [caches EXCEPT ![c][p][g] = r],
           SizeReplaced(c, p, g, n), cacheSize' \in [Clients -> [Partitions -> Seq(Nat)]]
    PROVE  SizeInv'
  <1>1. CacheReplaced(c, p, g, r)
    BY UpdateCache DEF TypeInv, TypeOK, CachesType
  <1>2. SizesType'
    <2>1. ASSUME NEW d \in Clients, NEW q \in Partitions
          PROVE  Len(cacheSize'[d][q]) = Len(caches'[d][q])
      <3>1. Len(caches'[d][q]) = Len(caches[d][q])
        BY <1>1 DEF CacheReplaced
      <3>2. Len(cacheSize'[d][q]) = Len(cacheSize[d][q])
        BY DEF SizeReplaced
      <3> QED BY <3>1, <3>2 DEF SizeInv, SizesType
    <2> QED BY <2>1 DEF SizesType
  <1>3. ASSUME NEW d \in Clients, NEW q \in Partitions, NEW h \in 1 .. Len(caches'[d][q])
        PROVE  Sized(caches'[d][q][h], cacheSize'[d][q][h])
    <2>1. h \in 1 .. Len(caches[d][q]) /\ h \in 1 .. Len(cacheSize[d][q])
      <3>1. Len(caches'[d][q]) = Len(caches[d][q])
        BY <1>1 DEF CacheReplaced
      <3>2. Len(cacheSize[d][q]) = Len(caches[d][q])
        BY DEF SizeInv, SizesType
      <3> QED BY <3>1, <3>2
    <2>2. caches'[d][q][h] = IF d = c /\ q = p /\ h = g THEN r ELSE caches[d][q][h]
      BY <1>1, <2>1 DEF CacheReplaced
    <2>3. cacheSize'[d][q][h] = IF d = c /\ q = p /\ h = g THEN n ELSE cacheSize[d][q][h]
      BY <2>1 DEF SizeReplaced
    <2>4. Sized(caches[d][q][h], cacheSize[d][q][h])
      BY <2>1 DEF SizeInv
    <2> QED BY <2>2, <2>3, <2>4
  <1> QED BY <1>2, <1>3 DEF SizeInv

\* One cache is replaced by one of the same size.
LEMMA SizeKeep ==
    ASSUME TypeInv, SizeInv, NEW c \in Clients, NEW p \in Partitions,
           NEW g \in 1 .. Len(caches[c][p]), NEW r \in Cache, Sized(r, cacheSize[c][p][g]),
           caches' = [caches EXCEPT ![c][p][g] = r], UNCHANGED cacheSize
    PROVE  SizeInv'
  <1>1. PICK n \in Nat : n = cacheSize[c][p][g]
    BY DEF Sized
  <1>2. SizeReplaced(c, p, g, n)
    BY <1>1 DEF SizeReplaced
  <1> QED BY <1>1, <1>2, SizeReplace DEF SizeInv, SizesType

\* A cache is added, and its size with it.
LEMMA SizeAppend ==
    ASSUME TypeInv, SizeInv, NEW c \in Clients, NEW p \in Partitions,
           NEW r \in Cache, NEW n \in Nat, Sized(r, n),
           caches' = [caches EXCEPT ![c][p] = Append(caches[c][p], r)],
           cacheSize' = [cacheSize EXCEPT ![c][p] = Append(cacheSize[c][p], n)]
    PROVE  SizeInv'
  <1>1. CacheAppended(c, p, r)
    BY AppendCache DEF TypeInv, TypeOK, CachesType
  <1>2. cacheSize' \in [Clients -> [Partitions -> Seq(Nat)]] /\ SizeAppended(c, p, n)
    BY AppendSize DEF SizeInv, SizesType
  <1>3. SizesType'
    <2>1. ASSUME NEW d \in Clients, NEW q \in Partitions
          PROVE  Len(cacheSize'[d][q]) = Len(caches'[d][q])
      <3>1. Len(caches'[d][q]) = IF d = c /\ q = p THEN Len(caches[d][q]) + 1 ELSE Len(caches[d][q])
        BY <1>1 DEF CacheAppended
      <3>2. Len(cacheSize'[d][q]) = IF d = c /\ q = p THEN Len(cacheSize[d][q]) + 1
                                                      ELSE Len(cacheSize[d][q])
        BY <1>2 DEF SizeAppended
      <3> QED BY <3>1, <3>2 DEF SizeInv, SizesType
    <2> QED BY <1>2, <2>1 DEF SizesType
  <1>4. ASSUME NEW d \in Clients, NEW q \in Partitions, NEW h \in 1 .. Len(caches'[d][q])
        PROVE  Sized(caches'[d][q][h], cacheSize'[d][q][h])
    <2>1. Len(caches[d][q]) \in Nat /\ Len(cacheSize[d][q]) = Len(caches[d][q])
      BY DEF TypeInv, TypeOK, SizeInv, SizesType
    <2>2. CASE h \in 1 .. Len(caches[d][q])
      <3>1. caches'[d][q][h] = caches[d][q][h]
        BY <1>1, <2>2 DEF CacheAppended
      <3>2. cacheSize'[d][q][h] = cacheSize[d][q][h]
        BY <1>2, <2>1, <2>2 DEF SizeAppended
      <3> QED BY <2>2, <3>1, <3>2 DEF SizeInv
    <2>3. CASE h \notin 1 .. Len(caches[d][q])
      <3>1. d = c /\ q = p /\ h = Len(caches[c][p]) + 1
        BY <1>1, <2>1, <2>3 DEF CacheAppended
      <3>2. caches'[d][q][h] = r /\ cacheSize'[d][q][h] = n
        BY <1>1, <1>2, <2>1, <3>1 DEF CacheAppended, SizeAppended
      <3> QED BY <3>2
    <2> QED BY <2>2, <2>3
  <1> QED BY <1>3, <1>4 DEF SizeInv

\* addRecords counts what it files.
LEMMA SizeFile ==
    ASSUME TypeInv, SizeInv, NEW c \in Clients, NEW p \in Partitions, FileRecords(c, p)
    PROVE  SizeInv'
  <1>1. PICK recs : recs = fetch[c][p]
    OBVIOUS
  <1>2. recs \in Seq(Offsets) /\ recs[1] \in Positions
    BY <1>1 DEF FileRecords, TypeInv, TypeOK
  <1>3. CASE p \in tracked[c]
    <2>1. PICK g \in 1 .. Len(caches[c][p]) : g = Current(c, p)
      BY <1>3 DEF TypeInv, TypeOK, TrackedCached, Current
    <2>2. PICK k \in Cache : k = caches[c][p][g]
      BY <2>1 DEF TypeInv, TypeOK
    <2>3. CacheShape(k) /\ Sized(k, cacheSize[c][p][g])
      BY <2>1, <2>2 DEF TypeInv, Shape, SizeInv, Current
    <2>4. PICK n \in Nat : n = cacheSize[c][p][g]
      BY <2>3 DEF Sized
    <2>5. /\ push(k, recs) \in Cache
          /\ Sized(push(k, recs), n + SumSizes(recs)) /\ SumSizes(recs) \in Nat
      BY <1>2, <2>3, <2>4, PushType, SizedPush
    <2>6. PICK m \in Nat : m = n + SumSizes(recs)
      BY <2>4, <2>5
    <2>7. caches' = [caches EXCEPT ![c][p][g] = push(k, recs)]
      BY <1>1, <1>3, <2>1, <2>2 DEF FileRecords, addRecords
    <2>8. cacheSize' = [cacheSize EXCEPT ![c][p][g] = m]
      BY <1>1, <1>3, <2>1, <2>4, <2>6 DEF FileRecords, addRecords
    <2>9. cacheSize' \in [Clients -> [Partitions -> Seq(Nat)]] /\ SizeReplaced(c, p, g, m)
      BY <2>1, <2>6, <2>8, UpdateSize DEF SizeInv, SizesType
    <2> QED BY <2>1, <2>5, <2>6, <2>7, <2>9, SizeReplace
  <1>4. CASE p \notin tracked[c]
    <2>1. PICK k : k = newPartitionCache(recs[1])
      OBVIOUS
    <2>2. k \in Cache /\ CacheShape(k) /\ Sized(k, 0)
      BY <1>2, <2>1, NewCacheType, SizedNew
    <2>3. PICK m \in Nat : m = 0 + SumSizes(recs)
      BY <1>2, <2>2, SizedPush
    <2>4. push(k, recs) \in Cache /\ Sized(push(k, recs), m)
      BY <1>2, <2>2, <2>3, PushType, SizedPush
    <2>5. caches' = [caches EXCEPT ![c][p] = Append(caches[c][p], push(k, recs))]
      BY <1>1, <1>4, <2>1 DEF FileRecords, addRecords
    <2>6. cacheSize' = [cacheSize EXCEPT ![c][p] = Append(cacheSize[c][p], m)]
      BY <1>1, <1>4, <2>3 DEF FileRecords, addRecords
    <2> QED BY <2>3, <2>4, <2>5, <2>6, SizeAppend
  <1> QED BY <1>3, <1>4

\* ReadBatch leaves what is held alone.
LEMMA SizePop ==
    ASSUME TypeInv, SizeInv, NEW c \in Clients, NEW p \in Partitions, Pop(c, p)
    PROVE  SizeInv'
  <1>1. PICK g \in 1 .. Len(caches[c][p]) : g = Current(c, p)
    <2>1. p \in tracked[c]
      BY DEF Pop
    <2> QED BY <2>1 DEF TypeInv, TypeOK, TrackedCached, Current
  <1>2. PICK k \in Cache : k = caches[c][p][g]
    BY <1>1 DEF TypeInv, TypeOK
  <1>3. CacheShape(k) /\ Sized(k, cacheSize[c][p][g])
    BY <1>1, <1>2 DEF TypeInv, Shape, SizeInv, Current
  <1>4. PICK e \in k.ends :
           /\ e > k.out /\ \A x \in k.ends : x > k.out => e <= x
           /\ caches' = [caches EXCEPT ![c][p][g] =
                 [k EXCEPT !.out = e, !.pending = k.pending \cup {BatchID(k, e)}]]
    BY <1>1, <1>2 DEF Pop
  <1>5. PICK r : r = [k EXCEPT !.out = e, !.pending = k.pending \cup {BatchID(k, e)}]
    OBVIOUS
  <1>6. r \in Cache
    <2>1. e \in Nat /\ BatchID(k, e) \in Offsets
      BY <1>3, BatchIDType DEF Cache
    <2> QED BY <1>5, <2>1 DEF Cache
  <1>7. Sized(r, cacheSize[c][p][g])
    BY <1>3, <1>4, <1>5, <1>6, SizedPop
  <1>8. UNCHANGED cacheSize
    BY DEF Pop
  <1> QED BY <1>1, <1>4, <1>5, <1>6, <1>7, <1>8, SizeKeep

\* So does a dispatch signal.
LEMMA SizeSignal ==
    ASSUME TypeInv, SizeInv, NEW c \in Clients, NEW p \in Partitions,
           NEW g \in 1 .. Current(c, p), NEW e, NEW i, Dispatch(c, p, g, e, i)
    PROVE  SizeInv'
  <1>1. g \in 1 .. Len(caches[c][p])
    BY DEF Current
  <1>2. PICK k \in Cache : k = caches[c][p][g]
    BY <1>1 DEF TypeInv, TypeOK
  <1>3. CacheShape(k) /\ Sized(k, cacheSize[c][p][g])
    BY <1>1, <1>2 DEF TypeInv, Shape, SizeInv, Current
  <1>4. e \in k.ends /\ i \in BatchOf(k, e)
    BY <1>2 DEF Dispatch, InFlight
  <1>5. i \in Nat
    <2>1. BatchOf(k, e) \subseteq 1 .. Len(k.recs)
      BY <1>3, <1>4, BatchOfType
    <2> QED BY <1>4, <2>1
  <1>6. PICK r : r = [k EXCEPT !.fired = k.fired \cup {i},
                               !.pending = IF BatchOf(k, e) \subseteq k.fired \cup {i}
                                           THEN k.pending \ {BatchID(k, e)} ELSE k.pending]
    OBVIOUS
  <1>7. caches' = [caches EXCEPT ![c][p][g] = r] /\ UNCHANGED cacheSize
    BY <1>2, <1>6 DEF Dispatch
  <1>8. r \in Cache /\ r.recs = k.recs /\ r.ends = k.ends /\ r.out = k.out /\ r.acked = k.acked
    BY <1>5, <1>6 DEF Cache
  <1>9. Sized(r, cacheSize[c][p][g])
    BY <1>3, <1>8, SizedSame
  <1> QED BY <1>1, <1>7, <1>8, <1>9, SizeKeep

\* The size after an acknowledgement.
LEMMA AckSize ==
    ASSUME TypeInv, SizeInv, NEW c \in Clients, NEW p \in Partitions,
           NEW g \in 1 .. Current(c, p), NEW e, Ack(c, p, g, e)
    PROVE  \E m \in Nat :
              /\ m <= cacheSize[c][p][g]
              /\ cacheSize' \in [Clients -> [Partitions -> Seq(Nat)]]
              /\ SizeReplaced(c, p, g, m)
              /\ SizeInv'
  <1>1. g \in 1 .. Len(caches[c][p]) /\ g \in 1 .. Len(cacheSize[c][p])
    BY DEF Current, SizeInv, SizesType
  <1>2. PICK k \in Cache : k = caches[c][p][g]
    BY <1>1 DEF TypeInv, TypeOK
  <1>3. CacheShape(k) /\ Sized(k, cacheSize[c][p][g])
    BY <1>1, <1>2 DEF TypeInv, Shape, SizeInv, Current
  <1>4. e \in InFlight(k) /\ e \in k.ends
    BY <1>2 DEF Ack, InFlight
  <1>5. BatchOf(k, e) \subseteq Nat
    <2>1. BatchOf(k, e) \subseteq 1 .. Len(k.recs)
      BY <1>3, <1>4, BatchOfType
    <2> QED BY <2>1
  <1>6. PICK r : r = [k EXCEPT !.acked   = k.acked \cup BatchOf(k, e),
                               !.fired   = k.fired \ BatchOf(k, e),
                               !.pending = k.pending \ {BatchID(k, e)}]
    OBVIOUS
  <1>7. r \in Cache
    BY <1>5, <1>6 DEF Cache
  <1>8. PICK n \in Nat : n = cacheSize[c][p][g]
    BY <1>3 DEF Sized
  <1>9. Sized(r, n - ReleasedBytes(k, e)) /\ ReleasedBytes(k, e) \in Nat
    BY <1>3, <1>4, <1>6, <1>7, <1>8, SizedAck
  <1>10. PICK m \in Nat : m = n - ReleasedBytes(k, e)
    BY <1>9 DEF Sized
  <1>11. m <= n
    BY <1>8, <1>9, <1>10
  <1>12. caches' = [caches EXCEPT ![c][p][g] = r]
    BY <1>2, <1>6 DEF Ack
  <1>13. cacheSize' = [cacheSize EXCEPT ![c][p][g] = m]
    <2>1. cacheSize' = [cacheSize EXCEPT ![c][p][g] = cacheSize[c][p][g] - ReleasedBytes(k, e)]
      BY <1>2 DEF Ack
    <2> QED BY <1>8, <1>10, <2>1
  <1>14. cacheSize' \in [Clients -> [Partitions -> Seq(Nat)]] /\ SizeReplaced(c, p, g, m)
    BY <1>1, <1>10, <1>13, UpdateSize DEF SizeInv, SizesType
  <1>15. SizeInv'
    BY <1>1, <1>7, <1>9, <1>10, <1>12, <1>14, SizeReplace
  <1> QED BY <1>8, <1>10, <1>11, <1>14, <1>15

\* OnPartitionsAssigned starts an empty cache.
LEMMA SizeAssign ==
    ASSUME TypeInv, SizeInv, NEW c \in Clients, NEW p \in Partitions, Assign(c, p)
    PROVE  SizeInv'
  <1>1. CASE p \in tracked[c]
    BY <1>1 DEF Assign, SizeInv, SizesType
  <1>2. CASE p \notin tracked[c]
    <2>1. PICK k : k = newPartitionCache(committed[p])
      OBVIOUS
    <2>2. committed[p] \in Positions
      BY DEF TypeInv, TypeOK, GroupTypeOK
    <2>3. k \in Cache /\ Sized(k, 0)
      BY <2>1, <2>2, NewCacheType, SizedNew
    <2>4. /\ caches' = [caches EXCEPT ![c][p] = Append(caches[c][p], k)]
          /\ cacheSize' = [cacheSize EXCEPT ![c][p] = Append(cacheSize[c][p], 0)]
      BY <1>2, <2>1 DEF Assign
    <2> QED BY <2>3, <2>4, SizeAppend
  <1> QED BY <1>1, <1>2

\* removeTopicPartitions changes no size.
LEMMA SizeRemove ==
    ASSUME TypeInv, SizeInv, NEW c \in Clients, RemoveTopicPartitions(c)
    PROVE  SizeInv'
  <1>1. CachesFlagged(c) /\ CachesType'
    BY RemovedCaches
  <1>2. UNCHANGED cacheSize
    BY DEF RemoveTopicPartitions
  <1>3. ASSUME NEW d \in Clients, NEW q \in Partitions, NEW h \in 1 .. Len(caches'[d][q])
        PROVE  Sized(caches'[d][q][h], cacheSize[d][q][h])
    <2>1. h \in 1 .. Len(caches[d][q])
      BY <1>1 DEF CachesFlagged
    <2>2. PICK k \in Cache : k = caches[d][q][h]
      BY <2>1 DEF TypeInv, TypeOK
    <2>3. Sized(k, cacheSize[d][q][h]) /\ CacheShape(k)
      BY <2>1, <2>2 DEF SizeInv, TypeInv, Shape, Current
    <2>4. caches'[d][q][h] = k \/ caches'[d][q][h] = [k EXCEPT !.revoked = TRUE]
      <3>1. caches'[d][q][h] =
                IF d = c /\ q \in callback[c].parts \cap tracked[c] /\ h = Current(c, q)
                THEN [caches[d][q][h] EXCEPT !.revoked = TRUE]
                ELSE caches[d][q][h]
        BY <1>1, <2>1, Zenon DEF CachesFlagged
      <3> QED BY <2>2, <3>1, Zenon
    <2>5. PICK r : r = [k EXCEPT !.revoked = TRUE]
      OBVIOUS
    <2>6. r \in Cache /\ r.recs = k.recs /\ r.ends = k.ends /\ r.out = k.out /\ r.acked = k.acked
      BY <2>5 DEF Cache
    <2>7. Sized(r, cacheSize[d][q][h])
      BY <2>3, <2>6, SizedSame
    <2> QED BY <2>3, <2>4, <2>5, <2>7
  <1>4. SizesType'
    BY <1>1, <1>2 DEF SizeInv, SizesType, CachesFlagged
  <1> QED BY <1>2, <1>3, <1>4 DEF SizeInv

\* A process that is gone has no caches.
LEMMA SizeGone ==
    ASSUME TypeInv, SizeInv, NEW c \in Clients, ReaderGone(c)
    PROVE  SizeInv'
  <1>1. cacheSize' \in [Clients -> [Partitions -> Seq(Nat)]]
    BY DEF ReaderGone, SizeInv, SizesType, NoFetch
  <1>2. ASSUME NEW d \in Clients, NEW q \in Partitions
        PROVE  /\ Len(cacheSize'[d][q]) = Len(caches'[d][q])
               /\ \A h \in 1 .. Len(caches'[d][q]) : Sized(caches'[d][q][h], cacheSize'[d][q][h])
    <2>1. /\ caches'[d] = IF d = c THEN NoFetch ELSE caches[d]
          /\ cacheSize'[d] = IF d = c THEN NoFetch ELSE cacheSize[d]
      BY DEF ReaderGone, TypeInv, TypeOK, SizeInv, SizesType
    <2>2. CASE d = c
      BY <2>1, <2>2 DEF NoFetch
    <2>3. CASE d # c
      BY <2>1, <2>3 DEF SizeInv, SizesType
    <2> QED BY <2>2, <2>3
  <1> QED BY <1>1, <1>2 DEF SizeInv, SizesType

\* Every step keeps the sizes exact.
LEMMA SizeStep == TypeInv /\ SizeInv /\ [Next]_vars => SizeInv'
  <1> SUFFICES ASSUME TypeInv, SizeInv, [Next]_vars PROVE SizeInv'
    OBVIOUS
  <1>1. ASSUME UNCHANGED caches, UNCHANGED cacheSize PROVE SizeInv'
    BY <1>1 DEF SizeInv, SizesType
  <1>2. ASSUME NEW c \in Clients, LoopStep(c) PROVE SizeInv'
    <2>1. CASE \E p \in Partitions : FileRecords(c, p)
      BY <2>1, SizeFile
    <2>2. CASE Poll(c) \/ PauseFetch(c) \/ Resume(c) \/ LoopExit(c)
      BY <1>1, <2>2 DEF Poll, PollFetches, PauseFetch, Resume, LoopExit
    <2> QED BY <1>2, <2>1, <2>2 DEF LoopStep
  <1>3. ASSUME NEW c \in Clients, PipelineStep(c) PROVE SizeInv'
    BY <1>3, SizePop, SizeSignal, AckSize DEF PipelineStep
  <1>4. ASSUME NEW c \in Clients, RebalanceStep(c) PROVE SizeInv'
    <2>1. CASE \E p \in Partitions : Assign(c, p)
      BY <2>1, SizeAssign
    <2>2. CASE RemoveTopicPartitions(c)
      BY <2>2, SizeRemove
    <2>3. CASE (\E p \in Partitions : Revoke(c, p)) \/ Lost(c) \/ Returned(c) \/ Thrown(c) \/ Committer(c)
      BY <1>1, <2>3 DEF Revoke, Lost, Returned, Thrown, Committer, readerVars
    <2> QED BY <1>4, <2>1, <2>2, <2>3 DEF RebalanceStep
  <1>5. ASSUME NEW c \in Clients, ProcessStep(c) PROVE SizeInv'
    <2>1. CASE Close(c) \/ CloseClient(c)
      BY <1>1, <2>1 DEF Close, CloseClient, readerVars
    <2>2. CASE Restart(c) \/ Crash(c)
      BY <2>2, SizeGone DEF Restart, Crash
    <2> QED BY <1>5, <2>1, <2>2 DEF ProcessStep
  <1>6. CASE UNCHANGED vars
    BY <1>1, <1>6 DEF vars, readerVars
  <1> QED BY <1>2, <1>3, <1>4, <1>5, <1>6 DEF Next

\* Init has no caches.
LEMMA SizeInit == Init => SizeInv
  BY DEF Init, SizeInv, SizesType, NoFetch

\* The size that pauseFetch and addRecords decide by (franz_reader_ordered.go:
\* 163-248) is exactly what the cache holds, whatever the order of pushes,
\* pops and acknowledgements, rebalances and crashes included.
THEOREM SizesAreExact == Spec => []CacheSizeExact
  <1>1. SizeInv => CacheSizeExact
    BY DEF SizeInv, CacheSizeExact, AllCaches, Current, Sized, Held
  <1> QED BY <1>1, TypeInit, TypeStep, SizeInit, SizeStep, PTL DEF Spec

\* max_yield_batch_bytes (franz_reader_ordered.go:85-160, push): however the
\* records arrive, in whatever portions and sizes, push never lets a batch of
\* several records exceed the limit, neither one it cuts nor one it fills up.
THEOREM BatchesAreBounded == Spec => []BatchesBounded
  <1>1. SizeInv => BatchesBounded
    BY DEF SizeInv, BatchesBounded, AllCaches, Current, Sized, Cut
  <1> QED BY <1>1, TypeInit, TypeStep, SizeInit, SizeStep, PTL DEF Spec

-----------------------------------------------------------------------------
(* The buffer of a partition is bounded.                                   *)

\* No record is larger than the largest.
LEMMA LargestBounds ==
    LargestRecord \in Nat /\ \A o \in Offsets : RecordSize[o] <= LargestRecord
  <1>1. PICK S : S = {RecordSize[o] : o \in Offsets} \cup {0}
    OBVIOUS
  <1>2. S \subseteq Nat /\ 0 \in S /\ \A o \in Offsets : RecordSize[o] \in S
    BY <1>1
  <1>3. IsFiniteSet(S)
    <2>1. IsFiniteSet(Offsets)
      BY FS_Interval
    <2>2. IsFiniteSet({RecordSize[o] : o \in Offsets})
      <3>1. RecordSize \in Surjection(Offsets, {RecordSize[o] : o \in Offsets})
        BY DEF Surjection
      <3> QED BY <2>1, <3>1, FS_Surjection
    <2> QED BY <1>1, <2>2, FS_AddElement
  <1>4. \E m \in S : \A y \in S : m >= y
    BY <1>2, <1>3, Greatest
  <1>5. LargestRecord = CHOOSE x \in S : \A y \in S : x >= y
    BY <1>1 DEF LargestRecord, Max
  <1>6. LargestRecord \in S /\ \A y \in S : LargestRecord >= y
    BY <1>4, <1>5
  <1>7. LargestRecord \in Nat
    BY <1>2, <1>6
  <1>8. ASSUME NEW o \in Offsets PROVE RecordSize[o] <= LargestRecord
    <2>1. PICK y \in S : y = RecordSize[o]
      BY <1>2
    <2>2. LargestRecord >= y /\ y \in Nat
      BY <1>2, <1>6
    <2> QED BY <1>7, <2>1, <2>2
  <1> QED BY <1>7, <1>8

\* What one fetch can bring.
LEMMA FetchBound ==
    ASSUME NEW recs \in Seq(Offsets), Len(recs) <= FetchMax
    PROVE  SumSizes(recs) \in Nat /\ SumSizes(recs) <= FetchMax * LargestRecord
  <1>1. PICK m \in Nat : m = Len(recs)
    OBVIOUS
  <1>2. PICK v : v = Sizes(recs)
    OBVIOUS
  <1>3. SumSizes(recs) = Sum(v, 1 .. m) /\ Weighted(v, 1 .. m, 1 .. m)
    BY <1>1, <1>2, FetchSum
  <1>4. IsFiniteSet(1 .. m) /\ v \in [1 .. m -> Nat]
    BY <1>3 DEF Weighted
  <1>5. PICK L \in Nat : L = LargestRecord
    BY LargestBounds
  <1>6. ASSUME NEW i \in 1 .. m PROVE v[i] <= L
    <2>1. i \in 1 .. Len(recs)
      BY <1>1
    <2>2. v[i] = RecordSize[recs[i]]
      BY <1>2, <2>1, Zenon DEF Sizes
    <2>3. PICK o \in Offsets : o = recs[i]
      BY <2>1
    <2> QED BY <1>5, <2>2, <2>3, LargestBounds
  <1>7. Sum(v, 1 .. m) <= Cardinality(1 .. m) * L
    <2>1. 1 .. m \in SUBSET (1 .. m)
      OBVIOUS
    <2> QED BY <1>4, <1>5, <1>6, <2>1, SumBound
  <1>8. Cardinality(1 .. m) = m
    <2>1. 1 \in Int /\ m \in Int
      BY <1>1
    <2>2. Cardinality(1 .. m) = IF 1 > m THEN 0 ELSE m - 1 + 1
      BY <2>1, FS_Interval, Zenon
    <2> QED BY <1>1, <2>2
  <1>9. Sum(v, 1 .. m) \in Nat
    BY <1>3, SumNat
  <1>10. m * L <= FetchMax * L
    <2>1. m \in Nat /\ L \in Nat /\ FetchMax \in Nat /\ m <= FetchMax
      BY <1>1, <1>5
    <2> QED BY <2>1, TimesGrows
  <1>11. m * L \in Nat /\ FetchMax * L \in Nat
    BY <1>1, <1>5
  <1>12. Sum(v, 1 .. m) <= m * L
    BY <1>7, <1>8
  <1>13. PICK n \in Nat : n = Sum(v, 1 .. m)
    BY <1>9
  <1>14. PICK a, b : a = m * L /\ b = FetchMax * L
    OBVIOUS
  <1>15. n <= b
    <2>1. a \in Nat /\ b \in Nat /\ n <= a /\ a <= b
      BY <1>10, <1>11, <1>12, <1>13, <1>14
    <2> QED BY <1>13, <2>1
  <1> QED BY <1>3, <1>5, <1>13, <1>14, <1>15

\* The size of the last cache of client c for p, the tracked one if there is one.
LastSize(c, p) == cacheSize[c][p][Len(cacheSize[c][p])]

\* A partition at its limit is paused, or about to be, and no record of it is
\* on its way.
Throttled(c, p) ==
    p \in tracked[c] =>
        /\ LastSize(c, p) >= BufferSize => p \in paused[c] \/ p \in pausing[c]
        /\ fetch[c][p] # <<>> => LastSize(c, p) < BufferSize

\* What BufferBounded says of the caches of client c for p.
Bounded(c, p) ==
    \A g \in 1 .. Len(cacheSize[c][p]) :
        cacheSize[c][p][g] < BufferSize + FetchMax * LargestRecord

\* The inductive invariant behind BufferBounded.
BufferInv ==
    /\ \A c \in Clients : pc[c] # "file" => pausing[c] = {}
    /\ \A c \in Clients, p \in Partitions :
          Len(fetch[c][p]) <= FetchMax /\ Throttled(c, p) /\ Bounded(c, p)

\* The limit of a cache is a positive number, above BufferSize by a fetch.
LEMMA LimitType ==
    /\ BufferSize + FetchMax * LargestRecord \in Nat
    /\ FetchMax * LargestRecord \in Nat
    /\ BufferSize <= BufferSize + FetchMax * LargestRecord
  <1>1. PICK L \in Nat : L = LargestRecord
    BY LargestBounds
  <1>2. FetchMax * L \in Nat
    BY <1>1
  <1>3. PICK b \in Nat : b = FetchMax * LargestRecord
    BY <1>1, <1>2
  <1>4. BufferSize + b \in Nat /\ BufferSize <= BufferSize + b
    BY <1>3
  <1> QED BY <1>3, <1>4

\* Steps that leave the sizes and the flow of records alone.
LEMMA BufferFrame ==
    ASSUME BufferInv, UNCHANGED cacheSize, UNCHANGED fetch, UNCHANGED paused, UNCHANGED pausing,
           \A c \in Clients : tracked'[c] \subseteq tracked[c],
           \A c \in Clients : pc'[c] = pc[c] \/ pc[c] # "file"
    PROVE  BufferInv'
  <1>1. \A c \in Clients : pc'[c] # "file" => pausing'[c] = {}
    BY DEF BufferInv
  <1>2. ASSUME NEW c \in Clients, NEW p \in Partitions
        PROVE  Len(fetch'[c][p]) <= FetchMax /\ Throttled(c, p)' /\ Bounded(c, p)'
    <2>1. Len(fetch[c][p]) <= FetchMax /\ Throttled(c, p) /\ Bounded(c, p)
      BY DEF BufferInv
    <2>2. LastSize(c, p)' = LastSize(c, p)
      BY DEF LastSize
    <2>3. p \in tracked'[c] => p \in tracked[c]
      OBVIOUS
    <2>4. Throttled(c, p)'
      BY <2>1, <2>2, <2>3 DEF Throttled
    <2>5. Bounded(c, p)'
      BY <2>1 DEF Bounded
    <2> QED BY <2>1, <2>4, <2>5
  <1> QED BY <1>1, <1>2 DEF BufferInv

\* A poll brings no record of a partition at its limit.
LEMMA BufferPoll ==
    ASSUME TypeInv, SizeInv, BufferInv, NEW c \in Clients, Poll(c)
    PROVE  BufferInv'
  <1>1. PICK count \in [Partitions -> 0 .. FetchMax] : PollFetches(c, count)
    BY DEF Poll
  <1>2. UNCHANGED <<cacheSize, paused, pausing, tracked>> /\ pc[c] = "poll"
    BY <1>1 DEF PollFetches
  <1>3. pausing[c] = {}
    BY <1>2 DEF BufferInv
  <1>4. ASSUME NEW d \in Clients, d # c PROVE fetch'[d] = fetch[d] /\ pc'[d] = pc[d]
    BY <1>1, <1>4 DEF PollFetches, TypeInv, TypeOK
  <1>5. pc'[c] = "file"
    BY <1>1 DEF PollFetches, TypeInv, TypeOK
  <1>6. ASSUME NEW p \in Partitions
        PROVE  /\ Len(fetch'[c][p]) = count[p]
               /\ fetch'[c][p] # <<>> => p \notin paused[c]
    <2>1. fetch'[c] = [q \in Partitions |-> [i \in 1 .. count[q] |-> position[c][q] + i - 1]]
      BY <1>1 DEF PollFetches, TypeInv, TypeOK
    <2>2. fetch'[c][p] = [i \in 1 .. count[p] |-> position[c][p] + i - 1]
      BY <2>1
    <2>3. PICK n \in 0 .. FetchMax : n = count[p]
      BY <1>1
    <2>4. n \in Nat
      BY <2>3
    <2>5. Len(fetch'[c][p]) = n
      BY <2>2, <2>3, <2>4
    <2>6. p \in paused[c] => count[p] = 0
      BY <1>1 DEF PollFetches, Fetchable
    <2>7. count[p] = 0 => fetch'[c][p] = <<>>
      BY <2>2
    <2> QED BY <2>3, <2>5, <2>6, <2>7
  <1>7. \A d \in Clients : pc'[d] # "file" => pausing'[d] = {}
    BY <1>2, <1>4, <1>5 DEF BufferInv
  <1>8. ASSUME NEW d \in Clients, NEW p \in Partitions
        PROVE  Len(fetch'[d][p]) <= FetchMax /\ Throttled(d, p)' /\ Bounded(d, p)'
    <2>1. Len(fetch[d][p]) <= FetchMax /\ Throttled(d, p) /\ Bounded(d, p)
      BY DEF BufferInv
    <2>2. LastSize(d, p)' = LastSize(d, p) /\ tracked'[d] = tracked[d]
      BY <1>2 DEF LastSize
    <2>3. Bounded(d, p)'
      BY <1>2, <2>1 DEF Bounded
    <2>4. CASE d # c
      <3>1. Throttled(d, p)'
        BY <1>2, <1>4, <2>1, <2>2, <2>4 DEF Throttled
      <3> QED BY <1>4, <2>1, <2>3, <2>4, <3>1
    <2>5. CASE d = c
      <3>1. Len(fetch'[c][p]) <= FetchMax
        BY <1>1, <1>6
      <3>2. ASSUME p \in tracked[c], p \notin paused[c] PROVE LastSize(c, p) < BufferSize
        <4>1. LastSize(c, p) \in Nat
          <5>1. Len(cacheSize[c][p]) \in 1 .. Len(cacheSize[c][p])
            BY <3>2 DEF TypeInv, TypeOK, TrackedCached, Current, SizeInv, SizesType
          <5> QED BY <5>1 DEF LastSize, SizeInv, SizesType
        <4>2. ~(LastSize(c, p) >= BufferSize)
          BY <1>3, <2>1, <2>5, <3>2 DEF Throttled
        <4> QED BY <4>1, <4>2
      <3>3. Throttled(c, p)'
        BY <1>2, <1>6, <2>1, <2>2, <2>5, <3>2 DEF Throttled
      <3> QED BY <2>3, <2>5, <3>1, <3>3
    <2> QED BY <2>4, <2>5
  <1> QED BY <1>7, <1>8 DEF BufferInv

\* A partition is paused before the next poll, and resumed when it has room.
LEMMA BufferLoop ==
    ASSUME TypeInv, SizeInv, BufferInv, NEW c \in Clients, PauseFetch(c) \/ Resume(c)
    PROVE  BufferInv'
  <1>1. UNCHANGED <<cacheSize, fetch, tracked>>
    BY DEF PauseFetch, Resume
  <1>2. ASSUME NEW d \in Clients, d # c
        PROVE  paused'[d] = paused[d] /\ pausing'[d] = pausing[d] /\ pc'[d] = pc[d]
    BY <1>2 DEF PauseFetch, Resume, TypeInv, TypeOK
  <1>3. pausing'[c] = {}
    <2>1. CASE PauseFetch(c)
      BY <2>1 DEF PauseFetch, TypeInv, TypeOK
    <2>2. CASE Resume(c)
      BY <2>2 DEF Resume, BufferInv
    <2> QED BY <2>1, <2>2
  <1>4. \A d \in Clients : pc'[d] # "file" => pausing'[d] = {}
    BY <1>2, <1>3 DEF BufferInv
  <1>5. ASSUME NEW p \in Partitions, p \in tracked[c], LastSize(c, p) >= BufferSize,
               p \in paused[c] \/ p \in pausing[c]
        PROVE  p \in paused'[c]
    <2>1. CASE PauseFetch(c)
      <3>1. paused'[c] = paused[c] \cup pausing[c]
        BY <2>1 DEF PauseFetch, TypeInv, TypeOK
      <3> QED BY <1>5, <3>1
    <2>2. CASE Resume(c)
      <3>1. paused'[c] = paused[c] \ Resumable(c) /\ pausing[c] = {}
        BY <2>2 DEF Resume, TypeInv, TypeOK, BufferInv
      <3>2. p \notin Resumable(c)
        <4>1. Len(cacheSize[c][p]) = Len(caches[c][p])
          BY DEF SizeInv, SizesType
        <4> QED BY <1>5, <4>1 DEF Resumable, pauseFetch, Current, LastSize
      <3> QED BY <1>5, <3>1, <3>2
    <2> QED BY <2>1, <2>2
  <1>6. ASSUME NEW d \in Clients, NEW p \in Partitions
        PROVE  Len(fetch'[d][p]) <= FetchMax /\ Throttled(d, p)' /\ Bounded(d, p)'
    <2>1. Len(fetch[d][p]) <= FetchMax /\ Throttled(d, p) /\ Bounded(d, p)
      BY DEF BufferInv
    <2>2. LastSize(d, p)' = LastSize(d, p)
      BY <1>1 DEF LastSize
    <2>3. Bounded(d, p)'
      BY <1>1, <2>1 DEF Bounded
    <2>4. Throttled(d, p)'
      <3>1. CASE d # c
        BY <1>1, <1>2, <2>1, <2>2, <3>1 DEF Throttled
      <3>2. CASE d = c
        BY <1>1, <1>5, <2>1, <2>2, <3>2 DEF Throttled
      <3> QED BY <3>1, <3>2
    <2> QED BY <1>1, <2>1, <2>3, <2>4
  <1> QED BY <1>4, <1>6 DEF BufferInv

\* What filing does to the sizes: the last one of the partition becomes m, and
\* the others stay.
Filed(c, p, m) ==
    /\ m = (IF p \in tracked[c] THEN LastSize(c, p) ELSE 0) + SumSizes(fetch[c][p])
    /\ SumSizes(fetch[c][p]) \in Nat
    /\ p \in tracked[c] => LastSize(c, p) \in Nat
    /\ pausing' = [pausing EXCEPT ![c] =
                     IF m >= BufferSize THEN pausing[c] \cup {p} ELSE pausing[c]]
    /\ \/ p \in tracked[c] /\ SizeReplaced(c, p, Len(cacheSize[c][p]), m)
       \/ p \notin tracked[c] /\ SizeAppended(c, p, m)

\* Filing a fetch moves the size of one cache.
LEMMA FiledSize ==
    ASSUME TypeInv, SizeInv, NEW c \in Clients, NEW p \in Partitions, FileRecords(c, p)
    PROVE  \E m \in Nat : Filed(c, p, m)
  <1>1. PICK recs : recs = fetch[c][p]
    OBVIOUS
  <1>2. recs \in Seq(Offsets)
    BY <1>1 DEF TypeInv, TypeOK
  <1>3. PICK a \in Nat : a = SumSizes(recs)
    <2>1. SumSizes(recs) \in Nat
      BY <1>2, FetchSum, SumNat
    <2> QED BY <2>1
  <1>4. CASE p \in tracked[c]
    <2>1. PICK g \in 1 .. Len(cacheSize[c][p]) :
             g = Current(c, p) /\ g = Len(cacheSize[c][p])
      BY <1>4 DEF TypeInv, TypeOK, TrackedCached, Current, SizeInv, SizesType
    <2>2. PICK n \in Nat : n = cacheSize[c][p][g]
      BY <2>1 DEF SizeInv, SizesType
    <2>3. PICK m \in Nat : m = n + a
      BY <1>3, <2>2
    <2>4. cacheSize' = [cacheSize EXCEPT ![c][p][g] = m]
      BY <1>1, <1>3, <1>4, <2>1, <2>2, <2>3 DEF FileRecords, addRecords
    <2>5. SizeReplaced(c, p, g, m)
      BY <2>1, <2>3, <2>4, UpdateSize DEF SizeInv, SizesType
    <2>6. pausing' = [pausing EXCEPT ![c] =
                        IF m >= BufferSize THEN pausing[c] \cup {p} ELSE pausing[c]]
      BY <1>1, <1>3, <1>4, <2>1, <2>2, <2>3 DEF FileRecords, addRecords
    <2>7. LastSize(c, p) = n
      BY <2>1, <2>2 DEF LastSize
    <2>8. m = (IF p \in tracked[c] THEN LastSize(c, p) ELSE 0) + SumSizes(fetch[c][p])
      BY <1>1, <1>3, <1>4, <2>3, <2>7
    <2>9. LastSize(c, p) \in Nat /\ SumSizes(fetch[c][p]) \in Nat
      BY <1>1, <1>3, <2>2, <2>7
    <2>10. SizeReplaced(c, p, Len(cacheSize[c][p]), m)
      BY <2>1, <2>5
    <2>11. Filed(c, p, m)
      BY <1>4, <2>6, <2>8, <2>9, <2>10 DEF Filed
    <2> QED BY <2>3, <2>11
  <1>5. CASE p \notin tracked[c]
    <2>1. PICK m \in Nat : m = 0 + a
      BY <1>3
    <2>2. cacheSize' = [cacheSize EXCEPT ![c][p] = Append(cacheSize[c][p], m)]
      BY <1>1, <1>3, <1>5, <2>1 DEF FileRecords, addRecords
    <2>3. SizeAppended(c, p, m)
      BY <2>1, <2>2, AppendSize DEF SizeInv, SizesType
    <2>4. pausing' = [pausing EXCEPT ![c] =
                        IF m >= BufferSize THEN pausing[c] \cup {p} ELSE pausing[c]]
      BY <1>1, <1>3, <1>5, <2>1 DEF FileRecords, addRecords
    <2>5. Filed(c, p, m)
      BY <1>1, <1>3, <1>5, <2>1, <2>3, <2>4 DEF Filed
    <2> QED BY <2>1, <2>5
  <1> QED BY <1>4, <1>5

\* The last size of a partition becomes m, below the limit, and no other size grows.
LastBecomes(c, p, m) ==
    /\ LastSize(c, p)' = m
    /\ \A d \in Clients, q \in Partitions :
          ~(d = c /\ q = p) /\ Len(cacheSize[d][q]) > 0 => LastSize(d, q)' = LastSize(d, q)
    /\ m < BufferSize + FetchMax * LargestRecord =>
          \A d \in Clients, q \in Partitions : Bounded(d, q) => Bounded(d, q)'

\* And of no other.
LEMMA SizesAfter ==
    ASSUME SizesType, NEW c \in Clients, NEW p \in Partitions, NEW m \in Nat,
           \/ SizeReplaced(c, p, Len(cacheSize[c][p]), m) /\ Len(cacheSize[c][p]) > 0
           \/ SizeAppended(c, p, m)
    PROVE  LastBecomes(c, p, m)
  <1>1. ASSUME NEW d \in Clients, NEW q \in Partitions PROVE Len(cacheSize[d][q]) \in Nat
    BY DEF SizesType
  <1>2. LastSize(c, p)' = m
    <2>1. PICK n \in Nat : n = Len(cacheSize[c][p])
      BY <1>1
    <2>2. CASE SizeReplaced(c, p, n, m) /\ n > 0
      <3>1. Len(cacheSize'[c][p]) = n /\ n \in 1 .. n
        BY <2>1, <2>2 DEF SizeReplaced
      <3>2. cacheSize'[c][p][n] = m
        BY <2>1, <2>2, <3>1 DEF SizeReplaced
      <3> QED BY <3>1, <3>2 DEF LastSize
    <2>3. CASE SizeAppended(c, p, m)
      BY <2>1, <2>3 DEF SizeAppended, LastSize
    <2> QED BY <2>1, <2>2, <2>3
  <1>3. ASSUME NEW d \in Clients, NEW q \in Partitions, ~(d = c /\ q = p)
        PROVE  /\ Len(cacheSize'[d][q]) = Len(cacheSize[d][q])
               /\ \A h \in 1 .. Len(cacheSize[d][q]) : cacheSize'[d][q][h] = cacheSize[d][q][h]
    BY <1>3 DEF SizeReplaced, SizeAppended
  <1>4. ASSUME NEW d \in Clients, NEW q \in Partitions, ~(d = c /\ q = p), Len(cacheSize[d][q]) > 0
        PROVE  LastSize(d, q)' = LastSize(d, q)
    <2>1. PICK n \in Nat : n = Len(cacheSize[d][q])
      BY <1>1
    <2>2. n \in 1 .. n
      BY <1>4, <2>1
    <2>3. Len(cacheSize'[d][q]) = n /\ cacheSize'[d][q][n] = cacheSize[d][q][n]
      BY <1>3, <1>4, <2>1, <2>2
    <2> QED BY <2>1, <2>3 DEF LastSize
  <1>5. ASSUME m < BufferSize + FetchMax * LargestRecord,
               NEW d \in Clients, NEW q \in Partitions, Bounded(d, q)
        PROVE  Bounded(d, q)'
    <2>1. ASSUME NEW h \in 1 .. Len(cacheSize'[d][q])
          PROVE  cacheSize'[d][q][h] < BufferSize + FetchMax * LargestRecord
      <3>1. \/ h \in 1 .. Len(cacheSize[d][q]) /\ cacheSize'[d][q][h] = cacheSize[d][q][h]
            \/ cacheSize'[d][q][h] = m
        <4>1. CASE ~(d = c /\ q = p)
          BY <1>3, <4>1
        <4>2. CASE d = c /\ q = p
          <5>1. CASE SizeReplaced(c, p, Len(cacheSize[c][p]), m)
            BY <4>2, <5>1 DEF SizeReplaced
          <5>2. CASE SizeAppended(c, p, m)
            BY <1>1, <4>2, <5>2 DEF SizeAppended
          <5> QED BY <5>1, <5>2
        <4> QED BY <4>1, <4>2
      <3> QED BY <1>5, <3>1 DEF Bounded
    <2> QED BY <2>1 DEF Bounded
  <1> QED BY <1>2, <1>4, <1>5 DEF LastBecomes

\* A fetch is filed into a cache that was below BufferSize.
LEMMA BufferFile ==
    ASSUME TypeInv, SizeInv, BufferInv, NEW c \in Clients, NEW p \in Partitions, FileRecords(c, p)
    PROVE  BufferInv'
  <1>1. PICK m \in Nat : Filed(c, p, m)
    BY FiledSize
  <1>2. \A d \in Clients, q \in Partitions : q \in tracked[d] => Len(cacheSize[d][q]) > 0
    BY DEF TypeInv, TrackedCached, Current, SizeInv, SizesType
  <1>3. LastBecomes(c, p, m)
    BY <1>1, <1>2, SizesAfter DEF SizeInv, Filed
  <1>4. m < BufferSize + FetchMax * LargestRecord
    <2>1. PICK a \in Nat : a = SumSizes(fetch[c][p])
      BY <1>1 DEF Filed
    <2>2. PICK b \in Nat : b = FetchMax * LargestRecord
      BY LimitType
    <2>3. a <= b
      <3>1. fetch[c][p] \in Seq(Offsets) /\ Len(fetch[c][p]) <= FetchMax
        BY DEF TypeInv, TypeOK, BufferInv
      <3> QED BY <2>1, <2>2, <3>1, FetchBound
    <2>4. CASE p \in tracked[c]
      <3>1. PICK n \in Nat : n = LastSize(c, p)
        BY <1>1, <2>4 DEF Filed
      <3>2. n < BufferSize
        BY <2>4, <3>1 DEF BufferInv, Throttled, FileRecords
      <3>3. m = n + a
        BY <1>1, <2>1, <2>4, <3>1 DEF Filed
      <3> QED BY <2>1, <2>2, <2>3, <3>1, <3>2, <3>3
    <2>5. CASE p \notin tracked[c]
      <3>1. m = 0 + a
        BY <1>1, <2>1, <2>5 DEF Filed
      <3> QED BY <2>1, <2>2, <2>3, <3>1
    <2> QED BY <2>4, <2>5
  <1>5. /\ pc' = pc /\ paused' = paused /\ pc[c] = "file"
        /\ tracked' = [tracked EXCEPT ![c] = tracked[c] \cup {p}]
        /\ fetch' = [fetch EXCEPT ![c][p] = <<>>]
    BY DEF FileRecords, addRecords
  <1>6. \A d \in Clients : pc'[d] # "file" => pausing'[d] = {}
    <2>1. \A d \in Clients : d # c => pausing'[d] = pausing[d]
      BY <1>1 DEF TypeInv, TypeOK, Filed
    <2> QED BY <1>5, <2>1 DEF BufferInv
  <1>7. ASSUME NEW d \in Clients, NEW q \in Partitions
        PROVE  Len(fetch'[d][q]) <= FetchMax /\ Throttled(d, q)' /\ Bounded(d, q)'
    <2>1. Len(fetch[d][q]) <= FetchMax /\ Throttled(d, q) /\ Bounded(d, q)
      BY DEF BufferInv
    <2>2. Bounded(d, q)'
      BY <1>3, <1>4, <2>1 DEF LastBecomes
    <2>3. CASE d = c /\ q = p
      <3>1. fetch'[c][p] = <<>>
        BY <1>5 DEF TypeInv, TypeOK
      <3>2. LastSize(c, p)' = m
        BY <1>3 DEF LastBecomes
      <3>3. m >= BufferSize => p \in pausing'[c]
        BY <1>1 DEF TypeInv, TypeOK, Filed
      <3>4. Throttled(c, p)'
        BY <3>1, <3>2, <3>3 DEF Throttled
      <3>5. Len(fetch'[c][p]) <= FetchMax
        BY <3>1
      <3> QED BY <2>2, <2>3, <3>4, <3>5
    <2>4. CASE ~(d = c /\ q = p)
      <3>1. fetch'[d][q] = fetch[d][q]
        BY <1>5, <2>4 DEF TypeInv, TypeOK
      <3>2. q \in tracked'[d] <=> q \in tracked[d]
        BY <1>5, <2>4 DEF TypeInv, TypeOK
      <3>3. q \in tracked[d] => LastSize(d, q)' = LastSize(d, q)
        BY <1>2, <1>3, <2>4 DEF LastBecomes
      <3>4. q \in pausing[d] => q \in pausing'[d]
        BY <1>1 DEF TypeInv, TypeOK, Filed
      <3>5. Throttled(d, q)'
        BY <1>5, <2>1, <3>1, <3>2, <3>3, <3>4 DEF Throttled
      <3> QED BY <2>1, <2>2, <3>1, <3>5
    <2> QED BY <2>3, <2>4
  <1> QED BY <1>6, <1>7 DEF BufferInv

\* OnPartitionsAssigned starts with an empty buffer.
LEMMA BufferAssign ==
    ASSUME TypeInv, SizeInv, BufferInv, NEW c \in Clients, NEW p \in Partitions, Assign(c, p)
    PROVE  BufferInv'
  <1>1. /\ pc' = pc /\ paused' = paused /\ pausing' = pausing /\ fetch' = fetch
        /\ tracked' = [tracked EXCEPT ![c] = tracked[c] \cup {p}]
    BY DEF Assign
  <1>2. CASE p \in tracked[c]
    <2>1. cacheSize' = cacheSize
      BY <1>2 DEF Assign
    <2>2. \A d \in Clients : tracked'[d] \subseteq tracked[d]
      BY <1>1, <1>2 DEF TypeInv, TypeOK
    <2> QED BY <1>1, <2>1, <2>2, BufferFrame
  <1>3. CASE p \notin tracked[c]
    <2>1. cacheSize' = [cacheSize EXCEPT ![c][p] = Append(cacheSize[c][p], 0)]
      BY <1>3 DEF Assign
    <2>2. SizeAppended(c, p, 0)
      BY <2>1, AppendSize DEF SizeInv, SizesType
    <2>3. LastBecomes(c, p, 0)
      BY <2>2, SizesAfter DEF SizeInv
    <2>4. 0 < BufferSize + FetchMax * LargestRecord
      <3>1. PICK b \in Nat : b = FetchMax * LargestRecord
        BY LimitType
      <3> QED BY <3>1
    <2>5. \A d \in Clients, q \in Partitions : q \in tracked[d] => Len(cacheSize[d][q]) > 0
      BY DEF TypeInv, TrackedCached, Current, SizeInv, SizesType
    <2>6. ASSUME NEW d \in Clients, NEW q \in Partitions
          PROVE  Len(fetch'[d][q]) <= FetchMax /\ Throttled(d, q)' /\ Bounded(d, q)'
      <3>1. Len(fetch[d][q]) <= FetchMax /\ Throttled(d, q) /\ Bounded(d, q)
        BY DEF BufferInv
      <3>2. Bounded(d, q)'
        BY <2>3, <2>4, <3>1 DEF LastBecomes
      <3>3. CASE d = c /\ q = p
        <4>1. LastSize(c, p)' = 0
          BY <2>3 DEF LastBecomes
        <4>2. Throttled(c, p)'
          BY <4>1 DEF Throttled
        <4> QED BY <1>1, <3>1, <3>2, <3>3, <4>2
      <3>4. CASE ~(d = c /\ q = p)
        <4>1. q \in tracked'[d] <=> q \in tracked[d]
          BY <1>1, <3>4 DEF TypeInv, TypeOK
        <4>2. q \in tracked[d] => LastSize(d, q)' = LastSize(d, q)
          BY <2>3, <2>5, <3>4 DEF LastBecomes
        <4>3. Throttled(d, q)'
          BY <1>1, <3>1, <4>1, <4>2 DEF Throttled
        <4> QED BY <1>1, <3>1, <3>2, <4>3
      <3> QED BY <3>3, <3>4
    <2> QED BY <1>1, <2>6 DEF BufferInv
  <1> QED BY <1>2, <1>3

\* An acknowledgement makes room.
LEMMA BufferAck ==
    ASSUME TypeInv, SizeInv, BufferInv, NEW c \in Clients, NEW p \in Partitions,
           NEW g \in 1 .. Current(c, p), NEW e, Ack(c, p, g, e)
    PROVE  BufferInv'
  <1>1. PICK m \in Nat : m <= cacheSize[c][p][g] /\ SizeReplaced(c, p, g, m)
    BY AckSize
  <1>2. UNCHANGED <<pc, fetch, pausing, paused, tracked>>
    BY DEF Ack
  <1>3. ASSUME NEW d \in Clients, NEW q \in Partitions
        PROVE  /\ Len(cacheSize'[d][q]) = Len(cacheSize[d][q])
               /\ \A h \in 1 .. Len(cacheSize[d][q]) : /\ cacheSize'[d][q][h] \in Nat
                                                       /\ cacheSize[d][q][h] \in Nat
                                                       /\ cacheSize'[d][q][h] <= cacheSize[d][q][h]
    <2>1. Len(cacheSize'[d][q]) = Len(cacheSize[d][q])
      BY <1>1 DEF SizeReplaced
    <2>2. ASSUME NEW h \in 1 .. Len(cacheSize[d][q])
          PROVE  /\ cacheSize'[d][q][h] \in Nat /\ cacheSize[d][q][h] \in Nat
                 /\ cacheSize'[d][q][h] <= cacheSize[d][q][h]
      <3>1. cacheSize[d][q][h] \in Nat
        BY DEF SizeInv, SizesType
      <3>2. cacheSize'[d][q][h] = IF d = c /\ q = p /\ h = g THEN m ELSE cacheSize[d][q][h]
        BY <1>1 DEF SizeReplaced
      <3> QED BY <1>1, <3>1, <3>2
    <2> QED BY <2>1, <2>2
  <1>4. ASSUME NEW d \in Clients, NEW q \in Partitions
        PROVE  Len(fetch'[d][q]) <= FetchMax /\ Throttled(d, q)' /\ Bounded(d, q)'
    <2>1. Len(fetch[d][q]) <= FetchMax /\ Throttled(d, q) /\ Bounded(d, q)
      BY DEF BufferInv
    <2>2. Bounded(d, q)'
      <3>1. ASSUME NEW h \in 1 .. Len(cacheSize'[d][q])
            PROVE  cacheSize'[d][q][h] < BufferSize + FetchMax * LargestRecord
        <4>1. h \in 1 .. Len(cacheSize[d][q])
          BY <1>3
        <4>2. cacheSize[d][q][h] < BufferSize + FetchMax * LargestRecord
          BY <2>1, <4>1 DEF Bounded
        <4>3. PICK b \in Nat : b = BufferSize + FetchMax * LargestRecord
          BY LimitType
        <4>4. PICK x \in Nat : x = cacheSize[d][q][h]
          BY <1>3, <4>1
        <4>5. PICK y \in Nat : y = cacheSize'[d][q][h] /\ y <= x
          BY <1>3, <4>1, <4>4
        <4>6. x < b
          BY <4>2, <4>3, <4>4
        <4>7. y < b
          BY <4>3, <4>4, <4>5, <4>6, LessTrans
        <4> QED BY <4>3, <4>5, <4>7
      <3> QED BY <3>1 DEF Bounded
    <2>3. ASSUME q \in tracked[d]
          PROVE  /\ LastSize(d, q)' \in Nat /\ LastSize(d, q) \in Nat
                 /\ LastSize(d, q)' <= LastSize(d, q)
      <3>1. PICK n : n = Len(cacheSize[d][q])
        OBVIOUS
      <3>2. n \in 1 .. Len(cacheSize[d][q]) /\ Len(cacheSize'[d][q]) = n
        BY <1>3, <2>3, <3>1 DEF TypeInv, TypeOK, TrackedCached, Current, SizeInv, SizesType
      <3> QED BY <1>3, <3>1, <3>2 DEF LastSize
    <2>4. Throttled(d, q)'
      BY <1>2, <2>1, <2>3 DEF Throttled
    <2> QED BY <1>2, <2>1, <2>2, <2>4
  <1> QED BY <1>2, <1>4 DEF BufferInv

\* A process that is gone holds nothing.
LEMMA BufferGone ==
    ASSUME TypeInv, SizeInv, BufferInv, NEW c \in Clients, ReaderGone(c)
    PROVE  BufferInv'
  <1>1. ASSUME NEW d \in Clients
        PROVE  /\ d # c => /\ pc'[d] = pc[d] /\ pausing'[d] = pausing[d] /\ paused'[d] = paused[d]
                           /\ fetch'[d] = fetch[d] /\ tracked'[d] = tracked[d]
                           /\ cacheSize'[d] = cacheSize[d]
               /\ d = c => /\ pausing'[d] = {} /\ fetch'[d] = NoFetch
                           /\ tracked'[d] = {} /\ cacheSize'[d] = NoFetch
    BY DEF ReaderGone, TypeInv, TypeOK, SizeInv, SizesType
  <1>2. \A d \in Clients : pc'[d] # "file" => pausing'[d] = {}
    BY <1>1 DEF BufferInv
  <1>3. ASSUME NEW d \in Clients, NEW q \in Partitions
        PROVE  Len(fetch'[d][q]) <= FetchMax /\ Throttled(d, q)' /\ Bounded(d, q)'
    <2>1. Len(fetch[d][q]) <= FetchMax /\ Throttled(d, q) /\ Bounded(d, q)
      BY DEF BufferInv
    <2>2. CASE d = c
      <3>1. fetch'[d][q] = <<>> /\ cacheSize'[d][q] = <<>> /\ tracked'[d] = {}
        BY <1>1, <2>2 DEF NoFetch
      <3> QED BY <3>1 DEF Throttled, Bounded
    <2>3. CASE d # c
      BY <1>1, <2>1, <2>3 DEF Throttled, Bounded, LastSize
    <2> QED BY <2>2, <2>3
  <1> QED BY <1>2, <1>3 DEF BufferInv

\* Every step keeps the buffers bounded.
LEMMA BufferStep == TypeInv /\ SizeInv /\ BufferInv /\ [Next]_vars => BufferInv'
  <1> SUFFICES ASSUME TypeInv, SizeInv, BufferInv, [Next]_vars PROVE BufferInv'
    OBVIOUS
  <1>1. ASSUME UNCHANGED <<cacheSize, fetch, paused, pausing, tracked, pc>> PROVE BufferInv'
    BY <1>1, BufferFrame
  <1>2. ASSUME NEW c \in Clients, LoopStep(c) PROVE BufferInv'
    <2>1. CASE Poll(c)
      BY <2>1, BufferPoll
    <2>2. CASE \E p \in Partitions : FileRecords(c, p)
      BY <2>2, BufferFile
    <2>3. CASE PauseFetch(c) \/ Resume(c)
      BY <2>3, BufferLoop
    <2>4. CASE LoopExit(c)
      <3>1. UNCHANGED <<cacheSize, fetch, paused, pausing, tracked>>
        BY <2>4 DEF LoopExit
      <3>2. \A d \in Clients : pc'[d] = pc[d] \/ pc[d] # "file"
        BY <2>4 DEF LoopExit, TypeInv, TypeOK
      <3> QED BY <3>1, <3>2, BufferFrame
    <2> QED BY <1>2, <2>1, <2>2, <2>3, <2>4 DEF LoopStep
  <1>3. ASSUME NEW c \in Clients, PipelineStep(c) PROVE BufferInv'
    <2>1. PICK p \in Partitions :
             \/ Pop(c, p)
             \/ \E g \in 1 .. Current(c, p) : \E e \in caches[c][p][g].ends :
                   (\E i \in 1 .. e : Dispatch(c, p, g, e, i)) \/ Ack(c, p, g, e)
      BY <1>3 DEF PipelineStep
    <2>2. CASE Pop(c, p)
      BY <1>1, <2>2 DEF Pop
    <2>3. CASE \E g \in 1 .. Current(c, p) : \E e \in caches[c][p][g].ends :
                  (\E i \in 1 .. e : Dispatch(c, p, g, e, i)) \/ Ack(c, p, g, e)
      <3>1. PICK g \in 1 .. Current(c, p) : \E e \in caches[c][p][g].ends :
                  (\E i \in 1 .. e : Dispatch(c, p, g, e, i)) \/ Ack(c, p, g, e)
        BY <2>3
      <3>2. PICK e \in caches[c][p][g].ends :
                  (\E i \in 1 .. e : Dispatch(c, p, g, e, i)) \/ Ack(c, p, g, e)
        BY <3>1
      <3>3. CASE Ack(c, p, g, e)
        BY <3>3, BufferAck
      <3>4. CASE \E i \in 1 .. e : Dispatch(c, p, g, e, i)
        BY <1>1, <3>4 DEF Dispatch
      <3> QED BY <3>2, <3>3, <3>4
    <2> QED BY <2>1, <2>2, <2>3
  <1>4. ASSUME NEW c \in Clients, RebalanceStep(c) PROVE BufferInv'
    <2>1. CASE \E p \in Partitions : Assign(c, p)
      BY <2>1, BufferAssign
    <2>2. CASE RemoveTopicPartitions(c)
      <3>1. UNCHANGED <<cacheSize, fetch, paused, pausing, pc>>
        BY <2>2 DEF RemoveTopicPartitions
      <3>2. \A d \in Clients : tracked'[d] \subseteq tracked[d]
        BY <2>2 DEF RemoveTopicPartitions, TypeInv, TypeOK
      <3> QED BY <3>1, <3>2, BufferFrame
    <2>3. CASE (\E p \in Partitions : Revoke(c, p)) \/ Lost(c) \/ Returned(c) \/ Thrown(c) \/ Committer(c)
      BY <1>1, <2>3 DEF Revoke, Lost, Returned, Thrown, Committer, readerVars
    <2> QED BY <1>4, <2>1, <2>2, <2>3 DEF RebalanceStep
  <1>5. ASSUME NEW c \in Clients, ProcessStep(c) PROVE BufferInv'
    <2>1. CASE Close(c) \/ CloseClient(c)
      BY <1>1, <2>1 DEF Close, CloseClient, readerVars
    <2>2. CASE Restart(c) \/ Crash(c)
      BY <2>2, BufferGone DEF Restart, Crash
    <2> QED BY <1>5, <2>1, <2>2 DEF ProcessStep
  <1>6. CASE UNCHANGED vars
    BY <1>1, <1>6 DEF vars, readerVars
  <1> QED BY <1>2, <1>3, <1>4, <1>5, <1>6 DEF Next

\* partition_buffer_bytes (franz_reader_ordered.go:193-204, 590-632): however
\* polls, acknowledgements and rebalances interleave, no cache ever holds as
\* much as the limit and one whole fetch.
THEOREM BuffersAreBounded == Spec => []BufferBounded
  <1>1. Init => BufferInv
    <2>1. FetchMax >= 0
      OBVIOUS
    <2> QED BY <2>1 DEF Init, BufferInv, Throttled, Bounded, NoFetch
  <1>2. SizeInv /\ BufferInv => BufferBounded
    BY DEF SizeInv, SizesType, BufferInv, Bounded, BufferBounded, AllCaches, Current
  <1> QED BY <1>1, <1>2, TypeInit, TypeStep, SizeInit, SizeStep, BufferStep, PTL DEF Spec
=============================================================================
