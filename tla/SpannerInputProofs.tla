------------------------- MODULE SpannerInputProofs -------------------------
(***************************************************************************)
(* Theorems about SpannerInput, for any change stream, batch size, number  *)
(* of batches in flight and number of crashes, stops and rejected batches. *)
(***************************************************************************)
EXTENDS SpannerInput, SequenceTheorems, NaturalsInduction, WellFoundedInduction, TLAPS

\* The records of p that the handler passes on.
Claimed(p) == {i \in DOMAIN Mods[p] : TryClaim(Timestamp(p, i))}
Watermarks(p) == {ZeroTime} \cup {Timestamp(p, i) : i \in Claimed(p)}
Batches(p) == [msgs : Seq(Messages(p)), watermark : Watermarks(p)]
Batcher(p) ==
    [cached : BOOLEAN, stale : BOOLEAN, buf : Seq(Messages(p)), last : {0} \cup Claimed(p),
     first : BOOLEAN, out : Seq(Batches(p)), flight : Seq(Batches(p)), nacked : SUBSET Messages(p)]

\* Where the goroutine r of p can be in the records of p.
ReaderFits(p, r) ==
    /\ r \in Reader
    /\ r.pc = "read" =>
          /\ r.rec \in 1 .. Len(Mods[p]) + 1
          /\ r.rec \in DOMAIN Mods[p] => r.mod < Mods[p][r.rec]
          /\ r.mod > 0 => r.rec \in Claimed(p)
    /\ r.pc # "read" => r.mod = 0

\* No batch is empty or too large.
Filled(bs) == \A k \in DOMAIN bs : Len(bs[k].msgs) \in 1 .. BatchSize

\* A batcher that the factory does not have is empty.
Unused(b) == ~b.stale /\ b.buf = <<>> /\ b.last = 0 /\ b.out = <<>> /\ b.flight = <<>> /\ b.nacked = {}

\* What the batcher b of p can hold while its goroutine is at r.
BatcherFits(p, r, b) ==
    /\ b \in Batcher(p)
    /\ Len(b.buf) < BatchSize /\ Filled(b.flight) /\ Filled(b.out) /\ Len(b.out) \in {0, 1}
    /\ ~b.cached => Unused(b)
    /\ b.buf # <<>> => b.last # 0 /\ r.mod = 0
    /\ b.out # <<>> => r.pc \in {"read", "close"} /\ (b.last = 0 \/ r.mod > 0)
    /\ r.mod > 0 => b.cached
    /\ r.pc = "close" => b.buf = <<>> /\ b.last = 0
    /\ r.pc \in {"mark", "finish"} => ~b.cached

\* The inductive invariant behind TypeOK.
TypeInv ==
    /\ row \in [Partitions -> Row]
    /\ conn \in {"down", "setup", "running"} /\ ended \in BOOLEAN
    /\ minWatermark \in Nat /\ resumed \subseteq Partitions
    /\ reader \in [Partitions -> Reader]
    /\ batcher = [p \in Partitions |-> batcher[p]]
    /\ delivered = [p \in Partitions |-> delivered[p]]
    /\ overtaken = [p \in Partitions |-> overtaken[p]]
    /\ \A p \in Partitions :
          /\ delivered[p] \subseteq Messages(p) /\ overtaken[p] \subseteq Messages(p)
          /\ ReaderFits(p, reader[p]) /\ BatcherFits(p, reader[p], batcher[p])
          /\ conn # "running" => reader[p] = NoReader
    /\ faults \in 0 .. MaxFaults

State(p) == row[p].state

\* The children of p before End have rows.
Announced(p) == \A c \in Children(p) : TryClaim(Start[c]) => State(c) # "ABSENT"

\* The row of a partition, and the rows of its parents and children, while its
\* goroutine is at pc.
RowOK(p) ==
    /\ State(p) \in {"RUNNING", "FINISHED"} => Parents[p] \subseteq InState({"FINISHED"})
    /\ State(p) # "ABSENT" =>
          /\ row[p].watermark \in 1 .. End - 1 /\ Start[p] < End
          /\ \A c \in Children(p) : row[p].watermark <= Start[c]
    /\ State(p) = "CREATED" => row[p].watermark = Start[p]
    /\ \A c, d \in Children(p) : State(c) = "ABSENT" => State(d) = "ABSENT"
    /\ State(p) = "FINISHED" => Announced(p)

GoroutineOK(p) ==
    /\ reader[p].pc # "none" => State(p) \in {"SCHEDULED", "RUNNING"}
    /\ reader[p].pc \notin {"none", "wait"} \/ batcher[p].cached => State(p) = "RUNNING"
    /\ delivered[p] # {} => State(p) \in {"RUNNING", "FINISHED"}
    /\ reader[p].pc \in {"end", "close", "mark", "finish"} => Announced(p)

\* No partition that is not scheduled yet starts before the minimum from which
\* the subscriber searches, and when the search has ended there is none.
SearchOK ==
    /\ conn = "setup" => ~ended
    /\ conn = "running" => Roots \cap InState({"ABSENT"}) = {}
    /\ minWatermark <= End
    /\ conn # "down" => \A p \in Expected :
          State(p) \in {"ABSENT", "CREATED"} => minWatermark <= Start[p]
    /\ EndsComplete

\* The inductive invariant behind NoneOverlooked and EndsComplete.
GraphInv ==
    /\ \A p \in Partitions : RowOK(p)
    /\ \A p \in Partitions : GoroutineOK(p)
    /\ SearchOK

\* Messages of p that need not be read again, those in the batches bs, those in
\* its first k, and those that the batcher b has.
Passed(p) == delivered[p] \cup overtaken[p]
Sent(bs) == UNION {Range(bs[j].msgs) : j \in DOMAIN bs}
UpTo(bs, k) == UNION {Range(bs[j].msgs) : j \in 1 .. k}
Held(b) == b.nacked \cup Sent(b.flight) \cup Sent(b.out) \cup Range(b.buf)

\* The messages of p before time t, and before record i.
Before(p, t) == {x \in Due(p) : Timestamp(p, x[1]) < t}
BeforeRecord(p, i) == {x \in Due(p) : x[1] < i}

\* A watermark is behind nothing that its batch and earlier ones leave out.
BatcherData(p, b, D) ==
    /\ \A k \in DOMAIN b.flight :
          Before(p, b.flight[k].watermark) \subseteq D \cup b.nacked \cup UpTo(b.flight, k)
    /\ \A k \in DOMAIN b.out : Before(p, b.out[k].watermark) \subseteq D \cup Held(b)
    /\ b.last # 0 /\ ~(Periodic /\ b.stale) => BeforeRecord(p, b.last) \subseteq D \cup Held(b)

\* What a goroutine has read is in its batcher, or passed.
ReaderData(p, r, b, D) ==
    /\ r.pc = "read" =>
          \A x \in Due(p) : x[1] < r.rec \/ (x[1] = r.rec /\ x[2] <= r.mod) => x \in D \cup Held(b)
    /\ r.pc \in {"end", "close"} => Due(p) \subseteq D \cup Held(b)
    /\ r.pc \in {"mark", "finish"} => Due(p) \subseteq D
    /\ BatchSize = 1 /\ r.mod > 0 => \A x \in Sent(b.out) : x[1] = r.rec

RowData(p) ==
    /\ State(p) # "ABSENT" => Before(p, row[p].watermark) \subseteq Passed(p)
    /\ State(p) = "FINISHED" => Due(p) \subseteq Passed(p)

\* The inductive invariant behind AtLeastOnce and ChildAfterParents.
DataOK(p) ==
    /\ RowData(p)
    /\ BatcherData(p, batcher[p], Passed(p))
    /\ ReaderData(p, reader[p], batcher[p], Passed(p))
DataInv == \A p \in Partitions : DataOK(p)

\* A batcher that outlives its connection takes no record, or never cuts one so
\* that the messages of the last one are lost with what emit was offering.
StaleBatchersIdle == Periodic \/ BatchSize = 1

-----------------------------------------------------------------------------
(* Least and largest elements, and the change stream.                      *)

\* A set of naturals has a least element.
LEMMA Least ==
    ASSUME NEW S \in SUBSET Nat, S # {}
    PROVE  \E n \in S : \A m \in S : n <= m
  <1>1. PICK R : R = OpToRel(<, Nat)
    OBVIOUS
  <1>2. IsWellFoundedOn(R, Nat)
    BY <1>1, NatLessThanWellFounded
  <1>3. PICK n \in S : \A m \in S : ~ (<<m, n>> \in R)
    BY <1>2, WFMin
  <1>4. \A m \in S : m < n => <<m, n>> \in R
    BY <1>1 DEF OpToRel
  <1>5. ASSUME NEW m \in S PROVE n <= m
    <2>1. ~(m < n)
      BY <1>3, <1>4, Zenon
    <2>2. m \in Nat /\ n \in Nat
      OBVIOUS
    <2> QED BY <2>1, <2>2
  <1> QED BY <1>5

\* Min of a set of naturals is its least element.
LEMMA MinOf ==
    ASSUME NEW S \in SUBSET Nat, S # {}
    PROVE  Min(S) \in S /\ \A y \in S : Min(S) <= y
  <1>1. PICK x \in S : \A y \in S : x <= y
    BY Least
  <1> QED BY <1>1 DEF Min

\* Max of a bounded set is its largest element.
LEMMA MaxOf ==
    ASSUME NEW n \in Nat, NEW S \in SUBSET (0 .. n), S # {}
    PROVE  Max(S) \in S /\ \A y \in S : Max(S) >= y
  <1> DEFINE D == {n - y : y \in S}
  <1>1. D \in SUBSET Nat /\ D # {}
    <2>1. \A y \in S : n - y \in Nat
      OBVIOUS
    <2>2. D \in SUBSET Nat
      BY <2>1
    <2>3. D # {}
      OBVIOUS
    <2> QED BY <2>2, <2>3
  <1>2. PICK d \in D : \A e \in D : d <= e
    BY <1>1, Least
  <1>3. PICK x \in S : d = n - x
    BY <1>2
  <1>4. ASSUME NEW y \in S PROVE x >= y
    <2>1. n - y \in D
      OBVIOUS
    <2>2. n - x <= n - y
      BY <1>2, <1>3, <2>1
    <2> QED BY <2>2
  <1> QED BY <1>3, <1>4 DEF Max

LEMMA Larger ==
    ASSUME NEW a \in Nat, NEW b \in Nat
    PROVE  \E m \in Nat : m >= a /\ m >= b
  <1>1. CASE a >= b
    BY <1>1
  <1>2. CASE b >= a
    BY <1>2
  <1> QED BY <1>1, <1>2

\* The numbers of a sequence have a bound.
LEMMA Bounded ==
    ASSUME NEW s \in Seq(Nat)
    PROVE  \E n \in Nat : \A i \in DOMAIN s : s[i] <= n
  <1> DEFINE Bound(k, n) == \A i \in 1 .. k : s[i] <= n
             Bad == {k \in 0 .. Len(s) : \A n \in Nat : ~Bound(k, n)}
  <1>0. DOMAIN s = 1 .. Len(s) /\ Len(s) \in Nat /\ \A i \in 1 .. Len(s) : s[i] \in Nat
    OBVIOUS
  <1>1. \A k \in 0 .. Len(s) : k \in Bad <=> \A n \in Nat : ~Bound(k, n)
    OBVIOUS
  <1>2. Bad \in SUBSET Nat /\ Bad \subseteq 0 .. Len(s)
    <2>1. Bad \subseteq 0 .. Len(s)
      BY Zenon
    <2>2. 0 .. Len(s) \subseteq Nat
      BY <1>0
    <2> QED BY <2>1, <2>2, Zenon
  <1>3. Bound(0, 0)
    OBVIOUS
  <1>4. ASSUME NEW k \in 1 .. Len(s), NEW n \in Nat, Bound(k - 1, n)
        PROVE  \E m \in Nat : Bound(k, m)
    <2>1. PICK m \in Nat : m >= n /\ m >= s[k]
      BY <1>0, Larger
    <2>2. ASSUME NEW i \in 1 .. k PROVE s[i] <= m
      <3>1. CASE i = k
        BY <1>0, <2>1, <3>1
      <3>2. CASE i # k
        <4>1. i \in 1 .. k - 1 /\ i \in 1 .. Len(s)
          BY <1>0, <3>2
        <4>2. s[i] \in Nat /\ s[i] <= n
          BY <1>0, <1>4, <4>1
        <4> QED BY <2>1, <4>2
      <3> QED BY <3>1, <3>2
    <2> QED BY <2>2
  <1> HIDE DEF Bound, Bad
  <1>5. ASSUME Bad # {} PROVE FALSE
    <2>1. PICK k \in Nat : k \in Bad /\ \A m \in Bad : k <= m
      BY <1>2, <1>5, Least
    <2>2. k \in 0 .. Len(s) /\ k # 0
      BY <1>1, <1>2, <1>3, <2>1
    <2>3. k \in 1 .. Len(s) /\ k - 1 \in 0 .. Len(s) /\ ~(k <= k - 1)
      BY <1>0, <2>2
    <2>4. k - 1 \notin Bad
      BY <2>1, <2>3
    <2>5. PICK n \in Nat : Bound(k - 1, n)
      BY <1>1, <2>3, <2>4
    <2>6. PICK m \in Nat : Bound(k, m)
      BY <1>4, <2>3, <2>5
    <2> QED BY <1>1, <2>1, <2>2, <2>6
  <1>6. Len(s) \in 0 .. Len(s) /\ Len(s) \notin Bad
    BY <1>0, <1>5
  <1>7. PICK n \in Nat : Bound(Len(s), n)
    BY <1>1, <1>6
  <1> QED BY <1>0, <1>7 DEF Bound

\* f is s followed by the element of t.
IsJoined(f, s, t) ==
    /\ Len(s) \in Nat /\ DOMAIN f = 1 .. Len(s) + 1 /\ DOMAIN s = 1 .. Len(s) /\ DOMAIN t = {1}
    /\ \A k \in 1 .. Len(s) : f[k] = s[k]
    /\ f[Len(s) + 1] = t[1]

LEMMA Joined ==
    ASSUME NEW S, NEW s \in Seq(S), NEW t \in Seq(S), Len(t) = 1
    PROVE  s \o t \in Seq(S) /\ IsJoined(s \o t, s, t)
  <1>1. /\ s \o t \in Seq(S) /\ Len(s \o t) = Len(s) + Len(t)
        /\ \A i \in 1 .. Len(s) + Len(t) : (s \o t)[i] = IF i <= Len(s) THEN s[i] ELSE t[i - Len(s)]
    BY ConcatProperties
  <1>2. Len(s) \in Nat /\ DOMAIN s = 1 .. Len(s) /\ DOMAIN t = {1}
    OBVIOUS
  <1>3. Len(s \o t) = Len(s) + 1 /\ DOMAIN (s \o t) = 1 .. Len(s) + 1
    BY <1>1, <1>2
  <1>4. ASSUME NEW k \in 1 .. Len(s) PROVE (s \o t)[k] = s[k]
    BY <1>1, <1>2
  <1>5. (s \o t)[Len(s) + 1] = t[1]
    <2>1. Len(s) + 1 \in 1 .. Len(s) + Len(t) /\ ~(Len(s) + 1 <= Len(s)) /\ (Len(s) + 1) - Len(s) = 1
      BY <1>2
    <2> QED BY <1>1, <2>1
  <1> QED BY <1>1, <1>2, <1>3, <1>4, <1>5 DEF IsJoined

\* f is s without its k-th element.
IsRemoved(f, s, k) ==
    /\ Len(s) \in Nat /\ k \in 1 .. Len(s) /\ DOMAIN f = 1 .. Len(s) - 1 /\ DOMAIN s = 1 .. Len(s)
    /\ \A j \in 1 .. Len(s) - 1 : f[j] = IF j < k THEN s[j] ELSE s[j + 1]

LEMMA Removed ==
    ASSUME NEW S, NEW s \in Seq(S), NEW k \in DOMAIN s
    PROVE  RemoveAt(s, k) \in Seq(S) /\ IsRemoved(RemoveAt(s, k), s, k)
  <1>1. PICK n \in Nat : n = Len(s) /\ k \in 1 .. n /\ DOMAIN s = 1 .. n /\ k \in Nat
    OBVIOUS
  <1> DEFINE a == SubSeq(s, 1, k - 1)
             b == SubSeq(s, k + 1, n)
  <1>2. /\ a \in Seq(S) /\ Len(a) = k - 1 /\ \A j \in 1 .. k - 1 : a[j] = s[j]
    <2>1. \A j \in 1 .. k - 1 : j \in 1 .. n
      BY <1>1
    <2> QED BY <1>1, <2>1
  <1>3. /\ b \in Seq(S) /\ Len(b) = n - k /\ \A j \in 1 .. n - k : b[j] = s[j + k]
    <2>1. \A j \in k + 1 .. n : j \in 1 .. n
      BY <1>1
    <2>2. b \in Seq(S) /\ Len(b) = n - k
      BY <1>1, <2>1
    <2>3. ASSUME NEW j \in 1 .. n - k PROVE b[j] = s[j + k]
      BY <1>1, <2>1
    <2> QED BY <2>2, <2>3
  <1> HIDE DEF a, b
  <1>4. /\ a \o b \in Seq(S) /\ Len(a \o b) = Len(a) + Len(b)
        /\ \A i \in 1 .. Len(a) + Len(b) : (a \o b)[i] = IF i <= Len(a) THEN a[i] ELSE b[i - Len(a)]
    BY <1>2, <1>3, ConcatProperties
  <1>5. Len(a \o b) = n - 1 /\ DOMAIN (a \o b) = 1 .. n - 1
    BY <1>1, <1>2, <1>3, <1>4
  <1>6. ASSUME NEW j \in 1 .. n - 1 PROVE (a \o b)[j] = IF j < k THEN s[j] ELSE s[j + 1]
    <2>1. j \in 1 .. Len(a) + Len(b)
      BY <1>1, <1>2, <1>3
    <2>2. CASE j < k
      <3>1. j \in 1 .. k - 1 /\ j <= Len(a)
        BY <1>1, <1>2, <2>2
      <3> QED BY <1>2, <1>4, <2>1, <2>2, <3>1
    <2>3. CASE ~(j < k)
      <3>1. ~(j <= Len(a)) /\ j - Len(a) = j - k + 1 /\ j - k + 1 \in 1 .. n - k /\ (j - k + 1) + k = j + 1
        BY <1>1, <1>2, <2>3
      <3>2. (a \o b)[j] = b[j - k + 1]
        BY <1>4, <2>1, <3>1
      <3>3. b[j - k + 1] = s[(j - k + 1) + k]
        BY <1>3, <3>1
      <3> QED BY <2>3, <3>1, <3>2, <3>3
    <2> QED BY <2>2, <2>3
  <1>7. RemoveAt(s, k) = a \o b
    BY <1>1 DEF RemoveAt, a, b
  <1> QED BY <1>1, <1>4, <1>5, <1>6, <1>7 DEF IsRemoved

\* The constants, and the numbers that the model makes of them.
LEMMA Constants ==
    /\ End \in Nat /\ BatchSize \in Nat /\ BatchSize > 0 /\ MaxFaults \in Nat /\ Periodic \in BOOLEAN
    /\ MaxInFlight \in Nat
  BY SpannerAssumption

LEMMA Records ==
    ASSUME NEW p \in Partitions
    PROVE  /\ Start[p] \in Nat /\ Start[p] > 0
           /\ Parents[p] \subseteq Partitions
           /\ Mods[p] \in Seq(Nat) /\ Len(Mods[p]) \in Nat /\ DOMAIN Mods[p] = 1 .. Len(Mods[p])
           /\ \A i \in DOMAIN Mods[p] : Mods[p][i] \in Nat /\ Mods[p][i] > 0
           /\ \A i \in DOMAIN Mods[p] : Timestamp(p, i) \in Nat /\ Timestamp(p, i) > 0
  <1>1. Start[p] \in Nat /\ Start[p] > 0 /\ Parents[p] \subseteq Partitions
    BY SpannerAssumption
  <1>2. Mods[p] \in Seq(Nat \ {0})
    BY SpannerAssumption
  <1>3. Len(Mods[p]) \in Nat /\ DOMAIN Mods[p] = 1 .. Len(Mods[p])
    BY <1>2
  <1>4. Mods[p] \in Seq(Nat)
    BY <1>2, SeqMonotonic
  <1>5. \A i \in DOMAIN Mods[p] : Mods[p][i] \in Nat /\ Mods[p][i] > 0
    BY <1>2, <1>3
  <1>6. \A i \in DOMAIN Mods[p] : Timestamp(p, i) \in Nat /\ Timestamp(p, i) > 0
    BY <1>1, <1>3 DEF Timestamp
  <1> QED BY <1>1, <1>3, <1>4, <1>5, <1>6

\* A child starts behind its parent and behind all records of its parent.
LEMMA ChildStarts ==
    ASSUME NEW p \in Partitions, NEW c \in Children(p)
    PROVE  /\ c \in Partitions /\ p \in Parents[c]
           /\ Start[c] > Start[p]
           /\ \A i \in DOMAIN Mods[p] : Timestamp(p, i) < Start[c]
           /\ \A d \in Children(p) : Start[c] = Start[d]
  <1>1. c \in Partitions /\ p \in Parents[c]
    BY DEF Children
  <1>2. Start[c] > Start[p] /\ Start[c] > Timestamp(p, Len(Mods[p])) /\ \A d \in Children(p) : Start[c] = Start[d]
    BY SpannerAssumption
  <1>3. ASSUME NEW i \in DOMAIN Mods[p] PROVE Timestamp(p, i) < Start[c]
    <2>1. i \in 1 .. Len(Mods[p]) /\ Len(Mods[p]) \in Nat /\ Start[p] \in Nat /\ Start[c] \in Nat
      BY <1>1, Records
    <2> QED BY <1>2, <2>1 DEF Timestamp
  <1> QED BY <1>1, <1>2, <1>3

\* The modifications of a record are messages, and messages are nothing else.
LEMMA MessageOf ==
    ASSUME NEW p \in Partitions, NEW i \in DOMAIN Mods[p], NEW m \in Nat, m > 0, m <= Mods[p][i]
    PROVE  <<i, m>> \in Messages(p)
  <1>1. PICK n \in Nat : \A j \in DOMAIN Mods[p] : Mods[p][j] <= n
    BY Records, Bounded
  <1> DEFINE S == {0} \cup Range(Mods[p])
  <1>2. S \in SUBSET (0 .. n) /\ S # {}
    BY <1>1, Records DEF Range
  <1>3. Max(S) \in S /\ \A y \in S : Max(S) >= y
    BY <1>1, <1>2, MaxOf
  <1>4. Mods[p][i] \in S /\ Mods[p][i] \in Nat
    BY Records DEF Range
  <1>5. Max(S) \in Nat /\ Max(S) >= Mods[p][i]
    BY <1>1, <1>2, <1>3, <1>4
  <1>6. m \in 1 .. Max(S)
    BY <1>4, <1>5
  <1> QED BY <1>6 DEF Messages

LEMMA MessageFields ==
    ASSUME NEW p \in Partitions, NEW x \in Messages(p)
    PROVE  /\ x[1] \in DOMAIN Mods[p] /\ x[2] \in Nat /\ x[2] > 0 /\ x = <<x[1], x[2]>>
           /\ Timestamp(p, x[1]) \in Nat /\ x[1] \in Nat
  <1>1. PICK i \in DOMAIN Mods[p], m \in 1 .. Max({0} \cup Range(Mods[p])) : x = <<i, m>>
    BY DEF Messages
  <1>2. m \in Nat /\ m > 0
    BY <1>1
  <1>3. i \in Nat /\ Timestamp(p, i) \in Nat
    BY <1>1, Records
  <1> QED BY <1>1, <1>2, <1>3

-----------------------------------------------------------------------------
(* Types.                                                                  *)

\* A partition without a goroutine, and a new batcher.
LEMMA NoReaderFits ==
    ASSUME NEW p \in Partitions
    PROVE  ReaderFits(p, NoReader)
  BY DEF ReaderFits, NoReader, Reader

LEMMA NoBatcherType ==
    ASSUME NEW p \in Partitions
    PROVE  /\ NoBatcher \in Batcher(p) /\ Filled(<<>>)
           /\ NoBatcher.buf = <<>> /\ NoBatcher.out = <<>> /\ NoBatcher.flight = <<>>
           /\ NoBatcher.nacked = {} /\ NoBatcher.last = 0 /\ ~NoBatcher.cached /\ ~NoBatcher.stale
  <1>1. <<>> \in Seq(Messages(p)) /\ <<>> \in Seq(Batches(p)) /\ {} \in SUBSET Messages(p)
    BY EmptySeq
  <1>2. NoBatcher \in Batcher(p)
    BY <1>1 DEF NoBatcher, Batcher
  <1>3. Filled(<<>>)
    BY DEF Filled
  <1> QED BY <1>2, <1>3 DEF NoBatcher

LEMMA NoBatcherFits ==
    ASSUME NEW p \in Partitions, NEW r, r.mod = 0
    PROVE  BatcherFits(p, r, NoBatcher)
  <1>1. Len(<<>>) = 0
    OBVIOUS
  <1>2. ~(r.mod > 0)
    OBVIOUS
  <1> QED BY <1>1, <1>2, NoBatcherType, Constants DEF BatcherFits, Unused

\* Every partition of the next state fits when those that change do.
LEMMA TypeFrame ==
    ASSUME TypeInv, NEW p \in Partitions, NEW r, NEW b, conn = "running" \/ r = reader[p],
           reader' = [reader EXCEPT ![p] = r], batcher' = [batcher EXCEPT ![p] = b],
           ReaderFits(p, r), BatcherFits(p, r, b),
           row' \in [Partitions -> Row], UNCHANGED <<subscriberVars, delivered, overtaken>>,
           faults' \in 0 .. MaxFaults
    PROVE  TypeInv'
  <1>1. r \in Reader
    BY DEF ReaderFits
  <1>2. reader' \in [Partitions -> Reader] /\ \A q \in Partitions : reader'[q] = IF q = p THEN r ELSE reader[q]
    BY <1>1 DEF TypeInv
  <1>3. /\ batcher' = [q \in Partitions |-> batcher'[q]]
        /\ \A q \in Partitions : batcher'[q] = IF q = p THEN b ELSE batcher[q]
    BY DEF TypeInv
  <1>4. UNCHANGED <<conn, ended, minWatermark, resumed, delivered, overtaken>>
    BY DEF subscriberVars
  <1>5. ASSUME NEW q \in Partitions
        PROVE  /\ ReaderFits(q, reader'[q]) /\ BatcherFits(q, reader'[q], batcher'[q])
               /\ conn # "running" => reader'[q] = NoReader
    <2>1. /\ ReaderFits(q, reader[q]) /\ BatcherFits(q, reader[q], batcher[q])
          /\ conn # "running" => reader[q] = NoReader
      BY DEF TypeInv
    <2>2. CASE q = p
      BY <1>2, <1>3, <2>1, <2>2
    <2>3. CASE q # p
      BY <1>2, <1>3, <2>1, <2>3
    <2> QED BY <2>2, <2>3
  <1> QED BY <1>2, <1>3, <1>4, <1>5 DEF TypeInv

LEMMA TypeInit == Init => TypeInv
  <1> SUFFICES ASSUME Init PROVE TypeInv
    OBVIOUS
  <1>1. NoReader \in Reader /\ NoReader.mod = 0
    BY DEF NoReader, Reader
  <1>2. row \in [Partitions -> Row] /\ reader \in [Partitions -> Reader]
    BY <1>1 DEF Init, Row, ZeroTime
  <1>3. ASSUME NEW p \in Partitions
        PROVE  /\ delivered[p] \subseteq Messages(p) /\ overtaken[p] \subseteq Messages(p)
               /\ ReaderFits(p, reader[p]) /\ BatcherFits(p, reader[p], batcher[p])
               /\ reader[p] = NoReader
    <2>1. reader[p] = NoReader /\ batcher[p] = NoBatcher /\ delivered[p] = {} /\ overtaken[p] = {}
      BY DEF Init
    <2> QED BY <1>1, <2>1, NoReaderFits, NoBatcherFits
  <1>4. /\ batcher = [p \in Partitions |-> batcher[p]]
        /\ delivered = [p \in Partitions |-> delivered[p]]
        /\ overtaken = [p \in Partitions |-> overtaken[p]]
    BY DEF Init
  <1>5. /\ conn \in {"down", "setup", "running"} /\ ended \in BOOLEAN
        /\ minWatermark \in Nat /\ resumed \subseteq Partitions /\ faults \in 0 .. MaxFaults
    <2>1. ended \in BOOLEAN
      BY Zenon DEF Init
    <2>2. faults = 0 /\ minWatermark = 0 /\ conn = "down" /\ resumed = {}
      BY DEF Init, ZeroTime
    <2> QED BY <2>1, <2>2, Constants
  <1> QED BY <1>2, <1>3, <1>4, <1>5 DEF TypeInv

\* The goroutine and the batcher of a partition.
LEMMA Cells ==
    ASSUME TypeInv, NEW p \in Partitions
    PROVE  /\ reader[p] \in Reader /\ ReaderFits(p, reader[p])
           /\ batcher[p] \in Batcher(p) /\ BatcherFits(p, reader[p], batcher[p])
           /\ delivered[p] \subseteq Messages(p) /\ overtaken[p] \subseteq Messages(p)
           /\ row[p] \in Row
           /\ conn # "running" => reader[p] = NoReader
  BY DEF TypeInv, BatcherFits

\* The fields of a batcher.
LEMMA BatcherFields ==
    ASSUME NEW p \in Partitions, NEW b \in Batcher(p)
    PROVE  /\ b.cached \in BOOLEAN /\ b.stale \in BOOLEAN /\ b.first \in BOOLEAN
           /\ b.buf \in Seq(Messages(p)) /\ Len(b.buf) \in Nat
           /\ b.last \in {0} \cup Claimed(p) /\ b.last \in Nat
           /\ b.out \in Seq(Batches(p)) /\ b.flight \in Seq(Batches(p))
           /\ b.nacked \in SUBSET Messages(p)
  <1>1. /\ b.cached \in BOOLEAN /\ b.stale \in BOOLEAN /\ b.first \in BOOLEAN
        /\ b.buf \in Seq(Messages(p)) /\ b.last \in {0} \cup Claimed(p)
        /\ b.out \in Seq(Batches(p)) /\ b.flight \in Seq(Batches(p))
        /\ b.nacked \in SUBSET Messages(p)
    BY DEF Batcher
  <1>2. b.last \in Nat
    BY <1>1, Records DEF Claimed
  <1> QED BY <1>1, <1>2

\* How much a callback takes: something, at most what is left of the record and
\* of the batch, and all of one of the two.
LEMMA TakenFits ==
    ASSUME TypeInv, NEW p \in Partitions, At(p, "read"), reader[p].rec <= Len(Mods[p])
    PROVE  /\ Taken(p) \in Nat /\ Taken(p) > 0
           /\ reader[p].rec \in DOMAIN Mods[p] /\ reader[p].mod \in Nat
           /\ Len(batcher[p].buf) \in Nat /\ Len(batcher[p].buf) < BatchSize
           /\ Mods[p][reader[p].rec] \in Nat
           /\ Taken(p) + Len(batcher[p].buf) <= BatchSize
           /\ Taken(p) + reader[p].mod <= Mods[p][reader[p].rec]
           /\ \/ Taken(p) + Len(batcher[p].buf) = BatchSize
              \/ Taken(p) + reader[p].mod = Mods[p][reader[p].rec]
  <1>1. PICK i \in DOMAIN Mods[p] : i = reader[p].rec
    <2>1. reader[p].rec \in 1 .. Len(Mods[p]) + 1
      BY Cells DEF ReaderFits, At
    <2> QED BY <2>1, Records
  <1>2. PICK m \in Nat : m = reader[p].mod
    BY Cells DEF Reader
  <1>3. PICK n \in Nat : n = Mods[p][i] /\ m < n
    BY <1>1, <1>2, Cells, Records DEF ReaderFits, At
  <1>4. PICK l \in Nat : l = Len(batcher[p].buf) /\ l < BatchSize
    BY Cells, BatcherFields DEF BatcherFits
  <1> DEFINE S == {BatchSize - l, n - m}
  <1>5. S \in SUBSET Nat /\ S # {} /\ \A s \in S : s > 0
    BY <1>2, <1>3, <1>4, Constants
  <1>6. Min(S) \in S /\ \A y \in S : Min(S) <= y
    BY <1>5, MinOf
  <1>7. Taken(p) = Min(S)
    BY <1>1, <1>2, <1>3, <1>4 DEF Taken
  <1>8. PICK t \in Nat : t = Taken(p) /\ t > 0 /\ t <= BatchSize - l /\ t <= n - m /\ (t = BatchSize - l \/ t = n - m)
    BY <1>5, <1>6, <1>7
  <1>9. t + l <= BatchSize /\ t + m <= n /\ (t + l = BatchSize \/ t + m = n)
    <2>1. PICK z \in Nat : z = BatchSize
      BY Constants
    <2>2. t \in Nat /\ l \in Nat /\ m \in Nat /\ n \in Nat
      BY <1>2, <1>3, <1>4, <1>8
    <2>3. t + l <= z /\ (t = z - l => t + l = z)
      BY <1>8, <2>1, <2>2
    <2>4. t + m <= n /\ (t = n - m => t + m = n)
      BY <1>8, <2>2
    <2> QED BY <1>8, <2>1, <2>3, <2>4
  <1> QED BY <1>1, <1>2, <1>3, <1>4, <1>8, <1>9

\* The messages that the callback of p adds to its batch.
Piece(p) == [j \in 1 .. Taken(p) |-> <<reader[p].rec, reader[p].mod + j>>]
NewBuf(p) == batcher[p].buf \o Piece(p)

LEMMA NewBufType ==
    ASSUME TypeInv, NEW p \in Partitions, At(p, "read"), reader[p].rec <= Len(Mods[p])
    PROVE  /\ NewBuf(p) \in Seq(Messages(p)) /\ NewBuf(p) # <<>>
           /\ Len(NewBuf(p)) = Len(batcher[p].buf) + Taken(p) /\ Len(NewBuf(p)) \in 1 .. BatchSize
           /\ Range(batcher[p].buf) \subseteq Range(NewBuf(p))
           /\ \A m \in Nat : reader[p].mod < m /\ m <= reader[p].mod + Taken(p) =>
                 <<reader[p].rec, m>> \in Range(NewBuf(p))
           /\ \A x \in Range(NewBuf(p)) : x \in Range(batcher[p].buf) \/ x[1] = reader[p].rec
  <1>1. PICK i \in DOMAIN Mods[p] : i = reader[p].rec
    BY TakenFits
  <1>2. PICK m \in Nat, t \in Nat, l \in Nat :
           /\ m = reader[p].mod /\ t = Taken(p) /\ l = Len(batcher[p].buf)
           /\ t > 0 /\ t + l <= BatchSize /\ t + m <= Mods[p][i]
    BY <1>1, TakenFits
  <1>3. ASSUME NEW j \in 1 .. t PROVE <<i, m + j>> \in Messages(p)
    <2>2. PICK z \in Nat : z = Mods[p][i] /\ t + m <= z
      BY <1>1, <1>2, Records
    <2>3. j \in Nat /\ j > 0 /\ j <= t /\ t \in Nat /\ m \in Nat
      BY <1>2
    <2>1. m + j \in Nat /\ m + j > 0 /\ m + j <= Mods[p][i]
      BY <2>2, <2>3
    <2> QED BY <1>1, <2>1, MessageOf
  <1>4. Piece(p) = [j \in 1 .. t |-> <<i, m + j>>]
    BY <1>1, <1>2 DEF Piece
  <1>5. Piece(p) \in Seq(Messages(p)) /\ Len(Piece(p)) = t /\ DOMAIN Piece(p) = 1 .. t
    BY <1>2, <1>3, <1>4, IsASeq
  <1>6. batcher[p].buf \in Seq(Messages(p))
    BY Cells, BatcherFields
  <1>7. NewBuf(p) \in Seq(Messages(p)) /\ Len(NewBuf(p)) = l + t
    <2>1. \A a, b \in Seq(Messages(p)) : a \o b \in Seq(Messages(p)) /\ Len(a \o b) = Len(a) + Len(b)
      BY ConcatProperties
    <2> QED BY <1>2, <1>5, <1>6, <2>1, Zenon DEF NewBuf
  <1>8. Range(NewBuf(p)) = Range(batcher[p].buf) \cup Range(Piece(p))
    BY <1>5, <1>6, RangeConcatenation DEF NewBuf
  <1>9. ASSUME NEW n \in Nat, m < n, n <= m + t PROVE <<i, n>> \in Range(Piece(p))
    <2>1. n - m \in 1 .. t /\ m + (n - m) = n
      BY <1>2, <1>9
    <2>2. Piece(p)[n - m] = <<i, n>>
      BY <1>4, <2>1
    <2> QED BY <1>5, <2>1, <2>2 DEF Range
  <1>10. Len(NewBuf(p)) \in 1 .. BatchSize
    BY <1>2, <1>7, Constants
  <1>11. NewBuf(p) # <<>>
    BY <1>10
  <1>12. ASSUME NEW x \in Range(Piece(p)) PROVE x[1] = i
    <2>1. PICK j \in 1 .. t : x = <<i, m + j>>
      BY <1>4, <1>5 DEF Range
    <2> QED BY <2>1
  <1> QED BY <1>1, <1>2, <1>7, <1>8, <1>9, <1>10, <1>11, <1>12

\* A sequence of one batch.
LEMMA OneBatch ==
    ASSUME NEW p \in Partitions, NEW m \in Seq(Messages(p)), NEW w \in Watermarks(p),
           Len(m) \in 1 .. BatchSize
    PROVE  /\ <<Batch(m, w)>> \in Seq(Batches(p)) /\ Len(<<Batch(m, w)>>) = 1
           /\ DOMAIN <<Batch(m, w)>> = {1} /\ <<Batch(m, w)>>[1] = Batch(m, w)
           /\ Batch(m, w).msgs = m /\ Batch(m, w).watermark = w
           /\ Filled(<<Batch(m, w)>>) /\ <<Batch(m, w)>> # <<>>
  <1>1. Batch(m, w) \in Batches(p) /\ Batch(m, w).msgs = m /\ Batch(m, w).watermark = w
    BY DEF Batch, Batches
  <1>2. \A x : DOMAIN <<x>> = {1} /\ <<x>>[1] = x /\ Len(<<x>>) = 1 /\ <<x>> # <<>>
    OBVIOUS
  <1>3. Filled(<<Batch(m, w)>>)
    BY <1>1, <1>2 DEF Filled
  <1> QED BY <1>1, <1>2, <1>3

\* What a callback does with a record: part of it fills a batch, or the rest of it
\* goes into the batch.
Done(p) == reader[p].mod + Taken(p) = Mods[p][reader[p].rec]
Full(p) == Len(NewBuf(p)) >= BatchSize

LEMMA RecordEffect ==
    ASSUME TypeInv, NEW p \in Partitions, OnDataChangeRecord(p)
    PROVE  /\ At(p, "read") /\ reader[p].rec \in Claimed(p) /\ Served(p) /\ batcher[p].out = <<>>
           /\ Full(p) \/ Done(p)
           /\ BatchWatermark(p, Done(p)) \in Watermarks(p)
           /\ \E b \in Batcher(p), r \in Reader :
                 /\ batcher' = [batcher EXCEPT ![p] = b] /\ reader' = [reader EXCEPT ![p] = r]
                 /\ b.cached /\ b.stale = batcher[p].stale
                 /\ b.flight = batcher[p].flight /\ b.nacked = batcher[p].nacked
                 /\ b.buf = IF Full(p) THEN <<>> ELSE NewBuf(p)
                 /\ b.out = IF Full(p) THEN <<Batch(NewBuf(p), BatchWatermark(p, Done(p)))>> ELSE <<>>
                 /\ b.last = IF ~Done(p) THEN batcher[p].last ELSE IF Full(p) THEN 0 ELSE reader[p].rec
                 /\ r.pc = "read"
                 /\ r.rec = IF Done(p) THEN reader[p].rec + 1 ELSE reader[p].rec
                 /\ r.mod = IF Done(p) THEN 0 ELSE reader[p].mod + Taken(p)
  <1>1. At(p, "read") /\ reader[p].rec <= Len(Mods[p]) /\ TryClaim(Timestamp(p, reader[p].rec))
    BY DEF OnDataChangeRecord
  <1>2. reader[p].rec \in Claimed(p)
    BY <1>1, TakenFits DEF Claimed
  <1>3. Served(p) /\ batcher[p].out = <<>>
    BY DEF OnDataChangeRecord
  <1>4. Full(p) \/ Done(p)
    <2>1. \/ Taken(p) + Len(batcher[p].buf) = BatchSize
          \/ Taken(p) + reader[p].mod = Mods[p][reader[p].rec]
      BY <1>1, TakenFits
    <2>2. Taken(p) \in Nat /\ Len(batcher[p].buf) \in Nat /\ reader[p].mod \in Nat
      BY <1>1, TakenFits
    <2>3. Len(NewBuf(p)) = Len(batcher[p].buf) + Taken(p)
      BY <1>1, NewBufType
    <2> QED BY <2>1, <2>2, <2>3, Constants DEF Full, Done
  <1>5. BatchWatermark(p, Done(p)) \in Watermarks(p)
    <2>1. batcher[p].last = 0 \/ batcher[p].last \in Claimed(p)
      BY Cells, BatcherFields
    <2> QED BY <1>2, <2>1 DEF BatchWatermark, Watermarks
  <1>6. PICK b0 \in Batcher(p) : b0 = batcher[p]
    BY Cells
  <1>7. PICK r0 \in Reader : r0 = reader[p]
    BY Cells
  <1> DEFINE b == [b0 EXCEPT !.cached = TRUE,
                             !.buf = IF Full(p) THEN <<>> ELSE NewBuf(p),
                             !.out = IF Full(p) THEN <<Batch(NewBuf(p), BatchWatermark(p, Done(p)))>> ELSE <<>>,
                             !.first = Done(p) \/ (b0.first /\ b0.last = 0),
                             !.last = IF ~Done(p) THEN b0.last ELSE IF Full(p) THEN 0 ELSE r0.rec]
             r == IF Done(p) THEN [r0 EXCEPT !.rec = r0.rec + 1, !.mod = 0]
                  ELSE [r0 EXCEPT !.mod = r0.mod + Taken(p)]
  <1>8. batcher' = [batcher EXCEPT ![p] = b] /\ reader' = [reader EXCEPT ![p] = r]
    BY <1>6, <1>7 DEF OnDataChangeRecord, NewBuf, Piece, Full, Done
  <1>9. /\ (IF Full(p) THEN <<>> ELSE NewBuf(p)) \in Seq(Messages(p))
        /\ (IF Full(p) THEN <<Batch(NewBuf(p), BatchWatermark(p, Done(p)))>> ELSE <<>>) \in Seq(Batches(p))
        /\ (IF ~Done(p) THEN b0.last ELSE IF Full(p) THEN 0 ELSE r0.rec) \in {0} \cup Claimed(p)
    BY <1>1, <1>2, <1>5, <1>6, <1>7, NewBufType, OneBatch, BatcherFields, EmptySeq
  <1>10. (Done(p) \/ (b0.first /\ b0.last = 0)) \in BOOLEAN
    OBVIOUS
  <1>11. b \in Batcher(p)
    BY <1>9, <1>10 DEF Batcher
  <1>12. /\ b.cached /\ b.stale = b0.stale /\ b.flight = b0.flight /\ b.nacked = b0.nacked
         /\ b.buf = IF Full(p) THEN <<>> ELSE NewBuf(p)
         /\ b.out = IF Full(p) THEN <<Batch(NewBuf(p), BatchWatermark(p, Done(p)))>> ELSE <<>>
         /\ b.last = IF ~Done(p) THEN b0.last ELSE IF Full(p) THEN 0 ELSE r0.rec
    BY DEF Batcher
  <1>13. Taken(p) \in Nat
    BY <1>1, TakenFits
  <1>14. r \in Reader
    <2>1. r0.rec + 1 \in Nat /\ r0.mod + Taken(p) \in Nat
      BY <1>13 DEF Reader
    <2>2. [r0 EXCEPT !.rec = r0.rec + 1, !.mod = 0] \in Reader
      BY <2>1 DEF Reader
    <2>3. [r0 EXCEPT !.mod = r0.mod + Taken(p)] \in Reader
      BY <2>1 DEF Reader
    <2> QED BY <2>2, <2>3
  <1>15. /\ r.pc = r0.pc
         /\ r.rec = IF Done(p) THEN r0.rec + 1 ELSE r0.rec
         /\ r.mod = IF Done(p) THEN 0 ELSE r0.mod + Taken(p)
    BY DEF Reader
  <1> HIDE DEF b, r
  <1> QED BY <1>1, <1>2, <1>3, <1>4, <1>5, <1>6, <1>7, <1>8, <1>11, <1>12, <1>14, <1>15 DEF At

LEMMA TypeRecord ==
    ASSUME TypeInv, NEW p \in Partitions, OnDataChangeRecord(p)
    PROVE  TypeInv'
  <1>1. PICK b \in Batcher(p), r \in Reader :
           /\ batcher' = [batcher EXCEPT ![p] = b] /\ reader' = [reader EXCEPT ![p] = r]
           /\ b.cached /\ b.stale = batcher[p].stale
           /\ b.flight = batcher[p].flight /\ b.nacked = batcher[p].nacked
           /\ b.buf = IF Full(p) THEN <<>> ELSE NewBuf(p)
           /\ b.out = IF Full(p) THEN <<Batch(NewBuf(p), BatchWatermark(p, Done(p)))>> ELSE <<>>
           /\ b.last = IF ~Done(p) THEN batcher[p].last ELSE IF Full(p) THEN 0 ELSE reader[p].rec
           /\ r.pc = "read"
           /\ r.rec = IF Done(p) THEN reader[p].rec + 1 ELSE reader[p].rec
           /\ r.mod = IF Done(p) THEN 0 ELSE reader[p].mod + Taken(p)
    BY RecordEffect
  <1>2. /\ At(p, "read") /\ reader[p].rec \in Claimed(p) /\ (Full(p) \/ Done(p))
        /\ BatchWatermark(p, Done(p)) \in Watermarks(p)
    BY RecordEffect
  <1>3. PICK i \in DOMAIN Mods[p] : i = reader[p].rec /\ i \in Claimed(p) /\ i \in 1 .. Len(Mods[p])
    BY <1>2, Records DEF Claimed
  <1>4. PICK m \in Nat, t \in Nat :
           /\ m = reader[p].mod /\ t = Taken(p) /\ t > 0 /\ t + m <= Mods[p][i] /\ Mods[p][i] \in Nat
    BY <1>2, <1>3, TakenFits, Records
  <1>5. /\ NewBuf(p) \in Seq(Messages(p)) /\ Len(NewBuf(p)) \in 1 .. BatchSize
    BY <1>2, <1>3, NewBufType, Records
  <1>6. ReaderFits(p, r)
    <2>1. CASE Done(p)
      <3>1. r.rec = i + 1 /\ r.mod = 0 /\ ~(r.mod > 0)
        BY <1>1, <1>3, <2>1
      <3>2. i + 1 \in 1 .. Len(Mods[p]) + 1
        BY <1>3, Records
      <3>3. i + 1 \in DOMAIN Mods[p] => 0 < Mods[p][i + 1]
        BY Records
      <3> QED BY <1>1, <3>1, <3>2, <3>3 DEF ReaderFits
    <2>2. CASE ~Done(p)
      <3>1. r.rec = i /\ r.mod = m + t /\ m + t < Mods[p][i]
        BY <1>1, <1>3, <1>4, <2>2 DEF Done
      <3>2. i \in 1 .. Len(Mods[p]) + 1
        BY <1>3, Records
      <3> QED BY <1>1, <1>3, <3>1, <3>2 DEF ReaderFits
    <2> QED BY <2>1, <2>2
  <1>7. BatcherFits(p, r, b)
    <2>1. Filled(b.flight)
      BY <1>1, Cells DEF BatcherFits
    <2>2. Len(b.buf) < BatchSize
      <3>1. CASE Full(p)
        <4>1. Len(<<>>) = 0
          OBVIOUS
        <4> QED BY <1>1, <3>1, <4>1, Constants
      <3>2. CASE ~Full(p)
        BY <1>1, <1>5, <3>2, Constants DEF Full
      <3> QED BY <3>1, <3>2
    <2>3. Filled(b.out) /\ Len(b.out) \in {0, 1} /\ (b.out # <<>> => Full(p))
      <3>1. CASE Full(p)
        BY <1>1, <1>2, <1>5, <3>1, OneBatch
      <3>2. CASE ~Full(p)
        <4>1. Len(<<>>) = 0 /\ Filled(<<>>)
          BY NoBatcherType
        <4> QED BY <1>1, <3>2, <4>1
      <3> QED BY <3>1, <3>2
    <2>4. b.buf # <<>> => b.last # 0 /\ r.mod = 0
      <3>1. ASSUME b.buf # <<>> PROVE Done(p) /\ ~Full(p)
        BY <1>1, <1>2, <3>1
      <3>2. i # 0
        BY <1>3
      <3> QED BY <1>1, <1>3, <3>1, <3>2
    <2>5. b.out # <<>> => b.last = 0 \/ r.mod > 0
      <3>1. CASE Done(p)
        BY <1>1, <2>3, <3>1
      <3>2. CASE ~Done(p)
        <4>1. r.mod = m + t
          BY <1>1, <1>4, <3>2
        <4> QED BY <1>4, <4>1
      <3> QED BY <3>1, <3>2
    <2> QED BY <1>1, <2>1, <2>2, <2>3, <2>4, <2>5 DEF BatcherFits
  <1>8. conn = "running"
    <2>1. reader[p] # NoReader
      BY <1>2 DEF At, NoReader
    <2> QED BY <2>1, Cells
  <1>9. row' \in [Partitions -> Row] /\ UNCHANGED <<subscriberVars, delivered, overtaken>> /\ faults' \in 0 .. MaxFaults
    BY DEF OnDataChangeRecord, tableVars, history, TypeInv
  <1> QED BY <1>1, <1>6, <1>7, <1>8, <1>9, TypeFrame

\* The last timestamp claimed by the handler of p lies in the partition: not
\* before its start, and not behind the start of a child.
LEMMA LastClaimedOf ==
    ASSUME NEW p \in Partitions
    PROVE  /\ LastClaimed(p) \in Nat /\ LastClaimed(p) >= Start[p]
           /\ Start[p] < End => LastClaimed(p) < End
           /\ \A c \in Children(p) : LastClaimed(p) <= Start[c]
  <1> DEFINE T == {Timestamp(p, i) : i \in DOMAIN Mods[p]} \cup {Start[c] : c \in Children(p)}
             S == {Start[p]} \cup {t \in T : TryClaim(t)}
  <1>1. PICK a \in Nat, e \in Nat : a = Start[p] /\ e = End
    BY Records, Constants
  <1>2. T \in SUBSET Nat
    <2>1. \A c \in Children(p) : Start[c] \in Nat
      BY ChildStarts, Records
    <2> QED BY <2>1, Records
  <1>3. ASSUME NEW s \in S PROVE s \in Nat /\ s <= a + e /\ (a < e => s < e) /\ \A c \in Children(p) : s <= Start[c]
    <2>1. CASE s = a
      <3>1. \A c \in Children(p) : a < Start[c] /\ Start[c] \in Nat
        BY <1>1, ChildStarts, Records
      <3> QED BY <1>1, <2>1, <3>1
    <2>2. CASE s \in T /\ TryClaim(s)
      <3>1. s \in Nat /\ s < e
        BY <1>1, <1>2, <2>2 DEF TryClaim
      <3>2. ASSUME NEW c \in Children(p) PROVE s <= Start[c]
        <4>1. Start[c] \in Nat /\ (\A i \in DOMAIN Mods[p] : Timestamp(p, i) < Start[c])
              /\ \A d \in Children(p) : Start[c] = Start[d]
          BY ChildStarts, Records
        <4>2. CASE s \in {Timestamp(p, i) : i \in DOMAIN Mods[p]}
          BY <3>1, <4>1, <4>2
        <4>3. CASE s \in {Start[d] : d \in Children(p)}
          BY <3>1, <4>1, <4>3
        <4> QED BY <2>2, <4>2, <4>3
      <3> QED BY <1>1, <3>1, <3>2
    <2> QED BY <1>1, <2>1, <2>2
  <1> HIDE DEF T
  <1>4. S \in SUBSET (0 .. a + e) /\ S # {} /\ a \in S
    BY <1>1, <1>3
  <1> HIDE DEF S
  <1>5. Max(S) \in S /\ \A y \in S : Max(S) >= y
    <2>1. PICK n \in Nat : n = a + e
      BY <1>1
    <2>2. S \in SUBSET (0 .. n)
      BY <1>4, <2>1
    <2> QED BY <1>4, <2>2, MaxOf
  <1>6. LastClaimed(p) = Max(S)
    BY DEF LastClaimed, S, T
  <1> QED BY <1>1, <1>3, <1>4, <1>5, <1>6

\* The rows that the operations of the table leave.
LEMMA RowTypes ==
    ASSUME TypeInv
    PROVE  /\ \A S : Create(S) => row' \in [Partitions -> Row]
           /\ \A S, f : \A t \in {"SCHEDULED", "RUNNING", "FINISHED"} :
                 Updated(S, f, t) \in [Partitions -> Row]
           /\ \A p \in Partitions : \A w \in Nat :
                 [row EXCEPT ![p].watermark = w] \in [Partitions -> Row]
  <1>1. \A p \in Partitions : NewRow(p) \in Row /\ row[p] \in Row
    BY Records DEF NewRow, Row, TypeInv
  <1>2. \A S : Create(S) => row' \in [Partitions -> Row]
    BY <1>1 DEF Create, TypeInv
  <1>3. ASSUME NEW S, NEW f, NEW t \in {"SCHEDULED", "RUNNING", "FINISHED"}
        PROVE  Updated(S, f, t) \in [Partitions -> Row]
    <2>1. \A p \in Partitions : [row[p] EXCEPT !.state = t] \in Row
      BY <1>1 DEF Row
    <2> QED BY <1>1, <2>1 DEF Updated
  <1>4. ASSUME NEW p \in Partitions, NEW w \in Nat
        PROVE  [row EXCEPT ![p].watermark = w] \in [Partitions -> Row]
    BY DEF TypeInv, Row
  <1> QED BY <1>2, <1>3, <1>4

\* What Flush leaves of a batcher that offers nothing: everything is in the batch
\* it offers now.
LEMMA FlushEffect ==
    ASSUME TypeInv, NEW p \in Partitions, batcher[p].out = <<>>, reader[p].mod = 0
    PROVE  \E b \in Batcher(p) :
              /\ b = Flushed(p) /\ b.cached /\ b.stale = batcher[p].stale
              /\ b.flight = batcher[p].flight /\ b.nacked = batcher[p].nacked
              /\ b.buf = <<>> /\ b.last = 0 /\ Filled(b.out) /\ Len(b.out) \in {0, 1}
              /\ \/ batcher[p].buf = <<>> /\ b.out = <<>>
                 \/ /\ batcher[p].buf # <<>> /\ batcher[p].last \in Claimed(p)
                    /\ b.out = <<Batch(batcher[p].buf, Timestamp(p, batcher[p].last))>>
                    /\ Len(batcher[p].buf) \in 1 .. BatchSize
                    /\ Timestamp(p, batcher[p].last) \in Watermarks(p)
  <1>1. PICK b0 \in Batcher(p) : b0 = batcher[p]
    BY Cells
  <1>2. /\ b0.buf \in Seq(Messages(p)) /\ Len(b0.buf) \in Nat /\ b0.last \in {0} \cup Claimed(p)
        /\ b0.out = <<>> /\ Len(b0.buf) < BatchSize /\ (b0.buf # <<>> => b0.last # 0)
    BY <1>1, BatcherFields, Cells DEF BatcherFits
  <1>3. Len(<<>>) = 0 /\ Filled(<<>>) /\ <<>> \in Seq(Batches(p)) /\ <<>> \in Seq(Messages(p))
    BY NoBatcherType, EmptySeq
  <1>4. CASE b0.last = 0
    <2> DEFINE b == [b0 EXCEPT !.cached = TRUE]
    <2>1. b \in Batcher(p)
      BY DEF Batcher
    <2>2. /\ b.cached /\ b.stale = b0.stale /\ b.flight = b0.flight /\ b.nacked = b0.nacked
          /\ b.buf = b0.buf /\ b.last = b0.last /\ b.out = b0.out
      BY DEF Batcher
    <2>3. b = Flushed(p)
      BY <1>1, <1>4 DEF Flushed
    <2> HIDE DEF b
    <2> QED BY <1>1, <1>2, <1>3, <1>4, <2>1, <2>2, <2>3
  <1>5. CASE b0.last # 0
    <2> DEFINE o == IF b0.buf = <<>> THEN <<>> ELSE <<Batch(b0.buf, Timestamp(p, b0.last))>>
               b == [b0 EXCEPT !.cached = TRUE, !.buf = <<>>, !.last = 0, !.out = o]
    <2>1. b = Flushed(p)
      BY <1>1, <1>5 DEF Flushed
    <2>2. b0.last \in Claimed(p) /\ Timestamp(p, b0.last) \in Watermarks(p)
      BY <1>2, <1>5 DEF Watermarks
    <2>3. b0.buf # <<>> => Len(b0.buf) \in 1 .. BatchSize
      BY <1>2, Constants, EmptySeq
    <2>4. o \in Seq(Batches(p)) /\ Filled(o) /\ Len(o) \in {0, 1}
      BY <1>2, <1>3, <2>2, <2>3, OneBatch
    <2>5. o = IF b0.buf = <<>> THEN <<>> ELSE <<Batch(b0.buf, Timestamp(p, b0.last))>>
      OBVIOUS
    <2> HIDE DEF o
    <2>6. b \in Batcher(p)
      BY <1>3, <2>4 DEF Batcher
    <2>7. /\ b.cached /\ b.stale = b0.stale /\ b.flight = b0.flight /\ b.nacked = b0.nacked
          /\ b.buf = <<>> /\ b.last = 0 /\ b.out = o
      BY DEF Batcher
    <2> HIDE DEF b
    <2> QED BY <1>1, <2>1, <2>2, <2>3, <2>4, <2>5, <2>6, <2>7
  <1> QED BY <1>4, <1>5

\* A goroutine goes on, and its batcher stays as it is.
LEMMA TypeReader ==
    ASSUME TypeInv, NEW p \in Partitions,
           \/ QueryChangeStream(p) \/ SkipRecord(p) \/ HandleChildPartitionsRecords(p)
           \/ UpdateWatermark(p) \/ UpdateToFinished(p)
    PROVE  TypeInv'
  <1>1. PICK r0 \in Reader : r0 = reader[p] /\ ReaderFits(p, r0) /\ BatcherFits(p, r0, batcher[p])
    BY Cells
  <1>2. UNCHANGED <<conn, ended, minWatermark, resumed, batcher, delivered, overtaken, faults>>
    BY DEF QueryChangeStream, SkipRecord, HandleChildPartitionsRecords, UpdateWatermark,
           UpdateToFinished, subscriberVars, history
  <1>3. conn = "running"
    <2>1. reader[p] # NoReader
      BY DEF QueryChangeStream, SkipRecord, HandleChildPartitionsRecords, UpdateWatermark,
             UpdateToFinished, At, NoReader
    <2> QED BY <2>1, Cells
  <1>4. row' \in [Partitions -> Row]
    <2>1. CASE QueryChangeStream(p)
      BY <2>1, RowTypes DEF QueryChangeStream
    <2>2. CASE SkipRecord(p)
      BY <2>2 DEF SkipRecord, tableVars, TypeInv
    <2>3. CASE HandleChildPartitionsRecords(p)
      BY <2>3, RowTypes DEF HandleChildPartitionsRecords
    <2>4. CASE UpdateWatermark(p)
      BY <2>4, RowTypes, LastClaimedOf DEF UpdateWatermark
    <2>5. CASE UpdateToFinished(p)
      BY <2>5, RowTypes DEF UpdateToFinished
    <2> QED BY <2>1, <2>2, <2>3, <2>4, <2>5
  <1>5. \E r : reader' = [reader EXCEPT ![p] = r] /\ ReaderFits(p, r) /\ BatcherFits(p, r, batcher[p])
    <2>1. CASE QueryChangeStream(p)
      <3> DEFINE r == [pc |-> "read", rec |-> FirstRecord(p), mod |-> 0]
      <3>1. FirstRecord(p) \in 1 .. Len(Mods[p]) + 1
        <4>1. PICK w \in Nat, a \in Nat, l \in Nat : w = row[p].watermark /\ a = Start[p] /\ l = Len(Mods[p])
          BY Cells, Records DEF Row
        <4>2. CASE w < a
          BY <4>1, <4>2 DEF FirstRecord
        <4>3. CASE ~(w < a)
          <5>1. {w - a, l} \in SUBSET Nat /\ {w - a, l} # {}
            BY <4>1, <4>3
          <5>2. Min({w - a, l}) \in Nat /\ Min({w - a, l}) <= l
            BY <5>1, MinOf
          <5>3. FirstRecord(p) = Min({w - a, l}) + 1
            BY <4>1, <4>3 DEF FirstRecord
          <5> QED BY <4>1, <5>2, <5>3
        <4> QED BY <4>2, <4>3
      <3>2. r \in Reader /\ r.pc = "read" /\ r.rec = FirstRecord(p) /\ r.mod = 0 /\ ~(r.mod > 0)
        BY <3>1, Records DEF Reader
      <3>3. r.rec \in DOMAIN Mods[p] => 0 < Mods[p][r.rec]
        BY Records
      <3>4. ReaderFits(p, r)
        BY <3>1, <3>2, <3>3 DEF ReaderFits
      <3>5. r0.pc = "wait"
        BY <1>1, <2>1 DEF QueryChangeStream, At
      <3>6. BatcherFits(p, r, batcher[p])
        BY <1>1, <3>2, <3>5 DEF BatcherFits
      <3>7. reader' = [reader EXCEPT ![p] = r]
        BY <2>1 DEF QueryChangeStream
      <3> QED BY <3>4, <3>6, <3>7
    <2>2. CASE SkipRecord(p)
      <3> DEFINE r == [r0 EXCEPT !.rec = r0.rec + 1]
      <3>1. /\ r0.pc = "read" /\ r0.rec <= Len(Mods[p]) /\ r0.rec \in 1 .. Len(Mods[p]) + 1
            /\ ~TryClaim(Timestamp(p, r0.rec))
        BY <1>1, <2>2 DEF SkipRecord, At, ReaderFits
      <3>2. r \in Reader /\ r.pc = "read" /\ r.rec = r0.rec + 1 /\ r.mod = r0.mod
        BY <3>1 DEF Reader
      <3>3. ~(r0.mod > 0) /\ r0.mod \in Nat
        BY <1>1, <3>1 DEF ReaderFits, Claimed, Reader
      <3>4. r.mod = 0
        BY <3>2, <3>3
      <3>5. r.rec \in 1 .. Len(Mods[p]) + 1
        BY <3>1, <3>2, Records
      <3>6. r.rec \in DOMAIN Mods[p] => 0 < Mods[p][r.rec]
        BY Records
      <3>7. ReaderFits(p, r)
        BY <3>2, <3>3, <3>4, <3>5, <3>6 DEF ReaderFits
      <3>8. BatcherFits(p, r, batcher[p])
        BY <1>1, <3>1, <3>2 DEF BatcherFits
      <3>9. reader' = [reader EXCEPT ![p] = r]
        BY <1>1, <2>2 DEF SkipRecord
      <3> QED BY <3>7, <3>8, <3>9
    <2>3. CASE HandleChildPartitionsRecords(p)
      <3> DEFINE r == [r0 EXCEPT !.pc = "end"]
      <3>1. r0.pc = "read" /\ r0.rec > Len(Mods[p]) /\ r0.rec \in Nat /\ r0.mod \in Nat /\ batcher[p].out = <<>>
        BY <1>1, <2>3 DEF HandleChildPartitionsRecords, At, Reader
      <3>2. r \in Reader /\ r.pc = "end" /\ r.rec = r0.rec /\ r.mod = r0.mod
        BY DEF Reader
      <3>3. r0.rec \notin DOMAIN Mods[p]
        BY <3>1, Records
      <3>4. r0.mod = 0
        BY <1>1, <3>1, <3>3 DEF ReaderFits, Claimed
      <3>5. ReaderFits(p, r)
        BY <3>2, <3>4 DEF ReaderFits
      <3>6. BatcherFits(p, r, batcher[p])
        BY <1>1, <3>1, <3>2 DEF BatcherFits
      <3>7. reader' = [reader EXCEPT ![p] = r]
        BY <1>1, <2>3 DEF HandleChildPartitionsRecords
      <3> QED BY <3>5, <3>6, <3>7
    <2>4. CASE UpdateWatermark(p)
      <3> DEFINE r == [r0 EXCEPT !.pc = "finish"]
      <3>1. r0.pc = "mark"
        BY <1>1, <2>4 DEF UpdateWatermark, At
      <3>2. r \in Reader /\ r.pc = "finish" /\ r.mod = r0.mod
        BY DEF Reader
      <3>3. ReaderFits(p, r) /\ BatcherFits(p, r, batcher[p])
        BY <1>1, <3>1, <3>2 DEF ReaderFits, BatcherFits
      <3>4. reader' = [reader EXCEPT ![p] = r]
        BY <1>1, <2>4 DEF UpdateWatermark
      <3> QED BY <3>3, <3>4
    <2>5. CASE UpdateToFinished(p)
      <3>1. r0.pc = "finish" /\ r0.mod = 0 /\ NoReader.pc = "none" /\ NoReader.mod = 0 /\ ~(NoReader.mod > 0)
        BY <1>1, <2>5 DEF UpdateToFinished, At, ReaderFits, NoReader
      <3>2. BatcherFits(p, NoReader, batcher[p])
        BY <1>1, <3>1 DEF BatcherFits
      <3> QED BY <2>5, <3>2, NoReaderFits DEF UpdateToFinished
    <2> QED BY <2>1, <2>2, <2>3, <2>4, <2>5
  <1>6. batcher' = [batcher EXCEPT ![p] = batcher[p]]
    BY <1>2 DEF TypeInv
  <1>7. faults' \in 0 .. MaxFaults /\ UNCHANGED <<subscriberVars, delivered, overtaken>>
    BY <1>2 DEF TypeInv, subscriberVars
  <1> QED BY <1>3, <1>4, <1>5, <1>6, <1>7, TypeFrame

\* A batch is offered by a flush, is taken by ReadBatch, or a batcher is closed.
LEMMA TypeBatcher ==
    ASSUME TypeInv, NEW p \in Partitions,
           EndOfPartition(p) \/ PeriodicFlush(p) \/ ReadBatch(p) \/ CloseBatcher(p)
    PROVE  TypeInv'
  <1>1. PICK r0 \in Reader : r0 = reader[p] /\ ReaderFits(p, r0) /\ BatcherFits(p, r0, batcher[p])
    BY Cells
  <1>2. UNCHANGED <<row, conn, ended, minWatermark, resumed, delivered, overtaken, faults>>
    BY DEF EndOfPartition, PeriodicFlush, ReadBatch, CloseBatcher, tableVars, subscriberVars, history
  <1>3. \E r, b : /\ reader' = [reader EXCEPT ![p] = r] /\ batcher' = [batcher EXCEPT ![p] = b]
                  /\ ReaderFits(p, r) /\ BatcherFits(p, r, b)
                  /\ conn = "running" \/ r = reader[p]
    <2>1. CASE EndOfPartition(p)
      <3>1. r0.pc = "end" /\ r0.mod = 0 /\ batcher[p].out = <<>>
        BY <1>1, <2>1 DEF EndOfPartition, At, ReaderFits, BatcherFits
      <3>2. PICK b \in Batcher(p) :
               /\ b = Flushed(p) /\ b.cached /\ b.flight = batcher[p].flight
               /\ b.buf = <<>> /\ b.last = 0 /\ Filled(b.out) /\ Len(b.out) \in {0, 1}
        BY <1>1, <3>1, FlushEffect
      <3> DEFINE r == [r0 EXCEPT !.pc = "close"]
      <3>3. r \in Reader /\ r.pc = "close" /\ r.mod = 0
        BY <3>1 DEF Reader
      <3>4. ReaderFits(p, r)
        BY <3>3 DEF ReaderFits
      <3>5. Len(<<>>) = 0 /\ ~(r.mod > 0) /\ Filled(b.flight)
        BY <1>1, <3>2, <3>3 DEF BatcherFits
      <3>6. BatcherFits(p, r, b)
        BY <3>2, <3>3, <3>5, Constants DEF BatcherFits
      <3>7. reader' = [reader EXCEPT ![p] = r] /\ batcher' = [batcher EXCEPT ![p] = b]
        BY <1>1, <2>1, <3>2 DEF EndOfPartition
      <3>8. conn = "running"
        BY <1>1, <3>1, Cells DEF NoReader
      <3> QED BY <3>4, <3>6, <3>7, <3>8
    <2>2. CASE PeriodicFlush(p)
      <3>1. r0.pc = "read" /\ r0.mod = 0 /\ batcher[p].out = <<>>
        BY <1>1, <2>2 DEF PeriodicFlush, At
      <3>2. PICK b \in Batcher(p) :
               /\ b = Flushed(p) /\ b.cached /\ b.flight = batcher[p].flight
               /\ b.buf = <<>> /\ b.last = 0 /\ Filled(b.out) /\ Len(b.out) \in {0, 1}
        BY <1>1, <3>1, FlushEffect
      <3>3. Len(<<>>) = 0 /\ ~(r0.mod > 0) /\ Filled(b.flight)
        BY <1>1, <3>1, <3>2 DEF BatcherFits
      <3>4. BatcherFits(p, r0, b)
        BY <3>1, <3>2, <3>3, Constants DEF BatcherFits
      <3>5. batcher' = [batcher EXCEPT ![p] = b] /\ reader' = reader
        BY <2>2, <3>2 DEF PeriodicFlush
      <3>6. reader' = [reader EXCEPT ![p] = r0]
        BY <1>1, <3>5 DEF TypeInv
      <3> QED BY <1>1, <3>4, <3>5, <3>6
    <2>3. CASE ReadBatch(p)
      <3>1. PICK b0 \in Batcher(p) : b0 = batcher[p]
        BY Cells
      <3> DEFINE b == [b0 EXCEPT !.flight = b0.flight \o b0.out, !.out = <<>>]
      <3>2. batcher' = [batcher EXCEPT ![p] = b] /\ reader' = reader
        BY <2>3, <3>1 DEF ReadBatch, TypeInv
      <3>3. b0.out # <<>> /\ r0.pc \in {"read", "close"} /\ b0.cached
        BY <1>1, <2>3, <3>1 DEF ReadBatch, BatcherFits, Unused
      <3>4. b0.flight \in Seq(Batches(p)) /\ b0.out \in Seq(Batches(p)) /\ Len(b0.out) = 1
        BY <1>1, <3>1, <3>3, BatcherFields DEF BatcherFits
      <3> DEFINE f == b0.flight \o b0.out
      <3>5. /\ f \in Seq(Batches(p)) /\ Len(b0.flight) \in Nat
            /\ DOMAIN f = 1 .. Len(b0.flight) + 1
            /\ DOMAIN b0.flight = 1 .. Len(b0.flight) /\ DOMAIN b0.out = {1}
            /\ f[Len(b0.flight) + 1] = b0.out[1]
            /\ \A k \in 1 .. Len(b0.flight) : f[k] = b0.flight[k]
        <4>1. f \in Seq(Batches(p)) /\ IsJoined(f, b0.flight, b0.out)
          BY <3>4, Joined, Zenon
        <4> HIDE DEF f
        <4> QED BY <4>1 DEF IsJoined
      <3> HIDE DEF f
      <3>6. Filled(f)
        <4>1. Filled(b0.flight) /\ Filled(b0.out)
          BY <1>1, <3>1 DEF BatcherFits
        <4>3. ASSUME NEW k \in DOMAIN f
              PROVE  Len(f[k].msgs) \in 1 .. BatchSize
          <5>1. CASE k \in 1 .. Len(b0.flight)
            BY <3>5, <4>1, <5>1 DEF Filled, f
          <5>2. CASE k = Len(b0.flight) + 1
            BY <3>5, <4>1, <5>2 DEF Filled, f
          <5>3. k \in 1 .. Len(b0.flight) + 1 /\ Len(b0.flight) \in Nat
            BY <3>5, Zenon DEF f
          <5> QED BY <5>1, <5>2, <5>3
        <4> QED BY <4>3 DEF Filled
      <3>7. b \in Batcher(p)
        BY <3>5, EmptySeq DEF Batcher, f
      <3>8. /\ b.cached = b0.cached /\ b.flight = b0.flight \o b0.out /\ b.out = <<>>
            /\ b.buf = b0.buf /\ b.last = b0.last
        BY DEF Batcher
      <3>9. BatcherFits(p, r0, b)
        <4>1. Filled(<<>>) /\ Len(<<>>) = 0 /\ Filled(b.flight)
          BY <3>6, <3>8, NoBatcherType DEF f
        <4>2. /\ Len(b.buf) < BatchSize /\ (b.buf # <<>> => b.last # 0 /\ r0.mod = 0)
              /\ (r0.pc = "close" => b.buf = <<>> /\ b.last = 0)
          BY <1>1, <3>1, <3>8 DEF BatcherFits
        <4> HIDE DEF b
        <4> QED BY <3>3, <3>7, <3>8, <4>1, <4>2 DEF BatcherFits
      <3>10. reader' = [reader EXCEPT ![p] = r0]
        BY <1>1, <3>2 DEF TypeInv
      <3> QED BY <1>1, <3>2, <3>9, <3>10
    <2>4. CASE CloseBatcher(p)
      <3> DEFINE r == [r0 EXCEPT !.pc = "mark"]
      <3>1. r0.pc = "close" /\ r0.mod = 0
        BY <1>1, <2>4 DEF CloseBatcher, At, ReaderFits
      <3>2. r \in Reader /\ r.pc = "mark" /\ r.mod = 0
        BY <3>1 DEF Reader
      <3>3. ReaderFits(p, r)
        BY <3>2 DEF ReaderFits
      <3>4. BatcherFits(p, r, NoBatcher)
        BY <3>2, NoBatcherFits
      <3>5. reader' = [reader EXCEPT ![p] = r] /\ batcher' = [batcher EXCEPT ![p] = NoBatcher]
        BY <1>1, <2>4 DEF CloseBatcher
      <3>6. conn = "running"
        BY <1>1, <3>1, Cells DEF NoReader
      <3> QED BY <3>3, <3>4, <3>5, <3>6
    <2> QED BY <2>1, <2>2, <2>3, <2>4
  <1>4. row' \in [Partitions -> Row] /\ faults' \in 0 .. MaxFaults /\ UNCHANGED <<subscriberVars, delivered, overtaken>>
    BY <1>2 DEF TypeInv, subscriberVars
  <1> QED BY <1>3, <1>4, TypeFrame

\* The batcher of p after batch k is settled, with N for the rejected messages.
Settling(p, k, N) == [batcher[p] EXCEPT !.flight = RemoveAt(@, k), !.nacked = N]

LEMMA SettleEffect ==
    ASSUME TypeInv, NEW p \in Partitions, NEW k \in DOMAIN batcher[p].flight,
           NEW N \in SUBSET Messages(p)
    PROVE  LET b == Settling(p, k, N) IN
           /\ b \in Batcher(p) /\ BatcherFits(p, reader[p], b)
           /\ b.nacked = N /\ b.flight = RemoveAt(batcher[p].flight, k)
           /\ IsRemoved(b.flight, batcher[p].flight, k)
           /\ b.cached = batcher[p].cached /\ b.stale = batcher[p].stale /\ b.buf = batcher[p].buf
           /\ b.last = batcher[p].last /\ b.out = batcher[p].out
           /\ batcher[p].cached /\ reader[p].pc \notin {"mark", "finish"}
  <1>1. PICK b0 \in Batcher(p) : b0 = batcher[p]
    BY Cells
  <1>2. b0.flight \in Seq(Batches(p)) /\ k \in DOMAIN b0.flight
    BY <1>1, BatcherFields
  <1> DEFINE f == RemoveAt(b0.flight, k)
             b == [b0 EXCEPT !.flight = f, !.nacked = N]
  <1>3. f \in Seq(Batches(p)) /\ IsRemoved(f, b0.flight, k)
    BY <1>2, Removed, Zenon
  <1> HIDE DEF f
  <1>4. b \in Batcher(p)
    BY <1>3 DEF Batcher
  <1>5. /\ b.cached = b0.cached /\ b.stale = b0.stale /\ b.buf = b0.buf /\ b.nacked = N
        /\ b.last = b0.last /\ b.out = b0.out /\ b.flight = f
    BY DEF Batcher
  <1>6. b = Settling(p, k, N)
    BY <1>1 DEF Settling, f
  <1>7. Filled(f)
    <2>1. Filled(b0.flight)
      BY <1>1, Cells DEF BatcherFits
    <2>2. ASSUME NEW j \in DOMAIN f PROVE Len(f[j].msgs) \in 1 .. BatchSize
      <3>1. PICK n \in Nat : /\ n = Len(b0.flight) /\ k \in 1 .. n /\ j \in 1 .. n - 1 /\ DOMAIN b0.flight = 1 .. n
                             /\ f[j] = IF j < k THEN b0.flight[j] ELSE b0.flight[j + 1]
        BY <1>3 DEF IsRemoved
      <3>2. PICK i \in 1 .. n : f[j] = b0.flight[i]
        <4>1. j \in 1 .. n /\ j + 1 \in 1 .. n
          BY <3>1
        <4> QED BY <3>1, <4>1
      <3> QED BY <2>1, <3>1, <3>2 DEF Filled
    <2> QED BY <2>2 DEF Filled
  <1>8. b0.flight # <<>>
    BY <1>2
  <1>9. b0.cached /\ reader[p].pc \notin {"mark", "finish"}
    BY <1>1, <1>8, Cells DEF BatcherFits, Unused
  <1> HIDE DEF b
  <1>10. BatcherFits(p, reader[p], b)
    <2>1. BatcherFits(p, reader[p], b0)
      BY <1>1, Cells
    <2> QED BY <1>4, <1>5, <1>7, <1>9, <2>1 DEF BatcherFits
  <1>11. f = RemoveAt(batcher[p].flight, k)
    BY <1>1 DEF f
  <1> QED BY <1>1, <1>3, <1>4, <1>5, <1>6, <1>9, <1>10, <1>11

\* The messages of a batch in flight.
LEMMA SettledMessages ==
    ASSUME TypeInv, NEW p \in Partitions, NEW k \in DOMAIN batcher[p].flight
    PROVE  /\ Settled(p, k) \subseteq Messages(p) /\ batcher[p].nacked \subseteq Messages(p)
           /\ batcher[p].flight[k] \in Batches(p)
           /\ batcher[p].flight[k].watermark \in Watermarks(p) /\ batcher[p].flight[k].watermark \in Nat
           /\ Earlier(p, k) \subseteq Messages(p)
  <1>1. batcher[p].flight \in Seq(Batches(p)) /\ batcher[p].nacked \subseteq Messages(p)
    BY Cells, BatcherFields
  <1>2. ASSUME NEW j \in DOMAIN batcher[p].flight
        PROVE  Settled(p, j) \subseteq Messages(p) /\ batcher[p].flight[j] \in Batches(p)
    <2>1. batcher[p].flight[j] \in Batches(p)
      BY <1>1
    <2>2. batcher[p].flight[j].msgs \in Seq(Messages(p))
      BY <2>1 DEF Batches
    <2> QED BY <2>1, <2>2 DEF Settled, Range
  <1>3. batcher[p].flight[k].watermark \in Watermarks(p)
    BY <1>2 DEF Batches
  <1>4. batcher[p].flight[k].watermark \in Nat
    BY <1>3, Records DEF Watermarks, Claimed, ZeroTime
  <1>5. Earlier(p, k) \subseteq Messages(p)
    <2>1. \A j \in 1 .. k - 1 : j \in DOMAIN batcher[p].flight
      BY <1>1
    <2> QED BY <1>1, <1>2, <2>1 DEF Earlier
  <1> QED BY <1>1, <1>2, <1>3, <1>4, <1>5

\* A batch is settled.
LEMMA TypeSettle ==
    ASSUME TypeInv, NEW p \in Partitions, NEW k \in DOMAIN batcher[p].flight, Ack(p, k) \/ Nack(p, k)
    PROVE  TypeInv'
  <1> DEFINE S == Settled(p, k)
  <1>0. S \subseteq Messages(p) /\ batcher[p].nacked \subseteq Messages(p)
    BY SettledMessages
  <1>1. UNCHANGED <<conn, ended, minWatermark, resumed, reader>>
    BY DEF Ack, Nack, subscriberVars
  <1>2. PICK N \in SUBSET Messages(p) : batcher' = [batcher EXCEPT ![p] = Settling(p, k, N)]
    <2>1. CASE Ack(p, k)
      <3>1. batcher' = [batcher EXCEPT ![p] = Settling(p, k, batcher[p].nacked)]
        <4>1. PICK b0 \in Batcher(p) : b0 = batcher[p]
          BY Cells
        <4>2. [b0 EXCEPT !.flight = RemoveAt(b0.flight, k)]
                = [b0 EXCEPT !.flight = RemoveAt(b0.flight, k), !.nacked = b0.nacked]
          BY DEF Batcher
        <4> QED BY <2>1, <4>1, <4>2 DEF Ack, Settling
      <3> QED BY <1>0, <3>1
    <2>2. CASE Nack(p, k)
      <3>1. batcher' = [batcher EXCEPT ![p] = Settling(p, k, batcher[p].nacked \cup S)]
        <4>1. PICK b0 \in Batcher(p) : b0 = batcher[p]
          BY Cells
        <4> QED BY <2>2, <4>1 DEF Nack, Settling, TypeInv
      <3> QED BY <1>0, <3>1
    <2> QED BY <2>1, <2>2
  <1>3. /\ batcher' = [q \in Partitions |-> batcher'[q]]
        /\ \A q \in Partitions : batcher'[q] = IF q = p THEN Settling(p, k, N) ELSE batcher[q]
    BY <1>2 DEF TypeInv
  <1>4. BatcherFits(p, reader[p], Settling(p, k, N))
    BY SettleEffect
  <1>5. row' \in [Partitions -> Row]
    BY RowTypes, SettledMessages DEF Ack, Nack, TypeInv, tableVars
  <1>6. faults' \in 0 .. MaxFaults
    BY Constants DEF Ack, Nack, Fault, TypeInv
  <1>7. /\ delivered' = [q \in Partitions |-> delivered'[q]] /\ overtaken' = [q \in Partitions |-> overtaken'[q]]
        /\ \A q \in Partitions : delivered'[q] \subseteq Messages(q) /\ overtaken'[q] \subseteq Messages(q)
    <2>1. CASE Ack(p, k)
      <3>1. PICK O \in SUBSET Messages(p) : overtaken' = [overtaken EXCEPT ![p] = O]
        <4>1. overtaken[p] \ S \in SUBSET Messages(p)
          BY Cells
        <4>2. (overtaken[p] \cup Earlier(p, k)) \ delivered'[p] \in SUBSET Messages(p)
          BY Cells, SettledMessages
        <4> QED BY <2>1, <4>1, <4>2 DEF Ack
      <3>2. PICK D \in SUBSET Messages(p) : delivered' = [delivered EXCEPT ![p] = D]
        BY <1>0, <2>1, Cells DEF Ack
      <3> QED BY <3>1, <3>2 DEF TypeInv
    <2>2. CASE Nack(p, k)
      BY <2>2 DEF Nack, history, TypeInv
    <2> QED BY <2>1, <2>2
  <1>8. ASSUME NEW q \in Partitions
        PROVE  /\ ReaderFits(q, reader[q]) /\ BatcherFits(q, reader[q], batcher'[q])
               /\ conn # "running" => reader[q] = NoReader
    BY <1>3, <1>4, Cells
  <1> QED BY <1>1, <1>3, <1>5, <1>6, <1>7, <1>8 DEF TypeInv

\* A connection is lost: what its batchers offered is gone.
LEMMA AbortEffect ==
    ASSUME TypeInv, NEW p \in Partitions, Abort
    PROVE  /\ reader'[p] = NoReader /\ batcher'[p] \in Batcher(p) /\ BatcherFits(p, NoReader, batcher'[p])
           /\ batcher'[p].out = <<>> /\ batcher'[p].buf = batcher[p].buf
           /\ batcher'[p].flight = batcher[p].flight /\ batcher'[p].nacked = batcher[p].nacked
           /\ batcher'[p].stale = batcher[p].cached /\ batcher'[p].cached = batcher[p].cached
           /\ batcher'[p].last = IF reader[p].mod > 0 THEN reader[p].rec ELSE batcher[p].last
  <1>1. PICK b0 \in Batcher(p), r0 \in Reader : b0 = batcher[p] /\ r0 = reader[p]
    BY Cells
  <1> DEFINE l == IF r0.mod > 0 THEN r0.rec ELSE b0.last
             b == [b0 EXCEPT !.out = <<>>, !.stale = b0.cached, !.first = TRUE, !.last = l]
  <1>2. batcher'[p] = b /\ reader'[p] = NoReader
    <2>1. batcher'[p] = Disconnected(p) /\ reader'[p] = NoReader
      BY DEF Abort
    <2>2. Disconnected(p) = b
      BY <1>1, Zenon DEF Disconnected
    <2> QED BY <2>1, <2>2
  <1>3. l \in {0} \cup Claimed(p)
    BY <1>1, Cells, BatcherFields DEF ReaderFits
  <1>4. l = IF r0.mod > 0 THEN r0.rec ELSE b0.last
    OBVIOUS
  <1> HIDE DEF l
  <1>5. <<>> \in Seq(Batches(p)) /\ b0.cached \in BOOLEAN
    BY EmptySeq DEF Batcher
  <1>6. b \in Batcher(p)
    BY <1>3, <1>5 DEF Batcher
  <1>7. /\ b.out = <<>> /\ b.buf = b0.buf /\ b.flight = b0.flight /\ b.nacked = b0.nacked
        /\ b.stale = b0.cached /\ b.cached = b0.cached /\ b.last = l
    BY DEF Batcher
  <1>8. BatcherFits(p, r0, b0)
    BY <1>1, Cells
  <1>9. ~b0.cached => Unused(b)
    <2>1. ~b0.cached => Unused(b0) /\ ~(r0.mod > 0)
      BY <1>8 DEF BatcherFits
    <2> QED BY <1>4, <1>7, <2>1 DEF Unused
  <1>10. b.buf # <<>> => b.last # 0
    <2>1. b0.buf # <<>> => b0.last # 0 /\ r0.mod = 0 /\ ~(r0.mod > 0)
      BY <1>8 DEF BatcherFits
    <2> QED BY <1>4, <1>7, <2>1
  <1> HIDE DEF b
  <1>11. BatcherFits(p, NoReader, b)
    <2>1. Len(<<>>) = 0 /\ Filled(<<>>)
      BY NoBatcherType
    <2>2. NoReader.mod = 0 /\ NoReader.pc = "none" /\ ~(NoReader.mod > 0)
      BY DEF NoReader
    <2> QED BY <1>6, <1>7, <1>8, <1>9, <1>10, <2>1, <2>2 DEF BatcherFits
  <1> QED BY <1>1, <1>2, <1>4, <1>6, <1>7, <1>11

\* A connection or the process goes down.
LEMMA TypeDown ==
    ASSUME TypeInv, Stop \/ Crash \/ \E p \in Partitions : CallbackFails(p)
    PROVE  TypeInv'
  <1>1. /\ conn' = "down" /\ reader' = [p \in Partitions |-> NoReader]
        /\ UNCHANGED <<row, ended, minWatermark, resumed, delivered, overtaken>>
        /\ faults' \in 0 .. MaxFaults
    <2>1. CASE Abort /\ (Fault \/ UNCHANGED faults)
      <3>1. /\ conn' = "down" /\ reader' = [p \in Partitions |-> NoReader]
            /\ UNCHANGED <<row, ended, minWatermark, resumed, delivered, overtaken>>
        BY <2>1 DEF Abort, tableVars, history
      <3>2. faults' \in 0 .. MaxFaults
        BY <2>1, Constants DEF Fault, TypeInv
      <3> QED BY <3>1, <3>2
    <2>2. CASE Crash
      BY <2>2, Constants DEF Crash, Fault, TypeInv, tableVars, history
    <2> QED BY <2>1, <2>2 DEF Stop, CallbackFails
  <1>2. reader' \in [Partitions -> Reader]
    BY <1>1 DEF NoReader, Reader
  <1>3. batcher' = [p \in Partitions |-> batcher'[p]]
    <2>1. CASE Abort
      BY <2>1 DEF Abort
    <2>2. CASE Crash
      BY <2>2 DEF Crash
    <2> QED BY <2>1, <2>2 DEF Stop, CallbackFails
  <1>4. ASSUME NEW p \in Partitions
        PROVE  /\ ReaderFits(p, reader'[p]) /\ BatcherFits(p, reader'[p], batcher'[p]) /\ reader'[p] = NoReader
    <2>1. reader'[p] = NoReader /\ NoReader.mod = 0
      BY <1>1 DEF NoReader
    <2>2. CASE Abort
      BY <2>1, <2>2, AbortEffect, NoReaderFits
    <2>3. CASE Crash
      <3>1. batcher'[p] = NoBatcher
        BY <2>3 DEF Crash
      <3> QED BY <2>1, <3>1, NoReaderFits, NoBatcherFits
    <2> QED BY <2>2, <2>3 DEF Stop, CallbackFails
  <1> QED BY <1>1, <1>2, <1>3, <1>4 DEF TypeInv

\* The partitions of S get goroutines that wait, those that have none.
LEMMA ScheduledFits ==
    ASSUME TypeInv, NEW S, \A p \in S \cap Partitions : reader[p].pc \in {"none", "wait"}, NEW p \in Partitions
    PROVE  /\ Scheduled(S) \in [Partitions -> Reader]
           /\ ReaderFits(p, Scheduled(S)[p]) /\ BatcherFits(p, Scheduled(S)[p], batcher[p])
           /\ Scheduled(S)[p].mod = reader[p].mod
           /\ Scheduled(S)[p] = IF p \in S THEN [NoReader EXCEPT !.pc = "wait"] ELSE reader[p]
  <1> DEFINE w == [NoReader EXCEPT !.pc = "wait"]
  <1>1. w \in Reader /\ w.pc = "wait" /\ w.mod = 0
    BY DEF NoReader, Reader
  <1>2. Scheduled(S) \in [Partitions -> Reader] /\ Scheduled(S)[p] = IF p \in S THEN w ELSE reader[p]
    BY <1>1 DEF Scheduled, TypeInv
  <1>3. ReaderFits(p, w)
    BY <1>1 DEF ReaderFits
  <1> HIDE DEF w
  <1>4. ASSUME p \in S PROVE BatcherFits(p, w, batcher[p]) /\ reader[p].mod = 0
    <2>1. reader[p].pc \in {"none", "wait"} /\ ReaderFits(p, reader[p]) /\ BatcherFits(p, reader[p], batcher[p])
      BY <1>4, Cells
    <2>2. reader[p].mod = 0
      BY <2>1 DEF ReaderFits
    <2> QED BY <1>1, <2>1, <2>2 DEF BatcherFits
  <1>5. CASE p \in S
    BY <1>1, <1>2, <1>3, <1>4, <1>5 DEF w
  <1>6. CASE p \notin S
    BY <1>2, <1>6, Cells
  <1> QED BY <1>5, <1>6

-----------------------------------------------------------------------------
(* The table of partitions.                                                *)

LEMMA States ==
    ASSUME TypeInv, NEW p \in Partitions
    PROVE  State(p) \in {"ABSENT", "CREATED", "SCHEDULED", "RUNNING", "FINISHED"} /\ row[p].watermark \in Nat
  BY Cells DEF State, Row

\* When no unfinished partition is before w, no unknown one starts before w: the
\* first of those would have an unknown parent before it, or one that is finished
\* and has announced it.
LEMMA UnknownAfter ==
    ASSUME TypeInv, GraphInv, conn = "running", NEW w \in Nat,
           \A p \in Unfinished : w <= row[p].watermark
    PROVE  \A p \in Expected : State(p) = "ABSENT" => w <= Start[p]
  <1> DEFINE Bad == {p \in Expected : State(p) = "ABSENT" /\ ~(w <= Start[p])}
             S == {Start[p] : p \in Bad}
  <1>1. SUFFICES ASSUME Bad # {} PROVE FALSE
    OBVIOUS
  <1>2. \A p \in Bad : p \in Partitions /\ Start[p] \in Nat
    BY Records DEF Expected
  <1>3. S \in SUBSET Nat /\ S # {}
    BY <1>1, <1>2
  <1>4. PICK n \in S : \A m \in S : n <= m
    BY <1>3, Least
  <1>5. PICK q \in Bad : n = Start[q]
    BY <1>4
  <1>6. q \in Partitions /\ q \in Expected /\ State(q) = "ABSENT" /\ ~(w <= Start[q]) /\ Start[q] \in Nat /\ Start[q] < End
    BY <1>2 DEF Expected
  <1>7. q \notin Roots
    BY <1>6 DEF GraphInv, SearchOK, InState, State
  <1>8. PICK p \in Partitions : p \in Parents[q]
    BY <1>6, <1>7, Records DEF Roots
  <1>9. q \in Children(p) /\ Start[p] \in Nat /\ Start[q] > Start[p]
    <2>1. q \in Children(p)
      BY <1>6, <1>8 DEF Children
    <2> QED BY <2>1, ChildStarts, Records
  <1>10. State(p) # "ABSENT"
    <2> SUFFICES ASSUME State(p) = "ABSENT" PROVE FALSE
      OBVIOUS
    <2>1. Start[p] < End /\ ~(w <= Start[p])
      BY <1>6, <1>9, Constants
    <2>2. Start[p] \in S
      BY <2>1 DEF Expected
    <2>3. Start[q] <= Start[p]
      BY <1>4, <1>5, <2>2
    <2> QED BY <1>6, <1>9, <2>3
  <1>11. State(p) # "FINISHED"
    BY <1>6, <1>9 DEF GraphInv, RowOK, Announced, TryClaim
  <1>12. p \in Unfinished
    BY <1>10, <1>11, States DEF Unfinished, InState, State
  <1>13. row[p].watermark <= Start[q] /\ row[p].watermark \in Nat
    BY <1>9, <1>10, States DEF GraphInv, RowOK
  <1>14. w <= row[p].watermark
    BY <1>12
  <1> QED BY <1>6, <1>13, <1>14

\* The minimum over the unfinished partitions.
LEMMA UnfinishedMin ==
    ASSUME TypeInv, GraphInv
    PROVE  /\ GetUnfinishedMinWatermark \in Nat
           /\ GetUnfinishedMinWatermark = ZeroTime => Unfinished = {}
           /\ GetUnfinishedMinWatermark <= End
           /\ GetUnfinishedMinWatermark # ZeroTime => \A p \in Unfinished : GetUnfinishedMinWatermark <= row[p].watermark
  <1> DEFINE S == {row[p].watermark : p \in Unfinished}
  <1>1. ASSUME NEW p \in Unfinished PROVE row[p].watermark \in Nat /\ row[p].watermark > 0 /\ row[p].watermark <= End
    <2>1. p \in Partitions /\ State(p) # "ABSENT"
      BY DEF Unfinished, InState, State
    <2>2. row[p].watermark \in 1 .. End - 1
      BY <2>1 DEF GraphInv, RowOK
    <2> QED BY <2>2, Constants
  <1>2. S \in SUBSET Nat
    BY <1>1
  <1>3. CASE Unfinished = {}
    BY <1>3, Constants DEF GetUnfinishedMinWatermark, Unfinished, ZeroTime
  <1>4. CASE Unfinished # {}
    <2>1. S # {}
      BY <1>4
    <2>2. Min(S) \in S /\ \A y \in S : Min(S) <= y
      BY <1>2, <2>1, MinOf
    <2>3. GetUnfinishedMinWatermark = Min(S)
      BY <1>4 DEF GetUnfinishedMinWatermark, Unfinished
    <2>4. Min(S) \in Nat /\ Min(S) > 0 /\ Min(S) <= End
      BY <1>1, <2>2
    <2>5. Min(S) # 0
      BY <2>4
    <2> QED BY <2>2, <2>3, <2>4, <2>5 DEF ZeroTime
  <1> QED BY <1>3, <1>4

\* What one turn of the search finds.
LEMMA SearchMinimum ==
    ASSUME TypeInv, GraphInv, conn = "running",
           NEW min \in {GetUnfinishedMinWatermark} \cup ({minWatermark} \ {ZeroTime})
    PROVE  /\ min \in Nat /\ min <= End
           /\ min = ZeroTime => Expected \subseteq InState({"FINISHED"})
           /\ \A p \in Expected : State(p) \in {"ABSENT", "CREATED"} => min <= Start[p]
  <1>1. min \in Nat /\ min <= End
    BY UnfinishedMin DEF TypeInv, GraphInv, SearchOK
  <1>2. CASE min = ZeroTime
    <2>1. Unfinished = {}
      BY <1>2, UnfinishedMin
    <2>2. \A p \in Expected : State(p) = "ABSENT" => End <= Start[p]
      BY <2>1, Constants, UnknownAfter
    <2>3. ASSUME NEW p \in Expected PROVE p \in InState({"FINISHED"}) /\ State(p) = "FINISHED"
      <3>1. p \in Partitions /\ Start[p] < End /\ Start[p] \in Nat
        BY Records DEF Expected
      <3>2. State(p) # "ABSENT"
        BY <2>2, <3>1, Constants
      <3>3. State(p) = "FINISHED"
        BY <2>1, <3>1, <3>2, States DEF Unfinished, InState, State
      <3> QED BY <3>1, <3>3 DEF InState, State
    <2>4. \A p \in Expected : ~(State(p) \in {"ABSENT", "CREATED"})
      BY <2>3
    <2> QED BY <1>1, <2>3, <2>4
  <1>3. CASE min # ZeroTime /\ min = GetUnfinishedMinWatermark
    <2>1. \A p \in Unfinished : min <= row[p].watermark
      BY <1>3, UnfinishedMin
    <2>2. \A p \in Expected : State(p) = "ABSENT" => min <= Start[p]
      BY <1>1, <2>1, UnknownAfter
    <2>3. ASSUME NEW p \in Expected, State(p) = "CREATED" PROVE min <= Start[p]
      <3>1. p \in Unfinished /\ row[p].watermark = Start[p]
        BY <2>3 DEF Expected, Unfinished, InState, State, GraphInv, RowOK
      <3> QED BY <2>1, <3>1
    <2> QED BY <1>1, <1>3, <2>2, <2>3
  <1>4. CASE min # ZeroTime /\ min = minWatermark
    BY <1>1, <1>4 DEF GraphInv, SearchOK
  <1> QED BY <1>2, <1>3, <1>4

\* A step of the subscriber, which may start goroutines.
LEMMA TypeSubscriber ==
    ASSUME TypeInv, GraphInv, SubscriberStep
    PROVE  TypeInv'
  <1>1. UNCHANGED <<batcher, delivered, overtaken, faults>>
    BY DEF SubscriberStep, Connect, CreateRoot, Run, DetectNewPartitions, RunReturns, history
  <1>2. row' \in [Partitions -> Row]
    <2>1. CASE DetectNewPartitions
      BY <2>1, RowTypes DEF DetectNewPartitions, TypeInv
    <2>2. CASE \E p \in Partitions : CreateRoot(p)
      BY <2>2, RowTypes DEF CreateRoot
    <2>3. CASE Connect \/ Run \/ RunReturns
      BY <2>3 DEF Connect, Run, RunReturns, tableVars, TypeInv
    <2> QED BY <2>1, <2>2, <2>3 DEF SubscriberStep
  <1>3. conn' \in {"down", "setup", "running"} /\ resumed' \subseteq Partitions
    BY DEF SubscriberStep, Connect, CreateRoot, Run, DetectNewPartitions, RunReturns, subscriberVars, TypeInv,
           GetInterruptedPartitions, InState
  <1>4. ended' \in BOOLEAN
    BY Zenon DEF SubscriberStep, Connect, CreateRoot, Run, DetectNewPartitions, RunReturns, subscriberVars, TypeInv
  <1>5. minWatermark' \in Nat
    <2>1. CASE DetectNewPartitions
      <3>1. conn = "running"
        BY <2>1 DEF DetectNewPartitions
      <3>2. PICK min \in {GetUnfinishedMinWatermark} \cup ({minWatermark} \ {ZeroTime}) :
               minWatermark' = IF min = ZeroTime THEN minWatermark ELSE min
        BY <2>1 DEF DetectNewPartitions
      <3> QED BY <3>1, <3>2, SearchMinimum DEF TypeInv
    <2>2. CASE Connect \/ Run \/ RunReturns \/ \E p \in Partitions : CreateRoot(p)
      <3>1. minWatermark' = ZeroTime \/ minWatermark' = minWatermark
        BY <2>2 DEF Connect, Run, RunReturns, CreateRoot, subscriberVars
      <3> QED BY <3>1 DEF ZeroTime, TypeInv
    <2> QED BY <2>1, <2>2 DEF SubscriberStep
  <1>6. \/ reader' = reader /\ (conn = "running" => conn' = "running" \/ \A p \in Partitions : reader[p] = NoReader)
        \/ /\ conn' = "running"
           /\ \E S : reader' = Scheduled(S) /\ \A p \in S \cap Partitions : reader[p].pc \in {"none", "wait"}
    <2>1. CASE Run
      <3>1. \A p \in Partitions : reader[p].pc = "none"
        BY <2>1, Cells DEF Run, NoReader
      <3> QED BY <2>1, <3>1 DEF Run
    <2>2. CASE DetectNewPartitions
      <3>1. \A p \in InState({"CREATED"}) : reader[p].pc = "none"
        BY DEF GraphInv, GoroutineOK, InState, State
      <3>2. \A m : FirstGroup(GetPartitionsCreatedAfter(m)) \subseteq InState({"CREATED"})
        BY DEF FirstGroup, GetPartitionsCreatedAfter
      <3>3. conn' = "running"
        BY <2>2 DEF DetectNewPartitions
      <3>4. reader' = reader \/ \E m : reader' = Scheduled(FirstGroup(GetPartitionsCreatedAfter(m)))
        BY <2>2 DEF DetectNewPartitions
      <3>5. CASE reader' = reader
        BY <3>3, <3>5
      <3>6. ASSUME NEW m, reader' = Scheduled(FirstGroup(GetPartitionsCreatedAfter(m)))
            PROVE  \E S : reader' = Scheduled(S) /\ \A p \in S \cap Partitions : reader[p].pc \in {"none", "wait"}
        BY <3>1, <3>2, <3>6
      <3> QED BY <3>3, <3>4, <3>5, <3>6
    <2>3. CASE Connect \/ RunReturns \/ \E p \in Partitions : CreateRoot(p)
      BY <2>3 DEF Connect, CreateRoot, RunReturns, subscriberVars
    <2> QED BY <2>1, <2>2, <2>3 DEF SubscriberStep
  <1>7. /\ reader' \in [Partitions -> Reader]
        /\ \A p \in Partitions : /\ ReaderFits(p, reader'[p]) /\ BatcherFits(p, reader'[p], batcher[p])
                                 /\ conn' # "running" => reader'[p] = NoReader
    <2>1. CASE reader' = reader /\ (conn = "running" => conn' = "running" \/ \A p \in Partitions : reader[p] = NoReader)
      BY <2>1, Cells DEF TypeInv
    <2>2. ASSUME conn' = "running", NEW S, reader' = Scheduled(S),
                 \A p \in S \cap Partitions : reader[p].pc \in {"none", "wait"}
          PROVE  /\ reader' \in [Partitions -> Reader]
                 /\ \A p \in Partitions : ReaderFits(p, reader'[p]) /\ BatcherFits(p, reader'[p], batcher[p])
      <3>1. ASSUME NEW p \in Partitions
            PROVE  ReaderFits(p, reader'[p]) /\ BatcherFits(p, reader'[p], batcher[p])
        BY <2>2, ScheduledFits
      <3>2. \A p \in Partitions : NoReader \in Reader /\ [NoReader EXCEPT !.pc = "wait"] \in Reader
        BY DEF NoReader, Reader
      <3>3. reader' \in [Partitions -> Reader]
        BY <2>2, <3>2 DEF Scheduled, TypeInv
      <3> QED BY <3>1, <3>3
    <2> QED BY <1>6, <2>1, <2>2
  <1> QED BY <1>1, <1>2, <1>3, <1>4, <1>5, <1>7 DEF TypeInv

LEMMA TypeStep == TypeInv /\ GraphInv /\ [Next]_vars => TypeInv'
  <1> SUFFICES ASSUME TypeInv, GraphInv, [Next]_vars PROVE TypeInv'
    OBVIOUS
  <1>1. CASE SubscriberStep
    BY <1>1, TypeSubscriber
  <1>2. ASSUME NEW p \in Partitions, ReaderStep(p) PROVE TypeInv'
    <2>1. CASE CallbackFails(p)
      BY <2>1, TypeDown
    <2>2. CASE EndOfPartition(p) \/ CloseBatcher(p)
      BY <2>2, TypeBatcher
    <2>3. CASE OnDataChangeRecord(p)
      BY <2>3, TypeRecord
    <2>4. CASE \/ QueryChangeStream(p) \/ SkipRecord(p) \/ HandleChildPartitionsRecords(p)
               \/ UpdateWatermark(p) \/ UpdateToFinished(p)
      BY <2>4, TypeReader
    <2> QED BY <1>2, <2>1, <2>2, <2>3, <2>4 DEF ReaderStep
  <1>3. ASSUME NEW p \in Partitions, PeriodicFlush(p) \/ ReadBatch(p) PROVE TypeInv'
    BY <1>3, TypeBatcher
  <1>4. ASSUME NEW p \in Partitions, NEW k \in DOMAIN batcher[p].flight, Ack(p, k) \/ Nack(p, k) PROVE TypeInv'
    BY <1>4, TypeSettle
  <1>5. CASE Stop \/ Crash
    BY <1>5, TypeDown
  <1>6. CASE UNCHANGED vars
    <2>1. UNCHANGED <<row, conn, ended, minWatermark, resumed, reader, batcher, delivered, overtaken, faults>>
      BY <1>6 DEF vars
    <2> QED BY <2>1 DEF TypeInv, ReaderFits, BatcherFits
  <1> QED BY <1>1, <1>2, <1>3, <1>4, <1>5, <1>6 DEF Next

LEMMA TypeImplies == TypeInv => TypeOK
  <1> SUFFICES ASSUME TypeInv PROVE TypeOK
    OBVIOUS
  <1>1. ASSUME NEW p \in Partitions
        PROVE  /\ conn # "running" => reader[p] = NoReader
               /\ Len(batcher[p].buf) < BatchSize
               /\ \A x \in Range(batcher[p].out \o batcher[p].flight) :
                     Len(x.msgs) \in 1 .. BatchSize /\ x.watermark \in Nat
               /\ batcher[p].buf # <<>> /\ reader[p].mod = 0 => batcher[p].last # 0
               /\ delivered[p] \cup overtaken[p] \subseteq Messages(p)
    <2>1. BatcherFits(p, reader[p], batcher[p])
      BY Cells
    <2>2. PICK o \in Seq(Batches(p)), f \in Seq(Batches(p)) : o = batcher[p].out /\ f = batcher[p].flight
      BY Cells, BatcherFields
    <2>3. Range(o \o f) = Range(o) \cup Range(f)
      BY <2>2, RangeConcatenation
    <2>4. Filled(o) /\ Filled(f)
      BY <2>1, <2>2 DEF BatcherFits
    <2>5. ASSUME NEW s \in Seq(Batches(p)), Filled(s), NEW x \in Range(s)
          PROVE  Len(x.msgs) \in 1 .. BatchSize /\ x.watermark \in Nat
      <3>1. PICK k \in DOMAIN s : x = s[k]
        BY DEF Range
      <3>2. x \in Batches(p) /\ Len(x.msgs) \in 1 .. BatchSize
        BY <2>5, <3>1 DEF Filled
      <3>3. x.watermark \in Watermarks(p)
        BY <3>2 DEF Batches
      <3>4. x.watermark \in Nat
        BY <3>3, Records DEF Watermarks, Claimed, ZeroTime
      <3> QED BY <3>2, <3>4
    <2>6. \A x \in Range(batcher[p].out \o batcher[p].flight) :
             Len(x.msgs) \in 1 .. BatchSize /\ x.watermark \in Nat
      BY <2>2, <2>3, <2>4, <2>5
    <2>7. Len(batcher[p].buf) < BatchSize /\ (batcher[p].buf # <<>> => batcher[p].last # 0)
      BY <2>1 DEF BatcherFits
    <2> QED BY <2>6, <2>7, Cells
  <1>2. ended \in BOOLEAN
    BY Zenon DEF TypeInv
  <1>3. /\ row \in [Partitions -> Row] /\ conn \in {"down", "setup", "running"}
        /\ minWatermark \in Nat /\ resumed \subseteq Partitions
        /\ reader \in [Partitions -> Reader] /\ faults \in 0 .. MaxFaults
    BY DEF TypeInv
  <1> QED BY <1>1, <1>2, <1>3 DEF TypeOK

\* Steps that leave the table alone keep what holds of it.
LEMMA GraphQuiet ==
    ASSUME TypeInv, GraphInv, UNCHANGED row, SearchOK',
           \A p \in Partitions :
              /\ reader'[p].pc # "none" => State(p) \in {"SCHEDULED", "RUNNING"}
              /\ reader'[p].pc \notin {"none", "wait"} \/ batcher'[p].cached => State(p) = "RUNNING"
              /\ delivered'[p] # {} => State(p) \in {"RUNNING", "FINISHED"}
              /\ reader'[p].pc \in {"end", "close", "mark", "finish"} => Announced(p)
    PROVE  GraphInv'
  <1>1. \A p \in Partitions : State(p)' = State(p)
    BY DEF State
  <1>2. InState({"FINISHED"})' = InState({"FINISHED"})
    BY DEF InState
  <1>3. ASSUME NEW p \in Partitions PROVE Announced(p)' = Announced(p) /\ RowOK(p)'
    <2>1. \A c \in Children(p) : c \in Partitions
      BY DEF Children
    <2>2. Announced(p)' = Announced(p)
      BY <1>1, <2>1 DEF Announced
    <2>3. RowOK(p)
      BY DEF GraphInv
    <2> QED BY <1>1, <1>2, <2>1, <2>2, <2>3 DEF RowOK
  <1>4. ASSUME NEW p \in Partitions PROVE GoroutineOK(p)'
    BY <1>1, <1>3 DEF GoroutineOK
  <1> QED BY <1>3, <1>4 DEF GraphInv

\* The search is not disturbed by a step that leaves it alone, and only takes
\* rows from one unfinished state to the next.
LEMMA SearchQuiet ==
    ASSUME TypeInv, GraphInv, UNCHANGED <<ended, minWatermark>>, conn' = conn \/ conn' = "down",
           \A p \in Partitions :
              /\ State(p)' = "ABSENT" => State(p) = "ABSENT"
              /\ State(p)' = "CREATED" => State(p) \in {"ABSENT", "CREATED"}
              /\ State(p) = "FINISHED" => State(p)' = "FINISHED"
    PROVE  SearchOK'
  <1>1. \A p \in Expected : p \in Partitions
    BY DEF Expected
  <1>2. InState({"ABSENT"})' \subseteq InState({"ABSENT"}) /\ InState({"FINISHED"}) \subseteq InState({"FINISHED"})'
    BY DEF InState, State
  <1>3. SearchOK
    BY DEF GraphInv
  <1>4. EndsComplete'
    BY <1>2, <1>3 DEF SearchOK, EndsComplete
  <1>5. conn' # "down" => \A p \in Expected : State(p)' \in {"ABSENT", "CREATED"} => minWatermark <= Start[p]
    BY <1>1, <1>3 DEF SearchOK
  <1>6. /\ conn' = "setup" => ~ended
        /\ conn' = "running" => Roots \cap InState({"ABSENT"})' = {}
        /\ minWatermark <= End
    BY <1>2, <1>3 DEF SearchOK
  <1> QED BY <1>4, <1>5, <1>6 DEF SearchOK

\* The steps of a goroutine that read records, of the pipeline that takes
\* batches, and the loss of a connection or of the process.
LEMMA GraphData ==
    ASSUME TypeInv, GraphInv, NEW p \in Partitions,
           \/ SkipRecord(p) \/ OnDataChangeRecord(p) \/ EndOfPartition(p) \/ CloseBatcher(p)
           \/ PeriodicFlush(p) \/ ReadBatch(p)
    PROVE  GraphInv'
  <1>1. UNCHANGED <<row, conn, ended, minWatermark, delivered>>
    BY DEF SkipRecord, OnDataChangeRecord, EndOfPartition, CloseBatcher, PeriodicFlush, ReadBatch,
           tableVars, subscriberVars, history
  <1>2. SearchOK'
    BY <1>1, SearchQuiet DEF State
  <1>3. \A q \in Partitions : q # p => reader'[q] = reader[q] /\ batcher'[q] = batcher[q]
    BY DEF SkipRecord, OnDataChangeRecord, EndOfPartition, CloseBatcher, PeriodicFlush, ReadBatch, TypeInv
  <1>4. \/ /\ reader[p].pc \in {"read", "end", "close"} /\ reader'[p].pc \in {"read", "end", "close", "mark"}
           /\ reader'[p].pc # "read" => reader[p].pc # "read"
        \/ reader'[p].pc = reader[p].pc /\ batcher'[p].cached = batcher[p].cached
    <2>1. PICK r0 \in Reader : r0 = reader[p]
      BY Cells
    <2>2. CASE SkipRecord(p)
      <3>1. reader'[p] = [r0 EXCEPT !.rec = r0.rec + 1] /\ r0.pc = "read"
        BY <2>1, <2>2 DEF SkipRecord, At, TypeInv
      <3> QED BY <2>1, <3>1 DEF Reader
    <2>3. CASE OnDataChangeRecord(p)
      <3>1. PICK r \in Reader : reader' = [reader EXCEPT ![p] = r] /\ r.pc = "read"
        BY <2>3, RecordEffect
      <3>2. reader'[p] = r
        BY <3>1 DEF TypeInv
      <3> QED BY <2>3, <3>1, <3>2, RecordEffect DEF At
    <2>4. CASE EndOfPartition(p)
      <3>1. reader'[p] = [r0 EXCEPT !.pc = "close"] /\ r0.pc = "end"
        BY <2>1, <2>4 DEF EndOfPartition, At, TypeInv
      <3> QED BY <2>1, <3>1 DEF Reader
    <2>5. CASE CloseBatcher(p)
      <3>1. reader'[p] = [r0 EXCEPT !.pc = "mark"] /\ r0.pc = "close"
        BY <2>1, <2>5 DEF CloseBatcher, At, TypeInv
      <3> QED BY <2>1, <3>1 DEF Reader
    <2>6. CASE PeriodicFlush(p)
      BY <2>6 DEF PeriodicFlush, At
    <2>7. CASE ReadBatch(p)
      <3>1. PICK b0 \in Batcher(p) : b0 = batcher[p]
        BY Cells
      <3>2. batcher'[p] = [b0 EXCEPT !.flight = b0.flight \o b0.out, !.out = <<>>]
        BY <2>7, <3>1 DEF ReadBatch, TypeInv
      <3>3. batcher'[p].cached = b0.cached
        BY <3>2 DEF Batcher
      <3> QED BY <2>7, <3>1, <3>3 DEF ReadBatch
    <2> QED BY <2>2, <2>3, <2>4, <2>5, <2>6, <2>7
  <1>5. ASSUME NEW q \in Partitions
        PROVE  /\ reader'[q].pc # "none" => State(q) \in {"SCHEDULED", "RUNNING"}
               /\ reader'[q].pc \notin {"none", "wait"} \/ batcher'[q].cached => State(q) = "RUNNING"
               /\ delivered'[q] # {} => State(q) \in {"RUNNING", "FINISHED"}
               /\ reader'[q].pc \in {"end", "close", "mark", "finish"} => Announced(q)
    <2>1. GoroutineOK(q)
      BY DEF GraphInv
    <2>2. CASE q # p
      BY <1>1, <1>3, <2>1, <2>2 DEF GoroutineOK
    <2>3. CASE q = p
      BY <1>1, <1>4, <2>1, <2>3 DEF GoroutineOK
    <2> QED BY <2>2, <2>3
  <1> QED BY <1>1, <1>2, <1>5, GraphQuiet

LEMMA GraphDown ==
    ASSUME TypeInv, GraphInv, Stop \/ Crash \/ \E p \in Partitions : CallbackFails(p)
    PROVE  GraphInv'
  <1>1. /\ conn' = "down" /\ UNCHANGED <<row, ended, minWatermark, delivered>>
        /\ reader' = [p \in Partitions |-> NoReader]
    BY DEF Stop, CallbackFails, Crash, Abort, tableVars, history
  <1>2. SearchOK'
    BY <1>1, SearchQuiet DEF State
  <1>3. ASSUME NEW p \in Partitions PROVE reader'[p].pc = "none" /\ (batcher'[p].cached => batcher[p].cached)
    <2>1. reader'[p].pc = "none"
      BY <1>1 DEF NoReader
    <2>2. CASE Abort
      BY <2>1, <2>2, AbortEffect
    <2>3. CASE Crash
      BY <2>1, <2>3, NoBatcherType DEF Crash
    <2> QED BY <2>2, <2>3 DEF Stop, CallbackFails
  <1> QED BY <1>1, <1>2, <1>3, GraphQuiet DEF GraphInv, GoroutineOK

\* What the three ways to write to the table do.
LEMMA Writes ==
    ASSUME TypeInv, NEW q \in Partitions
    PROVE  /\ \A S, f : \A t \in {"SCHEDULED", "RUNNING", "FINISHED"} : row' = Updated(S, f, t) =>
                 State(q)' = (IF q \in S /\ State(q) = f THEN t ELSE State(q)) /\ row'[q].watermark = row[q].watermark
           /\ \A S : Create(S) /\ S \subseteq InState({"ABSENT"}) =>
                 /\ State(q)' = IF q \in S THEN "CREATED" ELSE State(q)
                 /\ row'[q].watermark = IF q \in S THEN Start[q] ELSE row[q].watermark
           /\ \A S : Create(S) /\ ~(S \subseteq InState({"ABSENT"})) => row' = row
           /\ \A p \in Partitions : \A w \in Nat : row' = [row EXCEPT ![p].watermark = w] =>
                 State(q)' = State(q) /\ row'[q].watermark = IF q = p THEN w ELSE row[q].watermark
  <1>1. PICK x \in Row : x = row[q]
    BY Cells
  <1>2. ASSUME NEW S, NEW f, NEW t \in {"SCHEDULED", "RUNNING", "FINISHED"}, row' = Updated(S, f, t)
        PROVE  State(q)' = (IF q \in S /\ State(q) = f THEN t ELSE State(q)) /\ row'[q].watermark = row[q].watermark
    <2>1. row'[q] = IF q \in S /\ x.state = f THEN [x EXCEPT !.state = t] ELSE x
      BY <1>1, <1>2 DEF Updated
    <2>2. row'[q].state = (IF q \in S /\ x.state = f THEN t ELSE x.state) /\ row'[q].watermark = x.watermark
      BY <2>1 DEF Row
    <2> QED BY <1>1, <2>2 DEF State
  <1>3. ASSUME NEW S, Create(S), S \subseteq InState({"ABSENT"})
        PROVE  /\ State(q)' = IF q \in S THEN "CREATED" ELSE State(q)
               /\ row'[q].watermark = IF q \in S THEN Start[q] ELSE row[q].watermark
    <2>1. row'[q] = IF q \in S THEN NewRow(q) ELSE row[q]
      BY <1>3 DEF Create
    <2> QED BY <2>1 DEF State, NewRow
  <1>4. ASSUME NEW p \in Partitions, NEW w \in Nat, row' = [row EXCEPT ![p].watermark = w]
        PROVE  State(q)' = State(q) /\ row'[q].watermark = IF q = p THEN w ELSE row[q].watermark
    <2>1. row'[q] = IF q = p THEN [x EXCEPT !.watermark = w] ELSE x
      BY <1>1, <1>4 DEF TypeInv
    <2>2. row'[q].state = x.state /\ row'[q].watermark = IF q = p THEN w ELSE x.watermark
      BY <2>1 DEF Row
    <2> QED BY <1>1, <2>2 DEF State
  <1>5. \A S : Create(S) /\ ~(S \subseteq InState({"ABSENT"})) => row' = row
    BY DEF Create
  <1> QED BY <1>2, <1>3, <1>4, <1>5

LEMMA Stored ==
    ASSUME TypeInv, NEW p \in Partitions, NEW w \in Nat, row' = [row EXCEPT ![p].watermark = w]
    PROVE  State(p)' = State(p) /\ row'[p].watermark = w
  <1>1. PICK x \in Row : x = row[p]
    BY Cells
  <1>2. row'[p] = [x EXCEPT !.watermark = w]
    BY <1>1 DEF TypeInv
  <1>3. row'[p].state = x.state /\ row'[p].watermark = w
    BY <1>1, <1>2 DEF Row
  <1> QED BY <1>1, <1>3 DEF State

\* Rows stay in order when partitions only move forward, and finish last.
LEMMA RowMoves ==
    ASSUME TypeInv, GraphInv,
           \A q \in Partitions :
              /\ State(q)' = "ABSENT" => State(q) = "ABSENT"
              /\ State(q) = "FINISHED" => State(q)' = "FINISHED"
              /\ State(q)' \in {"RUNNING", "FINISHED"} =>
                    State(q) \in {"RUNNING", "FINISHED"} \/ Parents[q] \subseteq InState({"FINISHED"})
              /\ State(q)' # "ABSENT" =>
                    \/ State(q) # "ABSENT" /\ row'[q].watermark = row[q].watermark
                    \/ /\ row'[q].watermark \in 1 .. End - 1 /\ Start[q] < End
                       /\ \A c \in Children(q) : row'[q].watermark <= Start[c]
              /\ State(q)' = "CREATED" =>
                    \/ State(q) = "CREATED" /\ row'[q].watermark = row[q].watermark
                    \/ row'[q].watermark = Start[q]
              /\ State(q)' = "FINISHED" => State(q) = "FINISHED" \/ Announced(q)
              /\ \A c, d \in Children(q) : State(c)' = "ABSENT" => State(d)' = "ABSENT"
    PROVE  \A q \in Partitions : RowOK(q)' /\ (Announced(q) => Announced(q)')
  <1>1. InState({"FINISHED"}) \subseteq InState({"FINISHED"})'
    BY DEF InState, State
  <1>2. ASSUME NEW q \in Partitions PROVE Announced(q) => Announced(q)'
    <2>1. \A c \in Children(q) : c \in Partitions
      BY DEF Children
    <2> QED BY <2>1 DEF Announced
  <1>3. ASSUME NEW q \in Partitions PROVE RowOK(q)'
    <2>1. RowOK(q)
      BY DEF GraphInv
    <2>2. State(q)' \in {"RUNNING", "FINISHED"} => Parents[q] \subseteq InState({"FINISHED"})'
      BY <1>1, <2>1 DEF RowOK
    <2>3. State(q)' # "ABSENT" =>
             /\ row'[q].watermark \in 1 .. End - 1 /\ Start[q] < End
             /\ \A c \in Children(q) : row'[q].watermark <= Start[c]
      BY <2>1 DEF RowOK
    <2>4. State(q)' = "CREATED" => row'[q].watermark = Start[q]
      BY <2>1 DEF RowOK
    <2>5. State(q)' = "FINISHED" => Announced(q)'
      BY <1>2, <2>1 DEF RowOK
    <2> QED BY <2>2, <2>3, <2>4, <2>5 DEF RowOK
  <1> QED BY <1>2, <1>3

\* New rows, of a root or of all children of a partition.
LEMMA GraphCreate ==
    ASSUME TypeInv, GraphInv, NEW S \in SUBSET Partitions, S \subseteq InState({"ABSENT"}), Create(S),
           \A p \in S : Start[p] < End,
           \A p \in Partitions : Children(p) \cap S = {} \/ Children(p) \subseteq S,
           UNCHANGED <<conn, ended, minWatermark>>
    PROVE  SearchOK' /\ \A q \in Partitions : RowOK(q)' /\ (Announced(q) => Announced(q)')
  <1>1. \A q \in Partitions : /\ State(q)' = IF q \in S THEN "CREATED" ELSE State(q)
                              /\ row'[q].watermark = IF q \in S THEN Start[q] ELSE row[q].watermark
    BY Writes
  <1>2. \A q \in S : State(q) = "ABSENT"
    BY DEF InState, State
  <1>3. SearchOK'
    BY <1>1, <1>2, SearchQuiet
  <1>4. ASSUME NEW q \in Partitions
        PROVE  /\ State(q)' = "ABSENT" => State(q) = "ABSENT"
               /\ State(q) = "FINISHED" => State(q)' = "FINISHED"
               /\ State(q)' \in {"RUNNING", "FINISHED"} => State(q) \in {"RUNNING", "FINISHED"}
               /\ State(q)' = "FINISHED" => State(q) = "FINISHED"
    BY <1>1, <1>2
  <1>5. ASSUME NEW q \in Partitions
        PROVE  /\ State(q)' # "ABSENT" =>
                     \/ State(q) # "ABSENT" /\ row'[q].watermark = row[q].watermark
                     \/ /\ row'[q].watermark \in 1 .. End - 1 /\ Start[q] < End
                        /\ \A c \in Children(q) : row'[q].watermark <= Start[c]
               /\ State(q)' = "CREATED" =>
                     \/ State(q) = "CREATED" /\ row'[q].watermark = row[q].watermark
                     \/ row'[q].watermark = Start[q]
    <2>1. CASE q \in S
      <3>1. row'[q].watermark = Start[q] /\ Start[q] < End /\ Start[q] \in Nat /\ Start[q] > 0
        BY <1>1, <2>1, Records
      <3>2. \A c \in Children(q) : Start[q] <= Start[c]
        <4>1. ASSUME NEW c \in Children(q) PROVE Start[c] \in Nat /\ Start[c] > Start[q]
          BY ChildStarts, Records
        <4> QED BY <3>1, <4>1
      <3> QED BY <3>1, <3>2, Constants
    <2>2. CASE q \notin S
      BY <1>1, <2>2
    <2> QED BY <2>1, <2>2
  <1>6. ASSUME NEW q \in Partitions, NEW c \in Children(q), NEW d \in Children(q), State(c)' = "ABSENT"
        PROVE  State(d)' = "ABSENT"
    <2>1. c \in Partitions /\ d \in Partitions
      BY DEF Children
    <2>2. c \notin S /\ State(c) = "ABSENT"
      BY <1>1, <1>6, <2>1
    <2>3. d \notin S
      BY <1>6, <2>2
    <2>4. State(d) = "ABSENT"
      BY <1>6, <2>2 DEF GraphInv, RowOK
    <2> QED BY <1>1, <2>1, <2>3, <2>4
  <1> QED BY <1>3, <1>4, <1>5, <1>6, RowMoves

LEMMA GraphRoot ==
    ASSUME TypeInv, GraphInv, NEW p \in Partitions, CreateRoot(p)
    PROVE  GraphInv'
  <1>1. /\ p \in Roots /\ {p} \subseteq InState({"ABSENT"}) /\ Create({p})
        /\ UNCHANGED <<conn, ended, minWatermark, reader, batcher, delivered>>
    BY DEF CreateRoot, subscriberVars, history
  <1>2. Start[p] < End /\ \A q \in Partitions : Children(q) \cap {p} = {}
    BY <1>1, SpannerAssumption DEF Roots, Children
  <1>3. SearchOK' /\ \A q \in Partitions : RowOK(q)' /\ (Announced(q) => Announced(q)')
    BY <1>1, <1>2, GraphCreate
  <1>4. \A q \in Partitions : State(q)' = IF q \in {p} THEN "CREATED" ELSE State(q)
    BY <1>1, Writes
  <1>5. State(p) = "ABSENT"
    BY <1>1 DEF InState, State
  <1>6. ASSUME NEW q \in Partitions PROVE GoroutineOK(q)'
    <2>1. GoroutineOK(q)
      BY DEF GraphInv
    <2>2. CASE q = p
      BY <1>1, <1>3, <1>5, <2>1, <2>2 DEF GoroutineOK
    <2>3. CASE q # p
      BY <1>1, <1>3, <1>4, <2>1, <2>3 DEF GoroutineOK
    <2> QED BY <2>2, <2>3
  <1> QED BY <1>3, <1>6 DEF GraphInv

\* The children of a partition get their rows together, from it or from another
\* of their parents.
LEMMA GraphChildren ==
    ASSUME TypeInv, GraphInv, NEW p \in Partitions, HandleChildPartitionsRecords(p)
    PROVE  GraphInv'
  <1> DEFINE S == {c \in Children(p) : TryClaim(Start[c])}
  <1>1. /\ At(p, "read") /\ Create(S)
        /\ UNCHANGED <<conn, ended, minWatermark, batcher, delivered>>
    BY DEF HandleChildPartitionsRecords, subscriberVars, history
  <1>2. reader' = [reader EXCEPT ![p] = [reader[p] EXCEPT !.pc = "end"]]
    BY DEF HandleChildPartitionsRecords
  <1>3. reader'[p].pc = "end" /\ reader[p].pc = "read" /\ \A q \in Partitions : q # p => reader'[q] = reader[q]
    <2>1. PICK r0 \in Reader : r0 = reader[p]
      BY Cells
    <2>2. reader'[p] = [r0 EXCEPT !.pc = "end"]
      BY <1>2, <2>1 DEF TypeInv
    <2>3. reader'[p].pc = "end"
      BY <2>2 DEF Reader
    <2> QED BY <1>1, <1>2, <2>3 DEF At, TypeInv
  <1>4. S \in SUBSET Partitions /\ (\A c \in S : Start[c] < End)
    BY DEF Children, TryClaim
  <1>5. ASSUME NEW q \in Partitions PROVE Children(q) \cap S = {} \/ Children(q) \subseteq S
    <2> SUFFICES ASSUME NEW c \in S, c \in Children(q) PROVE Children(q) \subseteq S
      BY DEF Children
    <2>1. c \in Children(p) /\ TryClaim(Start[c])
      OBVIOUS
    <2>2. Children(p) = Children(q)
      BY <2>1, SpannerAssumption
    <2>3. \A d \in Children(p) : Start[d] = Start[c]
      BY <2>1, ChildStarts
    <2> QED BY <2>1, <2>2, <2>3
  <1>6. GoroutineOK(p) /\ State(p) = "RUNNING"
    BY <1>3 DEF GraphInv, GoroutineOK
  <1>7. CASE S \subseteq InState({"ABSENT"})
    <2>1. SearchOK' /\ \A q \in Partitions : RowOK(q)' /\ (Announced(q) => Announced(q)')
      BY <1>1, <1>4, <1>5, <1>7, GraphCreate
    <2>2. \A q \in Partitions : State(q)' = IF q \in S THEN "CREATED" ELSE State(q)
      BY <1>1, <1>7, Writes
    <2>3. \A q \in S : State(q) = "ABSENT"
      BY <1>7 DEF InState, State
    <2>4. Announced(p)'
      <3>1. ASSUME NEW c \in Children(p), TryClaim(Start[c]) PROVE State(c)' # "ABSENT"
        BY <1>4, <2>2, <3>1
      <3> QED BY <3>1 DEF Announced
    <2> HIDE DEF S
    <2>5. ASSUME NEW q \in Partitions PROVE GoroutineOK(q)'
      <3>1. GoroutineOK(q)
        BY DEF GraphInv
      <3>2. CASE q = p
        <4>1. q \notin S /\ State(q)' = "RUNNING"
          BY <1>6, <2>2, <2>3, <3>2
        <4> QED BY <1>1, <2>4, <3>2, <4>1 DEF GoroutineOK
      <3>3. CASE q # p /\ q \in S
        <4>1. State(q) = "ABSENT" /\ reader'[q] = reader[q]
          BY <1>3, <2>3, <3>3
        <4> QED BY <1>1, <3>1, <4>1 DEF GoroutineOK
      <3>4. CASE q # p /\ q \notin S
        <4>1. State(q)' = State(q) /\ reader'[q] = reader[q]
          BY <1>3, <2>2, <3>4
        <4> QED BY <1>1, <2>1, <3>1, <4>1 DEF GoroutineOK
      <3> QED BY <3>2, <3>3, <3>4
    <2> QED BY <2>1, <2>5 DEF GraphInv
  <1>8. CASE ~(S \subseteq InState({"ABSENT"}))
    <2>1. row' = row
      BY <1>1, <1>8 DEF Create
    <2>2. SearchOK'
      BY <1>1, <2>1, SearchQuiet DEF State
    <2>3. PICK c \in S : c \notin InState({"ABSENT"})
      BY <1>8
    <2>4. c \in Children(p) /\ State(c) # "ABSENT"
      BY <2>3 DEF InState, State, Children
    <2>5. RowOK(p)
      BY DEF GraphInv
    <2>6. \A d \in Children(p) : State(d) # "ABSENT"
      BY <2>4, <2>5 DEF RowOK
    <2>7. Announced(p)
      BY <2>6 DEF Announced
    <2> HIDE DEF S
    <2>8. ASSUME NEW q \in Partitions
          PROVE  /\ reader'[q].pc # "none" => State(q) \in {"SCHEDULED", "RUNNING"}
                 /\ reader'[q].pc \notin {"none", "wait"} \/ batcher'[q].cached => State(q) = "RUNNING"
                 /\ delivered'[q] # {} => State(q) \in {"RUNNING", "FINISHED"}
                 /\ reader'[q].pc \in {"end", "close", "mark", "finish"} => Announced(q)
      <3>1. GoroutineOK(q)
        BY DEF GraphInv
      <3>2. CASE q = p
        BY <1>1, <1>6, <2>7, <3>2
      <3>3. CASE q # p
        BY <1>1, <1>3, <3>1, <3>3 DEF GoroutineOK
      <3> QED BY <3>2, <3>3
    <2> QED BY <2>1, <2>2, <2>8, GraphQuiet
  <1> QED BY <1>7, <1>8

\* A partition is scheduled, runs, or finishes.
LEMMA GraphUpdated ==
    ASSUME TypeInv, GraphInv, NEW S, NEW f, NEW t, row' = Updated(S, f, t),
           \/ f = "CREATED" /\ t = "SCHEDULED"
           \/ f = "SCHEDULED" /\ t = "RUNNING" /\ \A p \in S : Parents[p] \subseteq InState({"FINISHED"})
           \/ f = "RUNNING" /\ t = "FINISHED" /\ \A p \in S : Announced(p)
    PROVE  \A q \in Partitions : /\ RowOK(q)' /\ (Announced(q) => Announced(q)')
                                 /\ State(q)' = IF q \in S /\ State(q) = f THEN t ELSE State(q)
  <1>1. t \in {"SCHEDULED", "RUNNING", "FINISHED"} /\ f # "ABSENT" /\ t # "ABSENT"
    OBVIOUS
  <1>2. \A q \in Partitions : /\ State(q)' = IF q \in S /\ State(q) = f THEN t ELSE State(q)
                              /\ row'[q].watermark = row[q].watermark
    BY <1>1, Writes
  <1>3. ASSUME NEW q \in Partitions, NEW c \in Children(q), NEW d \in Children(q), State(c)' = "ABSENT"
        PROVE  State(d)' = "ABSENT"
    <2>1. c \in Partitions /\ d \in Partitions /\ State(c) = "ABSENT"
      BY <1>1, <1>2, <1>3 DEF Children
    <2>2. State(d) = "ABSENT"
      BY <1>3, <2>1 DEF GraphInv, RowOK
    <2> QED BY <1>1, <1>2, <2>1, <2>2
  <1>4. ASSUME NEW q \in Partitions
        PROVE  /\ State(q)' = "ABSENT" => State(q) = "ABSENT"
               /\ State(q) = "FINISHED" => State(q)' = "FINISHED"
               /\ State(q)' \in {"RUNNING", "FINISHED"} =>
                    State(q) \in {"RUNNING", "FINISHED"} \/ Parents[q] \subseteq InState({"FINISHED"})
               /\ State(q)' # "ABSENT" => State(q) # "ABSENT" /\ row'[q].watermark = row[q].watermark
               /\ State(q)' = "CREATED" => State(q) = "CREATED" /\ row'[q].watermark = row[q].watermark
               /\ State(q)' = "FINISHED" => State(q) = "FINISHED" \/ Announced(q)
    BY <1>2
  <1>5. \A q \in Partitions : RowOK(q)' /\ (Announced(q) => Announced(q)')
    BY <1>3, <1>4, RowMoves
  <1> QED BY <1>2, <1>5

\* One turn of the search.
LEMMA GraphDetect ==
    ASSUME TypeInv, GraphInv, DetectNewPartitions
    PROVE  GraphInv'
  <1>1. conn = "running" /\ ~ended /\ UNCHANGED <<conn, batcher, delivered>>
    BY DEF DetectNewPartitions, history
  <1>2. PICK min \in {GetUnfinishedMinWatermark} \cup ({minWatermark} \ {ZeroTime}) :
           /\ minWatermark' = IF min = ZeroTime THEN minWatermark ELSE min
           /\ \/ EndOfStream(min) /\ ended' = TRUE /\ UNCHANGED <<row, reader>>
              \/ /\ ~EndOfStream(min)
                 /\ row' = Updated(FirstGroup(GetPartitionsCreatedAfter(min)), "CREATED", "SCHEDULED")
                 /\ reader' = Scheduled(FirstGroup(GetPartitionsCreatedAfter(min)))
                 /\ UNCHANGED ended
    BY DEF DetectNewPartitions
  <1>3. /\ min \in Nat /\ min <= End
        /\ min = ZeroTime => Expected \subseteq InState({"FINISHED"})
        /\ \A p \in Expected : State(p) \in {"ABSENT", "CREATED"} => min <= Start[p]
    BY <1>1, SearchMinimum
  <1>4. SearchOK
    BY DEF GraphInv
  <1>5. minWatermark' <= End /\ \A p \in Expected : State(p) \in {"ABSENT", "CREATED"} => minWatermark' <= Start[p]
    <2>1. CASE min = ZeroTime
      BY <1>1, <1>2, <1>4, <2>1 DEF SearchOK
    <2>2. CASE min # ZeroTime
      BY <1>2, <1>3, <2>2
    <2> QED BY <2>1, <2>2
  <1>6. CASE EndOfStream(min) /\ ended' = TRUE /\ UNCHANGED <<row, reader>>
    <2>1. min = ZeroTime
      BY <1>3, <1>6, Constants DEF EndOfStream
    <2>2. Expected \subseteq InState({"FINISHED"})'
      BY <1>3, <1>6, <2>1 DEF InState
    <2>3. EndsComplete'
      BY <2>2 DEF EndsComplete
    <2>4. Roots \cap InState({"ABSENT"})' = {} /\ \A p \in Partitions : State(p)' = State(p)
      BY <1>1, <1>4, <1>6 DEF SearchOK, InState, State
    <2>5. \A p \in Expected : State(p)' = State(p)
      BY <2>4 DEF Expected
    <2>6. SearchOK'
      BY <1>1, <1>5, <2>3, <2>4, <2>5 DEF SearchOK
    <2> QED BY <1>1, <1>6, <2>6, GraphQuiet DEF GraphInv, GoroutineOK
  <1>7. CASE /\ row' = Updated(FirstGroup(GetPartitionsCreatedAfter(min)), "CREATED", "SCHEDULED")
             /\ reader' = Scheduled(FirstGroup(GetPartitionsCreatedAfter(min)))
             /\ UNCHANGED ended
    <2> DEFINE G == FirstGroup(GetPartitionsCreatedAfter(min))
    <2>1. \A p \in G : p \in Partitions /\ State(p) = "CREATED"
      BY DEF FirstGroup, GetPartitionsCreatedAfter, InState, State
    <2> HIDE DEF G
    <2>2. row' = Updated(G, "CREATED", "SCHEDULED") /\ reader' = Scheduled(G)
      BY <1>7 DEF G
    <2>3. \A q \in Partitions : /\ RowOK(q)' /\ (Announced(q) => Announced(q)')
                                /\ State(q)' = IF q \in G /\ State(q) = "CREATED" THEN "SCHEDULED" ELSE State(q)
      BY <2>2, GraphUpdated
    <2>4. \A q \in Partitions : State(q)' = IF q \in G THEN "SCHEDULED" ELSE State(q)
      BY <2>1, <2>3
    <2>5. ASSUME NEW q \in Partitions PROVE GoroutineOK(q)'
      <3>1. GoroutineOK(q)
        BY DEF GraphInv
      <3>2. reader'[q] = IF q \in G THEN [NoReader EXCEPT !.pc = "wait"] ELSE reader[q]
        BY <2>2 DEF Scheduled
      <3>3. CASE q \in G
        <4>1. State(q)' = "SCHEDULED" /\ State(q) = "CREATED" /\ reader'[q].pc = "wait"
          BY <2>1, <2>4, <3>2, <3>3 DEF NoReader
        <4> QED BY <1>1, <3>1, <4>1 DEF GoroutineOK
      <3>4. CASE q \notin G
        <4>1. State(q)' = State(q) /\ reader'[q] = reader[q]
          BY <2>4, <3>2, <3>4
        <4> QED BY <1>1, <2>3, <3>1, <4>1 DEF GoroutineOK
      <3> QED BY <3>3, <3>4
    <2>6. SearchOK'
      <3>1. InState({"ABSENT"})' \subseteq InState({"ABSENT"})
        BY <2>4 DEF InState, State
      <3>2. \A p \in Expected : p \in Partitions
        BY DEF Expected
      <3>3. \A p \in Expected : State(p)' \in {"ABSENT", "CREATED"} => State(p) \in {"ABSENT", "CREATED"}
        BY <2>4, <3>2
      <3>4. ~ended'
        BY <1>1, <1>7
      <3> QED BY <1>1, <1>4, <1>5, <3>1, <3>3, <3>4 DEF SearchOK, EndsComplete
    <2> QED BY <2>3, <2>5, <2>6 DEF GraphInv
  <1> QED BY <1>2, <1>6, <1>7

LEMMA GraphSubscriber ==
    ASSUME TypeInv, GraphInv, SubscriberStep
    PROVE  GraphInv'
  <1>1. CASE Connect
    <2>1. UNCHANGED <<row, reader, batcher, delivered>> /\ conn' = "setup" /\ ended' = FALSE /\ minWatermark' = 0
      BY <1>1 DEF Connect, tableVars, history, ZeroTime
    <2>2. \A p \in Expected : 0 <= Start[p]
      BY Records DEF Expected
    <2>3. SearchOK'
      BY <2>1, <2>2, Constants DEF SearchOK, EndsComplete
    <2> QED BY <2>1, <2>3, GraphQuiet DEF GraphInv, GoroutineOK
  <1>2. ASSUME NEW p \in Partitions, CreateRoot(p) PROVE GraphInv'
    BY <1>2, GraphRoot
  <1>3. CASE Run
    <2>1. /\ UNCHANGED <<row, ended, minWatermark, batcher, delivered>> /\ conn = "setup" /\ conn' = "running"
          /\ Roots \cap InState({"ABSENT"}) = {} /\ reader' = Scheduled(GetInterruptedPartitions)
      BY <1>3 DEF Run, tableVars, history
    <2>2. SearchOK
      BY DEF GraphInv
    <2>3. InState({"ABSENT"})' = InState({"ABSENT"}) /\ \A p : State(p)' = State(p)
      BY <2>1 DEF InState, State
    <2>4. ~ended'
      BY <2>1, <2>2 DEF SearchOK
    <2>5. SearchOK'
      BY <2>1, <2>2, <2>3, <2>4 DEF SearchOK, EndsComplete
    <2>6. ASSUME NEW q \in Partitions
          PROVE  /\ reader'[q].pc # "none" => State(q) \in {"SCHEDULED", "RUNNING"}
                 /\ reader'[q].pc \in {"none", "wait"}
      <3>1. reader'[q] = IF q \in GetInterruptedPartitions THEN [NoReader EXCEPT !.pc = "wait"] ELSE reader[q]
        BY <2>1 DEF Scheduled
      <3>2. reader[q] = NoReader
        BY <2>1, Cells
      <3> QED BY <3>1, <3>2 DEF NoReader, GetInterruptedPartitions, InState, State
    <2> QED BY <2>1, <2>5, <2>6, GraphQuiet DEF GraphInv, GoroutineOK
  <1>4. CASE DetectNewPartitions
    BY <1>4, GraphDetect
  <1>5. CASE RunReturns
    <2>1. UNCHANGED <<row, ended, minWatermark, reader, batcher, delivered>> /\ conn' = "down"
      BY <1>5 DEF RunReturns, tableVars, history
    <2>2. SearchOK'
      BY <2>1, SearchQuiet DEF State
    <2> QED BY <2>1, <2>2, GraphQuiet DEF GraphInv, GoroutineOK
  <1> QED BY <1>1, <1>2, <1>3, <1>4, <1>5 DEF SubscriberStep

\* A goroutine starts its query, or finishes.
LEMMA GraphStates ==
    ASSUME TypeInv, GraphInv, NEW p \in Partitions, QueryChangeStream(p) \/ UpdateToFinished(p)
    PROVE  GraphInv'
  <1>1. UNCHANGED <<conn, ended, minWatermark, batcher, delivered>>
    BY DEF QueryChangeStream, UpdateToFinished, subscriberVars, history
  <1>2. GoroutineOK(p)
    BY DEF GraphInv
  <1>3. CASE QueryChangeStream(p)
    <2>1. /\ row' = Updated({p}, "SCHEDULED", "RUNNING") /\ Parents[p] \subseteq InState({"FINISHED"})
          /\ State(p) \in {"SCHEDULED", "RUNNING"} /\ reader[p].pc = "wait"
      BY <1>3 DEF QueryChangeStream, CheckPartitionsFinished, State, At
    <2>2. \A q \in Partitions : /\ RowOK(q)' /\ (Announced(q) => Announced(q)')
                                /\ State(q)' = IF q \in {p} /\ State(q) = "SCHEDULED" THEN "RUNNING" ELSE State(q)
      BY <2>1, GraphUpdated
    <2>3. \A q \in Partitions : State(q)' = IF q = p THEN "RUNNING" ELSE State(q)
      BY <2>1, <2>2
    <2>4. /\ \A q \in Partitions : q # p => reader'[q] = reader[q]
          /\ reader'[p].pc = "read"
      BY <1>3 DEF QueryChangeStream, TypeInv
    <2>5. ASSUME NEW q \in Partitions PROVE GoroutineOK(q)'
      <3>1. GoroutineOK(q)
        BY DEF GraphInv
      <3>2. CASE q = p
        BY <1>1, <2>3, <2>4, <3>2 DEF GoroutineOK
      <3>3. CASE q # p
        BY <1>1, <2>2, <2>3, <2>4, <3>1, <3>3 DEF GoroutineOK
      <3> QED BY <3>2, <3>3
    <2>6. SearchOK'
      BY <1>1, <2>1, <2>3, SearchQuiet
    <2> QED BY <2>2, <2>5, <2>6 DEF GraphInv
  <1>4. CASE UpdateToFinished(p)
    <2>1. row' = Updated({p}, "RUNNING", "FINISHED") /\ reader[p].pc = "finish"
      BY <1>4 DEF UpdateToFinished, At
    <2>2. Announced(p) /\ State(p) = "RUNNING" /\ ~batcher[p].cached
      BY <1>2, <2>1, Cells DEF GoroutineOK, BatcherFits
    <2>3. \A q \in Partitions : /\ RowOK(q)' /\ (Announced(q) => Announced(q)')
                                /\ State(q)' = IF q \in {p} /\ State(q) = "RUNNING" THEN "FINISHED" ELSE State(q)
      BY <2>1, <2>2, GraphUpdated
    <2>4. \A q \in Partitions : State(q)' = IF q = p THEN "FINISHED" ELSE State(q)
      BY <2>2, <2>3
    <2>5. /\ \A q \in Partitions : q # p => reader'[q] = reader[q]
          /\ reader'[p].pc = "none"
      BY <1>4 DEF UpdateToFinished, NoReader, TypeInv
    <2>6. ASSUME NEW q \in Partitions PROVE GoroutineOK(q)'
      <3>1. GoroutineOK(q)
        BY DEF GraphInv
      <3>2. CASE q = p
        BY <1>1, <2>2, <2>4, <2>5, <3>2 DEF GoroutineOK
      <3>3. CASE q # p
        BY <1>1, <2>3, <2>4, <2>5, <3>1, <3>3 DEF GoroutineOK
      <3> QED BY <3>2, <3>3
    <2>7. SearchOK'
      BY <1>1, <2>2, <2>4, SearchQuiet
    <2> QED BY <2>3, <2>6, <2>7 DEF GraphInv
  <1> QED BY <1>3, <1>4

\* The watermark of a partition that runs is stored.
LEMMA GraphStored ==
    ASSUME TypeInv, GraphInv, NEW p \in Partitions, State(p) = "RUNNING", NEW w \in Nat,
           w > 0, w < End, \A c \in Children(p) : w <= Start[c],
           row' = [row EXCEPT ![p].watermark = w], UNCHANGED <<conn, ended, minWatermark>>
    PROVE  SearchOK' /\ \A q \in Partitions : RowOK(q)' /\ (Announced(q) => Announced(q)') /\ State(q)' = State(q)
  <1>1. \A q \in Partitions : /\ State(q)' = State(q)
                              /\ row'[q].watermark = IF q = p THEN w ELSE row[q].watermark
    BY Writes
  <1>2. SearchOK'
    BY <1>1, SearchQuiet
  <1>3. ASSUME NEW q \in Partitions, NEW c \in Children(q), NEW d \in Children(q), State(c)' = "ABSENT"
        PROVE  State(d)' = "ABSENT"
    <2>1. c \in Partitions /\ d \in Partitions /\ RowOK(q)
      BY DEF Children, GraphInv
    <2> QED BY <1>1, <1>3, <2>1 DEF RowOK
  <1>4. w \in 1 .. End - 1 /\ Start[p] < End
    BY Constants DEF GraphInv, RowOK
  <1>5. ASSUME NEW q \in Partitions
        PROVE  /\ State(q)' # "ABSENT" =>
                     \/ State(q) # "ABSENT" /\ row'[q].watermark = row[q].watermark
                     \/ /\ row'[q].watermark \in 1 .. End - 1 /\ Start[q] < End
                        /\ \A c \in Children(q) : row'[q].watermark <= Start[c]
               /\ State(q)' = "CREATED" => State(q) = "CREATED" /\ row'[q].watermark = row[q].watermark
    BY <1>1, <1>4
  <1>6. \A q \in Partitions : RowOK(q)' /\ (Announced(q) => Announced(q)')
    BY <1>1, <1>3, <1>5, RowMoves
  <1> QED BY <1>1, <1>2, <1>6

LEMMA GraphMark ==
    ASSUME TypeInv, GraphInv, NEW p \in Partitions, UpdateWatermark(p)
    PROVE  GraphInv'
  <1>1. /\ row' = [row EXCEPT ![p].watermark = LastClaimed(p)] /\ reader[p].pc = "mark"
        /\ UNCHANGED <<conn, ended, minWatermark, batcher, delivered>>
    BY DEF UpdateWatermark, At, subscriberVars, history
  <1>2. State(p) = "RUNNING" /\ Announced(p) /\ Start[p] < End
    BY <1>1 DEF GraphInv, GoroutineOK, RowOK
  <1>3. /\ LastClaimed(p) \in Nat /\ LastClaimed(p) > 0 /\ LastClaimed(p) < End
        /\ \A c \in Children(p) : LastClaimed(p) <= Start[c]
    BY <1>2, LastClaimedOf, Records
  <1>4. SearchOK' /\ \A q \in Partitions : RowOK(q)' /\ (Announced(q) => Announced(q)') /\ State(q)' = State(q)
    BY <1>1, <1>2, <1>3, GraphStored
  <1>5. reader'[p].pc = "finish" /\ \A q \in Partitions : q # p => reader'[q] = reader[q]
    <2>1. PICK r0 \in Reader : r0 = reader[p]
      BY Cells
    <2>2. reader'[p] = [r0 EXCEPT !.pc = "finish"] /\ \A q \in Partitions : q # p => reader'[q] = reader[q]
      BY <2>1 DEF UpdateWatermark, TypeInv
    <2> QED BY <2>2 DEF Reader
  <1>6. ASSUME NEW q \in Partitions PROVE GoroutineOK(q)'
    <2>1. GoroutineOK(q)
      BY DEF GraphInv
    <2>2. CASE q = p
      BY <1>1, <1>2, <1>4, <1>5, <2>2 DEF GoroutineOK
    <2>3. CASE q # p
      BY <1>1, <1>4, <1>5, <2>1, <2>3 DEF GoroutineOK
    <2> QED BY <2>2, <2>3
  <1> QED BY <1>4, <1>6 DEF GraphInv

\* A watermark of a batch is that of a record of its partition.
LEMMA BatchWatermarkBounds ==
    ASSUME NEW p \in Partitions, NEW w \in Watermarks(p), w # ZeroTime
    PROVE  w \in Nat /\ w > 0 /\ w < End /\ \A c \in Children(p) : w <= Start[c]
  <1>1. PICK i \in DOMAIN Mods[p] : w = Timestamp(p, i) /\ w < End
    BY DEF Watermarks, Claimed, TryClaim
  <1>2. w \in Nat /\ w > 0
    BY <1>1, Records
  <1>3. ASSUME NEW c \in Children(p) PROVE w < Start[c] /\ Start[c] \in Nat
    BY <1>1, ChildStarts, Records
  <1> QED BY <1>1, <1>2, <1>3

LEMMA GraphSettle ==
    ASSUME TypeInv, GraphInv, NEW p \in Partitions, NEW k \in DOMAIN batcher[p].flight, Ack(p, k) \/ Nack(p, k)
    PROVE  GraphInv'
  <1>1. UNCHANGED <<conn, ended, minWatermark, reader>>
    BY DEF Ack, Nack, subscriberVars
  <1>2. batcher[p].cached
    BY SettledMessages, SettleEffect
  <1>3. State(p) = "RUNNING"
    BY <1>2 DEF GraphInv, GoroutineOK
  <1>4. ASSUME NEW q \in Partitions, q # p
        PROVE  batcher'[q].cached = batcher[q].cached /\ delivered'[q] = delivered[q]
    BY <1>4 DEF Ack, Nack, history, TypeInv
  <1>5. \/ row' = row
        \/ \E w \in Watermarks(p) : w # ZeroTime /\ row' = [row EXCEPT ![p].watermark = w]
    BY SettledMessages DEF Ack, Nack, tableVars
  <1>6. SearchOK' /\ \A q \in Partitions : RowOK(q)' /\ (Announced(q) => Announced(q)') /\ State(q)' = State(q)
    <2>1. CASE row' = row
      <3>1. \A q : State(q)' = State(q)
        BY <2>1 DEF State
      <3>2. SearchOK'
        BY <1>1, <3>1, SearchQuiet
      <3>3. ASSUME NEW q \in Partitions, NEW c \in Children(q), NEW d \in Children(q), State(c)' = "ABSENT"
            PROVE  State(d)' = "ABSENT"
        BY <3>1, <3>3 DEF GraphInv, RowOK
      <3>4. \A q \in Partitions : RowOK(q)' /\ (Announced(q) => Announced(q)')
        BY <2>1, <3>1, <3>3, RowMoves
      <3> QED BY <3>1, <3>2, <3>4
    <2>2. ASSUME NEW w \in Watermarks(p), w # ZeroTime, row' = [row EXCEPT ![p].watermark = w]
          PROVE  SearchOK' /\ \A q \in Partitions : RowOK(q)' /\ (Announced(q) => Announced(q)') /\ State(q)' = State(q)
      BY <1>1, <1>3, <2>2, BatchWatermarkBounds, GraphStored
    <2> QED BY <1>5, <2>1, <2>2
  <1>7. ASSUME NEW q \in Partitions PROVE GoroutineOK(q)'
    <2>1. GoroutineOK(q)
      BY DEF GraphInv
    <2>2. CASE q = p
      BY <1>1, <1>3, <1>6, <2>1, <2>2 DEF GoroutineOK
    <2>3. CASE q # p
      BY <1>1, <1>4, <1>6, <2>1, <2>3 DEF GoroutineOK
    <2> QED BY <2>2, <2>3
  <1> QED BY <1>6, <1>7 DEF GraphInv

LEMMA GraphInit == Init => GraphInv
  <1> SUFFICES ASSUME Init PROVE GraphInv
    OBVIOUS
  <1>1. ASSUME NEW p \in Partitions
        PROVE  State(p) = "ABSENT" /\ reader[p].pc = "none" /\ ~batcher[p].cached /\ delivered[p] = {}
    BY NoBatcherType DEF Init, State, NoReader
  <1>2. ASSUME NEW p \in Partitions PROVE RowOK(p) /\ GoroutineOK(p)
    <2>1. \A c \in Children(p) : State(c) = "ABSENT"
      BY <1>1 DEF Children
    <2> QED BY <1>1, <2>1 DEF RowOK, GoroutineOK
  <1>3. conn = "down" /\ ~ended /\ minWatermark = 0
    BY DEF Init, ZeroTime
  <1>4. SearchOK
    BY <1>3, Constants DEF SearchOK, EndsComplete
  <1> QED BY <1>2, <1>4 DEF GraphInv

LEMMA GraphStep == TypeInv /\ GraphInv /\ [Next]_vars => GraphInv'
  <1> SUFFICES ASSUME TypeInv, GraphInv, [Next]_vars PROVE GraphInv'
    OBVIOUS
  <1>1. CASE SubscriberStep
    BY <1>1, GraphSubscriber
  <1>2. ASSUME NEW p \in Partitions, ReaderStep(p) PROVE GraphInv'
    <2>1. CASE CallbackFails(p)
      BY <2>1, GraphDown
    <2>2. CASE SkipRecord(p) \/ OnDataChangeRecord(p) \/ EndOfPartition(p) \/ CloseBatcher(p)
      BY <2>2, GraphData
    <2>3. CASE QueryChangeStream(p) \/ UpdateToFinished(p)
      BY <2>3, GraphStates
    <2>4. CASE HandleChildPartitionsRecords(p)
      BY <2>4, GraphChildren
    <2>5. CASE UpdateWatermark(p)
      BY <2>5, GraphMark
    <2> QED BY <1>2, <2>1, <2>2, <2>3, <2>4, <2>5 DEF ReaderStep
  <1>3. ASSUME NEW p \in Partitions, PeriodicFlush(p) \/ ReadBatch(p) PROVE GraphInv'
    BY <1>3, GraphData
  <1>4. ASSUME NEW p \in Partitions, NEW k \in DOMAIN batcher[p].flight, Ack(p, k) \/ Nack(p, k) PROVE GraphInv'
    BY <1>4, GraphSettle
  <1>5. CASE Stop \/ Crash
    BY <1>5, GraphDown
  <1>6. CASE UNCHANGED vars
    <2>1. UNCHANGED <<row, conn, ended, minWatermark, reader, batcher, delivered>>
      BY <1>6 DEF vars
    <2>2. SearchOK'
      BY <2>1, SearchQuiet DEF State
    <2> QED BY <2>1, <2>2, GraphQuiet DEF GraphInv, GoroutineOK
  <1> QED BY <1>1, <1>2, <1>3, <1>4, <1>5, <1>6 DEF Next

\* In all reachable states the table, the goroutines and the search agree.
THEOREM GraphInvariant == Spec => [](TypeInv /\ GraphInv)
  <1>1. Init => TypeInv /\ GraphInv
    BY TypeInit, GraphInit
  <1>2. TypeInv /\ GraphInv /\ [Next]_vars => TypeInv' /\ GraphInv'
    BY TypeStep, GraphStep
  <1> QED BY <1>1, <1>2, PTL DEF Spec

\* The table, the goroutines and the batchers have their types: no batch is empty
\* or larger than the policy allows, and messages that wait have a record.
THEOREM TypeCorrect == Spec => []TypeOK
  BY GraphInvariant, TypeImplies, PTL

\* GetPartitionsCreatedAfter never skips a row: whatever minimum the subscriber
\* has cached, a partition that waits to be scheduled was created after it.
THEOREM SearchFindsAll == Spec => []NoneOverlooked
  <1>1. TypeInv /\ GraphInv => NoneOverlooked
    <2> SUFFICES ASSUME TypeInv, GraphInv, NEW p \in InState({"CREATED"}), conn # "down"
                 PROVE  CreatedAt(p) > minWatermark
      BY DEF NoneOverlooked
    <2>1. p \in Partitions /\ State(p) = "CREATED"
      BY DEF InState, State
    <2>2. Start[p] < End /\ Start[p] \in Nat /\ minWatermark \in Nat
      BY <2>1, Records DEF GraphInv, RowOK, TypeInv
    <2>3. minWatermark <= Start[p]
      BY <2>1, <2>2 DEF GraphInv, SearchOK, Expected
    <2> QED BY <2>2, <2>3 DEF CreatedAt
  <1> QED BY <1>1, GraphInvariant, PTL

\* detectNewPartitionsLoop returns only when every partition that starts before
\* the end timestamp is finished, also those that nobody knew of when the minimum
\* was read.
THEOREM SearchEndsComplete == Spec => []EndsComplete
  <1>1. GraphInv => EndsComplete
    BY DEF GraphInv, SearchOK
  <1> QED BY <1>1, GraphInvariant, PTL

-----------------------------------------------------------------------------
(* Messages: none is passed over.                                          *)

\* More messages passed disturb nothing.
LEMMA DataMonotone ==
    ASSUME NEW p \in Partitions, NEW r, NEW b, NEW D, NEW E, D \subseteq E
    PROVE  /\ BatcherData(p, b, D) => BatcherData(p, b, E)
           /\ ReaderData(p, r, b, D) => ReaderData(p, r, b, E)
  <1>1. BatcherData(p, b, D) => BatcherData(p, b, E)
    BY DEF BatcherData
  <1>2. ReaderData(p, r, b, D) => ReaderData(p, r, b, E)
    BY DEF ReaderData
  <1> QED BY <1>1, <1>2

\* An empty batcher.
LEMMA UnusedData ==
    ASSUME NEW p \in Partitions, NEW b, Unused(b), NEW D
    PROVE  Held(b) = {} /\ Sent(b.out) = {} /\ BatcherData(p, b, D)
  <1>1. Sent(<<>>) = {} /\ Range(<<>>) = {} /\ DOMAIN <<>> = {}
    BY DEF Sent, Range
  <1>2. Held(b) = {} /\ Sent(b.out) = {}
    BY <1>1 DEF Unused, Held
  <1> QED BY <1>1, <1>2 DEF Unused, BatcherData

LEMMA NoBatcherUnused == Unused(NoBatcher)
  BY DEF Unused, NoBatcher

\* Partitions that a step leaves alone.
LEMMA DataSame ==
    ASSUME DataInv, NEW q \in Partitions, reader'[q] = reader[q], batcher'[q] = batcher[q],
           delivered'[q] = delivered[q], overtaken'[q] = overtaken[q], RowData(q)'
    PROVE  DataOK(q)'
  <1>1. DataOK(q) /\ Passed(q)' = Passed(q)
    BY DEF DataInv, Passed
  <1>2. BatcherData(q, batcher[q], Passed(q))' /\ ReaderData(q, reader[q], batcher[q], Passed(q))'
    BY <1>1 DEF DataOK, BatcherData, ReaderData
  <1> QED BY <1>2 DEF DataOK

LEMMA RowSame ==
    ASSUME DataInv, NEW q \in Partitions, row'[q] = row[q],
           Passed(q) \subseteq Passed(q)'
    PROVE  RowData(q)'
  BY DEF DataInv, DataOK, RowData, State

\* The order of timestamps is that of records.
LEMMA TimeOrder ==
    ASSUME NEW p \in Partitions, NEW i \in DOMAIN Mods[p]
    PROVE  Before(p, Timestamp(p, i)) = BeforeRecord(p, i)
  <1>1. ASSUME NEW x \in Due(p) PROVE Timestamp(p, x[1]) < Timestamp(p, i) <=> x[1] < i
    <2>1. x[1] \in Nat /\ i \in Nat /\ Start[p] \in Nat
      BY MessageFields, Records DEF Due
    <2> QED BY <2>1 DEF Timestamp
  <1> QED BY <1>1 DEF Before, BeforeRecord

\* One batch with the messages m.
LEMMA SentOne ==
    ASSUME NEW m, NEW w
    PROVE  Sent(<<Batch(m, w)>>) = Range(m) /\ Sent(<<>>) = {} /\ Range(<<>>) = {}
  <1>1. \A x : DOMAIN <<x>> = {1} /\ <<x>>[1] = x
    OBVIOUS
  <1>2. Batch(m, w).msgs = m
    BY DEF Batch
  <1>3. Sent(<<Batch(m, w)>>) = Range(m)
    BY <1>1, <1>2 DEF Sent
  <1>4. Sent(<<>>) = {} /\ Range(<<>>) = {}
    BY DEF Sent, Range
  <1> QED BY <1>3, <1>4

\* A record is batched.
LEMMA DataRecord ==
    ASSUME TypeInv, GraphInv, DataInv, NEW p \in Partitions, OnDataChangeRecord(p)
    PROVE  DataInv'
  <1>1. PICK b \in Batcher(p), r \in Reader :
           /\ batcher' = [batcher EXCEPT ![p] = b] /\ reader' = [reader EXCEPT ![p] = r]
           /\ b.cached /\ b.stale = batcher[p].stale
           /\ b.flight = batcher[p].flight /\ b.nacked = batcher[p].nacked
           /\ b.buf = IF Full(p) THEN <<>> ELSE NewBuf(p)
           /\ b.out = IF Full(p) THEN <<Batch(NewBuf(p), BatchWatermark(p, Done(p)))>> ELSE <<>>
           /\ b.last = IF ~Done(p) THEN batcher[p].last ELSE IF Full(p) THEN 0 ELSE reader[p].rec
           /\ r.pc = "read"
           /\ r.rec = IF Done(p) THEN reader[p].rec + 1 ELSE reader[p].rec
           /\ r.mod = IF Done(p) THEN 0 ELSE reader[p].mod + Taken(p)
    BY RecordEffect
  <1>2. /\ At(p, "read") /\ reader[p].rec \in Claimed(p) /\ Served(p) /\ batcher[p].out = <<>>
        /\ Full(p) \/ Done(p)
    BY RecordEffect
  <1>3. PICK i \in DOMAIN Mods[p] : i = reader[p].rec /\ i \in Nat /\ i <= Len(Mods[p]) /\ i # 0
    BY <1>2, Records DEF Claimed
  <1>4. PICK m \in Nat, t \in Nat : m = reader[p].mod /\ t = Taken(p) /\ t > 0
    BY <1>2, <1>3, TakenFits
  <1>5. /\ Range(batcher[p].buf) \subseteq Range(NewBuf(p))
        /\ \A n \in Nat : m < n /\ n <= m + t => <<i, n>> \in Range(NewBuf(p))
    BY <1>2, <1>3, <1>4, NewBufType
  <1>6. UNCHANGED <<row, delivered, overtaken>>
    BY DEF OnDataChangeRecord, tableVars, history
  <1> DEFINE D == Passed(p)
             b0 == batcher[p]
  <1>7. Sent(b.out) \cup Range(b.buf) = Range(NewBuf(p))
    <2>1. CASE Full(p)
      BY <1>1, <2>1, SentOne
    <2>2. CASE ~Full(p)
      BY <1>1, <2>2, SentOne
    <2> QED BY <2>1, <2>2
  <1>8. Held(b0) \subseteq Held(b) /\ Range(NewBuf(p)) \subseteq Held(b)
    <2>1. Sent(b0.out) = {}
      BY <1>2, SentOne
    <2> QED BY <1>1, <1>5, <1>7, <2>1 DEF Held
  <1>9. BatcherData(p, b0, D) /\ ReaderData(p, reader[p], b0, D) /\ reader[p].pc = "read"
    BY <1>2 DEF DataInv, DataOK, At
  <1>10. BeforeRecord(p, i) \subseteq D \cup Held(b)
    BY <1>3, <1>8, <1>9 DEF ReaderData, BeforeRecord
  <1>11. b0.last # 0 => BeforeRecord(p, b0.last) \subseteq D \cup Held(b)
    BY <1>2, <1>8, <1>9 DEF BatcherData, Served
  <1>12. BatcherData(p, b, D)
    <2>1. \A k \in DOMAIN b.flight :
             Before(p, b.flight[k].watermark) \subseteq D \cup b.nacked \cup UpTo(b.flight, k)
      BY <1>1, <1>9 DEF BatcherData
    <2>2. b.last # 0 => BeforeRecord(p, b.last) \subseteq D \cup Held(b)
      BY <1>1, <1>3, <1>10, <1>11
    <2>3. Before(p, BatchWatermark(p, Done(p))) \subseteq D \cup Held(b)
      <3>1. CASE Done(p)
        BY <1>3, <1>10, <3>1, TimeOrder DEF BatchWatermark
      <3>2. CASE ~Done(p) /\ b0.first /\ b0.last # 0
        <4>1. b0.last \in DOMAIN Mods[p]
          BY <3>2, Cells, BatcherFields DEF Claimed
        <4> QED BY <1>11, <3>2, <4>1, TimeOrder DEF BatchWatermark
      <3>3. CASE ~Done(p) /\ ~(b0.first /\ b0.last # 0)
        <4>1. BatchWatermark(p, Done(p)) = 0
          BY <3>3 DEF BatchWatermark, ZeroTime
        <4>2. Before(p, 0) = {}
          BY MessageFields DEF Before, Due
        <4> QED BY <4>1, <4>2
      <3> QED BY <3>1, <3>2, <3>3
    <2>4. ASSUME NEW k \in DOMAIN b.out PROVE Before(p, b.out[k].watermark) \subseteq D \cup Held(b)
      <3>1. b.out[k].watermark = BatchWatermark(p, Done(p))
        <4>1. Full(p)
          BY <1>1
        <4>2. b.out = <<Batch(NewBuf(p), BatchWatermark(p, Done(p)))>>
          BY <1>1, <4>1
        <4>3. k = 1 /\ b.out[k] = Batch(NewBuf(p), BatchWatermark(p, Done(p)))
          BY <4>2
        <4> QED BY <4>3 DEF Batch
      <3> QED BY <2>3, <3>1
    <2> QED BY <2>1, <2>2, <2>4 DEF BatcherData
  <1>13. ReaderData(p, r, b, D)
    <2>1. ASSUME NEW x \in Due(p), x[1] < r.rec \/ (x[1] = r.rec /\ x[2] <= r.mod)
          PROVE  x \in D \cup Held(b)
      <3>1. x[1] \in Nat /\ x[2] \in Nat /\ x = <<x[1], x[2]>> /\ x[2] <= Mods[p][x[1]]
        BY MessageFields DEF Due
      <3>2. CASE x[1] < i
        BY <1>10, <3>2 DEF BeforeRecord
      <3>3. CASE x[1] = i /\ x[2] <= m
        BY <1>3, <1>4, <1>8, <1>9, <3>3 DEF ReaderData
      <3>4. CASE x[1] = i /\ m < x[2] /\ x[2] <= m + t
        BY <1>5, <1>8, <3>1, <3>4
      <3>5. x[1] = i /\ ~(x[2] <= m) => x[2] <= m + t
        <4>1. CASE Done(p)
          <5>1. m + t = Mods[p][i]
            BY <1>3, <1>4, <4>1 DEF Done
          <5> QED BY <3>1, <5>1
        <4>2. CASE ~Done(p)
          <5>1. r.rec = i /\ r.mod = m + t
            BY <1>1, <1>3, <1>4, <4>2
          <5> QED BY <1>3, <2>1, <3>1, <5>1
        <4> QED BY <4>1, <4>2
      <3>6. x[1] < i \/ x[1] = i
        <4>1. r.rec = i \/ (r.rec = i + 1 /\ r.mod = 0)
          BY <1>1, <1>3
        <4>2. x[2] > 0
          BY MessageFields DEF Due
        <4> QED BY <1>3, <2>1, <3>1, <4>1, <4>2
      <3> QED BY <1>4, <3>1, <3>2, <3>3, <3>4, <3>5, <3>6
    <2>2. ASSUME BatchSize = 1, r.mod > 0, NEW x \in Sent(b.out) PROVE x[1] = r.rec
      <3>1. ~Done(p)
        BY <1>1, <2>2
      <3>2. r.rec = i /\ x \in Range(NewBuf(p))
        BY <1>1, <1>3, <1>7, <2>2, <3>1
      <3>3. b0.buf = <<>>
        <4>1. b0.buf \in Seq(Messages(p)) /\ Len(b0.buf) < 1
          BY <2>2, Cells, BatcherFields DEF BatcherFits
        <4> QED BY <4>1, EmptySeq
      <3>4. Range(b0.buf) = {}
        BY <3>3, SentOne
      <3> QED BY <1>2, <1>3, <3>2, <3>4, NewBufType
    <2> QED BY <1>1, <2>1, <2>2 DEF ReaderData
  <1>14. ASSUME NEW q \in Partitions PROVE DataOK(q)'
    <2>1. RowData(q)' /\ Passed(q)' = Passed(q)
      BY <1>6, RowSame DEF Passed
    <2>2. CASE q = p
      <3>1. batcher'[p] = b /\ reader'[p] = r
        BY <1>1 DEF TypeInv
      <3> QED BY <1>12, <1>13, <2>1, <2>2, <3>1 DEF DataOK
    <2>3. CASE q # p
      <3>1. batcher'[q] = batcher[q] /\ reader'[q] = reader[q]
        BY <1>1, <2>3 DEF TypeInv
      <3> QED BY <1>6, <2>1, <3>1, DataSame
    <2> QED BY <2>2, <2>3
  <1> QED BY <1>14 DEF DataInv

\* A row that is new is at the start of its partition; a move of one that exists
\* leaves its watermark.
LEMMA RowMoved ==
    ASSUME TypeInv, DataInv, NEW q \in Partitions, Passed(q)' = Passed(q),
           \/ State(q) # "ABSENT" /\ row'[q].watermark = row[q].watermark
           \/ row'[q].watermark = Start[q]
           \/ State(q)' = "ABSENT",
           State(q)' = "FINISHED" => State(q) = "FINISHED" \/ Due(q) \subseteq Passed(q)
    PROVE  RowData(q)'
  <1>1. Before(q, Start[q]) = {}
    <2>1. ASSUME NEW x \in Due(q) PROVE ~(Timestamp(q, x[1]) < Start[q])
      <3>1. x[1] \in Nat /\ x[1] >= 1 /\ Start[q] \in Nat
        BY MessageFields, Records DEF Due
      <3> QED BY <3>1 DEF Timestamp
    <2> QED BY <2>1 DEF Before
  <1>2. RowData(q)
    BY DEF DataInv, DataOK
  <1>3. State(q)' # "ABSENT" => Before(q, row'[q].watermark) \subseteq Passed(q)
    BY <1>1, <1>2 DEF RowData
  <1>4. State(q)' = "FINISHED" => Due(q) \subseteq Passed(q)
    BY <1>2 DEF RowData
  <1> QED BY <1>3, <1>4 DEF RowData

\* A goroutine starts its query at the watermark, behind which nothing is missing.
LEMMA DataQuery ==
    ASSUME TypeInv, GraphInv, DataInv, NEW p \in Partitions, QueryChangeStream(p)
    PROVE  DataInv'
  <1>1. /\ row' = Updated({p}, "SCHEDULED", "RUNNING") /\ UNCHANGED <<batcher, delivered, overtaken>>
        /\ State(p) \in {"SCHEDULED", "RUNNING"}
        /\ reader' = [reader EXCEPT ![p] = [pc |-> "read", rec |-> FirstRecord(p), mod |-> 0]]
    BY DEF QueryChangeStream, State, history
  <1>2. \A q \in Partitions : /\ State(q)' = IF q \in {p} /\ State(q) = "SCHEDULED" THEN "RUNNING" ELSE State(q)
                              /\ row'[q].watermark = row[q].watermark /\ Passed(q)' = Passed(q)
    BY <1>1, Writes DEF Passed
  <1>3. ASSUME NEW q \in Partitions PROVE RowData(q)'
    BY <1>2, RowMoved
  <1>4. DataOK(p)'
    <2> DEFINE r == [pc |-> "read", rec |-> FirstRecord(p), mod |-> 0]
    <2>1. reader'[p] = r /\ batcher'[p] = batcher[p] /\ Passed(p)' = Passed(p)
      BY <1>1, <1>2 DEF TypeInv
    <2>2. BatcherData(p, batcher[p], Passed(p)) /\ RowData(p)
      BY DEF DataInv, DataOK
    <2>3. ASSUME NEW x \in Due(p), x[1] < FirstRecord(p) PROVE Timestamp(p, x[1]) < row[p].watermark
      <3>1. PICK w \in Nat, a \in Nat, l \in Nat : w = row[p].watermark /\ a = Start[p] /\ l = Len(Mods[p])
        BY Cells, Records DEF Row
      <3>2. PICK i \in Nat : i = x[1] /\ i >= 1
        BY MessageFields, Records DEF Due
      <3>3. CASE w < a
        BY <2>3, <3>1, <3>2, <3>3 DEF FirstRecord
      <3>4. CASE ~(w < a)
        <4>1. {w - a, l} \in SUBSET Nat /\ {w - a, l} # {}
          BY <3>1, <3>4
        <4>2. Min({w - a, l}) \in Nat /\ Min({w - a, l}) <= w - a
          BY <4>1, MinOf
        <4>3. FirstRecord(p) = Min({w - a, l}) + 1
          BY <3>1, <3>4 DEF FirstRecord
        <4>4. i < (w - a) + 1
          BY <2>3, <3>1, <3>2, <3>4, <4>2, <4>3
        <4> QED BY <3>1, <3>2, <4>4 DEF Timestamp
      <3> QED BY <3>3, <3>4
    <2>4. \A x \in Due(p) : x[1] < FirstRecord(p) \/ (x[1] = FirstRecord(p) /\ x[2] <= 0) => x \in Passed(p)
      <3>1. \A x \in Due(p) : ~(x[2] <= 0)
        BY MessageFields DEF Due
      <3>2. ASSUME NEW x \in Due(p), x[1] < FirstRecord(p) PROVE x \in Passed(p)
        BY <1>1, <2>2, <2>3, <3>2 DEF RowData, Before
      <3> QED BY <3>1, <3>2
    <2>5. r.pc = "read" /\ r.rec = FirstRecord(p) /\ r.mod = 0 /\ ~(r.mod > 0)
      OBVIOUS
    <2> HIDE DEF r
    <2>6. ReaderData(p, r, batcher[p], Passed(p))
      BY <2>4, <2>5 DEF ReaderData
    <2> QED BY <1>3, <2>1, <2>2, <2>6 DEF DataOK
  <1>5. ASSUME NEW q \in Partitions, q # p PROVE DataOK(q)'
    <2>1. reader'[q] = reader[q]
      BY <1>1, <1>5 DEF TypeInv
    <2> QED BY <1>1, <1>3, <2>1, DataSame
  <1> QED BY <1>4, <1>5 DEF DataInv

\* A record behind the end is skipped.
LEMMA DataSkip ==
    ASSUME TypeInv, DataInv, NEW p \in Partitions, SkipRecord(p)
    PROVE  DataInv'
  <1>1. UNCHANGED <<row, batcher, delivered, overtaken>>
    BY DEF SkipRecord, tableVars, history
  <1>2. PICK r0 \in Reader : r0 = reader[p] /\ r0.pc = "read" /\ ~TryClaim(Timestamp(p, r0.rec)) /\ r0.rec \in Nat /\ r0.mod \in Nat
    BY Cells DEF SkipRecord, At, Reader
  <1> DEFINE r == [r0 EXCEPT !.rec = r0.rec + 1]
  <1>3. reader' = [reader EXCEPT ![p] = r]
    BY <1>2 DEF SkipRecord
  <1>4. r.pc = "read" /\ r.rec = r0.rec + 1 /\ r.mod = r0.mod
    BY <1>2 DEF Reader
  <1>5. ~(r0.mod > 0) /\ r0.mod = 0
    <2>1. ~(r0.mod > 0)
      BY <1>2, Cells DEF ReaderFits, Claimed
    <2> QED BY <1>2, <2>1
  <1>6. ReaderData(p, r0, batcher[p], Passed(p)) /\ BatcherData(p, batcher[p], Passed(p))
    BY <1>2 DEF DataInv, DataOK
  <1> HIDE DEF r
  <1>7. ReaderData(p, r, batcher[p], Passed(p))
    <2>1. ASSUME NEW x \in Due(p), x[1] < r.rec \/ (x[1] = r.rec /\ x[2] <= r.mod)
          PROVE  x \in Passed(p) \cup Held(batcher[p])
      <3>1. x[1] \in Nat /\ x[2] \in Nat /\ x[2] > 0 /\ x[1] # r0.rec
        BY <1>2, MessageFields DEF Due, TryClaim
      <3>2. x[1] < r0.rec
        BY <1>2, <1>4, <1>5, <2>1, <3>1
      <3> QED BY <1>2, <1>6, <3>2 DEF ReaderData
    <2> QED BY <1>4, <1>5, <2>1 DEF ReaderData
  <1>8. ASSUME NEW q \in Partitions PROVE DataOK(q)'
    <2>1. RowData(q)' /\ Passed(q)' = Passed(q)
      BY <1>1, RowSame DEF Passed
    <2>2. CASE q = p
      <3>1. reader'[p] = r
        BY <1>3 DEF TypeInv
      <3> QED BY <1>1, <1>6, <1>7, <2>1, <2>2, <3>1 DEF DataOK
    <2>3. CASE q # p
      <3>1. reader'[q] = reader[q]
        BY <1>3, <2>3 DEF TypeInv
      <3> QED BY <1>1, <2>1, <3>1, DataSame
    <2> QED BY <2>2, <2>3
  <1> QED BY <1>8 DEF DataInv

\* The query has returned its last record.
LEMMA DataChildren ==
    ASSUME TypeInv, GraphInv, DataInv, NEW p \in Partitions, HandleChildPartitionsRecords(p)
    PROVE  DataInv'
  <1> DEFINE S == {c \in Children(p) : TryClaim(Start[c])}
  <1>1. /\ Create(S) /\ UNCHANGED <<batcher, delivered, overtaken>>
    BY DEF HandleChildPartitionsRecords, history
  <1>2. PICK r0 \in Reader : r0 = reader[p] /\ r0.pc = "read" /\ r0.rec > Len(Mods[p]) /\ r0.rec \in Nat
    BY Cells DEF HandleChildPartitionsRecords, At, Reader
  <1> DEFINE r == [r0 EXCEPT !.pc = "end"]
  <1>3. reader' = [reader EXCEPT ![p] = r]
    BY <1>2 DEF HandleChildPartitionsRecords
  <1>4. r.pc = "end" /\ r.mod = r0.mod /\ r.rec = r0.rec
    BY DEF Reader
  <1> HIDE DEF r, S
  <1>5. ASSUME NEW q \in Partitions PROVE RowData(q)'
    <2>1. Passed(q)' = Passed(q)
      BY <1>1 DEF Passed
    <2>2. CASE S \subseteq InState({"ABSENT"})
      <3>1. /\ State(q)' = IF q \in S THEN "CREATED" ELSE State(q)
            /\ row'[q].watermark = IF q \in S THEN Start[q] ELSE row[q].watermark
        BY <1>1, <2>2, Writes
      <3> QED BY <2>1, <3>1, RowMoved
    <2>3. CASE ~(S \subseteq InState({"ABSENT"}))
      BY <1>1, <2>1, <2>3, Writes, RowSame
    <2> QED BY <2>2, <2>3
  <1>6. ReaderData(p, r0, batcher[p], Passed(p)) /\ BatcherData(p, batcher[p], Passed(p))
    BY <1>2 DEF DataInv, DataOK
  <1>7. ReaderData(p, r, batcher[p], Passed(p))
    <2>1. ASSUME NEW x \in Due(p) PROVE x[1] < r0.rec
      <3>1. x[1] \in 1 .. Len(Mods[p]) /\ Len(Mods[p]) \in Nat
        BY MessageFields, Records DEF Due
      <3> QED BY <1>2, <3>1
    <2>2. Due(p) \subseteq Passed(p) \cup Held(batcher[p])
      BY <1>2, <1>6, <2>1 DEF ReaderData
    <2> QED BY <1>4, <1>6, <2>2 DEF ReaderData
  <1>8. ASSUME NEW q \in Partitions PROVE DataOK(q)'
    <2>1. Passed(q)' = Passed(q)
      BY <1>1 DEF Passed
    <2>2. CASE q = p
      <3>1. reader'[p] = r
        BY <1>3 DEF TypeInv
      <3> QED BY <1>1, <1>5, <1>6, <1>7, <2>1, <2>2, <3>1 DEF DataOK
    <2>3. CASE q # p
      <3>1. reader'[q] = reader[q]
        BY <1>3, <2>3 DEF TypeInv
      <3> QED BY <1>1, <1>5, <3>1, DataSame
    <2> QED BY <2>2, <2>3
  <1> QED BY <1>8 DEF DataInv

\* A partition whose batches are settled is marked and finished.
LEMMA DataFinish ==
    ASSUME TypeInv, GraphInv, DataInv, NEW p \in Partitions, UpdateWatermark(p) \/ UpdateToFinished(p)
    PROVE  DataInv'
  <1>1. UNCHANGED <<batcher, delivered, overtaken>> /\ reader[p].pc \in {"mark", "finish"}
    BY DEF UpdateWatermark, UpdateToFinished, At, history
  <1>2. Due(p) \subseteq Passed(p) /\ BatcherData(p, batcher[p], Passed(p))
    BY <1>1 DEF DataInv, DataOK, ReaderData
  <1>3. \A q \in Partitions : Passed(q)' = Passed(q)
    BY <1>1 DEF Passed
  <1>4. ASSUME NEW q \in Partitions PROVE RowData(q)'
    <2>1. CASE q = p
      BY <1>2, <1>3, <2>1 DEF RowData, Before
    <2>2. CASE q # p
      <3>1. row'[q] = row[q]
        BY <2>2 DEF UpdateWatermark, UpdateToFinished, Updated, TypeInv
      <3> QED BY <1>3, <3>1, RowSame
    <2> QED BY <2>1, <2>2
  <1>5. reader'[p].pc \in {"finish", "none"} /\ reader'[p].mod = 0
    <2>1. PICK r0 \in Reader : r0 = reader[p] /\ r0.mod = 0
      BY <1>1, Cells DEF ReaderFits
    <2>2. CASE UpdateWatermark(p)
      <3>1. reader'[p] = [r0 EXCEPT !.pc = "finish"]
        BY <2>1, <2>2 DEF UpdateWatermark, TypeInv
      <3> QED BY <2>1, <3>1 DEF Reader
    <2>3. CASE UpdateToFinished(p)
      BY <2>3 DEF UpdateToFinished, NoReader, TypeInv
    <2> QED BY <2>2, <2>3
  <1>6. ReaderData(p, reader'[p], batcher[p], Passed(p))
    <2>1. ~(reader'[p].mod > 0)
      BY <1>5
    <2> QED BY <1>2, <1>5, <2>1 DEF ReaderData
  <1>7. ASSUME NEW q \in Partitions PROVE DataOK(q)'
    <2>1. CASE q = p
      BY <1>1, <1>2, <1>3, <1>4, <1>6, <2>1 DEF DataOK
    <2>2. CASE q # p
      <3>1. reader'[q] = reader[q]
        BY <2>2 DEF UpdateWatermark, UpdateToFinished, TypeInv
      <3> QED BY <1>1, <1>4, <3>1, DataSame
    <2> QED BY <2>1, <2>2
  <1> QED BY <1>7 DEF DataInv

\* A flush offers what the batch had, under the watermark of its last record.
LEMMA FlushData ==
    ASSUME TypeInv, DataInv, NEW p \in Partitions, batcher[p].out = <<>>, reader[p].mod = 0, Served(p)
    PROVE  BatcherData(p, Flushed(p), Passed(p)) /\ Held(Flushed(p)) = Held(batcher[p])
  <1>1. PICK b \in Batcher(p) :
           /\ b = Flushed(p) /\ b.stale = batcher[p].stale
           /\ b.flight = batcher[p].flight /\ b.nacked = batcher[p].nacked
           /\ b.buf = <<>> /\ b.last = 0
           /\ \/ batcher[p].buf = <<>> /\ b.out = <<>>
              \/ /\ batcher[p].buf # <<>> /\ batcher[p].last \in Claimed(p)
                 /\ b.out = <<Batch(batcher[p].buf, Timestamp(p, batcher[p].last))>>
    BY FlushEffect
  <1>2. BatcherData(p, batcher[p], Passed(p))
    BY DEF DataInv, DataOK
  <1>3. Sent(b.out) = Range(batcher[p].buf) /\ Range(b.buf) = {} /\ Sent(batcher[p].out) = {}
    BY <1>1, SentOne
  <1>4. Held(b) = Held(batcher[p])
    BY <1>1, <1>3 DEF Held
  <1>5. ASSUME NEW k \in DOMAIN b.out PROVE Before(p, b.out[k].watermark) \subseteq Passed(p) \cup Held(b)
    <2>1. b.out # <<>>
      OBVIOUS
    <2>2. /\ batcher[p].last \in Claimed(p)
          /\ b.out = <<Batch(batcher[p].buf, Timestamp(p, batcher[p].last))>>
      BY <1>1, <2>1
    <2>3. b.out[k] = Batch(batcher[p].buf, Timestamp(p, batcher[p].last))
      BY <2>2
    <2>4. b.out[k].watermark = Timestamp(p, batcher[p].last)
      BY <2>3 DEF Batch
    <2>5. batcher[p].last \in DOMAIN Mods[p] /\ batcher[p].last # 0
      BY <2>2, Records DEF Claimed
    <2>6. BeforeRecord(p, batcher[p].last) \subseteq Passed(p) \cup Held(b)
      BY <1>2, <1>4, <2>5 DEF BatcherData, Served
    <2> QED BY <2>4, <2>5, <2>6, TimeOrder
  <1>6. BatcherData(p, b, Passed(p))
    BY <1>1, <1>2, <1>5 DEF BatcherData
  <1> QED BY <1>1, <1>4, <1>6

LEMMA DataFlush ==
    ASSUME TypeInv, DataInv, NEW p \in Partitions, EndOfPartition(p) \/ PeriodicFlush(p)
    PROVE  DataInv'
  <1>1. UNCHANGED <<row, delivered, overtaken>> /\ batcher' = [batcher EXCEPT ![p] = Flushed(p)]
    BY DEF EndOfPartition, PeriodicFlush, tableVars, history
  <1>2. PICK r0 \in Reader : r0 = reader[p] /\ ReaderFits(p, r0) /\ BatcherFits(p, r0, batcher[p])
    BY Cells
  <1>3. batcher[p].out = <<>> /\ reader[p].mod = 0 /\ Served(p)
    <2>1. CASE EndOfPartition(p)
      BY <1>2, <2>1 DEF EndOfPartition, At, ReaderFits, BatcherFits
    <2>2. CASE PeriodicFlush(p)
      BY <2>2 DEF PeriodicFlush, Served
    <2> QED BY <2>1, <2>2
  <1>4. BatcherData(p, Flushed(p), Passed(p)) /\ Held(Flushed(p)) = Held(batcher[p])
    BY <1>3, FlushData
  <1>5. ReaderData(p, r0, batcher[p], Passed(p))
    BY <1>2 DEF DataInv, DataOK
  <1>6. PICK r \in Reader : /\ reader' = [reader EXCEPT ![p] = r] /\ r.mod = 0 /\ r.rec = r0.rec
                            /\ r.pc = r0.pc \/ (r0.pc = "end" /\ r.pc = "close")
    <2>1. CASE EndOfPartition(p)
      <3> DEFINE r == [r0 EXCEPT !.pc = "close"]
      <3>1. r \in Reader /\ r.mod = r0.mod /\ r.rec = r0.rec /\ r.pc = "close"
        BY DEF Reader
      <3>2. reader' = [reader EXCEPT ![p] = r] /\ r0.pc = "end"
        BY <1>2, <2>1 DEF EndOfPartition, At
      <3> HIDE DEF r
      <3> QED BY <1>2, <1>3, <3>1, <3>2
    <2>2. CASE PeriodicFlush(p)
      <3>1. reader' = [reader EXCEPT ![p] = r0]
        BY <1>2, <2>2 DEF PeriodicFlush, TypeInv
      <3> QED BY <1>2, <1>3, <3>1
    <2> QED BY <2>1, <2>2
  <1>7. ReaderData(p, r, Flushed(p), Passed(p))
    <2>1. ~(r.mod > 0) /\ r0.mod = 0
      BY <1>2, <1>3, <1>6
    <2> QED BY <1>4, <1>5, <1>6, <2>1 DEF ReaderData
  <1>8. ASSUME NEW q \in Partitions PROVE DataOK(q)'
    <2>1. RowData(q)' /\ Passed(q)' = Passed(q)
      BY <1>1, RowSame DEF Passed
    <2>2. CASE q = p
      <3>1. reader'[p] = r /\ batcher'[p] = Flushed(p)
        BY <1>1, <1>6 DEF TypeInv
      <3> QED BY <1>4, <1>7, <2>1, <2>2, <3>1 DEF DataOK
    <2>3. CASE q # p
      <3>1. reader'[q] = reader[q] /\ batcher'[q] = batcher[q]
        BY <1>1, <1>6, <2>3 DEF TypeInv
      <3> QED BY <1>1, <2>1, <3>1, DataSame
    <2> QED BY <2>2, <2>3
  <1> QED BY <1>8 DEF DataInv

\* Batches after one more, and after one less.
LEMMA JoinedSent ==
    ASSUME NEW f, NEW s, NEW t, IsJoined(f, s, t)
    PROVE  /\ Sent(f) = Sent(s) \cup Sent(t)
           /\ \A k \in 1 .. Len(s) : UpTo(f, k) = UpTo(s, k)
           /\ UpTo(f, Len(s) + 1) = Sent(f)
  <1>1. PICK n \in Nat : /\ n = Len(s) /\ DOMAIN f = 1 .. n + 1 /\ DOMAIN s = 1 .. n /\ DOMAIN t = {1}
                         /\ \A k \in 1 .. n : f[k] = s[k]
                         /\ f[n + 1] = t[1]
    BY DEF IsJoined
  <1>2. UpTo(f, n + 1) = Sent(f)
    BY <1>1 DEF UpTo, Sent
  <1>3. ASSUME NEW k \in 1 .. n PROVE UpTo(f, k) = UpTo(s, k)
    <2>1. \A j \in 1 .. k : f[j] = s[j]
      BY <1>1
    <2> QED BY <2>1 DEF UpTo
  <1>4. Sent(f) \subseteq Sent(s) \cup Sent(t)
    <2> SUFFICES ASSUME NEW j \in 1 .. n + 1, NEW x \in Range(f[j].msgs) PROVE x \in Sent(s) \cup Sent(t)
      BY <1>1 DEF Sent
    <2>1. CASE j \in 1 .. n
      BY <1>1, <2>1 DEF Sent
    <2>2. CASE j = n + 1
      BY <1>1, <2>2 DEF Sent
    <2>3. j \in 1 .. n \/ j = n + 1
      BY <1>1
    <2> QED BY <2>1, <2>2, <2>3
  <1>5. Sent(s) \subseteq Sent(f)
    <2>1. \A j \in 1 .. n : j \in 1 .. n + 1
      BY <1>1
    <2> QED BY <1>1, <2>1 DEF Sent
  <1>6. Sent(t) \subseteq Sent(f)
    <2>1. n + 1 \in 1 .. n + 1
      BY <1>1
    <2> QED BY <1>1, <2>1 DEF Sent
  <1> QED BY <1>1, <1>2, <1>3, <1>4, <1>5, <1>6

LEMMA RemovedSent ==
    ASSUME NEW f, NEW s, NEW k, IsRemoved(f, s, k)
    PROVE  /\ Sent(s) \subseteq Sent(f) \cup Range(s[k].msgs)
           /\ \A j \in DOMAIN f : \E i \in DOMAIN s :
                 f[j] = s[i] /\ UpTo(s, i) \subseteq UpTo(f, j) \cup Range(s[k].msgs)
  <1>1. PICK n \in Nat : /\ n = Len(s) /\ k \in 1 .. n /\ DOMAIN f = 1 .. n - 1 /\ DOMAIN s = 1 .. n
                         /\ \A j \in 1 .. n - 1 : f[j] = IF j < k THEN s[j] ELSE s[j + 1]
    BY DEF IsRemoved
  <1>2. ASSUME NEW i \in 1 .. n, i # k
        PROVE  \E j \in 1 .. n - 1 : f[j] = s[i] /\ j = IF i < k THEN i ELSE i - 1
    <2>1. CASE i < k
      <3>1. i \in 1 .. n - 1
        BY <1>1, <2>1
      <3> QED BY <1>1, <2>1, <3>1
    <2>2. CASE ~(i < k)
      <3>1. i - 1 \in 1 .. n - 1 /\ ~(i - 1 < k) /\ (i - 1) + 1 = i
        BY <1>1, <1>2, <2>2
      <3> QED BY <1>1, <2>2, <3>1
    <2> QED BY <2>1, <2>2
  <1>3. Sent(s) \subseteq Sent(f) \cup Range(s[k].msgs)
    <2> SUFFICES ASSUME NEW i \in 1 .. n, NEW x \in Range(s[i].msgs), i # k PROVE x \in Sent(f)
      BY <1>1 DEF Sent
    <2>1. PICK j \in 1 .. n - 1 : f[j] = s[i]
      BY <1>2
    <2> QED BY <1>1, <2>1 DEF Sent
  <1>4. ASSUME NEW j \in 1 .. n - 1
        PROVE  \E i \in 1 .. n : f[j] = s[i] /\ UpTo(s, i) \subseteq UpTo(f, j) \cup Range(s[k].msgs)
    <2>1. PICK i \in 1 .. n : i = (IF j < k THEN j ELSE j + 1) /\ f[j] = s[i]
      <3>1. j \in 1 .. n /\ j + 1 \in 1 .. n
        BY <1>1
      <3> QED BY <1>1, <3>1
    <2>2. ASSUME NEW h \in 1 .. i, NEW x \in Range(s[h].msgs), h # k PROVE x \in UpTo(f, j)
      <3>1. h \in 1 .. n
        BY <1>1, <2>1
      <3>2. PICK g \in 1 .. n - 1 : f[g] = s[h] /\ g = IF h < k THEN h ELSE h - 1
        BY <1>2, <2>2, <3>1
      <3>3. g \in 1 .. j
        BY <1>1, <2>1, <2>2, <3>2
      <3> QED BY <2>2, <3>2, <3>3 DEF UpTo
    <2>3. UpTo(s, i) \subseteq UpTo(f, j) \cup Range(s[k].msgs)
      BY <2>2 DEF UpTo
    <2> QED BY <2>1, <2>3
  <1> QED BY <1>1, <1>3, <1>4

\* ReadBatch takes the batch that is offered.
LEMMA DataRead ==
    ASSUME TypeInv, DataInv, NEW p \in Partitions, ReadBatch(p)
    PROVE  DataInv'
  <1>1. UNCHANGED <<row, reader, delivered, overtaken>> /\ batcher[p].out # <<>>
    BY DEF ReadBatch, tableVars, history
  <1>2. PICK b0 \in Batcher(p) : b0 = batcher[p] /\ BatcherFits(p, reader[p], b0)
    BY Cells
  <1> DEFINE f == b0.flight \o b0.out
             b == [b0 EXCEPT !.flight = f, !.out = <<>>]
             D == Passed(p)
  <1>3. batcher' = [batcher EXCEPT ![p] = b]
    BY <1>2 DEF ReadBatch, TypeInv
  <1>4. b0.flight \in Seq(Batches(p)) /\ b0.out \in Seq(Batches(p)) /\ Len(b0.out) = 1
    BY <1>1, <1>2, BatcherFields DEF BatcherFits
  <1>5. f \in Seq(Batches(p)) /\ IsJoined(f, b0.flight, b0.out)
    BY <1>4, Joined, Zenon
  <1> HIDE DEF f
  <1>6. /\ b.stale = b0.stale /\ b.flight = f /\ b.out = <<>> /\ b.nacked = b0.nacked
        /\ b.buf = b0.buf /\ b.last = b0.last
    BY DEF Batcher
  <1> HIDE DEF b
  <1>7. /\ Sent(f) = Sent(b0.flight) \cup Sent(b0.out)
        /\ \A k \in 1 .. Len(b0.flight) : UpTo(f, k) = UpTo(b0.flight, k)
        /\ UpTo(f, Len(b0.flight) + 1) = Sent(f)
    BY <1>5, JoinedSent
  <1>8. Held(b) = Held(b0) /\ Sent(b.out) = {}
    BY <1>6, <1>7, SentOne DEF Held
  <1>9. Range(b0.buf) = {}
    <2>1. b0.buf = <<>>
      BY <1>1, <1>2 DEF BatcherFits
    <2> QED BY <2>1, SentOne
  <1>10. BatcherData(p, b0, D) /\ ReaderData(p, reader[p], b0, D)
    BY <1>2 DEF DataInv, DataOK
  <1>11. BatcherData(p, b, D)
    <2>1. ASSUME NEW k \in DOMAIN f PROVE Before(p, f[k].watermark) \subseteq D \cup b0.nacked \cup UpTo(f, k)
      <3>1. PICK n \in Nat : /\ n = Len(b0.flight) /\ DOMAIN f = 1 .. n + 1 /\ DOMAIN b0.flight = 1 .. n
                             /\ DOMAIN b0.out = {1} /\ f[n + 1] = b0.out[1]
                             /\ \A j \in 1 .. n : f[j] = b0.flight[j]
        BY <1>5 DEF IsJoined
      <3>2. CASE k \in 1 .. n
        BY <1>7, <1>10, <3>1, <3>2 DEF BatcherData
      <3>3. CASE k = n + 1
        <4>1. Before(p, b0.out[1].watermark) \subseteq D \cup Held(b0)
          BY <1>10, <3>1 DEF BatcherData
        <4>2. Held(b0) \subseteq b0.nacked \cup UpTo(f, k)
          BY <1>7, <1>9, <3>1, <3>3 DEF Held
        <4> QED BY <3>1, <3>3, <4>1, <4>2
      <3> QED BY <3>1, <3>2, <3>3
    <2>2. \A k \in DOMAIN b.out : FALSE
      BY <1>6
    <2> QED BY <1>6, <1>8, <1>10, <2>1, <2>2 DEF BatcherData
  <1>12. ReaderData(p, reader[p], b, D)
    BY <1>8, <1>10 DEF ReaderData
  <1>13. ASSUME NEW q \in Partitions PROVE DataOK(q)'
    <2>1. RowData(q)' /\ Passed(q)' = Passed(q)
      BY <1>1, RowSame DEF Passed
    <2>2. CASE q = p
      <3>1. batcher'[p] = b
        BY <1>3 DEF TypeInv
      <3> QED BY <1>1, <1>11, <1>12, <2>1, <2>2, <3>1 DEF DataOK
    <2>3. CASE q # p
      <3>1. batcher'[q] = batcher[q]
        BY <1>3, <2>3 DEF TypeInv
      <3> QED BY <1>1, <2>1, <3>1, DataSame
    <2> QED BY <2>2, <2>3
  <1> QED BY <1>13 DEF DataInv

\* A batcher is closed when nothing of it is left.
LEMMA DataClose ==
    ASSUME TypeInv, DataInv, NEW p \in Partitions, CloseBatcher(p)
    PROVE  DataInv'
  <1>1. /\ UNCHANGED <<row, delivered, overtaken>> /\ batcher' = [batcher EXCEPT ![p] = NoBatcher]
        /\ reader[p].pc = "close"
        /\ batcher[p].out = <<>> /\ batcher[p].flight = <<>> /\ batcher[p].nacked = {}
    BY DEF CloseBatcher, WaitAcks, At, tableVars, history
  <1>2. PICK r0 \in Reader : r0 = reader[p] /\ r0.mod = 0
    BY <1>1, Cells DEF ReaderFits
  <1> DEFINE r == [r0 EXCEPT !.pc = "mark"]
  <1>3. reader' = [reader EXCEPT ![p] = r]
    BY <1>2 DEF CloseBatcher
  <1>4. r.pc = "mark" /\ r.mod = 0 /\ ~(r.mod > 0)
    BY <1>2 DEF Reader
  <1> HIDE DEF r
  <1>5. Held(batcher[p]) = {}
    <2>1. batcher[p].buf = <<>>
      BY <1>1, Cells DEF BatcherFits
    <2> QED BY <1>1, <2>1, SentOne DEF Held
  <1>6. Due(p) \subseteq Passed(p)
    BY <1>1, <1>5 DEF DataInv, DataOK, ReaderData
  <1>7. ReaderData(p, r, NoBatcher, Passed(p)) /\ BatcherData(p, NoBatcher, Passed(p))
    BY <1>4, <1>6, UnusedData, NoBatcherUnused DEF ReaderData
  <1>8. ASSUME NEW q \in Partitions PROVE DataOK(q)'
    <2>1. RowData(q)' /\ Passed(q)' = Passed(q)
      BY <1>1, RowSame DEF Passed
    <2>2. CASE q = p
      <3>1. reader'[p] = r /\ batcher'[p] = NoBatcher
        BY <1>1, <1>3 DEF TypeInv
      <3> QED BY <1>7, <2>1, <2>2, <3>1 DEF DataOK
    <2>3. CASE q # p
      <3>1. reader'[q] = reader[q] /\ batcher'[q] = batcher[q]
        BY <1>1, <1>3, <2>3 DEF TypeInv
      <3> QED BY <1>1, <2>1, <3>1, DataSame
    <2> QED BY <2>2, <2>3
  <1> QED BY <1>8 DEF DataInv

\* What a lost connection leaves of a batcher: its last record may now be one
\* that was cut, whose messages are gone with what emit was offering, but those of
\* the records before it are not, or the batcher takes no record any more.
LEMMA AbortData ==
    ASSUME TypeInv, DataInv, StaleBatchersIdle, Abort, NEW p \in Partitions
    PROVE  BatcherData(p, batcher'[p], Passed(p))
  <1>1. PICK b0 \in Batcher(p), r0 \in Reader :
           /\ b0 = batcher[p] /\ r0 = reader[p] /\ ReaderFits(p, r0) /\ BatcherFits(p, r0, b0)
    BY Cells
  <1>2. PICK b \in Batcher(p) :
           /\ b = batcher'[p] /\ b.out = <<>> /\ b.buf = b0.buf
           /\ b.flight = b0.flight /\ b.nacked = b0.nacked /\ b.stale = b0.cached
           /\ b.last = IF r0.mod > 0 THEN r0.rec ELSE b0.last
    BY <1>1, AbortEffect
  <1> DEFINE D == Passed(p)
  <1>3. BatcherData(p, b0, D) /\ ReaderData(p, r0, b0, D)
    BY <1>1 DEF DataInv, DataOK
  <1>4. Held(b0) \subseteq Held(b) \cup Sent(b0.out)
    BY <1>2 DEF Held
  <1>5. ASSUME b.last # 0, ~(Periodic /\ b.stale) PROVE BeforeRecord(p, b.last) \subseteq D \cup Held(b)
    <2>1. CASE r0.mod > 0
      <3>1. r0.pc = "read" /\ b0.cached /\ b.last = r0.rec
        BY <1>1, <1>2, <2>1 DEF ReaderFits, BatcherFits
      <3>2. BatchSize = 1
        BY <1>2, <1>5, <3>1 DEF StaleBatchersIdle
      <3>3. \A x \in Sent(b0.out) : x[1] = r0.rec
        BY <1>3, <2>1, <3>2 DEF ReaderData
      <3>4. ASSUME NEW x \in BeforeRecord(p, r0.rec) PROVE x \in D \cup Held(b)
        <4>1. x \in Due(p) /\ x[1] < r0.rec
          BY DEF BeforeRecord
        <4>2. x \in D \cup Held(b0)
          BY <1>3, <3>1, <4>1 DEF ReaderData
        <4>3. x[1] # r0.rec
          <5>1. x[1] \in Nat /\ r0.rec \in Nat
            BY <4>1, MessageFields DEF Due, Reader
          <5> QED BY <4>1, <5>1
        <4> QED BY <1>4, <3>3, <4>2, <4>3
      <3> QED BY <3>1, <3>4
    <2>2. CASE ~(r0.mod > 0)
      <3>1. b.last = b0.last /\ b0.last # 0
        BY <1>2, <1>5, <2>2
      <3>2. b0.out = <<>>
        BY <1>1, <2>2, <3>1 DEF BatcherFits
      <3>3. Held(b0) \subseteq Held(b)
        BY <1>4, <3>2, SentOne
      <3>4. ~(Periodic /\ b0.stale)
        <4>1. ~b0.cached => ~b0.stale
          BY <1>1 DEF BatcherFits, Unused
        <4> QED BY <1>2, <1>5, <4>1
      <3> QED BY <1>3, <3>1, <3>3, <3>4 DEF BatcherData
    <2> QED BY <2>1, <2>2
  <1>6. \A k \in DOMAIN b.out : FALSE
    BY <1>2
  <1>7. \A k \in DOMAIN b.flight : Before(p, b.flight[k].watermark) \subseteq D \cup b.nacked \cup UpTo(b.flight, k)
    BY <1>2, <1>3 DEF BatcherData
  <1>8. BatcherData(p, b, D)
    BY <1>5, <1>6, <1>7 DEF BatcherData
  <1> QED BY <1>2, <1>8

LEMMA DataDown ==
    ASSUME TypeInv, DataInv, StaleBatchersIdle, Stop \/ Crash \/ \E p \in Partitions : CallbackFails(p)
    PROVE  DataInv'
  <1>1. UNCHANGED <<row, delivered, overtaken>> /\ reader' = [p \in Partitions |-> NoReader]
    BY DEF Stop, CallbackFails, Crash, Abort, tableVars, history
  <1>2. ASSUME NEW p \in Partitions PROVE DataOK(p)'
    <2>1. RowData(p)' /\ Passed(p)' = Passed(p)
      BY <1>1, RowSame DEF Passed
    <2>2. reader'[p].pc = "none" /\ ~(reader'[p].mod > 0)
      BY <1>1 DEF NoReader
    <2>3. ReaderData(p, reader'[p], batcher'[p], Passed(p))
      BY <2>2 DEF ReaderData
    <2>4. BatcherData(p, batcher'[p], Passed(p))
      <3>1. CASE Abort
        BY <3>1, AbortData
      <3>2. CASE Crash
        BY <3>2, UnusedData, NoBatcherUnused DEF Crash
      <3> QED BY <3>1, <3>2 DEF Stop, CallbackFails
    <2> QED BY <2>1, <2>3, <2>4 DEF DataOK
  <1> QED BY <1>2 DEF DataInv

\* Batch k is settled: its messages have passed, or are among those rejected.
LEMMA SettleData ==
    ASSUME TypeInv, DataInv, NEW p \in Partitions, NEW k \in DOMAIN batcher[p].flight,
           NEW N \in SUBSET Messages(p), batcher[p].nacked \subseteq N,
           NEW E, Passed(p) \subseteq E, Settled(p, k) \subseteq E \cup N
    PROVE  BatcherData(p, Settling(p, k, N), E) /\ ReaderData(p, reader[p], Settling(p, k, N), E)
  <1> DEFINE b0 == batcher[p]
             b == Settling(p, k, N)
             D == Passed(p)
  <1>1. /\ b.nacked = N /\ IsRemoved(b.flight, b0.flight, k)
        /\ b.stale = b0.stale /\ b.buf = b0.buf /\ b.last = b0.last /\ b.out = b0.out
        /\ reader[p].pc \notin {"mark", "finish"}
    BY SettleEffect
  <1>2. BatcherData(p, b0, D) /\ ReaderData(p, reader[p], b0, D)
    BY DEF DataInv, DataOK
  <1> DEFINE f == b.flight
             s == b0.flight
             M == Range(s[k].msgs)
  <1>3. /\ Sent(s) \subseteq Sent(f) \cup M
        /\ \A j \in DOMAIN f : \E i \in DOMAIN s : f[j] = s[i] /\ UpTo(s, i) \subseteq UpTo(f, j) \cup M
    BY <1>1, RemovedSent
  <1>4. M \subseteq E \cup N
    BY DEF Settled
  <1>5. D \cup Held(b0) \subseteq E \cup Held(b)
    BY <1>1, <1>3, <1>4 DEF Held
  <1>6. ASSUME NEW j \in DOMAIN f
        PROVE  Before(p, f[j].watermark) \subseteq E \cup N \cup UpTo(f, j)
    <2>1. PICK i \in DOMAIN s : f[j] = s[i] /\ UpTo(s, i) \subseteq UpTo(f, j) \cup M
      BY <1>3
    <2>2. Before(p, s[i].watermark) \subseteq D \cup b0.nacked \cup UpTo(s, i)
      BY <1>2 DEF BatcherData
    <2> QED BY <1>4, <2>1, <2>2
  <1>7. BatcherData(p, b, E)
    <2>1. \A j \in DOMAIN b.out : Before(p, b.out[j].watermark) \subseteq E \cup Held(b)
      BY <1>1, <1>2, <1>5 DEF BatcherData
    <2>2. b.last # 0 /\ ~(Periodic /\ b.stale) => BeforeRecord(p, b.last) \subseteq E \cup Held(b)
      BY <1>1, <1>2, <1>5 DEF BatcherData
    <2> QED BY <1>1, <1>6, <2>1, <2>2 DEF BatcherData
  <1>8. ReaderData(p, reader[p], b, E)
    BY <1>1, <1>2, <1>5 DEF ReaderData
  <1> QED BY <1>7, <1>8

LEMMA DataNack ==
    ASSUME TypeInv, DataInv, NEW p \in Partitions, NEW k \in DOMAIN batcher[p].flight, Nack(p, k)
    PROVE  DataInv'
  <1> DEFINE N == batcher[p].nacked \cup Settled(p, k)
  <1>1. UNCHANGED <<row, reader, delivered, overtaken>>
    BY DEF Nack, tableVars, history
  <1>2. N \in SUBSET Messages(p) /\ batcher[p].nacked \subseteq N /\ Settled(p, k) \subseteq Passed(p) \cup N
    BY SettledMessages
  <1>3. batcher' = [batcher EXCEPT ![p] = Settling(p, k, N)]
    <2>1. PICK b0 \in Batcher(p) : b0 = batcher[p]
      BY Cells
    <2> QED BY <2>1 DEF Nack, Settling, TypeInv
  <1> HIDE DEF N
  <1>4. BatcherData(p, Settling(p, k, N), Passed(p)) /\ ReaderData(p, reader[p], Settling(p, k, N), Passed(p))
    BY <1>2, SettleData
  <1>5. ASSUME NEW q \in Partitions PROVE DataOK(q)'
    <2>1. RowData(q)' /\ Passed(q)' = Passed(q)
      BY <1>1, RowSame DEF Passed
    <2>2. CASE q = p
      <3>1. batcher'[p] = Settling(p, k, N)
        BY <1>3 DEF TypeInv
      <3> QED BY <1>1, <1>4, <2>1, <2>2, <3>1 DEF DataOK
    <2>3. CASE q # p
      <3>1. batcher'[q] = batcher[q]
        BY <1>3, <2>3 DEF TypeInv
      <3> QED BY <1>1, <2>1, <3>1, DataSame
    <2> QED BY <2>2, <2>3
  <1> QED BY <1>5 DEF DataInv

\* An acknowledgement may store the watermark of its batch: what is before it has
\* passed, is in the batch, or is overtaken.
LEMMA DataAck ==
    ASSUME TypeInv, DataInv, NEW p \in Partitions, NEW k \in DOMAIN batcher[p].flight, Ack(p, k)
    PROVE  DataInv'
  <1> DEFINE N == batcher[p].nacked
             M == Settled(p, k)
             w == batcher[p].flight[k].watermark
  <1>1. UNCHANGED reader /\ delivered' = [delivered EXCEPT ![p] = delivered[p] \cup M]
    BY DEF Ack
  <1>2. batcher' = [batcher EXCEPT ![p] = Settling(p, k, N)]
    <2>1. PICK b0 \in Batcher(p) : b0 = batcher[p]
      BY Cells
    <2>2. [b0 EXCEPT !.flight = RemoveAt(b0.flight, k)]
            = [b0 EXCEPT !.flight = RemoveAt(b0.flight, k), !.nacked = b0.nacked]
      BY DEF Batcher
    <2> QED BY <2>1, <2>2 DEF Ack, Settling
  <1>3. N \in SUBSET Messages(p) /\ w \in Nat
    BY SettledMessages
  <1>4. delivered'[p] = delivered[p] \cup M
    BY <1>1 DEF TypeInv
  <1>5. \/ row' = row /\ overtaken' = [overtaken EXCEPT ![p] = overtaken[p] \ M]
        \/ /\ row' = [row EXCEPT ![p].watermark = w]
           /\ overtaken' = [overtaken EXCEPT ![p] = (overtaken[p] \cup Earlier(p, k)) \ delivered'[p]]
    BY DEF Ack
  <1>6. overtaken'[p] = overtaken[p] \ M \/ overtaken'[p] = (overtaken[p] \cup Earlier(p, k)) \ delivered'[p]
    BY <1>5 DEF TypeInv
  <1>7. Passed(p) \cup M \subseteq Passed(p)'
    BY <1>4, <1>6 DEF Passed
  <1>8. BatcherData(p, Settling(p, k, N), Passed(p)') /\ ReaderData(p, reader[p], Settling(p, k, N), Passed(p)')
    BY <1>3, <1>7, SettleData
  <1>9. RowData(p)'
    <2>1. CASE row' = row
      BY <1>7, <2>1, RowSame
    <2>2. CASE /\ row' = [row EXCEPT ![p].watermark = w]
               /\ overtaken' = [overtaken EXCEPT ![p] = (overtaken[p] \cup Earlier(p, k)) \ delivered'[p]]
      <3>1. State(p)' = State(p) /\ row'[p].watermark = w
        <4>1. PICK v \in Nat : v = w
          BY <1>3
        <4>2. row' = [row EXCEPT ![p].watermark = v]
          BY <2>2, <4>1
        <4>3. State(p)' = State(p) /\ row'[p].watermark = v
          BY <4>2, Stored
        <4> QED BY <4>1, <4>3
      <3>2. Earlier(p, k) \subseteq Passed(p)'
        <4>1. overtaken'[p] = (overtaken[p] \cup Earlier(p, k)) \ delivered'[p]
          BY <2>2 DEF TypeInv
        <4> QED BY <4>1 DEF Passed
      <3>3. Before(p, w) \subseteq Passed(p) \cup N \cup UpTo(batcher[p].flight, k)
        BY DEF DataInv, DataOK, BatcherData
      <3>4. ASSUME NEW x \in Before(p, w) PROVE x \in Passed(p)'
        <4>1. Timestamp(p, x[1]) < w
          BY DEF Before
        <4>2. CASE x \in Passed(p) \cup M
          BY <1>7, <4>2
        <4>3. CASE x \in N
          BY <3>2, <4>1, <4>3 DEF Earlier
        <4>4. CASE x \in UpTo(batcher[p].flight, k) /\ x \notin M
          <5>1. PICK j \in 1 .. k : x \in Settled(p, j)
            BY <4>4 DEF UpTo, Settled
          <5>2. k \in Nat
            BY Cells, BatcherFields
          <5>3. j \in 1 .. k - 1
            BY <4>4, <5>1, <5>2
          <5> QED BY <3>2, <4>1, <5>1, <5>3 DEF Earlier
        <4> QED BY <3>3, <4>2, <4>3, <4>4
      <3>5. State(p) = "FINISHED" => Due(p) \subseteq Passed(p)'
        BY <1>7 DEF DataInv, DataOK, RowData
      <3> QED BY <3>1, <3>4, <3>5 DEF RowData
    <2> QED BY <1>5, <2>1, <2>2
  <1>10. DataOK(p)'
    <2>1. batcher'[p] = Settling(p, k, N)
      BY <1>2 DEF TypeInv
    <2> QED BY <1>1, <1>8, <1>9, <2>1 DEF DataOK
  <1>11. ASSUME NEW q \in Partitions, q # p PROVE DataOK(q)'
    <2>1. batcher'[q] = batcher[q] /\ delivered'[q] = delivered[q]
      BY <1>1, <1>2, <1>11 DEF TypeInv
    <2>2. overtaken'[q] = overtaken[q] /\ row'[q] = row[q]
      BY <1>5, <1>11 DEF TypeInv
    <2>3. RowData(q)'
      BY <2>1, <2>2, RowSame DEF Passed
    <2> QED BY <1>1, <2>1, <2>2, <2>3, DataSame
  <1> QED BY <1>10, <1>11 DEF DataInv

LEMMA DataSubscriber ==
    ASSUME TypeInv, GraphInv, DataInv, SubscriberStep
    PROVE  DataInv'
  <1>1. UNCHANGED <<batcher, delivered, overtaken>>
    BY DEF SubscriberStep, Connect, CreateRoot, Run, DetectNewPartitions, RunReturns, history
  <1>2. \A q \in Partitions : Passed(q)' = Passed(q)
    BY <1>1 DEF Passed
  <1>3. ASSUME NEW q \in Partitions PROVE RowData(q)'
    <2>1. CASE row' = row
      BY <1>2, <2>1, RowSame
    <2>2. ASSUME NEW S, row' = Updated(S, "CREATED", "SCHEDULED") PROVE RowData(q)'
      <3>1. /\ State(q)' = IF q \in S /\ State(q) = "CREATED" THEN "SCHEDULED" ELSE State(q)
            /\ row'[q].watermark = row[q].watermark
        BY <2>2, Writes
      <3> QED BY <1>2, <3>1, RowMoved
    <2>3. ASSUME NEW p \in Partitions, CreateRoot(p) PROVE RowData(q)'
      <3>1. Create({p}) /\ {p} \subseteq InState({"ABSENT"})
        BY <2>3 DEF CreateRoot
      <3>2. /\ State(q)' = IF q \in {p} THEN "CREATED" ELSE State(q)
            /\ row'[q].watermark = IF q \in {p} THEN Start[q] ELSE row[q].watermark
        BY <3>1, Writes
      <3> QED BY <1>2, <3>2, RowMoved
    <2>4. CASE DetectNewPartitions
      BY <2>1, <2>2, <2>4 DEF DetectNewPartitions
    <2>5. CASE Connect \/ Run \/ RunReturns
      BY <2>1, <2>5 DEF Connect, Run, RunReturns, tableVars
    <2> QED BY <2>3, <2>4, <2>5 DEF SubscriberStep
  <1>4. ASSUME NEW q \in Partitions
        PROVE  reader'[q] = reader[q] \/ reader'[q] = [NoReader EXCEPT !.pc = "wait"]
    <2>1. CASE DetectNewPartitions
      BY <2>1 DEF DetectNewPartitions, Scheduled
    <2>2. CASE Run
      BY <2>2 DEF Run, Scheduled
    <2>3. CASE Connect \/ RunReturns \/ \E p \in Partitions : CreateRoot(p)
      BY <2>3 DEF Connect, RunReturns, CreateRoot
    <2> QED BY <2>1, <2>2, <2>3 DEF SubscriberStep
  <1>5. ASSUME NEW q \in Partitions PROVE DataOK(q)'
    <2>1. CASE reader'[q] = reader[q]
      BY <1>1, <1>3, <2>1, DataSame
    <2>2. CASE reader'[q] = [NoReader EXCEPT !.pc = "wait"]
      <3>1. reader'[q].pc = "wait" /\ ~(reader'[q].mod > 0)
        BY <2>2 DEF NoReader
      <3>2. ReaderData(q, reader'[q], batcher[q], Passed(q)) /\ BatcherData(q, batcher[q], Passed(q))
        BY <3>1 DEF ReaderData, DataInv, DataOK
      <3> QED BY <1>1, <1>2, <1>3, <3>2 DEF DataOK
    <2> QED BY <1>4, <2>1, <2>2
  <1> QED BY <1>5 DEF DataInv

LEMMA DataInit == Init => DataInv
  <1> SUFFICES ASSUME Init, NEW p \in Partitions PROVE DataOK(p)
    BY DEF DataInv
  <1>1. State(p) = "ABSENT" /\ batcher[p] = NoBatcher
    BY DEF Init, State
  <1>2. reader[p].pc = "none" /\ ~(reader[p].mod > 0)
    BY DEF Init, NoReader
  <1> QED BY <1>1, <1>2, UnusedData, NoBatcherUnused DEF DataOK, RowData, ReaderData

LEMMA DataStep == TypeInv /\ GraphInv /\ DataInv /\ StaleBatchersIdle /\ [Next]_vars => DataInv'
  <1> SUFFICES ASSUME TypeInv, GraphInv, DataInv, StaleBatchersIdle, [Next]_vars PROVE DataInv'
    OBVIOUS
  <1>1. CASE SubscriberStep
    BY <1>1, DataSubscriber
  <1>2. ASSUME NEW p \in Partitions, ReaderStep(p) PROVE DataInv'
    <2>1. CASE CallbackFails(p)
      BY <2>1, DataDown
    <2>2. CASE QueryChangeStream(p) \/ SkipRecord(p) \/ OnDataChangeRecord(p)
      BY <2>2, DataQuery, DataSkip, DataRecord
    <2>3. CASE HandleChildPartitionsRecords(p) \/ EndOfPartition(p) \/ CloseBatcher(p)
      BY <2>3, DataChildren, DataFlush, DataClose
    <2>4. CASE UpdateWatermark(p) \/ UpdateToFinished(p)
      BY <2>4, DataFinish
    <2> QED BY <1>2, <2>1, <2>2, <2>3, <2>4 DEF ReaderStep
  <1>3. ASSUME NEW p \in Partitions, PeriodicFlush(p) \/ ReadBatch(p) PROVE DataInv'
    BY <1>3, DataFlush, DataRead
  <1>4. ASSUME NEW p \in Partitions, NEW k \in DOMAIN batcher[p].flight, Ack(p, k) \/ Nack(p, k) PROVE DataInv'
    BY <1>4, DataAck, DataNack
  <1>5. CASE Stop \/ Crash
    BY <1>5, DataDown
  <1>6. CASE UNCHANGED vars
    <2>1. UNCHANGED <<row, reader, batcher, delivered, overtaken>>
      BY <1>6 DEF vars
    <2> QED BY <2>1, RowSame, DataSame DEF DataInv, Passed
  <1> QED BY <1>1, <1>2, <1>3, <1>4, <1>5, <1>6 DEF Next

\* In all reachable states watermarks, batches and goroutines pass over nothing.
THEOREM DataInvariant == StaleBatchersIdle => (Spec => [](TypeInv /\ GraphInv /\ DataInv))
  <1> SUFFICES ASSUME StaleBatchersIdle PROVE Spec => [](TypeInv /\ GraphInv /\ DataInv)
    OBVIOUS
  <1>1. Init => TypeInv /\ GraphInv /\ DataInv
    BY TypeInit, GraphInit, DataInit
  <1>2. TypeInv /\ GraphInv /\ DataInv /\ [Next]_vars => TypeInv' /\ GraphInv' /\ DataInv'
    BY TypeStep, GraphStep, DataStep
  <1> QED BY <1>1, <1>2, PTL DEF Spec

\* Whatever crashes, stops or is rejected, every message of the stream before End
\* is delivered, was overtaken by a later acknowledgement, or is still read.
THEOREM AtLeastOnceDelivery == StaleBatchersIdle => (Spec => []AtLeastOnce)
  <1> SUFFICES ASSUME StaleBatchersIdle PROVE Spec => []AtLeastOnce
    OBVIOUS
  <1>1. TypeInv /\ GraphInv /\ DataInv => AtLeastOnce
    <2> SUFFICES ASSUME TypeInv, GraphInv, DataInv, NEW p \in Expected, NEW x \in Due(p), x \notin Passed(p)
                 PROVE  Unread(p, x)
      BY DEF AtLeastOnce, Passed
    <2>1. p \in Partitions /\ Start[p] < End
      BY DEF Expected
    <2>2. CASE State(p) = "ABSENT"
      <3>1. SUFFICES ASSUME p \notin Roots
                     PROVE  Parents[p] \cap (Unfinished \cup InState({"ABSENT"})) # {}
        BY <2>2 DEF Unread, State
      <3>2. PICK a \in Partitions : a \in Parents[p]
        BY <2>1, <3>1, Records DEF Roots
      <3>3. p \in Children(a)
        BY <2>1, <3>2 DEF Children
      <3>4. State(a) # "FINISHED"
        BY <2>1, <2>2, <3>3 DEF GraphInv, RowOK, Announced, TryClaim
      <3>5. a \in Unfinished \cup InState({"ABSENT"})
        BY <3>4, States DEF Unfinished, InState, State
      <3> QED BY <3>2, <3>5
    <2>3. CASE State(p) # "ABSENT"
      <3>1. RowData(p)
        BY <2>1 DEF DataInv, DataOK
      <3>2. State(p) # "FINISHED" /\ ~(Timestamp(p, x[1]) < row[p].watermark)
        BY <2>3, <3>1 DEF RowData, Before
      <3>3. p \in Unfinished
        BY <2>1, <2>3, <3>2, States DEF Unfinished, InState, State
      <3>4. row[p].watermark <= Timestamp(p, x[1])
        <4>1. row[p].watermark \in Nat /\ Timestamp(p, x[1]) \in Nat
          BY <2>1, States, MessageFields DEF Due
        <4> QED BY <3>2, <4>1
      <3> QED BY <2>3, <3>3, <3>4 DEF Unread, State
    <2> QED BY <2>2, <2>3
  <1> QED BY <1>1, DataInvariant, PTL

\* A message of a child partition is handed out only when its parents are read to
\* their ends and all their messages settled.
THEOREM ParentsFirst == StaleBatchersIdle => (Spec => []ChildAfterParents)
  <1> SUFFICES ASSUME StaleBatchersIdle PROVE Spec => []ChildAfterParents
    OBVIOUS
  <1>1. TypeInv /\ GraphInv /\ DataInv => ChildAfterParents
    <2> SUFFICES ASSUME TypeInv, GraphInv, DataInv, NEW c \in Expected,
                        delivered[c] # {} \/ batcher[c].flight # <<>> \/ batcher[c].out # <<>>,
                        NEW p \in Parents[c]
                 PROVE  /\ Due(p) \subseteq delivered[p] \cup overtaken[p]
                        /\ batcher[p].flight = <<>> /\ batcher[p].out = <<>>
      BY DEF ChildAfterParents
    <2>1. c \in Partitions /\ p \in Partitions
      BY Records DEF Expected
    <2>2. delivered[c] # {} \/ batcher[c].cached
      BY <2>1, Cells DEF BatcherFits, Unused
    <2>3. State(c) \in {"RUNNING", "FINISHED"}
      BY <2>1, <2>2 DEF GraphInv, GoroutineOK
    <2>4. State(p) = "FINISHED"
      BY <2>1, <2>3 DEF GraphInv, RowOK, InState, State
    <2>5. Due(p) \subseteq Passed(p)
      BY <2>1, <2>4 DEF DataInv, DataOK, RowData
    <2>6. ~batcher[p].cached
      BY <2>1, <2>4 DEF GraphInv, GoroutineOK
    <2>7. batcher[p].flight = <<>> /\ batcher[p].out = <<>>
      BY <2>1, <2>6, Cells DEF BatcherFits, Unused
    <2> QED BY <2>5, <2>7 DEF Passed
  <1> QED BY <1>1, DataInvariant, PTL
=============================================================================
