--------------------------- MODULE KgoGroupProofs ---------------------------
(***************************************************************************)
(* What the proofs about both Kafka readers need to know of the client and *)
(* the coordinator of KgoGroup: the types of what they exchange, who may   *)
(* commit what, and how their steps look to AtLeastOnceInput.              *)
(***************************************************************************)
EXTENDS KgoGroup, TLAPS

USE NumRecordsAssumption, DisruptionsAssumption, NoClientAssumption
    DEF NoMark, NoClient, Offsets, Positions

-----------------------------------------------------------------------------
(* Types.                                                                  *)

\* A marked offset is a position.
LEMMA MarkType ==
    ASSUME GroupTypeOK, NEW c \in Clients, NEW p \in Partitions, NEW o \in Offsets,
           MarkCommitRecords(c, p, o)
    PROVE  head' \in [Clients -> [Partitions -> Positions \cup {NoMark}]]
  BY DEF MarkCommitRecords, GroupTypeOK

\* A commit stores positions.
LEMMA CommitType ==
    ASSUME GroupTypeOK, NEW c \in Clients, CommitMarkedOffsets(c)
    PROVE  /\ committed' \in [Partitions -> Positions]
           /\ sent' \in [Clients -> [Partitions -> Positions \cup {NoMark}]]
  <1>1. \A p \in Dirty(c) : head[c][p] \in Positions
    BY DEF Dirty, GroupTypeOK
  <1>2. committed' \in [Partitions -> Positions]
    BY <1>1 DEF CommitMarkedOffsets, GroupTypeOK
  <1>3. sent' \in [Clients -> [Partitions -> Positions \cup {NoMark}]]
    <2>1. CASE c \in fenced
      BY <2>1 DEF CommitMarkedOffsets, GroupTypeOK
    <2>2. CASE c \notin fenced
      <3> DEFINE new == [p \in Partitions |-> IF p \in Dirty(c) THEN head[c][p] ELSE sent[c][p]]
      <3>1. new \in [Partitions -> Positions \cup {NoMark}]
        BY <1>1 DEF GroupTypeOK
      <3>2. sent' = [sent EXCEPT ![c] = new]
        BY <2>2 DEF CommitMarkedOffsets
      <3> HIDE DEF new
      <3> QED BY <3>1, <3>2 DEF GroupTypeOK
    <2> QED BY <2>1, <2>2
  <1> QED BY <1>2, <1>3

\* The steps of the client and of the coordinator keep their variables typed.
LEMMA GroupTypes ==
    ASSUME GroupTypeOK, NEW c \in Clients,
           \/ \E p \in Partitions : AssignPartition(c, p)
           \/ AutoCommit(c) \/ Evict(c) \/ OnPartitionsLost(c) \/ CallbackReturned(c)
    PROVE  GroupTypeOK'
  <1>1. ASSUME NEW p \in Partitions, AssignPartition(c, p) PROVE GroupTypeOK'
    BY <1>1 DEF AssignPartition, GroupTypeOK
  <1>2. CASE AutoCommit(c)
    BY <1>2, CommitType DEF AutoCommit, GroupTypeOK
  <1>3. CASE Evict(c)
    BY <1>3 DEF Evict, GroupTypeOK
  <1>4. CASE OnPartitionsLost(c)
    BY <1>4 DEF OnPartitionsLost, GroupTypeOK
  <1>5. CASE CallbackReturned(c)
    BY <1>5 DEF CallbackReturned, Idle, GroupTypeOK
  <1> QED BY <1>1, <1>2, <1>3, <1>4, <1>5

\* Entering OnPartitionsRevoked keeps them typed, whether or not its commit
\* succeeds, and so does the end of a process.
LEMMA RevokedTypes ==
    ASSUME GroupTypeOK, NEW c \in Clients, disruptions' \in 0 .. MaxDisruptions,
           (\E parts \in SUBSET Partitions : OnPartitionsRevoked(c, parts)) \/ ProcessGone(c)
    PROVE  GroupTypeOK'
  <1>1. ASSUME NEW parts \in SUBSET Partitions, OnPartitionsRevoked(c, parts) PROVE GroupTypeOK'
    <2>1. committed' \in [Partitions -> Positions]
          /\ sent' \in [Clients -> [Partitions -> Positions \cup {NoMark}]]
      <3>1. CASE CommitMarkedOffsets(c)
        BY <3>1, CommitType
      <3>2. CASE UNCHANGED <<committed, sent>>
        BY <3>2 DEF GroupTypeOK
      <3> QED BY <1>1, <3>1, <3>2 DEF OnPartitionsRevoked
    <2> QED BY <1>1, <2>1 DEF OnPartitionsRevoked, GroupTypeOK
  <1>2. CASE ProcessGone(c)
    BY <1>2 DEF ProcessGone, Idle, GroupTypeOK
  <1> QED BY <1>1, <1>2

-----------------------------------------------------------------------------
(* At-least-once delivery and the committed offsets.                       *)

\* At-least-once delivery survives a step that commits nothing and takes no
\* delivery back.
LEMMA CommittedFrame ==
    ASSUME AtLeastOnce, committed' = committed,
           \A q \in Partitions : delivered[q] \subseteq delivered'[q]
    PROVE  AtLeastOnce'
  BY DEF AtLeastOnce, Below

\* A commit stores marks of the client that makes it, and of no fenced one.
LEMMA CommitEffect ==
    ASSUME GroupTypeOK, NEW c \in Clients, CommitMarkedOffsets(c) \/ UNCHANGED committed
    PROVE  \A q \in Partitions :
              \/ committed'[q] = committed[q]
              \/ c \notin fenced /\ head[c][q] # NoMark /\ committed'[q] = head[c][q]
  <1>1. CASE CommitMarkedOffsets(c) /\ c \notin fenced
    <2>1. ASSUME NEW q \in Partitions
          PROVE  committed'[q] = committed[q] \/ (head[c][q] # NoMark /\ committed'[q] = head[c][q])
      <3>1. committed'[q] = IF q \in Dirty(c) THEN head[c][q] ELSE committed[q]
        BY <1>1 DEF CommitMarkedOffsets
      <3>2. q \in Dirty(c) => head[c][q] # NoMark
        BY DEF Dirty
      <3> QED BY <3>1, <3>2
    <2> QED BY <1>1, <2>1
  <1>2. CASE UNCHANGED committed
    BY <1>2
  <1>3. CASE CommitMarkedOffsets(c) /\ c \in fenced
    BY <1>3 DEF CommitMarkedOffsets
  <1> QED BY <1>1, <1>2, <1>3

-----------------------------------------------------------------------------
(* Who may commit.                                                         *)

\* A client the coordinator has not thrown out owns what it is assigned, and
\* has marked at least what is committed; one that was thrown out gives up
\* everything at once when it learns of it.
Owned(c) ==
    /\ c \in fenced => callback[c] = Idle \/ callback[c].parts = assigned[c]
    /\ \A p \in assigned[c] : head[c][p] # NoMark
    /\ c \notin fenced => \A p \in assigned[c] : owner[p] = c /\ head[c][p] >= committed[p]

\* The inductive invariant behind CommitNeverRewinds, together with MarksOnlyOwned.
Ownership == \A c \in Clients : Owned(c)

\* No committed offset goes back.
Forward == \A p \in Partitions : committed'[p] >= committed[p]

\* At the start nobody is assigned anything.
LEMMA OwnershipInit == GroupInit => Ownership
  BY DEF GroupInit, Ownership, Owned, Idle

\* A client that keeps everything the invariant speaks of keeps it.
LEMMA OwnedFrame ==
    ASSUME NEW d \in Clients, Owned(d), d \in fenced' <=> d \in fenced,
           callback'[d] = callback[d], assigned'[d] = assigned[d], head'[d] = head[d],
           d \notin fenced => \A p \in assigned[d] : owner'[p] = owner[p] /\ committed'[p] = committed[p]
    PROVE  Owned(d)'
  BY DEF Owned

\* An offset that did not change did not go back.
LEMMA ForwardFrame ==
    ASSUME GroupTypeOK, UNCHANGED committed
    PROVE  Forward
  BY DEF Forward, GroupTypeOK

\* A partition is given to somebody while no member owns it.
LEMMA OwnershipAssign ==
    ASSUME GroupTypeOK, Ownership, NEW c \in Clients, NEW p \in Partitions, AssignPartition(c, p)
    PROVE  Ownership' /\ Forward
  <1>1. /\ owner[p] = NoClient /\ c \notin fenced /\ callback[c] = Idle
        /\ assigned'[c] = assigned[c] \cup {p} /\ head'[c][p] = committed[p]
        /\ owner'[p] = c /\ \A q \in Partitions : q # p => owner'[q] = owner[q]
        /\ \A q \in Partitions : q # p => head'[c][q] = head[c][q]
        /\ \A d \in Clients : d # c => assigned'[d] = assigned[d] /\ head'[d] = head[d]
        /\ UNCHANGED <<committed, fenced, callback>>
    BY DEF AssignPartition, GroupTypeOK
  <1>2. committed[p] \in Positions /\ \A d \in Clients : assigned[d] \subseteq Partitions
    BY DEF GroupTypeOK
  <1>3. ASSUME NEW d \in Clients PROVE Owned(d)'
    <2>1. Owned(d)
      BY DEF Ownership
    <2>2. CASE d = c
      <3>1. ASSUME NEW q \in assigned'[c]
            PROVE  head'[c][q] # NoMark /\ owner'[q] = c /\ head'[c][q] >= committed'[q]
        <4>1. CASE q = p
          BY <1>1, <1>2, <4>1
        <4>2. CASE q # p
          <5>1. q \in assigned[c] /\ q \in Partitions
            BY <1>1, <1>2, <4>2
          <5> QED BY <1>1, <2>1, <2>2, <4>2, <5>1 DEF Owned
        <4> QED BY <4>1, <4>2
      <3> QED BY <1>1, <2>2, <3>1 DEF Owned
    <2>3. CASE d # c
      <3>1. d \notin fenced => p \notin assigned[d]
        BY <1>1, <2>1 DEF Owned
      <3>2. d \notin fenced => \A q \in assigned[d] : owner'[q] = owner[q] /\ committed'[q] = committed[q]
        BY <1>1, <1>2, <3>1
      <3> QED BY <1>1, <2>1, <2>3, <3>2, OwnedFrame
    <2> QED BY <2>2, <2>3
  <1>4. Forward
    BY <1>1, ForwardFrame
  <1> QED BY <1>3, <1>4 DEF Ownership

\* The coordinator throws a client out, or a process is gone: what the others
\* own stays theirs.
LEMMA OwnershipLeave ==
    ASSUME GroupTypeOK, Ownership, NEW c \in Clients, Evict(c) \/ ProcessGone(c)
    PROVE  Ownership' /\ Forward
  <1>1. /\ \A q \in Partitions : owner'[q] = IF owner[q] = c THEN NoClient ELSE owner[q]
        /\ \A d \in Clients : d # c => /\ assigned'[d] = assigned[d] /\ head'[d] = head[d]
                                       /\ callback'[d] = callback[d] /\ (d \in fenced' <=> d \in fenced)
        /\ UNCHANGED committed
    BY DEF Evict, ProcessGone, GroupTypeOK
  <1>2. \A d \in Clients : assigned[d] \subseteq Partitions
    BY DEF GroupTypeOK
  <1>3. ASSUME NEW d \in Clients, d # c PROVE Owned(d)'
    <2>1. Owned(d)
      BY DEF Ownership
    <2>2. d \notin fenced => \A q \in assigned[d] : owner'[q] = owner[q] /\ committed'[q] = committed[q]
      BY <1>1, <1>2, <1>3, <2>1 DEF Owned
    <2> QED BY <1>1, <1>3, <2>1, <2>2, OwnedFrame
  <1>4. Owned(c)'
    <2>1. CASE Evict(c)
      <3>1. c \in fenced' /\ callback'[c] = Idle /\ assigned'[c] = assigned[c] /\ head'[c] = head[c]
        BY <2>1 DEF Evict
      <3> QED BY <3>1 DEF Owned, Ownership
    <2>2. CASE ProcessGone(c)
      <3>1. c \notin fenced' /\ assigned'[c] = {}
        BY <2>2 DEF ProcessGone, GroupTypeOK
      <3> QED BY <3>1 DEF Owned
    <2> QED BY <2>1, <2>2
  <1>5. Forward
    BY <1>1, ForwardFrame
  <1> QED BY <1>3, <1>4, <1>5 DEF Ownership

\* A commit of a client is one of offsets it owns.
LEMMA OwnershipCommit ==
    ASSUME GroupTypeOK, Ownership, MarksOnlyOwned, NEW c \in Clients,
           CommitMarkedOffsets(c) \/ UNCHANGED committed,
           UNCHANGED <<owner, fenced, assigned, head>>,
           \A d \in Clients : d # c \/ c \in fenced => callback'[d] = callback[d]
    PROVE  Ownership' /\ Forward
  <1>1. \A q \in Partitions :
           \/ committed'[q] = committed[q]
           \/ c \notin fenced /\ head[c][q] # NoMark /\ committed'[q] = head[c][q]
    BY CommitEffect
  <1>2. \A q \in Partitions : head[c][q] # NoMark => q \in assigned[c]
    BY DEF MarksOnlyOwned
  <1>3. \A q \in Partitions : /\ c \notin fenced /\ q \in assigned[c] => head[c][q] >= committed[q]
                              /\ committed[q] >= committed[q]
    BY DEF Ownership, Owned, GroupTypeOK
  <1>4. Forward
    BY <1>1, <1>2, <1>3 DEF Forward
  <1>5. \A d \in Clients : assigned[d] \subseteq Partitions
    BY DEF GroupTypeOK
  <1>6. ASSUME NEW d \in Clients PROVE Owned(d)'
    <2>1. Owned(d) /\ Owned(c)
      BY DEF Ownership
    <2>2. CASE d = c
      <3>1. ASSUME NEW q \in assigned[c], c \notin fenced
            PROVE  owner[q] = c /\ head[c][q] >= committed'[q]
        <4>1. owner[q] = c /\ head[c][q] >= committed[q] /\ q \in Partitions
          BY <1>5, <2>1, <3>1 DEF Owned
        <4>2. head[c][q] >= head[c][q]
          BY <4>1, SMTT(60) DEF GroupTypeOK
        <4> QED BY <1>1, <4>1, <4>2
      <3> QED BY <2>1, <2>2, <3>1 DEF Owned
    <2>3. CASE d # c
      <3>1. ASSUME d \notin fenced, NEW q \in assigned[d] PROVE committed'[q] = committed[q]
        <4>1. q \in Partitions /\ owner[q] = d
          BY <1>5, <2>1, <3>1 DEF Owned
        <4>2. c \notin fenced => q \notin assigned[c]
          BY <2>1, <2>3, <4>1 DEF Owned
        <4> QED BY <1>1, <1>2, <4>1, <4>2
      <3> QED BY <2>1, <2>3, <3>1, OwnedFrame
    <2> QED BY <2>2, <2>3
  <1> QED BY <1>4, <1>6 DEF Ownership

\* Partitions are lost, and a callback has returned.
LEMMA OwnershipCallback ==
    ASSUME GroupTypeOK, Ownership, NEW c \in Clients, OnPartitionsLost(c) \/ CallbackReturned(c)
    PROVE  Ownership' /\ Forward
  <1>1. UNCHANGED committed /\ \A d \in Clients : assigned[d] \subseteq Partitions
    BY DEF OnPartitionsLost, CallbackReturned, GroupTypeOK
  <1>2. Forward
    BY <1>1, ForwardFrame
  <1>3. CASE OnPartitionsLost(c)
    <2>1. /\ c \in fenced /\ callback' = [callback EXCEPT ![c] = [stage |-> "remove", parts |-> assigned[c]]]
          /\ UNCHANGED <<owner, fenced, assigned, head>>
      BY <1>3 DEF OnPartitionsLost
    <2>2. /\ callback'[c].parts = assigned[c]
          /\ \A d \in Clients : d # c => callback'[d] = callback[d]
      BY <2>1 DEF GroupTypeOK
    <2>3. Owned(c)'
      BY <2>1, <2>2 DEF Ownership, Owned
    <2>4. ASSUME NEW d \in Clients, d # c PROVE Owned(d)'
      BY <1>1, <2>1, <2>2, <2>4, OwnedFrame DEF Ownership
    <2> QED BY <1>2, <2>3, <2>4 DEF Ownership
  <1>4. CASE CallbackReturned(c)
    <2>1. /\ callback[c].stage = "clean" /\ callback[c] # Idle
          /\ assigned'[c] = assigned[c] \ callback[c].parts
          /\ \A q \in Partitions : head'[c][q] = IF q \in callback[c].parts THEN NoMark ELSE head[c][q]
          /\ \A q \in Partitions :
                owner'[q] = IF q \in callback[c].parts /\ owner[q] = c THEN NoClient ELSE owner[q]
          /\ c \notin fenced'
          /\ \A d \in Clients : d # c => /\ assigned'[d] = assigned[d] /\ head'[d] = head[d]
                                         /\ callback'[d] = callback[d] /\ (d \in fenced' <=> d \in fenced)
      BY <1>4 DEF CallbackReturned, GroupTypeOK, Idle
    <2>2. Owned(c)'
      <3>1. Owned(c)
        BY DEF Ownership
      <3>2. c \in fenced => assigned'[c] = {}
        BY <2>1, <3>1 DEF Owned
      <3>3. ASSUME NEW q \in assigned'[c]
            PROVE  /\ head'[c][q] # NoMark
                   /\ owner'[q] = c /\ head'[c][q] >= committed'[q]
        <4>1. q \in assigned[c] /\ q \in Partitions /\ q \notin callback[c].parts /\ c \notin fenced
          BY <1>1, <2>1, <3>2, <3>3
        <4>2. head'[c][q] = head[c][q] /\ owner'[q] = owner[q]
          BY <2>1, <4>1
        <4> QED BY <1>1, <3>1, <4>1, <4>2 DEF Owned
      <3> QED BY <2>1, <3>3 DEF Owned
    <2>3. ASSUME NEW d \in Clients, d # c PROVE Owned(d)'
      <3>1. Owned(d)
        BY DEF Ownership
      <3>2. d \notin fenced => \A q \in assigned[d] : owner'[q] = owner[q]
        BY <1>1, <2>1, <2>3, <3>1 DEF Owned
      <3> QED BY <1>1, <2>1, <2>3, <3>1, <3>2, OwnedFrame
    <2> QED BY <1>2, <2>2, <2>3 DEF Ownership
  <1> QED BY <1>3, <1>4

\* A mark on an assigned partition only goes up.
LEMMA OwnershipMark ==
    ASSUME GroupTypeOK, Ownership, NEW c \in Clients, NEW p \in assigned[c], NEW o \in Offsets,
           MarkCommitRecords(c, p, o), UNCHANGED <<owner, committed, fenced, assigned, callback>>
    PROVE  Ownership' /\ Forward
  <1>1. p \in Partitions /\ assigned[c] \subseteq Partitions
    BY DEF GroupTypeOK
  <1>2. /\ head'[c][p] = IF head[c][p] < o + 1 THEN o + 1 ELSE head[c][p]
        /\ \A q \in Partitions : q # p => head'[c][q] = head[c][q]
        /\ \A d \in Clients : d # c => head'[d] = head[d]
    BY <1>1 DEF MarkCommitRecords, GroupTypeOK
  <1>3. ASSUME NEW d \in Clients PROVE Owned(d)'
    <2>1. Owned(d)
      BY DEF Ownership
    <2>2. CASE d = c
      <3>1. ASSUME NEW q \in assigned[c]
            PROVE  head'[c][q] # NoMark /\ (c \notin fenced => owner[q] = c /\ head'[c][q] >= committed[q])
        <4>1. CASE q = p
          <5>1. head[c][p] \in Positions \cup {NoMark} /\ committed[p] \in Positions
            BY <1>1 DEF GroupTypeOK
          <5>2. head[c][p] # NoMark /\ (c \notin fenced => owner[p] = c /\ head[c][p] >= committed[p])
            BY <2>1, <2>2 DEF Owned
          <5> QED BY <1>2, <4>1, <5>1, <5>2
        <4>2. CASE q # p
          <5>1. head'[c][q] = head[c][q]
            BY <1>1, <1>2, <4>2
          <5> QED BY <2>1, <2>2, <5>1 DEF Owned
        <4> QED BY <4>1, <4>2
      <3> QED BY <2>1, <2>2, <3>1 DEF Owned
    <2>3. CASE d # c
      BY <1>2, <2>1, <2>3, OwnedFrame
    <2> QED BY <2>2, <2>3
  <1>4. Forward
    BY ForwardFrame
  <1> QED BY <1>3, <1>4 DEF Ownership

\* Steps that leave the group alone, but for the stage of a callback.
LEMMA OwnershipFrame ==
    ASSUME GroupTypeOK, Ownership, UNCHANGED <<owner, committed, fenced, assigned, head>>,
           \A d \in Clients : \/ callback'[d] = callback[d]
                              \/ callback[d] # Idle /\ callback'[d].parts = callback[d].parts
    PROVE  Ownership' /\ Forward
  <1>1. ASSUME NEW d \in Clients PROVE Owned(d)'
    BY DEF Ownership, Owned
  <1>2. Forward
    BY ForwardFrame
  <1> QED BY <1>1, <1>2 DEF Ownership

-----------------------------------------------------------------------------
(* How the group looks to AtLeastOnceInput.                                *)

\* The group starts where the abstract input does.
LEMMA GroupStarts == GroupInit => Group!Init
  BY DEF GroupInit, Group!Init

\* A step that commits is Store, one that delivers is Deliver.
LEMMA GroupSteps ==
    ASSUME GroupTypeOK, GroupTypeOK', AtLeastOnce', Forward,
           \/ delivered' = delivered
           \/ /\ committed' = committed
              /\ \E p \in Partitions : \E D \in SUBSET Offsets :
                    delivered' = [delivered EXCEPT ![p] = @ \cup D]
    PROVE  [Group!Next]_(Group!inputVars)
  <1>1. CASE delivered' = delivered
    <2>1. ASSUME NEW p \in Partitions
          PROVE  committed'[p] \in 0 .. NumRecords /\ 1 .. committed'[p] \subseteq {r + 1 : r \in delivered[p]}
      <3>1. committed'[p] \in Positions /\ Below(committed'[p]) \subseteq delivered[p]
        BY <1>1 DEF GroupTypeOK, AtLeastOnce, Below
      <3>2. ASSUME NEW n \in 1 .. committed'[p] PROVE n \in {r + 1 : r \in delivered[p]}
        <4>1. n - 1 \in Below(committed'[p]) /\ n = (n - 1) + 1
          BY <3>1 DEF Below
        <4> QED BY <3>1, <4>1
      <3> QED BY <3>1, <3>2
    <2>2. committed' \in [Partitions -> UNION {0 .. [q \in Partitions |-> NumRecords][s] : s \in Partitions}]
      BY <2>1 DEF GroupTypeOK
    <2>3. Group!Store
      BY <1>1, <2>1, <2>2 DEF Group!Store, Forward
    <2> QED BY <2>3 DEF Group!Next
  <1>2. ASSUME committed' = committed, NEW p \in Partitions, NEW D \in SUBSET Offsets,
               delivered' = [delivered EXCEPT ![p] = @ \cup D]
        PROVE  Group!Deliver(p)
    <2> DEFINE R == {r + 1 : r \in D}
               confirmed == [q \in Partitions |-> {r + 1 : r \in delivered[q]}]
    <2>1. R \in SUBSET (1 .. [q \in Partitions |-> NumRecords][p])
      OBVIOUS
    <2>2. ASSUME NEW q \in Partitions PROVE confirmed'[q] = [confirmed EXCEPT ![p] = @ \cup R][q]
      <3>1. CASE q = p
        <4>1. delivered'[p] = delivered[p] \cup D
          BY <1>2 DEF GroupTypeOK
        <4>2. {r + 1 : r \in delivered[p] \cup D} = {r + 1 : r \in delivered[p]} \cup R
          OBVIOUS
        <4> QED BY <3>1, <4>1, <4>2
      <3>2. CASE q # p
        BY <1>2, <3>2 DEF GroupTypeOK
      <3> QED BY <3>1, <3>2
    <2>3. confirmed' = [confirmed EXCEPT ![p] = @ \cup R]
      BY <2>2
    <2> HIDE DEF R
    <2> QED BY <1>2, <2>1, <2>3 DEF Group!Deliver
  <1> QED BY <1>1, <1>2 DEF Group!Next
=============================================================================
