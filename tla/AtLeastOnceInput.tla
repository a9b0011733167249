-------------------------- MODULE AtLeastOnceInput --------------------------
(***************************************************************************)
(* What an input of this repository that reads numbered records and stores *)
(* how far it got promises its pipeline, whatever its processes go         *)
(* through.  The Kafka readers (KgoGroup) and the Kinesis input            *)
(* (KinesisInput) are shown to implement it.                               *)
(*                                                                         *)
(* A source (a partition, a shard) has records 1 .. Length.  Outputs       *)
(* confirm deliveries in any order and possibly repeatedly; the stored     *)
(* position moves only over confirmed records.                             *)
(***************************************************************************)
EXTENDS Naturals

CONSTANTS
    Sources,
    Length,   \* [Sources -> Nat]
    Rewinds   \* may the stored position also go back, at the price of duplicates?

VARIABLES
    resume,     \* [Sources -> Nat]: the records up to here are not read again
    confirmed   \* [Sources -> SUBSET Nat]: records some output has confirmed

inputVars == <<resume, confirmed>>

Init ==
    /\ resume = [s \in Sources |-> 0]
    /\ confirmed = [s \in Sources |-> {}]

\* An output confirms records of a source, some of them perhaps once more.
Deliver(s) ==
    /\ \E R \in SUBSET (1 .. Length[s]) :
          confirmed' = [confirmed EXCEPT ![s] = @ \cup R]
    /\ UNCHANGED resume

\* Positions are stored, of several sources at a time.
Store ==
    /\ \E to \in [Sources -> UNION {0 .. Length[s] : s \in Sources}] :
          /\ \A s \in Sources :
                /\ 1 .. to[s] \subseteq confirmed[s]
                /\ Rewinds \/ to[s] >= resume[s]
          /\ resume' = to
    /\ UNCHANGED confirmed

Next == Store \/ \E s \in Sources : Deliver(s)

Spec == Init /\ [][Next]_inputVars
=============================================================================
