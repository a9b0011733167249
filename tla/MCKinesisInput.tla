--------------------------- MODULE MCKinesisInput ---------------------------
(* Small instances of KinesisInput.                                        *)
EXTENDS KinesisInput, TLC

CONSTANTS c1, c2, s1, s2

\* One shard with records, and one that stays idle.
BusyAndIdle == s1 :> 2 @@ s2 :> 0
OneBusy == s1 :> 2
=============================================================================
