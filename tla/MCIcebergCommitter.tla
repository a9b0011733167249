------------------------- MODULE MCIcebergCommitter -------------------------
(* Model-checking instances of IcebergCommitter.                           *)
EXTENDS IcebergCommitter, TLC

CONSTANTS w1, w2, w3

\* Every file name that calls can make in their two attempts.
TwoCallsFiles == {w1, w2} \X (1 .. 2)
ThreeCallsFiles == {w1, w2, w3} \X (1 .. 2)
=============================================================================
