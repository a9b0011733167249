------------------------ MODULE MCFranzReaderOrdered ------------------------
(* Model-checking instances of FranzReaderOrdered.                         *)
EXTENDS FranzReaderOrdered, TLC

\* The processes of a group are interchangeable.
Symmetry == Permutations(Clients)

\* Sizes 1, 1, 3, 2, ...: with a batch limit of 2 there are batches of one and of
\* several records, one that is filled up to the limit, and an oversized record.
MCRecordSize == [r \in Offsets |-> IF r % 4 = 2 THEN 3 ELSE IF r % 4 = 3 THEN 2 ELSE 1]
=============================================================================
