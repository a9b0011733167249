----------------------- MODULE MCFranzReaderUnordered -----------------------
(* Model-checking instances of FranzReaderUnordered.                       *)
EXTENDS FranzReaderUnordered, TLC

\* The processes of a group are interchangeable.
Symmetry == Permutations(Clients)
=============================================================================
