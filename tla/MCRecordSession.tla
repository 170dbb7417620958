--------------------------- MODULE MCRecordSession ---------------------------
(* Small instances of RecordSession.                                       *)
EXTENDS RecordSession, TLC

\* Connections are interchangeable.
Symmetry == Permutations(Conns)
=============================================================================
