--------------------------- MODULE MCResultCommit ---------------------------
(* The callers are interchangeable.                                         *)
EXTENDS ResultCommit

Symmetry == Permutations(Caller)

=============================================================================
