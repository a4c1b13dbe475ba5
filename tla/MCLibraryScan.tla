-------------------------- MODULE MCLibraryScan --------------------------
(* Instances of LibraryScan for TLC. *)
EXTENDS LibraryScan, TLC

\* Contents, times and scans are interchangeable; paths are ordered.
Symmetry == Permutations(Contents) \cup Permutations(Times) \cup Permutations(Scans)
=============================================================================
