--------------------------- MODULE MCHlsSession ---------------------------
(* Instances of HlsSession for TLC. *)
EXTENDS HlsSession, TLC

\* Requests are interchangeable (safety runs only).
Symmetry == Permutations(Requests)
=============================================================================
