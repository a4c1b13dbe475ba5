---------------------------- MODULE MCOutbound ----------------------------
(* Instances of Outbound for TLC. *)
EXTENDS Outbound, TLC

\* The requests for an image are interchangeable.
Symmetric == Permutations(Viewers)
=============================================================================
