-------------------------- MODULE MCStewardMemory --------------------------
(* Instances of StewardMemory for TLC. *)
EXTENDS StewardMemory, TLC

\* Requests are interchangeable.
Symmetry == Permutations(Chats)
=============================================================================
