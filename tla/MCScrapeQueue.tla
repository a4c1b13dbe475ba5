--------------------------- MODULE MCScrapeQueue ---------------------------
(* Instances of ScrapeQueue for TLC. *)
EXTENDS ScrapeQueue, TLC

=============================================================================
