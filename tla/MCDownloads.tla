---------------------------- MODULE MCDownloads ----------------------------
(* Instances of Downloads for TLC. *)
EXTENDS Downloads

\* One release of each of two episodes.  The first cannot be added: as long as it is in
\* the feed, every poll ends there.
TwoEpisodes == [episode : {1, 2}, rank : {1}]
FirstBad == [episode : {1}, rank : {1}]
=============================================================================
