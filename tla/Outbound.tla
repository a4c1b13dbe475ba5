------------------------------ MODULE Outbound ------------------------------
(***************************************************************************)
(* What the server asks of services on the network, side by side: the      *)
(* metadata clients, the match client and the image cache.  Start-up makes *)
(* one client of each and every task shares it (main.rs); the three share  *)
(* nothing with one another, so that a step of one leaves the others       *)
(* alone, and it is enough to look at one at a time: `which` is chosen at  *)
(* the start.                                                              *)
(***************************************************************************)
EXTENDS Integers

CONSTANTS Tools, Searches, Details, SearchTtl, DetailTtl, Burst, Cost, Timeout, Room, Window,
          Scans, Servers, Interval,
          Viewers

VARIABLES which,
          entry, bucket, call, taken,              \* MetadataClient
          secret, last, lock, matching, gap,       \* MatchClient
          node, half, req, shared, cut, broken     \* ImageCache

Metadata == INSTANCE MetadataClient WITH Callers <- Tools
Match == INSTANCE MatchClient WITH Callers <- Scans, call <- matching
Image == INSTANCE ImageCache WITH Requests <- Viewers

ASSUME MetadataAssumption ==
         Metadata!TtlAssumption /\ Metadata!BucketAssumption /\ Metadata!ClientAssumption
ASSUME MatchAssumption == Match!IntervalAssumption /\ Match!CallersAssumption
ASSUME ImageAssumption == Image!RequestsAssumption

metadataVars == <<entry, bucket, call, taken>>
matchVars == <<secret, last, lock, matching, gap>>
imageVars == <<node, half, req, shared, cut, broken>>
allVars == <<which, metadataVars, matchVars, imageVars>>

Init == /\ which \in {"metadata", "match", "image"}
        /\ Metadata!Init
        /\ Match!Init
        /\ Image!Init
        /\ which # "match" => ~secret

Next == \/ which = "metadata" /\ Metadata!Next /\ UNCHANGED <<which, matchVars, imageVars>>
        \/ which = "match" /\ Match!Next /\ UNCHANGED <<which, metadataVars, imageVars>>
        \/ which = "image" /\ Image!Next /\ UNCHANGED <<which, metadataVars, matchVars>>

Spec == Init /\ [][Next]_allVars

-----------------------------------------------------------------------------
(* Properties *)

\* The types of the three, for their readers; any misuse of a client shows here.
TypesOK == Metadata!TypeOK /\ Match!TypeOK /\ Image!TypeOK

\* An answer from the metadata cache is never older than its time to live and a
\* slow request.
AnswersAreRecent == Metadata!AnswersAreRecent

\* The metadata services see no more than a burst and then the rate.
PaceKept == Metadata!PaceKept

\* Match requests are an interval apart, whoever waits and whoever is dropped.
MatchesAreSpaced == Match!MatchesAreSpaced

\* A download that is alone publishes whole images.
LoneDownloadIsWhole == Image!LoneDownloadIsWhole

\* Half an image is being written, unless a writer was cut off or met a full disk.
HalfFilesAreBeingWritten == Image!HalfFilesAreBeingWritten
=============================================================================
