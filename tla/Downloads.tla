----------------------------- MODULE Downloads -----------------------------
(***************************************************************************)
(* Downloads, in two parts that are looked at one at a time: the polls of  *)
(* a subscription, up to the torrent they add (SubscriptionPoll), and the  *)
(* way of torrents into the library (TorrentIngest).  The parts meet in    *)
(* the torrent that is added: for the poll it is a call that may fail, for *)
(* the torrents an addition that may come at any time.  Neither reads      *)
(* anything else that the other writes, and `part` is chosen at the start. *)
(***************************************************************************)
EXTENDS Naturals, FiniteSets

CONSTANTS Releases, Bad, Timer, Requests, MaxLives,
          Torrents, Handlers, MaxAdds,
          MaxFaults

VARIABLES part,
          feed, sub, error, entry, poll, added, lives, failures, stranded,   \* SubscriptionPoll
          session, files, row, ingest, projection, handler, reconciler,
          adds, faults, missed                                               \* TorrentIngest

Polling == INSTANCE SubscriptionPoll WITH adds <- added, faults <- failures
Ingesting == INSTANCE TorrentIngest

ASSUME PollingAssumption ==
         Polling!ReleasesAssumption /\ Polling!BoundsAssumption /\ Polling!PollsAssumption
ASSUME IngestingAssumption == Ingesting!BoundsAssumption

pollVars == <<feed, sub, error, entry, poll, added, lives, failures, stranded>>
ingestVars == <<session, files, row, ingest, projection, handler, reconciler, adds, faults, missed>>
allVars == <<part, pollVars, ingestVars>>

Init == /\ part \in {"polling", "ingesting"}
        /\ Polling!Init
        /\ Ingesting!Init

Polls(step) == part = "polling" /\ step /\ UNCHANGED <<part, ingestVars>>
Ingests(step) == part = "ingesting" /\ step /\ UNCHANGED <<part, pollVars>>

Next == Polls(Polling!Next) \/ Ingests(Ingesting!Next)

Spec == Init /\ [][Next]_allVars

\* The timer of the polls ticks, polls that are under way go on, a feed that can be
\* fetched is fetched and a torrent that can be added is added in the end.
PollsGoOn == /\ WF_allVars(Polls(Polling!Start(Timer)))
             /\ SF_allVars(Polls(Polling!Fetch(Timer)))
             /\ \A p \in Polling!Polls : /\ WF_allVars(Polls(Polling!Step(p)))
                                         /\ SF_allVars(Polls(Polling!Add(p)))

\* The ticker of the reconciler ticks and the tasks go on.  Nothing is assumed of the
\* downloads and of the users.
IngestsGoOn == /\ WF_allVars(Ingests(Ingesting!Tick))
               /\ WF_allVars(Ingests(Ingesting!ReconcilerStep))
               /\ \A h \in Handlers : WF_allVars(Ingests(Ingesting!HandlerCommits(h)))

\* One part, with what its scheduling promises.
PollingInit == Init /\ part = "polling"
PollingSpec == PollingInit /\ [][Next]_allVars /\ PollsGoOn
IngestingInit == Init /\ part = "ingesting"
IngestingSpec == IngestingInit /\ [][Next]_allVars /\ IngestsGoOn

-----------------------------------------------------------------------------
(* Properties *)

\* The types of the two, for their readers.
TypesOK == Polling!TypeOK /\ Ingesting!TypeOK

\* Overlapping polls never add a release twice in one life of the subscription.
AddedOnce == Polling!AddedOnce

\* An entry with an info hash stands for a torrent that was added.
LinkedWasAdded == Polling!LinkedWasAdded

\* A claim without a poll at work on it was left behind by a fault.
ClaimIsWorkedOn == Polling!ClaimIsWorkedOn

\* The best release of an episode is added in the end, with the exceptions that
\* SubscriptionPoll names.
BestReleaseAdded == Polling!BestReleaseAdded

\* A torrent that was added once and is done is in the library as a whole, but for
\* files that the scan could not read.
DoneIsWhole == Ingesting!DoneIsWhole

\* A finished torrent is entered in the library in the end.
FinishedIsEntered == Ingesting!FinishedIsEntered

\* When the session comes to rest the projection agrees with it.
ProjectionConverges == Ingesting!ProjectionConverges
=============================================================================
