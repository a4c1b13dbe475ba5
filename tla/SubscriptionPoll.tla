-------------------------- MODULE SubscriptionPoll --------------------------
(***************************************************************************)
(* One RSS subscription (nipa-server/src/api_download.rs): the half-hourly *)
(* poll and the polls that users ask for fetch the feed, pick one release  *)
(* of every episode, and for each that is new claim an entry, add the      *)
(* torrent and record it.  Polls overlap, meet deletions of the            *)
(* subscription and are cut off by closed connections and restarts.        *)
(*                                                                         *)
(* A release is an episode and the rank of its group among the groups the  *)
(* filter prefers; the feed is what the filter lets through.  Adding a     *)
(* torrent is external (librqbit and the network): it may fail, and for a  *)
(* bad release it always does.                                             *)
(***************************************************************************)
EXTENDS Naturals, FiniteSets

CONSTANTS Releases,   \* those that may appear, with the numbers of their episode,
                      \* in the order of the groups' keys, and rank, the best the least
          Bad,        \* releases that can never be added
          Timer,      \* the background poll
          Requests,   \* polls that users may have in flight
          MaxLives,   \* bound on the times the subscription is created
          MaxFaults   \* bound on the polls cut off and on failed statements

Polls == Requests \cup {Timer}

\* Assumed wherever the module is used.
ReleasesAssumption == Releases \subseteq [episode : Nat \ {0}, rank : Nat]
BoundsAssumption == MaxLives \in Nat /\ MaxFaults \in Nat
PollsAssumption == Timer \notin Requests /\ Bad \subseteq Releases

VARIABLES feed,     \* releases in the feed
          sub,      \* the row of the subscription
          error,    \* is its last_error set?
          entry,    \* subscription_entries
          poll,     \* the polls
          adds,     \* times each release was added, at most twice
          lives,    \* times the subscription was created
          faults,   \* polls cut off and statements failed
          stranded  \* releases whose claim lost its poll

vars == <<feed, sub, error, entry, poll, adds, lives, faults, stranded>>

None == [episode |-> 0, rank |-> 0]

\* todo: the selected releases that are left.  item: the one at hand.
Resting == [at |-> "rest", todo |-> {}, item |-> None, failed |-> FALSE]

PollStates == [at : {"rest", "fetch", "next", "add", "record", "release", "end"},
               todo : SUBSET Releases, item : Releases \cup {None}, failed : BOOLEAN]

TypeOK == /\ feed \subseteq Releases
          /\ sub \in {"absent", "off", "on"}
          /\ error \in BOOLEAN
          /\ entry \in [Releases -> {"absent", "claimed", "linked"}]
          /\ poll \in [Polls -> PollStates]
          /\ adds \in [Releases -> 0..2]
          /\ lives \in 0..MaxLives /\ faults \in 0..MaxFaults
          /\ stranded \subseteq Releases

Init == /\ feed = {}
        /\ sub = "absent"
        /\ error = FALSE
        /\ entry = [r \in Releases |-> "absent"]
        /\ poll = [p \in Polls |-> Resting]
        /\ adds = [r \in Releases |-> 0]
        /\ lives = 0
        /\ faults = 0
        /\ stranded = {}

-----------------------------------------------------------------------------
(* The feed and the user *)

Publish(r) == /\ feed' = feed \cup {r}
              /\ UNCHANGED <<sub, error, entry, poll, adds, lives, faults, stranded>>

Expire(r) == /\ feed' = feed \ {r}
             /\ UNCHANGED <<sub, error, entry, poll, adds, lives, faults, stranded>>

\* The table reuses ids: the next subscription may have the same one.
Create(state) == /\ sub = "absent"
                 /\ lives < MaxLives
                 /\ sub' = state
                 /\ lives' = lives + 1
                 /\ UNCHANGED <<feed, error, entry, poll, adds, faults, stranded>>

Update(state) == /\ sub # "absent"
                 /\ sub' = state
                 /\ error' = FALSE
                 /\ UNCHANGED <<feed, entry, poll, adds, lives, faults, stranded>>

\* The entries go with the subscription (ON DELETE CASCADE).
Delete == /\ sub # "absent"
          /\ sub' = "absent"
          /\ error' = FALSE
          /\ entry' = [r \in Releases |-> "absent"]
          /\ UNCHANGED <<feed, poll, adds, lives, faults, stranded>>

-----------------------------------------------------------------------------
(* A poll *)

Busy(p) == poll[p].at # "rest"
Go(p, place) == poll' = [poll EXCEPT ![p].at = place]
Fail(p) == poll' = [poll EXCEPT ![p].at = "end", ![p].failed = TRUE]

\* The row is loaded; the timer only polls an enabled one.
Start(p) == /\ poll[p].at = "rest"
            /\ sub \in IF p = Timer THEN {"on"} ELSE {"off", "on"}
            /\ Go(p, "fetch")
            /\ UNCHANGED <<feed, sub, error, entry, adds, lives, faults, stranded>>

\* select_feed_items: of each episode the release of the preferred group.
Selected == {r \in feed : \A q \in feed : q.episode = r.episode => r.rank <= q.rank}

Fetch(p) == /\ poll[p].at = "fetch"
            /\ poll' = [poll EXCEPT ![p].at = "next", ![p].todo = Selected]
            /\ UNCHANGED <<feed, sub, error, entry, adds, lives, faults, stranded>>

FetchFails(p) == /\ poll[p].at = "fetch"
                 /\ Fail(p)
                 /\ UNCHANGED <<feed, sub, error, entry, adds, lives, faults, stranded>>

First(p, r) == r \in poll[p].todo /\ \A q \in poll[p].todo : r.episode <= q.episode

\* (mutant) INSERT OR REPLACE
Claimable(r) == entry[r] # "linked"

\* INSERT OR IGNORE changes a row only when the entry is new.
IsNew(r) == entry[r] = "absent"

\* Without the subscription's row the foreign key fails the statement.
Claim(p) == /\ poll[p].at = "next"
            /\ \E r \in Releases :
                 /\ First(p, r)
                 /\ \/ /\ sub = "absent"
                       /\ Fail(p)
                       /\ UNCHANGED entry
                    \/ /\ sub # "absent"
                       /\ IsNew(r)
                       /\ entry' = [entry EXCEPT ![r] = "claimed"]
                       /\ poll' = [poll EXCEPT ![p].at = "add", ![p].item = r, ![p].todo = @ \ {r}]
                    \/ /\ sub # "absent"
                       /\ ~IsNew(r)
                       /\ poll' = [poll EXCEPT ![p].todo = @ \ {r}]
                       /\ UNCHANGED entry
            /\ UNCHANGED <<feed, sub, error, adds, lives, faults, stranded>>

\* The torrent is in the session from here on.
Add(p) == /\ poll[p].at = "add"
          /\ poll[p].item \notin Bad
          /\ adds' = [adds EXCEPT ![poll[p].item] = IF @ < 2 THEN @ + 1 ELSE 2]
          /\ Go(p, "record")
          /\ UNCHANGED <<feed, sub, error, entry, lives, faults, stranded>>

\* (mutant) the error is not looked at
AddFailsUnnoticed(p) == /\ poll[p].at = "add"
                        /\ Go(p, "record")
                        /\ UNCHANGED <<feed, sub, error, entry, adds, lives, faults, stranded>>

AddFails(p) == /\ poll[p].at = "add"
               /\ Go(p, "release")
               /\ UNCHANGED <<feed, sub, error, entry, adds, lives, faults, stranded>>

\* UPDATE ... SET info_hash: no row, no change.
Record(p) == /\ poll[p].at = "record"
             /\ entry' = [entry EXCEPT ![poll[p].item] = IF @ = "absent" THEN @ ELSE "linked"]
             /\ poll' = [poll EXCEPT ![p].at = "next", ![p].item = None]
             /\ UNCHANGED <<feed, sub, error, adds, lives, faults, stranded>>

\* (mutant) the claim of a failed add is kept
Kept(r) == entry[r]

\* The claim of a failed add is deleted.
Released(r) == "absent"

\* The rest of the feed waits for the next poll.
Release(p) == /\ poll[p].at = "release"
              /\ entry' = [entry EXCEPT ![poll[p].item] = Released(poll[p].item)]
              /\ poll' = [poll EXCEPT ![p].at = "end", ![p].item = None, ![p].failed = TRUE]
              /\ UNCHANGED <<feed, sub, error, adds, lives, faults, stranded>>

\* last_check and last_error are written to the row, if there is one.
End(p) == /\ poll[p].at = "end" \/ (poll[p].at = "next" /\ poll[p].todo = {})
          /\ error' = (sub # "absent" /\ poll[p].failed)
          /\ poll' = [poll EXCEPT ![p] = Resting]
          /\ UNCHANGED <<feed, sub, entry, adds, lives, faults, stranded>>

\* A claim that loses its poll stays.
Strand(p) == /\ faults < MaxFaults
             /\ faults' = faults + 1
             /\ stranded' = stranded \cup (IF poll[p].item = None THEN {} ELSE {poll[p].item})

\* The client is gone, or the process ends: it takes every poll, one after another.
Cut(p) == /\ Busy(p)
          /\ Strand(p)
          /\ poll' = [poll EXCEPT ![p] = Resting]
          /\ UNCHANGED <<feed, sub, error, entry, adds, lives>>

\* A statement on the entries fails.
DbFails(p) == /\ poll[p].at \in {"next", "record", "release"}
              /\ Strand(p)
              /\ poll' = [poll EXCEPT ![p].at = "end", ![p].item = None, ![p].failed = TRUE]
              /\ UNCHANGED <<feed, sub, error, entry, adds, lives>>

Step(p) == \/ Fetch(p) \/ FetchFails(p) \/ Claim(p) \/ Add(p) \/ AddFails(p)
           \/ Record(p) \/ Release(p) \/ End(p)

Next == \/ \E r \in Releases : Publish(r) \/ Expire(r)
        \/ \E state \in {"off", "on"} : Create(state) \/ Update(state)
        \/ Delete
        \/ \E p \in Polls : Start(p) \/ Step(p) \/ Cut(p) \/ DbFails(p)

-----------------------------------------------------------------------------
(* Properties *)

\* Overlapping polls never add a release twice, not even around a restart, as
\* long as the subscription is not deleted.
AddedOnce == lives <= 1 => \A r \in Releases : adds[r] <= 1

\* An entry with an info hash stands for a torrent that was added: nothing that
\* was never downloaded is taken for done, not even if a poll of a deleted
\* subscription goes on into the next one with the same id.
LinkedWasAdded == \A r \in Releases : entry[r] = "linked" => adds[r] > 0

\* A claim without a poll at work on it was left behind by a fault: every other
\* end of a poll releases or records what it has claimed.
ClaimIsWorkedOn ==
  \A r \in Releases : entry[r] = "claimed" => r \in stranded \/ \E p \in Polls : poll[p].item = r

\* A bad release ends every poll before the ones that come after it.
Blocked(r) == \E b \in Bad \cap Selected : b.episode <= r.episode

\* A release that stays the best of its episode in the feed of an enabled
\* subscription is added in the end, also when one that cannot be added has been
\* before it for a while, unless such a one stays or a fault stranded its claim.
BestReleaseAdded ==
  \A r \in Releases :
    <>[](sub = "on" /\ r \in Selected /\ ~Blocked(r)) => <>(adds[r] > 0 \/ r \in stranded)
=============================================================================
