----------------------------- MODULE WatchState -----------------------------
(***************************************************************************)
(* What a user has watched (nipa-server/src/userdata.rs, api_userdata.rs): *)
(* players report progress without waiting for answers, so that reports    *)
(* arrive late, out of order or never; marks set and clear flags; the home *)
(* page lists what to resume and, of every series, the episode that is     *)
(* next.                                                                   *)
(*                                                                         *)
(* An item is a film (series 0) or an episode; a number of 0 stands for    *)
(* one that is not known.  Times are in ms, the clock is in seconds.       *)
(***************************************************************************)
EXTENDS Naturals, FiniteSets

CONSTANTS Items,       \* what may be in the library; a runtime of 0 is not known
          Late,        \* items that are not there from the start
          Positions,   \* positions that players report
          Durations,   \* durations that they report, 0 for none
          Limit,       \* series on the home page
          MaxRequests, \* bound on the requests
          MaxNow       \* bound on the clock

\* Assumed wherever the module is used.
ItemsAssumption ==
  /\ IsFiniteSet(Items)
  /\ Items \subseteq [name : STRING, series : Nat, season : Nat, no : Nat, runtime : Nat, virtual : BOOLEAN]
ReportsAssumption == 0 \in Positions /\ Positions \subseteq Nat /\ Durations \subseteq Nat
BoundsAssumption == Limit \in Nat \ {0} /\ MaxRequests \in Nat /\ MaxNow \in Nat \ {0}

VARIABLES library,  \* items that are there
          row,      \* watch_history
          now,      \* the clock
          requests  \* requests so far

vars == <<library, row, now, requests>>

\* No row reads like an empty one.  last: last_played_at, 0 if never; duration 0: not known.
Unseen == [position |-> 0, duration |-> 0, played |-> FALSE, plays |-> 0, favorite |-> FALSE, last |-> 0]

TypeOK == /\ library \subseteq Items
          /\ row \in [Items -> [position : Positions, duration : Durations \cup {0} \cup {i.runtime : i \in Items},
                                played : BOOLEAN, plays : 0..MaxRequests, favorite : BOOLEAN,
                                last : 0..MaxNow]]
          /\ now \in 1..MaxNow
          /\ requests \in 0..MaxRequests

Init == /\ library = Items \ Late
        /\ row = [i \in Items |-> Unseen]
        /\ now = 1
        /\ requests = 0

\* Ingest adds items.
Add(i) == /\ i \notin library
          /\ library' = library \cup {i}
          /\ UNCHANGED <<row, now, requests>>

Tick == /\ now < MaxNow
        /\ now' = now + 1
        /\ UNCHANGED <<library, row, requests>>

-----------------------------------------------------------------------------
(* Progress *)

MinDuration == 300000

\* (mutant) the minimum is left to the list
NotOver(position, runtime) == 100 * position <= 90 * runtime /\ runtime >= MinDuration

\* 5 % to 90 % of something long enough, and not in its last second.
IsMiddle(position, runtime) ==
  /\ 100 * position >= 5 * runtime
  /\ 100 * position <= 90 * runtime
  /\ position + 1000 < runtime
  /\ runtime >= MinDuration

\* The position to keep and whether the item was seen.
PlayState(position, runtime) ==
  [position |-> IF runtime > 0 /\ IsMiddle(position, runtime) THEN position ELSE 0,
   seen |-> runtime = 0 \/ (100 * position >= 5 * runtime /\ ~IsMiddle(position, runtime))]

\* One statement that inserts the row or updates it.
Update(i, new) == /\ i \in library
                  /\ requests < MaxRequests
                  /\ requests' = requests + 1
                  /\ row' = [row EXCEPT ![i] = new]
                  /\ UNCHANGED <<library, now>>

Start(i) == Update(i, [row[i] EXCEPT !.plays = @ + 1, !.last = now])

Coalesced(duration, known) == IF duration > 0 THEN duration ELSE known

\* A report never takes back what was seen.
StillPlayed(played, seen) == played \/ seen

\* The player's duration counts first, then the item's.
Report(i, position, told) ==
  LET duration == Coalesced(told, i.runtime)
      state == PlayState(position, duration)
  IN Update(i, [row[i] EXCEPT !.position = state.position,
                              !.duration = Coalesced(duration, @),
                              !.played = StillPlayed(@, state.seen),
                              !.last = now])

-----------------------------------------------------------------------------
(* Marks *)

MarkPlayed(i) == Update(i, [row[i] EXCEPT !.played = TRUE, !.position = 0,
                                          !.plays = IF @ = 0 THEN 1 ELSE @, !.last = now])

MarkUnplayed(i) == Update(i, [row[i] EXCEPT !.played = FALSE, !.position = 0])

MarkFavorite(i, is) == Update(i, [row[i] EXCEPT !.favorite = is])

Next == \/ Tick
        \/ \E i \in Items :
             \/ Add(i) \/ Start(i) \/ MarkPlayed(i) \/ MarkUnplayed(i)
             \/ \E is \in BOOLEAN : MarkFavorite(i, is)
             \/ \E p \in Positions, d \in Durations : Report(i, p, d)

Spec == Init /\ [][Next]_vars

-----------------------------------------------------------------------------
(* The home page *)

Resumable == {i \in library : row[i].position > 0 /\ ~row[i].played}

\* Episodes by season and number; one without a number comes first.
Before(e, f) == e.season < f.season \/ (e.season = f.season /\ e.no < f.no)

EpisodesOf(s) == {e \in library : e.series = s /\ s # 0}
Regular(s) == {e \in EpisodesOf(s) : e.season # 0}

\* Series of which something was played, with the time.
Watched == {i.series : i \in {e \in library : e.series # 0 /\ row[e].last > 0}}
LastWatched(s) == CHOOSE t \in {row[e].last : e \in EpisodesOf(s)} :
                    \A e \in EpisodesOf(s) : row[e].last <= t

\* (mutant) the episodes played last, not those farthest
LatestSeen(s) == {e \in Regular(s) : row[e].played /\ row[e].last = LastWatched(s)}

\* The last episodes seen, by number and not by time; at most one but for doubles.
FarthestSeen(s) == {e \in Regular(s) : row[e].played /\ \A f \in Regular(s) : row[f].played => ~Before(e, f)}

\* Without a number, an episode is not after any of its season.
Follows(e, seen) == \/ e.season > seen.season
                    \/ e.season = seen.season /\ e.no > seen.no

Unseens(s) == {e \in Regular(s) : /\ ~e.virtual /\ ~row[e].played
                                  /\ \A f \in FarthestSeen(s) : Follows(e, f)}
NextOf(s) == {e \in Unseens(s) : \A f \in Unseens(s) : ~Before(f, e)}

\* (mutant) no series to spare
JustEnough == Limit

\* More series are looked at than fit on the page: some have no next episode.
Looked == 2 * Limit

\* The possible choices: the most recent, in any order when times are equal.
Candidates == {c \in SUBSET Watched :
                 /\ Cardinality(c) <= Looked
                 /\ Cardinality(c) < Looked => c = Watched
                 /\ \A s \in c, t \in Watched \ c : LastWatched(s) >= LastWatched(t)}

-----------------------------------------------------------------------------
(* Properties *)

\* A position to resume lies in the part that is neither just begun nor almost
\* over of the duration noted beside it, whichever reports, marks and durations
\* came in whichever order.
ResumableIsMiddle ==
  \A i \in Resumable : /\ row[i].duration >= MinDuration
                       /\ 20 * row[i].position >= row[i].duration
                       /\ 10 * row[i].position <= 9 * row[i].duration

\* The next episode of a series never goes back, whatever is reported late or
\* twice and whatever earlier episode is seen again or marked, unless something
\* is marked unplayed or an episode arrives.
NextUpAdvances ==
  [][/\ library' = library
     /\ \A i \in Items : ~MarkUnplayed(i)
     => \A s \in Watched : \A e \in NextOf(s), f \in NextOf(s)' : ~Before(f, e)]_vars

\* If no more series than fit on the page have been watched to their end, the
\* page is filled as far as there are series with a next episode.
NextUpFillsThePage ==
  LET going == {s \in Watched : NextOf(s) # {}}
  IN Cardinality(Watched \ going) <= Limit =>
       \A c \in Candidates : Cardinality(c \cap going) >= Limit \/ going \subseteq c
=============================================================================
