--------------------------- MODULE Viewing_proofs ---------------------------
(***************************************************************************)
(* What a viewer can rely on: what is offered to be resumed and to be seen *)
(* next, for any items, reports and marks in any order, and what scrolling *)
(* shows, for a library of any size, order and filter.                     *)
(***************************************************************************)
EXTENDS Viewing, FiniteSetTheorems, TLAPS

-----------------------------------------------------------------------------
(* What was watched *)

LEMMA WatchConstants == /\ IsFiniteSet(Items)
                        /\ \A i \in Items : i.series \in Nat /\ i.season \in Nat /\ i.no \in Nat /\ i.runtime \in Nat
                        /\ 0 \in Positions /\ Positions \subseteq Nat /\ Durations \subseteq Nat
                        /\ MaxRequests \in Nat /\ MaxNow \in Nat \ {0} /\ Limit \in Nat \ {0}
<1>1. IsFiniteSet(Items)
  BY WatchAssumption, Zenon DEF Watching!ItemsAssumption, Watching!IsFiniteSet, IsFiniteSet
<1> QED BY <1>1, WatchAssumption
        DEF Watching!ItemsAssumption, Watching!ReportsAssumption, Watching!BoundsAssumption

Lengths == Durations \cup {0} \cup {i.runtime : i \in Items}
Entries == [position : Positions, duration : Lengths, played : BOOLEAN, plays : 0..MaxRequests,
            favorite : BOOLEAN, last : 0..MaxNow]

WatchTypes == /\ library \subseteq Items
              /\ row \in [Items -> Entries]
              /\ now \in 1..MaxNow
              /\ requests \in 0..MaxRequests

\* What a row holds to resume is in the middle of the duration that it notes.
Middle(r) == r.position > 0 => /\ r.duration >= Watching!MinDuration
                               /\ 20 * r.position >= r.duration
                               /\ 10 * r.position <= 9 * r.duration

\* A play is counted with a request of its own.
PlaysInv == \A i \in Items : row[i].plays <= requests

WatchInv == WatchTypes /\ PlaysInv /\ \A i \in Items : Middle(row[i])

\* A statement writes a row that is right.
LEMMA UpdateKeeps ==
  ASSUME WatchInv, NEW i \in Items, NEW r \in Entries, Watching!Update(i, r),
         Middle(r), r.plays <= requests + 1
  PROVE  WatchInv'
<1>1. /\ requests < MaxRequests /\ requests' = requests + 1 /\ row' = [row EXCEPT ![i] = r]
      /\ UNCHANGED <<library, now>>
  BY DEF Watching!Update
<1>2. WatchTypes'
  BY <1>1, WatchConstants DEF WatchInv, WatchTypes
<1>3. \A j \in Items : row'[j] = IF j = i THEN r ELSE row[j]
  BY <1>1 DEF WatchInv, WatchTypes
<1>4. \A j \in Items : Middle(row'[j])
  BY <1>3 DEF WatchInv
<1>5. PlaysInv'
  BY <1>1, <1>3, WatchConstants DEF WatchInv, WatchTypes, Entries, PlaysInv
<1> QED BY <1>2, <1>4, <1>5 DEF WatchInv

\* A report keeps a position only in the middle.
LEMMA ReportKeeps ==
  ASSUME WatchInv, NEW i \in Items, NEW p \in Positions, NEW d \in Durations, Watching!Report(i, p, d)
  PROVE  WatchInv'
<1> DEFINE duration == Watching!Coalesced(d, i.runtime)
           state == Watching!PlayState(p, duration)
           r == [row[i] EXCEPT !.position = state.position,
                               !.duration = Watching!Coalesced(duration, @),
                               !.played = Watching!StillPlayed(@, state.seen),
                               !.last = now]
<1>0. row[i] \in Entries /\ now \in 0..MaxNow /\ row[i].plays <= requests /\ requests \in Nat
  BY WatchConstants DEF WatchInv, WatchTypes, PlaysInv
<1>1. duration \in Lengths /\ duration \in Nat
  BY WatchConstants DEF Watching!Coalesced, Lengths
<1>2. /\ state.position \in {0, p} /\ state.seen \in BOOLEAN
      /\ state.position > 0 => duration > 0 /\ Watching!IsMiddle(p, duration)
  <2>1. 0 \in Nat /\ p \in Nat /\ ~(0 > 0)
    BY WatchConstants
  <2>2. \/ state.position = p /\ duration > 0 /\ Watching!IsMiddle(p, duration)
        \/ state.position = 0
    BY DEF Watching!PlayState
  <2>3. state.seen \in BOOLEAN
    BY Zenon DEF Watching!PlayState
  <2> QED BY <2>1, <2>2, <2>3
<1> HIDE DEF duration, state
<1>3. r \in Entries
  <2>1. Watching!Coalesced(duration, row[i].duration) \in Lengths
    BY <1>0, <1>1 DEF Watching!Coalesced, Entries
  <2>2. Watching!StillPlayed(row[i].played, state.seen) \in BOOLEAN
    BY DEF Watching!StillPlayed
  <2> QED BY <1>0, <1>2, <2>1, <2>2, WatchConstants DEF Entries
<1>4. r.position = state.position /\ r.duration = Watching!Coalesced(duration, row[i].duration) /\ r.plays = row[i].plays
  BY <1>0 DEF Entries
<1>5. Middle(r)
  <2>1. CASE state.position > 0
    <3>1. r.duration = duration /\ r.position = p
      BY <1>1, <1>2, <1>4, <2>1, WatchConstants DEF Watching!Coalesced
    <3> QED BY <1>1, <1>2, <2>1, <3>1, WatchConstants DEF Middle, Watching!IsMiddle, Watching!MinDuration
  <2> QED BY <1>4, <2>1 DEF Middle
<1>6. Watching!Update(i, r)
  BY DEF Watching!Report, duration, state
<1> HIDE DEF r
<1> QED BY <1>0, <1>3, <1>4, <1>5, <1>6, UpdateKeeps, WatchConstants DEF Entries

LEMMA WatchStep == ASSUME WatchInv, [Watching!Next]_watchVars PROVE WatchInv'
<1>0. WatchTypes /\ PlaysInv /\ (\A i \in Items : row[i] \in Entries /\ Middle(row[i])) /\ now \in 0..MaxNow
      /\ requests \in Nat /\ \A i \in Items : row[i].plays <= requests /\ row[i].plays \in Nat
  BY WatchConstants DEF WatchInv, WatchTypes, PlaysInv, Entries
<1>1. CASE UNCHANGED watchVars
  BY <1>0, <1>1 DEF WatchInv, WatchTypes, PlaysInv, watchVars
<1>2. CASE Watching!Tick
  BY <1>0, <1>2, WatchConstants DEF WatchInv, WatchTypes, PlaysInv, Watching!Tick
<1>3. ASSUME NEW i \in Items, Watching!Add(i) PROVE WatchInv'
  BY <1>0, <1>3 DEF WatchInv, WatchTypes, PlaysInv, Watching!Add
<1>4. ASSUME NEW i \in Items, Watching!Start(i) PROVE WatchInv'
  <2> DEFINE r == [row[i] EXCEPT !.plays = @ + 1, !.last = now]
  <2>1. requests < MaxRequests /\ Watching!Update(i, r)
    BY <1>4 DEF Watching!Start, Watching!Update
  <2>2. row[i].plays + 1 \in 0..MaxRequests
    BY <1>0, <2>1, WatchConstants
  <2>3. r \in Entries /\ r.plays = row[i].plays + 1 /\ r.position = row[i].position /\ r.duration = row[i].duration
    BY <1>0, <2>2 DEF Entries
  <2>4. Middle(r) /\ r.plays <= requests + 1
    BY <1>0, <2>3 DEF Middle
  <2> HIDE DEF r
  <2> QED BY <2>1, <2>3, <2>4, UpdateKeeps
<1>5. ASSUME NEW i \in Items, Watching!MarkPlayed(i) PROVE WatchInv'
  <2> DEFINE r == [row[i] EXCEPT !.played = TRUE, !.position = 0, !.plays = IF @ = 0 THEN 1 ELSE @, !.last = now]
  <2>1. requests < MaxRequests /\ Watching!Update(i, r)
    BY <1>5 DEF Watching!MarkPlayed, Watching!Update
  <2>2. (IF row[i].plays = 0 THEN 1 ELSE row[i].plays) \in 0..MaxRequests
    BY <1>0, <2>1, WatchConstants
  <2>3. /\ r \in Entries /\ r.plays = (IF row[i].plays = 0 THEN 1 ELSE row[i].plays) /\ r.position = 0
    BY <1>0, <2>2, WatchConstants DEF Entries
  <2>4. Middle(r) /\ r.plays <= requests + 1
    BY <1>0, <2>3 DEF Middle
  <2> HIDE DEF r
  <2> QED BY <2>1, <2>3, <2>4, UpdateKeeps
<1>6. ASSUME NEW i \in Items, Watching!MarkUnplayed(i) PROVE WatchInv'
  <2> DEFINE r == [row[i] EXCEPT !.played = FALSE, !.position = 0]
  <2>1. r \in Entries /\ r.plays = row[i].plays /\ r.position = 0
    BY <1>0, WatchConstants DEF Entries
  <2>2. Watching!Update(i, r) /\ Middle(r) /\ r.plays <= requests + 1
    BY <1>0, <1>6, <2>1 DEF Watching!MarkUnplayed, Middle
  <2> HIDE DEF r
  <2> QED BY <2>1, <2>2, UpdateKeeps
<1>7. ASSUME NEW i \in Items, NEW is \in BOOLEAN, Watching!MarkFavorite(i, is) PROVE WatchInv'
  <2> DEFINE r == [row[i] EXCEPT !.favorite = is]
  <2>1. r \in Entries /\ r.plays = row[i].plays /\ r.position = row[i].position /\ r.duration = row[i].duration
    BY <1>0 DEF Entries
  <2>2. Watching!Update(i, r) /\ Middle(r) /\ r.plays <= requests + 1
    BY <1>0, <1>7, <2>1 DEF Watching!MarkFavorite, Middle
  <2> HIDE DEF r
  <2> QED BY <2>1, <2>2, UpdateKeeps
<1> QED BY <1>1, <1>2, <1>3, <1>4, <1>5, <1>6, <1>7, ReportKeeps DEF Watching!Next

LEMMA WatchInit == Init => WatchInv
<1> SUFFICES ASSUME Init PROVE WatchInv
  OBVIOUS
<1>1. Watching!Init
  BY DEF Init
<1>2. Watching!Unseen \in Entries /\ Watching!Unseen.position = 0 /\ Watching!Unseen.plays = 0
  BY WatchConstants DEF Watching!Unseen, Entries, Lengths
<1>3. \A i \in Items : row[i] = Watching!Unseen
  BY <1>1 DEF Watching!Init
<1> QED BY <1>1, <1>2, <1>3, WatchConstants DEF Watching!Init, WatchInv, WatchTypes, PlaysInv, Middle

\* A step of the whole is one of each part.
LEMMA StepOfParts == [Next]_allVars => [Watching!Next]_watchVars /\ [Scrolling!Next]_scrollVars
BY DEF Next, allVars, Watches, Scrolls, watchVars, scrollVars

\* The rows of watch_history keep their types.
THEOREM WatchTypeCorrect == Spec => []Watching!TypeOK
<1>1. WatchInv => Watching!TypeOK
  BY DEF WatchInv, WatchTypes, Entries, Lengths, Watching!TypeOK
<1>2. WatchInv /\ [Next]_allVars => WatchInv'
  BY StepOfParts, WatchStep
<1> QED BY <1>1, <1>2, WatchInit, PTL DEF Spec

\* What is offered to be resumed is in the middle of the duration noted beside it:
\* for any items, whichever reports, marks and durations come in whichever order.
THEOREM ResumesInTheMiddle == Spec => []ResumableIsMiddle
<1>1. WatchInv => ResumableIsMiddle
  BY DEF WatchInv, WatchTypes, Middle, ResumableIsMiddle, Watching!ResumableIsMiddle, Watching!Resumable
<1>2. WatchInv /\ [Next]_allVars => WatchInv'
  BY StepOfParts, WatchStep
<1> QED BY <1>1, <1>2, WatchInit, PTL DEF Spec

-----------------------------------------------------------------------------
(* What comes next *)

\* Episodes are in the order of season and number.
LEMMA Order == /\ \A e \in Items : ~Watching!Before(e, e)
               /\ \A e, f, g \in Items : Watching!Before(e, f) /\ Watching!Before(f, g) => Watching!Before(e, g)
               /\ \A e, f \in Items : Watching!Follows(f, e) <=> Watching!Before(e, f)
<1>1. \A e \in Items : e.season \in Nat /\ e.no \in Nat
  BY WatchConstants
<1> QED BY <1>1 DEF Watching!Before, Watching!Follows

\* Without marks that are cleared, what was seen stays seen, and a step adds one item at most.
LEMMA SeenGrows ==
  ASSUME WatchInv, [Watching!Next]_watchVars, library' = library, \A i \in Items : ~Watching!MarkUnplayed(i)
  PROVE  UNCHANGED row \/ \E x \in Items : \A i \in Items : /\ row[i].played => row'[i].played
                                                            /\ row'[i].played => row[i].played \/ i = x
<1>0. \A i \in Items : row[i] \in Entries
  BY DEF WatchInv, WatchTypes
<1>1. ASSUME NEW i \in Items, NEW r, Watching!Update(i, r), row[i].played => r.played
      PROVE  \A j \in Items : /\ row[j].played => row'[j].played
                              /\ row'[j].played => row[j].played \/ j = i
  BY <1>1 DEF Watching!Update, WatchInv, WatchTypes
<1>2. CASE Watching!Tick \/ UNCHANGED watchVars \/ \E i \in Items : Watching!Add(i)
  BY <1>2 DEF Watching!Tick, watchVars, Watching!Add
<1>3. ASSUME NEW i \in Items, Watching!Start(i) PROVE \E r : Watching!Update(i, r) /\ (row[i].played => r.played)
  <2> DEFINE r == [row[i] EXCEPT !.plays = @ + 1, !.last = now]
  <2>1. r.played = row[i].played /\ Watching!Update(i, r)
    BY <1>0, <1>3 DEF Watching!Start, Entries
  <2> HIDE DEF r
  <2> QED BY <2>1
<1>4. ASSUME NEW i \in Items, Watching!MarkPlayed(i) PROVE \E r : Watching!Update(i, r) /\ (row[i].played => r.played)
  <2> DEFINE r == [row[i] EXCEPT !.played = TRUE, !.position = 0, !.plays = IF @ = 0 THEN 1 ELSE @, !.last = now]
  <2>1. r.played = TRUE /\ Watching!Update(i, r)
    BY <1>0, <1>4 DEF Watching!MarkPlayed, Entries
  <2> HIDE DEF r
  <2> QED BY <2>1
<1>5. ASSUME NEW i \in Items, NEW is \in BOOLEAN, Watching!MarkFavorite(i, is)
      PROVE  \E r : Watching!Update(i, r) /\ (row[i].played => r.played)
  <2> DEFINE r == [row[i] EXCEPT !.favorite = is]
  <2>1. r.played = row[i].played /\ Watching!Update(i, r)
    BY <1>0, <1>5 DEF Watching!MarkFavorite, Entries
  <2> HIDE DEF r
  <2> QED BY <2>1
<1>6. ASSUME NEW i \in Items, NEW p \in Positions, NEW d \in Durations, Watching!Report(i, p, d)
      PROVE  \E r : Watching!Update(i, r) /\ (row[i].played => r.played)
  <2> DEFINE duration == Watching!Coalesced(d, i.runtime)
             state == Watching!PlayState(p, duration)
             r == [row[i] EXCEPT !.position = state.position,
                                 !.duration = Watching!Coalesced(duration, @),
                                 !.played = Watching!StillPlayed(@, state.seen),
                                 !.last = now]
  <2>1. Watching!Update(i, r)
    BY <1>6 DEF Watching!Report
  <2> HIDE DEF duration, state
  <2>2. r.played = Watching!StillPlayed(row[i].played, state.seen)
    BY <1>0 DEF Entries
  <2> HIDE DEF r
  <2>3. row[i].played => r.played
    BY <2>2 DEF Watching!StillPlayed
  <2> QED BY <2>1, <2>3
<1> QED BY <1>1, <1>2, <1>3, <1>4, <1>5, <1>6 DEF Watching!Next

\* No episode becomes the next that could not be the next before.
LEMMA UnseensShrink ==
  ASSUME WatchInv, [Watching!Next]_watchVars, library' = library, \A i \in Items : ~Watching!MarkUnplayed(i),
         NEW s, NEW f \in Watching!Unseens(s)'
  PROVE  f \in Watching!Unseens(s)
<1>1. CASE UNCHANGED row
  BY <1>1 DEF Watching!Unseens, Watching!FarthestSeen, Watching!Regular, Watching!EpisodesOf
<1>2. CASE ~UNCHANGED row
  <2>1. PICK x \in Items : \A i \in Items : /\ row[i].played => row'[i].played
                                            /\ row'[i].played => row[i].played \/ i = x
    BY <1>2, SeenGrows
  <2>2. Watching!Regular(s)' = Watching!Regular(s) /\ Watching!Regular(s) \subseteq Items
    BY DEF Watching!Regular, Watching!EpisodesOf, WatchInv, WatchTypes
  <2>3. /\ f \in Watching!Regular(s) /\ ~f.virtual /\ ~row[f].played
        /\ \A g \in Watching!FarthestSeen(s)' : Watching!Follows(f, g)
    BY <2>1, <2>2 DEF Watching!Unseens
  <2>4. ASSUME NEW g \in Watching!FarthestSeen(s) PROVE Watching!Follows(f, g)
    <3>1. /\ g \in Watching!Regular(s) /\ row[g].played /\ row'[g].played
          /\ \A h \in Watching!Regular(s) : row[h].played => ~Watching!Before(g, h)
      BY <2>1, <2>2 DEF Watching!FarthestSeen
    <3>2. CASE \A h \in Watching!Regular(s) : row'[h].played => ~Watching!Before(g, h)
      <4>1. g \in Watching!FarthestSeen(s)'
        BY <2>2, <3>1, <3>2 DEF Watching!FarthestSeen
      <4> QED BY <2>3, <4>1
    <3>3. ASSUME NEW h \in Watching!Regular(s), row'[h].played, Watching!Before(g, h) PROVE Watching!Follows(f, g)
      <4>1. h = x
        BY <2>1, <2>2, <3>1, <3>3
      <4>2. ASSUME NEW k \in Watching!Regular(s), row'[k].played PROVE ~Watching!Before(h, k)
        <5>1. CASE k = x
          BY <2>2, <4>1, <5>1, Order
        <5>2. CASE k # x
          BY <2>1, <2>2, <3>1, <3>3, <4>2, <5>2, Order
        <5> QED BY <5>1, <5>2
      <4>3. h \in Watching!FarthestSeen(s)'
        BY <2>2, <3>3, <4>2 DEF Watching!FarthestSeen
      <4>4. Watching!Before(h, f)
        BY <2>2, <2>3, <4>3, Order
      <4> QED BY <2>2, <2>3, <3>1, <3>3, <4>4, Order
    <3> QED BY <3>2, <3>3
  <2> QED BY <2>3, <2>4 DEF Watching!Unseens
<1> QED BY <1>1, <1>2

\* The next episode of a series never goes back: for any series, numbers and
\* order of the reports, unless a mark is cleared or an item arrives.
THEOREM NextAdvances == Spec => NextUpAdvances
<1>1. ASSUME WatchInv, [Next]_allVars
      PROVE  [/\ library' = library
              /\ \A i \in Items : ~Watching!MarkUnplayed(i)
              => \A s \in Watching!Watched : \A e \in Watching!NextOf(s), f \in Watching!NextOf(s)' :
                   ~Watching!Before(f, e)]_watchVars
  <2> SUFFICES ASSUME library' = library, \A i \in Items : ~Watching!MarkUnplayed(i),
                      NEW s \in Watching!Watched, NEW e \in Watching!NextOf(s), NEW f \in Watching!NextOf(s)'
               PROVE  ~Watching!Before(f, e)
    OBVIOUS
  <2>1. f \in Watching!Unseens(s)'
    BY DEF Watching!NextOf
  <2>2. f \in Watching!Unseens(s)
    BY <1>1, <2>1, StepOfParts, UnseensShrink
  <2> QED BY <2>2 DEF Watching!NextOf
<1>2. WatchInv /\ [Next]_allVars => WatchInv'
  BY StepOfParts, WatchStep
<1> QED BY <1>1, <1>2, WatchInit, PTL
        DEF Spec, NextUpAdvances, Watching!NextUpAdvances, Watching!vars, watchVars

-----------------------------------------------------------------------------
(* The home page *)

LEMMA SameSize == (\A S : Watching!Cardinality(S) = Cardinality(S)) /\ \A S : Scrolling!Cardinality(S) = Cardinality(S)
<1>1. \A S : Watching!Cardinality(S) = Cardinality(S)
  BY Zenon DEF Watching!Cardinality, Cardinality
<1>2. \A S : Scrolling!Cardinality(S) = Cardinality(S)
  BY Zenon DEF Scrolling!Cardinality, Cardinality
<1> QED BY <1>1, <1>2

LEMMA WatchedIsFinite == ASSUME library \subseteq Items PROVE IsFiniteSet(Watching!Watched)
<1> DEFINE S == {e \in library : e.series # 0 /\ row[e].last > 0}
           f == [e \in S |-> e.series]
<1>1. IsFiniteSet(S)
  BY WatchConstants, FS_Subset
<1>2. f \in Surjection(S, Watching!Watched)
  BY DEF Surjection, Watching!Watched
<1> QED BY <1>1, <1>2, FS_Surjection

\* If no more series than fit on the page were watched to their end, the page is
\* filled as far as there are series to go on with: for any size of the page.
THEOREM HomePageIsFilled == Spec => []NextUpFillsThePage
<1>1. ASSUME WatchInv PROVE NextUpFillsThePage
  <2> DEFINE all == Watching!Watched
             going == {s \in all : Watching!NextOf(s) # {}}
  <2>1. IsFiniteSet(all)
    BY <1>1, WatchedIsFinite DEF WatchInv, WatchTypes
  <2> SUFFICES ASSUME Cardinality(all \ going) <= Limit, NEW c \in Watching!Candidates, ~(going \subseteq c)
               PROVE  Cardinality(c \cap going) >= Limit
    BY SameSize DEF NextUpFillsThePage, Watching!NextUpFillsThePage
  <2>2. /\ c \subseteq all /\ Cardinality(c) <= 2 * Limit
        /\ Cardinality(c) < 2 * Limit => c = all
    BY SameSize DEF Watching!Candidates, Watching!Looked
  <2> HIDE DEF all
  <2>3. IsFiniteSet(c) /\ Cardinality(c) \in Nat /\ c # all
    BY <2>1, <2>2, FS_Subset, FS_CardinalityType
  <2>4. Cardinality(c) = 2 * Limit
    BY <2>2, <2>3, WatchConstants
  <2>5. Cardinality(c \ going) <= Limit
    <3>1. IsFiniteSet(all \ going) /\ c \ going \subseteq all \ going
      BY <2>1, <2>2, FS_Difference
    <3>2. Cardinality(c \ going) <= Cardinality(all \ going)
      BY <3>1, FS_Subset
    <3>3. Cardinality(c \ going) \in Nat /\ Cardinality(all \ going) \in Nat
      BY <3>1, FS_Subset, FS_CardinalityType
    <3> QED BY <3>2, <3>3, WatchConstants
  <2>6. Cardinality(c \ going) = Cardinality(c) - Cardinality(c \cap going)
    BY <2>3, FS_Difference
  <2>7. Cardinality(c \cap going) \in Nat
    BY <2>3, FS_Intersection, FS_CardinalityType
  <2> QED BY <2>4, <2>5, <2>6, <2>7, WatchConstants
<1>2. WatchInv /\ [Next]_allVars => WatchInv'
  BY StepOfParts, WatchStep
<1> QED BY <1>1, <1>2, WatchInit, PTL DEF Spec

-----------------------------------------------------------------------------
(* The order of the list *)

Works == Scrolling!Works
Listed == Scrolling!Listed
Precedes(v, w) == Scrolling!Precedes(v, w)
Position(w) == Scrolling!Position(w)

LEMMA ScrollConstants == /\ N \in Nat /\ First \in 0..N /\ MaxClock \in Nat /\ Asked \in Nat \ {0}
                         /\ Name \in [Works -> Nat]
                         /\ Queries \subseteq [sort : Scrolling!Sorts, filter : Scrolling!Filters]
                         /\ Works = 1..N
BY ScrollAssumption DEF Scrolling!WorksAssumption, Scrolling!QueriesAssumption, Works, Scrolling!Works

LEMMA WorksAreFinite == IsFiniteSet(Works) /\ Cardinality(Works) = N
BY ScrollConstants, FS_Interval

LEMMA ListedIsFinite == ASSUME Scrolling!TypeOK
                        PROVE  Listed \subseteq Works /\ IsFiniteSet(Listed) /\ Cardinality(Listed) \in 0..N
<1>1. Listed \subseteq Works
  BY DEF Listed, Scrolling!Listed, Scrolling!TypeOK, Works
<1>2. IsFiniteSet(Listed) /\ Cardinality(Listed) <= N
  BY <1>1, WorksAreFinite, FS_Subset
<1> QED BY <1>1, <1>2, FS_CardinalityType, ScrollConstants

\* Every order of the list is total: no two works have the same place.
LEMMA Precedence ==
  ASSUME Scrolling!TypeOK
  PROVE  /\ \A v \in Works : ~Precedes(v, v)
         /\ \A v, w \in Works : v = w \/ Precedes(v, w) \/ Precedes(w, v)
         /\ \A u, v, w \in Works : Precedes(u, v) /\ Precedes(v, w) => Precedes(u, w)
<1>0. added \in [Works -> Nat] /\ Works \subseteq Nat /\ Name \in [Works -> Nat]
  BY ScrollConstants DEF Scrolling!TypeOK, Works
<1>1. CASE Scrolling!ByName
  <2>1. \A v, w : Scrolling!Ahead(v, w) <=> Name[v] < Name[w]
    BY <1>1 DEF Scrolling!Ahead
  <2> QED BY <1>0, <2>1 DEF Precedes, Scrolling!Precedes
<1>2. CASE ~Scrolling!ByName
  <2>1. \A v, w : Scrolling!Ahead(v, w) <=> added[v] > added[w]
    BY <1>2 DEF Scrolling!Ahead
  <2> QED BY <1>0, <2>1 DEF Precedes, Scrolling!Precedes
<1> QED BY <1>1, <1>2

\* A work that precedes another has a lower number.
LEMMA PositionGrows ==
  ASSUME Scrolling!TypeOK, NEW w \in Listed
  PROVE  /\ Position(w) \in 0..(Cardinality(Listed) - 1)
         /\ \A v \in Listed : Precedes(v, w) => Position(v) < Position(w)
<1> DEFINE before(x) == {u \in Listed : Precedes(u, x)}
<1>0. /\ \A x : Position(x) = Cardinality(before(x))
      /\ IsFiniteSet(Listed) /\ Listed \subseteq Works /\ Cardinality(Listed) \in Nat
      /\ \A x : IsFiniteSet(before(x)) /\ Cardinality(before(x)) \in Nat
  <2>1. IsFiniteSet(Listed) /\ Listed \subseteq Works /\ Cardinality(Listed) \in Nat
    BY ListedIsFinite
  <2>2. \A x : IsFiniteSet(before(x)) /\ Cardinality(before(x)) \in Nat
    BY <2>1, FS_Subset, FS_CardinalityType
  <2>3. \A x : Position(x) = Cardinality(before(x))
    BY SameSize DEF Position, Scrolling!Position, Listed, Precedes
  <2> QED BY <2>1, <2>2, <2>3
<1> HIDE DEF before
<1>1. Position(w) <= Cardinality(Listed) - 1
  <2>1. before(w) \subseteq Listed \ {w}
    BY <1>0, Precedence DEF before
  <2>2. IsFiniteSet(Listed \ {w}) /\ Cardinality(Listed \ {w}) = Cardinality(Listed) - 1
    BY <1>0, FS_RemoveElement
  <2> QED BY <1>0, <2>1, <2>2, FS_Subset
<1>2. ASSUME NEW v \in Listed, Precedes(v, w) PROVE Position(v) < Position(w)
  <2>1. before(v) \cup {v} \subseteq before(w)
    BY <1>0, <1>2, Precedence DEF before
  <2>2. v \notin before(v)
    BY <1>0, Precedence DEF before
  <2>3. Cardinality(before(v) \cup {v}) = Cardinality(before(v)) + 1
    BY <1>0, <2>2, FS_AddElement
  <2>4. Cardinality(before(v) \cup {v}) <= Cardinality(before(w))
    BY <1>0, <2>1, FS_Subset
  <2> QED BY <1>0, <2>3, <2>4
<1> QED BY <1>0, <1>1, <1>2

\* The numbers are those from 0 on, without a gap.
LEMMA PositionsFill ==
  ASSUME Scrolling!TypeOK, NEW k \in 0..(Cardinality(Listed) - 1)
  PROVE  \E v \in Listed : Position(v) = k
<1> DEFINE n == Cardinality(Listed)
           f == [v \in Listed |-> Position(v)]
<1>0. n \in Nat /\ IsFiniteSet(Listed) /\ Listed \subseteq Works
  BY ListedIsFinite
<1>1. IsFiniteSet(0..(n - 1)) /\ Cardinality(0..(n - 1)) = n
  BY <1>0, FS_Interval
<1> HIDE DEF n
<1>2. \A v \in Listed : Position(v) \in 0..(n - 1)
  BY PositionGrows DEF n
<1>3. \A v, w \in Listed : Position(v) = Position(w) => v = w
  <2> SUFFICES ASSUME NEW v \in Listed, NEW w \in Listed, v # w PROVE Position(v) # Position(w)
    OBVIOUS
  <2>1. Precedes(v, w) \/ Precedes(w, v)
    BY <1>0, Precedence
  <2>2. Position(v) \in Int /\ Position(w) \in Int
    BY <1>2
  <2> QED BY <2>1, <2>2, PositionGrows
<1>4. f \in Injection(Listed, 0..(n - 1))
  BY <1>2, <1>3 DEF Injection, IsInjective
<1>5. f \in Surjection(Listed, 0..(n - 1))
  BY <1>0, <1>1, <1>4, FS_Injection DEF n
<1> QED BY <1>5 DEF Surjection, n

\* An answer to one who has seen S, which comes before the rest of T, brings all of
\* T or a full page, and what it brings comes before the rest of T.
LEMMA AnswerBrings ==
  ASSUME Scrolling!TypeOK, Asked <= 200, NEW S \in SUBSET Listed, NEW T \in SUBSET Listed,
         \A v \in S, w \in T \ S : Precedes(v, w)
  PROVE  LET rows == Scrolling!Rows(Cardinality(S))
         IN  /\ rows \subseteq Listed /\ IsFiniteSet(rows)
             /\ \A w \in T \ (S \cup rows) : /\ Cardinality(rows) >= Asked
                                             /\ \A v \in S \cup rows : Precedes(v, w)
<1> DEFINE o == Cardinality(S)
           rows == Scrolling!Rows(o)
<1>0. /\ IsFiniteSet(Listed) /\ Listed \subseteq Works /\ Cardinality(Listed) \in Nat
      /\ IsFiniteSet(S) /\ o \in Nat /\ Asked \in Nat \ {0}
  BY ListedIsFinite, FS_Subset, FS_CardinalityType, ScrollConstants
<1>1. rows = {w \in Listed : o <= Position(w) /\ Position(w) < o + Asked}
  BY <1>0 DEF Scrolling!Rows, Scrolling!PageLimit, Listed, Position
<1>2. IsFiniteSet(rows)
  BY <1>0, <1>1, FS_Subset
<1> HIDE DEF o, rows
<1>3. ASSUME NEW w \in T \ (S \cup rows)
      PROVE  Cardinality(rows) >= Asked /\ \A v \in S \cup rows : Precedes(v, w)
  <2>0. w \in Listed /\ w \in T \ S /\ w \notin rows /\ \A v \in Listed : Position(v) \in 0..(Cardinality(Listed) - 1)
    BY PositionGrows
  <2>1. Position(w) >= o
    <3> DEFINE before == {u \in Listed : Precedes(u, w)}
    <3>1. S \subseteq before /\ IsFiniteSet(before)
      BY <1>0, <2>0, FS_Subset
    <3>2. o <= Cardinality(before)
      BY <3>1, FS_Subset DEF o
    <3>3. Position(w) = Cardinality(before)
      BY SameSize DEF Position, Scrolling!Position, Listed, Precedes
    <3> QED BY <3>2, <3>3
  <2>2. Position(w) >= o + Asked
    BY <1>0, <1>1, <2>0, <2>1
  <2>3. ASSUME NEW v \in rows PROVE Precedes(v, w)
    <3>1. v \in Listed /\ Position(v) < o + Asked /\ v # w
      BY <1>1, <2>0
    <3>2. Position(v) < Position(w) /\ Position(v) \in Int /\ Position(w) \in Int
      BY <1>0, <2>0, <2>2, <3>1
    <3>3. ~Precedes(w, v)
      BY <2>0, <3>1, <3>2, PositionGrows
    <3> QED BY <1>0, <2>0, <3>1, <3>3, Precedence
  <2>4. Cardinality(rows) >= Asked
    <3> DEFINE page == o..(o + Asked - 1)
               f == [v \in rows |-> Position(v)]
    <3>1. IsFiniteSet(page) /\ Cardinality(page) = Asked
      BY <1>0, FS_Interval
    <3>2. \A v \in rows : Position(v) \in page
      BY <1>0, <1>1, <2>0
    <3>3. \A k \in page : \E v \in rows : Position(v) = k
      <4> SUFFICES ASSUME NEW k \in page PROVE \E v \in rows : Position(v) = k
        OBVIOUS
      <4>1. k \in 0..(Cardinality(Listed) - 1)
        BY <1>0, <2>0, <2>2
      <4>2. PICK v \in Listed : Position(v) = k
        BY <4>1, PositionsFill
      <4>3. o <= k /\ k < o + Asked
        BY <1>0
      <4> QED BY <1>1, <4>2, <4>3
    <3> HIDE DEF page
    <3>4. f \in Surjection(rows, page)
      BY <3>2, <3>3 DEF Surjection
    <3>5. Cardinality(page) <= Cardinality(rows)
      BY <1>2, <3>4, FS_Surjection
    <3> QED BY <3>1, <3>5
  <2> QED BY <2>0, <2>3, <2>4
<1> QED BY <1>1, <1>2, <1>3 DEF o, rows

-----------------------------------------------------------------------------
(* Scrolling *)

\* While nothing has gone wrong for it, the page shows the works that come first.
InOrder == /\ shown \subseteq Listed /\ steady \subseteq Listed
           /\ \A v \in shown, w \in steady \ shown : Precedes(v, w)
Counted == request.at = "counted" => request.offset = Cardinality(shown) /\ request.total = Cardinality(Listed)
NotBegun == request.at = "never" => shown = {} /\ steady = {} /\ ~ended
Complete == ended => request.at = "away" /\ steady \subseteq shown

ScrollInv == Scrolling!TypeOK /\ (spoilt = {} => InOrder /\ Counted /\ NotBegun /\ Complete)

LEMMA ScrollTypeStep == ASSUME Scrolling!TypeOK, [Scrolling!Next]_scrollVars PROVE Scrolling!TypeOK'
<1> USE DEF Scrolling!TypeOK
<1>0. N \in Nat /\ MaxClock \in Nat /\ Asked \in Nat /\ Scrolling!Works = Works /\ Works = 1..N
  BY ScrollConstants DEF Works
<1>1. CASE UNCHANGED scrollVars
  BY <1>1 DEF scrollVars
<1>2. ASSUME NEW o \in 0..N, Scrolling!Count(o),
             UNCHANGED <<present, added, marked, clock, query, shown, ended, steady, came, spoilt>>
      PROVE  Scrolling!TypeOK'
  <2>1. Scrolling!Cardinality(Scrolling!Listed) \in 0..N
    BY ListedIsFinite, SameSize DEF Listed
  <2>2. request' \in [at : {"never", "away", "counted"}, offset : 0..N, total : 0..N]
    BY <1>2, <2>1 DEF Scrolling!Count
  <2> QED BY <1>2, <2>2
<1>3. CASE Scrolling!Load
  BY <1>0, <1>2, <1>3 DEF Scrolling!Load, Scrolling!libraryVars
<1>4. CASE Scrolling!LoadMore
  <2>1. Cardinality(shown) \in 0..N
    <3>0. shown \in SUBSET Works
      BY <1>0
    <3>1. IsFiniteSet(shown) /\ Cardinality(shown) <= N
      BY <3>0, WorksAreFinite, FS_Subset
    <3> QED BY <1>0, <3>1, FS_CardinalityType
  <2>2. Scrolling!Cardinality(shown) \in 0..N
    BY <2>1, SameSize
  <2> QED BY <1>2, <1>4, <2>2 DEF Scrolling!LoadMore, Scrolling!libraryVars
<1>5. CASE Scrolling!Answer
  <2>1. \A o : Scrolling!Rows(o) \subseteq Scrolling!Works /\ Scrolling!Listed \subseteq Scrolling!Works
    BY DEF Scrolling!Rows, Scrolling!Listed
  <2>2. shown' \subseteq Scrolling!Works /\ steady' \subseteq Scrolling!Works
    BY <1>5, <2>1 DEF Scrolling!Answer
  <2>3. ended' \in BOOLEAN
    BY <1>5 DEF Scrolling!Answer, Scrolling!Ends
  <2>4. request' \in [at : {"never", "away", "counted"}, offset : 0..N, total : 0..N]
    BY <1>0, <1>5 DEF Scrolling!Answer, Scrolling!Away
  <2> QED BY <1>5, <2>2, <2>3, <2>4 DEF Scrolling!Answer, Scrolling!libraryVars
<1>6. CASE Scrolling!Fail
  BY <1>0, <1>6 DEF Scrolling!Fail, Scrolling!Away, Scrolling!libraryVars
<1>7. ASSUME NEW comes, NEW leaves, Scrolling!Noted(comes, leaves)
      PROVE  /\ came' \in 0..Asked /\ spoilt' \subseteq {"left", "raced", "failed"}
             /\ UNCHANGED <<query, shown, request, ended, steady>>
  BY <1>0, <1>7 DEF Scrolling!Noted
<1>8. CASE Scrolling!Arrive
  <2>1. PICK w \in Scrolling!Works \ present :
          /\ present' = present \cup {w} /\ added' = [added EXCEPT ![w] = clock]
          /\ Scrolling!Noted(Scrolling!Matches(w), FALSE) /\ UNCHANGED <<marked, clock>>
    BY <1>8 DEF Scrolling!Arrive
  <2>2. added' \in [Scrolling!Works -> 0..MaxClock] /\ present' \subseteq Scrolling!Works
    BY <2>1
  <2> QED BY <1>7, <2>1, <2>2
<1>9. ASSUME NEW w \in Scrolling!Works, Scrolling!Mark(w) PROVE Scrolling!TypeOK'
  BY <1>7, <1>9 DEF Scrolling!Mark, Scrolling!Flip
<1>10. CASE Scrolling!Second
  BY <1>0, <1>10 DEF Scrolling!Second
<1> QED BY <1>1, <1>3, <1>4, <1>5, <1>6, <1>8, <1>9, <1>10 DEF Scrolling!Next

LEMMA ScrollInit == Init => ScrollInv
<1> SUFFICES ASSUME Init PROVE ScrollInv
  OBVIOUS
<1>1. Scrolling!Init
  BY DEF Init
<1>2. Scrolling!TypeOK
  <2>1. Scrolling!Works = 1..N /\ N \in Nat /\ First \in 0..N /\ MaxClock \in Nat /\ Asked \in Nat
    BY ScrollConstants DEF Works
  <2>2. 1..First \subseteq 1..N
    BY <2>1
  <2>3. request \in [at : {"never", "away", "counted"}, offset : 0..N, total : 0..N]
    <3>1. request = [at |-> "never", offset |-> 0, total |-> 0]
      BY <1>1 DEF Scrolling!Init, Scrolling!Away
    <3> QED BY <2>1, <3>1
  <2>4. added \in [Scrolling!Works -> 0..MaxClock]
    BY <1>1, <2>1 DEF Scrolling!Init
  <2>5. /\ present \subseteq Scrolling!Works /\ marked \subseteq Scrolling!Works
        /\ clock \in 0..MaxClock /\ query \in Queries /\ shown \subseteq Scrolling!Works /\ steady \subseteq Scrolling!Works
    BY <1>1, <2>1, <2>2 DEF Scrolling!Init
  <2>6. ended \in BOOLEAN /\ came \in 0..Asked /\ spoilt \subseteq {"left", "raced", "failed"}
    <3>1. ended = FALSE /\ came = 0 /\ spoilt = {}
      BY <1>1 DEF Scrolling!Init
    <3>2. ended \in BOOLEAN
      BY <3>1, Zenon
    <3>3. came \in 0..Asked /\ spoilt \subseteq {"left", "raced", "failed"}
      BY <2>1, <3>1
    <3> QED BY <3>2, <3>3
  <2> QED BY <2>3, <2>4, <2>5, <2>6 DEF Scrolling!TypeOK
<1>3. InOrder /\ Counted /\ NotBegun /\ Complete
  BY <1>1 DEF Scrolling!Init, Scrolling!Away, InOrder, Counted, NotBegun, Complete
<1> QED BY <1>2, <1>3 DEF ScrollInv

\* An answer keeps what is shown in order, and the scrolling ends only when it is complete.
LEMMA AnswerKeeps ==
  ASSUME Scrolling!TypeOK, Asked <= 200, InOrder, Counted, Scrolling!Answer
  PROVE  (InOrder /\ Counted /\ NotBegun /\ Complete)'
<1> DEFINE rows == Scrolling!Rows(request.offset)
           T == IF request.offset = 0 /\ shown = {} THEN Listed ELSE steady
<1>0. /\ request.offset = Cardinality(shown) /\ request.total = Cardinality(Listed)
      /\ IsFiniteSet(Listed) /\ Cardinality(Listed) \in Nat /\ Asked \in Nat
  BY ListedIsFinite, ScrollConstants DEF Counted, Scrolling!Answer
<1>1. /\ shown' = shown \cup rows /\ steady' = T
      /\ ended' = Scrolling!Ends(rows, shown \cup rows, request.total)
      /\ request' = Scrolling!Away
      /\ UNCHANGED <<present, added, marked, query>>
  BY DEF Scrolling!Answer, Listed, Scrolling!libraryVars
<1>2. Listed' = Listed /\ \A v, w : Precedes(v, w)' <=> Precedes(v, w)
  BY <1>1 DEF Listed, Scrolling!Listed, Scrolling!Matches, Precedes, Scrolling!Precedes, Scrolling!Ahead, Scrolling!ByName
<1>3. T \subseteq Listed /\ \A v \in shown, w \in T \ shown : Precedes(v, w)
  BY DEF InOrder
<1>4. /\ rows \subseteq Listed /\ IsFiniteSet(rows)
      /\ \A w \in T \ (shown \cup rows) : /\ Cardinality(rows) >= Asked
                                          /\ \A v \in shown \cup rows : Precedes(v, w)
  BY <1>0, <1>3, AnswerBrings DEF InOrder
<1> HIDE DEF rows, T
<1>5. InOrder'
  BY <1>1, <1>2, <1>3, <1>4 DEF InOrder
<1>6. Counted' /\ NotBegun'
  BY <1>1 DEF Scrolling!Away, Counted, NotBegun
<1>7. ASSUME ended' PROVE T \subseteq shown \cup rows
  <2>1. shown \cup rows \subseteq Listed
    BY <1>4 DEF InOrder
  <2>2. CASE Cardinality(rows) < Asked
    <3>1. Cardinality(rows) \in Nat
      BY <1>4, FS_CardinalityType
    <3> QED BY <1>0, <1>4, <2>2, <3>1
  <2>3. CASE Cardinality(shown \cup rows) >= Cardinality(Listed)
    <3>1. Cardinality(shown \cup rows) = Cardinality(Listed)
      <4>1. IsFiniteSet(shown \cup rows) /\ Cardinality(shown \cup rows) <= Cardinality(Listed)
        BY <1>0, <2>1, FS_Subset
      <4> QED BY <1>0, <2>3, <4>1, FS_CardinalityType
    <3>2. shown \cup rows = Listed
      BY <1>0, <2>1, <3>1, FS_Subset
    <3> QED BY <1>3, <3>2
  <2> QED BY <1>0, <1>1, <1>7, <2>2, <2>3, SameSize DEF Scrolling!Ends
<1>8. Complete'
  BY <1>1, <1>7 DEF Complete, Scrolling!Away
<1> QED BY <1>5, <1>6, <1>8

\* What happens to the library while no work leaves the list and none comes into it
\* unseen: the works in it stay, in their order.
LEMMA LibraryKeeps ==
  ASSUME Scrolling!TypeOK, InOrder, Counted, NotBegun, Complete,
         UNCHANGED <<query, shown, request, ended, steady>>,
         Listed \subseteq Listed' \/ request.at = "never",
         request.at = "counted" => Listed' = Listed,
         request.at # "never" => \A v, w \in Listed : Precedes(v, w)' <=> Precedes(v, w)
  PROVE  (InOrder /\ Counted /\ NotBegun /\ Complete)'
<1>1. InOrder'
  <2>1. CASE request.at = "never"
    BY <2>1 DEF InOrder, NotBegun
  <2>2. CASE request.at # "never"
    BY <2>2 DEF InOrder
  <2> QED BY <2>1, <2>2
<1>2. Counted'
  BY DEF Counted
<1> QED BY <1>1, <1>2 DEF NotBegun, Complete

\* What the page takes note of.
LEMMA NotedIs ==
  ASSUME Scrolling!TypeOK, NEW comes \in BOOLEAN, NEW leaves \in BOOLEAN, Scrolling!Noted(comes, leaves)
  PROVE  /\ UNCHANGED <<query, shown, request, ended, steady>>
         /\ spoilt' = {} => /\ spoilt = {} /\ (leaves => request.at = "never")
                            /\ (comes => request.at # "counted")
BY DEF Scrolling!Noted

\* What happens to a work leaves the order of the others alone.
LEMMA OrderStays ==
  ASSUME Scrolling!TypeOK, UNCHANGED query, NEW x,
         \A v \in Works \ {x} : added'[v] = added[v]
  PROVE  \A v, w \in Works \ {x} : Precedes(v, w)' <=> Precedes(v, w)
BY DEF Precedes, Scrolling!Precedes, Scrolling!Ahead, Scrolling!ByName

LEMMA ScrollStep == ASSUME ScrollInv, Asked <= 200, [Scrolling!Next]_scrollVars PROVE ScrollInv'
<1>0. Scrolling!TypeOK /\ (spoilt = {} => InOrder /\ Counted /\ NotBegun /\ Complete)
  BY DEF ScrollInv
<1> DEFINE good == (InOrder /\ Counted /\ NotBegun /\ Complete)'
<1>1. SUFFICES ASSUME spoilt' = {} PROVE good
  BY <1>0, ScrollTypeStep DEF ScrollInv
<1>2. Listed = {w \in present : Scrolling!Matches(w)} /\ Listed \subseteq Works
  BY <1>0, ListedIsFinite DEF Listed, Scrolling!Listed
<1>3. ASSUME UNCHANGED <<present, marked, query>> PROVE Listed' = Listed
  BY <1>3 DEF Listed, Scrolling!Listed, Scrolling!Matches
<1>4. ASSUME UNCHANGED <<present, added, marked, query>>
      PROVE  Listed' = Listed /\ \A v, w : Precedes(v, w)' <=> Precedes(v, w)
  BY <1>4 DEF Listed, Scrolling!Listed, Scrolling!Matches, Precedes, Scrolling!Precedes, Scrolling!Ahead, Scrolling!ByName
<1>5. CASE UNCHANGED scrollVars
  BY <1>0, <1>1, <1>4, <1>5 DEF scrollVars, InOrder, Counted, NotBegun, Complete
<1>6. CASE Scrolling!Load \/ Scrolling!LoadMore
  <2>1. /\ UNCHANGED <<present, added, marked, query, shown, ended, steady, spoilt>> /\ ~ended
        /\ request' = [at |-> "counted", offset |-> Cardinality(shown), total |-> Cardinality(Listed)]
    <3>1. Cardinality({}) = 0
      BY FS_EmptySet
    <3> QED BY <1>0, <1>1, <1>6, <3>1, SameSize
            DEF Scrolling!Load, Scrolling!LoadMore, Scrolling!Count, Scrolling!libraryVars, Listed, NotBegun
  <2>2. InOrder' /\ NotBegun' /\ Complete'
    BY <1>0, <1>1, <1>4, <2>1 DEF InOrder, NotBegun, Complete
  <2>3. Counted'
    BY <1>4, <2>1 DEF Counted
  <2> QED BY <2>2, <2>3
<1>7. CASE Scrolling!Answer
  BY <1>0, <1>1, <1>7, AnswerKeeps DEF Scrolling!Answer
<1>8. CASE Scrolling!Fail
  BY <1>1, <1>8 DEF Scrolling!Fail
<1>9. CASE Scrolling!Arrive
  <2>1. PICK w \in Scrolling!Works \ present :
          /\ present' = present \cup {w} /\ added' = [added EXCEPT ![w] = clock]
          /\ Scrolling!Noted(Scrolling!Matches(w), FALSE) /\ UNCHANGED <<marked, clock>>
    BY <1>9 DEF Scrolling!Arrive
  <2>2. /\ UNCHANGED <<query, shown, request, ended, steady>> /\ spoilt = {}
        /\ Scrolling!Matches(w) => request.at # "counted"
    BY <1>0, <1>1, <2>1, NotedIs DEF Scrolling!Matches
  <2>3. Listed' = Listed \cup (IF Scrolling!Matches(w) THEN {w} ELSE {})
    BY <2>1, <2>2 DEF Listed, Scrolling!Listed, Scrolling!Matches
  <2>4. \A u, v \in Works \ {w} : Precedes(u, v)' <=> Precedes(u, v)
    BY <1>0, <2>1, <2>2, OrderStays DEF Scrolling!TypeOK, Works
  <2>5. Listed \subseteq Works \ {w}
    BY <1>2, <2>1
  <2> QED BY <1>0, <2>2, <2>3, <2>4, <2>5, LibraryKeeps
<1>10. ASSUME NEW w \in Scrolling!Works, Scrolling!Mark(w) PROVE good
  <2>1. /\ w \in present /\ marked' = Scrolling!Flip(w) /\ UNCHANGED <<present, added, clock>>
        /\ Scrolling!Noted(~Scrolling!Matches(w), Scrolling!Matches(w))
    BY <1>10 DEF Scrolling!Mark
  <2>2. /\ UNCHANGED <<query, shown, request, ended, steady>> /\ spoilt = {}
        /\ Scrolling!Matches(w) => request.at = "never"
        /\ ~Scrolling!Matches(w) => request.at # "counted"
    BY <1>0, <1>1, <2>1, NotedIs DEF Scrolling!Matches
  <2>3. request.at # "never" => Listed \subseteq Listed' /\ request.at # "counted"
    BY <1>2, <2>1, <2>2 DEF Listed, Scrolling!Listed, Scrolling!Matches, Scrolling!Flip
  <2>4. \A u, v : Precedes(u, v)' <=> Precedes(u, v)
    BY <2>1, <2>2 DEF Precedes, Scrolling!Precedes, Scrolling!Ahead, Scrolling!ByName
  <2>5. request.at = "never" => request.at # "counted"
    OBVIOUS
  <2> QED BY <1>0, <2>2, <2>3, <2>4, <2>5, LibraryKeeps
<1>11. CASE Scrolling!Second
  BY <1>0, <1>1, <1>4, <1>11 DEF Scrolling!Second, InOrder, Counted, NotBegun, Complete
<1> QED BY <1>5, <1>6, <1>7, <1>8, <1>9, <1>10, <1>11 DEF Scrolling!Next

\* The page of a scroller keeps its types.
THEOREM ScrollTypeCorrect == Spec => []Scrolling!TypeOK
<1>1. Scrolling!TypeOK /\ [Next]_allVars => Scrolling!TypeOK'
  BY StepOfParts, ScrollTypeStep
<1>2. Init => Scrolling!TypeOK
  BY ScrollInit DEF ScrollInv
<1> QED BY <1>1, <1>2, PTL DEF Spec

\* A page that is complete shows every work that was in the list when it began, for
\* a library of any size and order, as long as the page asks for no more than the
\* server gives (it asks for 60 of 200), with the exceptions that `spoilt` notes.
THEOREM ScrollShowsAll == ASSUME Asked <= 200 PROVE Spec => []NothingIsSkipped
<1>1. ScrollInv => NothingIsSkipped
  BY DEF ScrollInv, Complete, NothingIsSkipped, Scrolling!NothingIsSkipped
<1>2. ScrollInv /\ [Next]_allVars => ScrollInv'
  BY StepOfParts, ScrollStep
<1> QED BY <1>1, <1>2, ScrollInit, PTL DEF Spec
=============================================================================
