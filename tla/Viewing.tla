------------------------------ MODULE Viewing ------------------------------
(***************************************************************************)
(* What a viewer sees of the library, in two parts that are looked at one  *)
(* at a time: what was watched and what comes next (WatchState), and the   *)
(* page that is scrolled while the library changes (LibraryScroll).  The   *)
(* marks of the one are the filter of the other; neither reads anything    *)
(* else that the other writes, and `part` is chosen at the start.          *)
(***************************************************************************)
EXTENDS Naturals, FiniteSets

CONSTANTS Items, Late, Positions, Durations, Limit, MaxRequests, MaxNow,
          N, First, Name, Asked, Queries, MaxClock

VARIABLES part,
          library, row, now, requests,                       \* WatchState
          present, added, marked, clock, query, shown,
          request, ended, steady, came, spoilt               \* LibraryScroll

Watching == INSTANCE WatchState
Scrolling == INSTANCE LibraryScroll WITH now <- clock, MaxNow <- MaxClock

ASSUME WatchAssumption ==
         Watching!ItemsAssumption /\ Watching!ReportsAssumption /\ Watching!BoundsAssumption
ASSUME ScrollAssumption == Scrolling!WorksAssumption /\ Scrolling!QueriesAssumption

watchVars == <<library, row, now, requests>>
scrollVars == <<present, added, marked, clock, query, shown, request, ended, steady, came, spoilt>>
allVars == <<part, watchVars, scrollVars>>

Init == /\ part \in {"watching", "scrolling"}
        /\ Watching!Init
        /\ Scrolling!Init
        /\ part = "watching" => query = CHOOSE q \in Queries : TRUE

Watches == part = "watching" /\ Watching!Next /\ UNCHANGED <<part, scrollVars>>
Scrolls(step) == part = "scrolling" /\ step /\ UNCHANGED <<part, watchVars>>

Next == Watches \/ Scrolls(Scrolling!Next)

\* The server answers, and the user scrolls on.
Spec == /\ Init /\ [][Next]_allVars
        /\ WF_allVars(Scrolls(Scrolling!Load))
        /\ WF_allVars(Scrolls(Scrolling!LoadMore))
        /\ WF_allVars(Scrolls(Scrolling!Answer))

-----------------------------------------------------------------------------
(* Properties *)

\* A position to resume lies in the middle of its item.
ResumableIsMiddle == Watching!ResumableIsMiddle

\* The home page is filled as far as there are series to go on with.
NextUpFillsThePage == Watching!NextUpFillsThePage

\* The next episode of a series never goes back.
NextUpAdvances == Watching!NextUpAdvances

\* A page that is complete shows every work that was in the list when it began, with
\* the exceptions that LibraryScroll names.
NothingIsSkipped == Scrolling!NothingIsSkipped

\* The scrolling ends, unless a page full of works has come meanwhile.
ScrollEnds == Scrolling!ScrollEnds
=============================================================================
