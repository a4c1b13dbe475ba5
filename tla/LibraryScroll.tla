--------------------------- MODULE LibraryScroll ---------------------------
(***************************************************************************)
(* Scrolling through the library: a page shows the works that match its    *)
(* filter, and asks for more by their number (offset) until it thinks that *)
(* it has them all (webui, LibraryView), while the server answers each     *)
(* time from the library as it is (nipa-server/src/api_library.rs).        *)
(* Meanwhile works arrive and are marked.                                  *)
(*                                                                         *)
(* A work is its id; ids are given in the order of arrival.                *)
(***************************************************************************)
EXTENDS Integers, FiniteSets

CONSTANTS N,       \* works that there may be
          First,   \* works that are there at the start
          Name,    \* their names, by rank
          Asked,   \* the limit that the page asks for
          Queries, \* sorts and filters that it may have
          MaxNow   \* bound on the clock

Works == 1..N

\* Assumed wherever the module is used.
WorksAssumption == /\ N \in Nat /\ First \in 0..N /\ MaxNow \in Nat /\ Asked \in Nat \ {0}
                   /\ Name \in [Works -> Nat]

\* A random list is loaded once, and never scrolled.
Sorts == {"added_at", "sort_name", "premiere", "rating"}
Filters == {"all", "marked", "unmarked"}     \* is_played or is_favorite

QueriesAssumption == Queries \subseteq [sort : Sorts, filter : Filters]

VARIABLES present, added, marked,          \* the library
          now,                             \* the clock, in seconds
          query,                           \* what the page asks for
          shown,                           \* works on the page
          request,                         \* the answer that is awaited
          ended,                           \* reachedEnd
          steady,                          \* works that matched when the page began
          came,                            \* works that have come to match since, up to Asked
          spoilt                           \* what else has happened since

libraryVars == <<present, added, marked, now>>
vars == <<libraryVars, query, shown, request, ended, steady, came, spoilt>>

Away == [at |-> "away", offset |-> 0, total |-> 0]

TypeOK == /\ present \subseteq Works /\ marked \subseteq Works
          /\ added \in [Works -> 0..MaxNow] /\ now \in 0..MaxNow
          /\ query \in Queries
          /\ shown \subseteq Works /\ steady \subseteq Works
          /\ request \in [at : {"never", "away", "counted"}, offset : 0..N, total : 0..N]
          /\ ended \in BOOLEAN
          /\ came \in 0..Asked
          /\ spoilt \subseteq {"left", "raced", "failed"}

Init == /\ present = 1..First
        /\ added = [w \in Works |-> 0]
        /\ marked = {}
        /\ now = 0
        /\ query \in Queries
        /\ shown = {} /\ steady = {}
        /\ request = [Away EXCEPT !.at = "never"]
        /\ ended = FALSE
        /\ came = 0
        /\ spoilt = {}

-----------------------------------------------------------------------------
(* list_items *)

PageLimit == IF Asked > 200 THEN 200 ELSE Asked

Matches(w) == query.filter = "all" \/ (query.filter = "marked" <=> w \in marked)
Listed == {w \in present : Matches(w)}

\* ORDER BY: by name, and newest first for whatever else the page may ask for; the
\* server knows nothing of premieres and ratings.  Equal rows come in the order of the
\* table.
ByName == query.sort = "sort_name"
Ahead(v, w) == IF ByName THEN Name[v] < Name[w] ELSE added[v] > added[w]

Precedes(v, w) == Ahead(v, w) \/ (~Ahead(w, v) /\ v < w)
Position(w) == Cardinality({v \in Listed : Precedes(v, w)})

\* LIMIT and OFFSET.
Rows(offset) == {w \in Listed : offset <= Position(w) /\ Position(w) < offset + PageLimit}

\* The total is counted in a statement of its own, before.
Count(offset) == request' = [at |-> "counted", offset |-> offset, total |-> Cardinality(Listed)]

-----------------------------------------------------------------------------
(* The page *)

\* load
Load == /\ request.at = "never"
        /\ Count(0)
        /\ UNCHANGED <<libraryVars, query, shown, ended, steady, came, spoilt>>

\* loadMore, when the user comes near the end of the page.
LoadMore == /\ request.at = "away" /\ ~ended
            /\ Count(Cardinality(shown))
            /\ UNCHANGED <<libraryVars, query, shown, ended, steady, came, spoilt>>

\* (mutant) a page that brings nothing new is the last
EndsWithoutNews(rows, all, total) == rows \subseteq shown \/ Cardinality(all) >= total

\* (mutant) only the total tells the end
EndsAtTotal(rows, all, total) == Cardinality(all) >= total

\* No rows, too few, or as many as there are.
Ends(rows, all, total) == Cardinality(rows) < Asked \/ Cardinality(all) >= total

\* The rows are selected and shown, each work once.
Answer == /\ request.at = "counted"
          /\ LET rows == Rows(request.offset)
             IN  /\ shown' = shown \cup rows
                 /\ ended' = Ends(rows, shown \cup rows, request.total)
          /\ steady' = IF request.offset = 0 /\ shown = {} THEN Listed ELSE steady
          /\ request' = Away
          /\ UNCHANGED <<libraryVars, query, came, spoilt>>

\* An error ends the scrolling: the page shows it in place of the list, or takes it
\* for the end of the list.
Fail == /\ request.at = "counted"
        /\ request' = Away
        /\ ended' = TRUE
        /\ spoilt' = spoilt \cup {"failed"}
        /\ UNCHANGED <<libraryVars, query, shown, steady, came>>

-----------------------------------------------------------------------------
(* The library *)

\* What the page meets: works come into the list or leave it, and either may happen
\* between the two statements of one answer.
Noted(comes, leaves) ==
  /\ came' = IF comes /\ request.at # "never" /\ came < Asked THEN came + 1 ELSE came
  /\ spoilt' = spoilt \cup (IF leaves /\ request.at # "never" THEN {"left"} ELSE {})
                      \cup (IF comes /\ request.at = "counted" THEN {"raced"} ELSE {})
  /\ UNCHANGED <<query, shown, request, ended, steady>>

Arrive == \E w \in Works \ present :
            /\ \A v \in Works \ present : w <= v
            /\ present' = present \cup {w}
            /\ added' = [added EXCEPT ![w] = now]
            /\ Noted(Matches(w), FALSE)
            /\ UNCHANGED <<marked, now>>

\* Marks and time are left alone where the list does not tell them apart.
Flip(w) == IF w \in marked THEN marked \ {w} ELSE marked \cup {w}

Mark(w) == /\ query.filter # "all"
           /\ w \in present
           /\ marked' = Flip(w)
           /\ Noted(~Matches(w), Matches(w))
           /\ UNCHANGED <<present, added, now>>

Second == /\ ~ByName
          /\ now < MaxNow
          /\ now' = now + 1
          /\ UNCHANGED <<present, added, marked, query, shown, request, ended, steady, came, spoilt>>

Next == \/ Load \/ LoadMore \/ Answer \/ Fail
        \/ Arrive \/ Second
        \/ \E w \in Works : Mark(w)

\* The server answers, and the user scrolls on.
Spec == Init /\ [][Next]_vars /\ WF_vars(Load) /\ WF_vars(LoadMore) /\ WF_vars(Answer)

-----------------------------------------------------------------------------
(* Properties *)

\* A page that is complete shows every work that was in the list when it began,
\* whatever has arrived before or among them meanwhile, unless a work has left the
\* list, an answer has failed, or a work came between the count and the
\* rows of an answer.
NothingIsSkipped == ended /\ spoilt = {} => steady \subseteq shown

\* The scrolling ends, unless as many works as fill a page have come meanwhile: then
\* the page may ask for what it has over and over.
ScrollEnds == request.at = "counted" ~> (ended \/ came = Asked)
=============================================================================
