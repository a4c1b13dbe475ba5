----------------------------- MODULE MCViewing -----------------------------
(* Instances of Viewing for TLC. *)
EXTENDS Viewing

Hour == 1440000

Episode(name, s, season, no) ==
  [name |-> name, series |-> s, season |-> season, no |-> no, runtime |-> 0, virtual |-> FALSE]

Second == Episode("a2", 1, 1, 2)

SecondIsLate == {Second}

\* A series in two seasons, a second and a third one, and a short film.
Shelf == {Episode("a1", 1, 1, 1), Second, Episode("a3", 1, 2, 0),
          Episode("b1", 2, 1, 1), Episode("c1", 3, 1, 1),
          [name |-> "film", series |-> 0, season |-> 1, no |-> 0, runtime |-> 200000, virtual |-> FALSE]}

\* An episode's, or none.
Told == {0, Hour}

\* Around 5 % and 90 % of an episode, and 50 % of the film.
Reported == {0, 71999, 72000, 1296000, 1296001}

\* Names in an order that is not that of arrival.
Names == <<3, 1, 4, 2, 3>>

Query(sort, filter) == [sort |-> sort, filter |-> filter]
Asks == {Query("premiere", "all"), Query("sort_name", "all"),
         Query("added_at", "unmarked"), Query("sort_name", "marked")}
=============================================================================
