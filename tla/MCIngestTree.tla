---------------------------- MODULE MCIngestTree ----------------------------
(* Instances of IngestTree for TLC. *)
EXTENDS IngestTree, TLC

Said(media, title, episode, xs, quoted, image, about) ==
  [media |-> media, title |-> title, season |-> 1, episode |-> episode, ids |-> xs, quoted |-> quoted,
   image |-> image, overview |-> about, air_date |-> about, values |-> {about}]

\* A series that dandanplay and the model call differently, its episode without
\* a number and with its id as text, and a film whose TMDB number is that of the
\* series.
Frieren ==
  {Said("tv_episode", "Frieren", 1, {<<"dandanplay", 1>>}, {}, "still", Nothing),
   Said("tv_episode", "Sousou no Frieren", 1, {<<"tmdb", 7>>, <<"bangumi", 4>>, <<"dandanplay", 1>>}, {},
        Nothing, "model"),
   Said("ova", "Frieren", 0, {<<"bangumi", 4>>}, {"bangumi"}, Nothing, "model"),
   Said("unknown", "Frieren", 0, {<<"tmdb", 7>>}, {}, Nothing, "late")}

\* Every file is in a library of its own.
CONSTANT Second
TwoLibraries == [f \in Files |-> IF f = Second THEN "films" ELSE "anime"]
Symmetric == Permutations(Jobs)
=============================================================================
