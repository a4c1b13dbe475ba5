---------------------------- MODULE AtomicIngest ----------------------------
(***************************************************************************)
(* What ingest promises (nipa-server/src/ingest.rs): results enter the     *)
(* library one after the other.  A result is merged into the tree of items *)
(* by finding or creating its series, season and episode, or its film, its *)
(* file is linked to the leaf, and metadata fills what is missing, all in  *)
(* one step; IngestTree shows how overlapping transactions get there.      *)
(*                                                                         *)
(* Titles, ids and metadata are values that are compared.                  *)
(***************************************************************************)
EXTENDS Naturals, Sequences

CONSTANTS Results,     \* what the model or dandanplay may say of a file
          Files,
          NoFile,      \* a trial has no file, and so no library
          LibraryOf    \* the library of every file

Nothing == "nothing"
NoLibrary == "no library"
BangumiPoster == "bangumi"

Providers == {"tmdb", "bangumi", "dandanplay", "imdb"}

\* A missing season is the first; episode 0 stands for an unknown number.  An id may
\* be told as text: `quoted` are the providers whose ids are.
ASSUME ResultsAssumption ==
  Results \subseteq [media : {"tv_episode", "ova", "movie", "unknown"}, title : STRING,
                     season : Nat, episode : Nat, ids : SUBSET (Providers \X Nat), quoted : SUBSET Providers,
                     image : STRING, overview : STRING, air_date : STRING, values : SUBSET STRING]

\* A result has one id of a provider at most.
ASSUME IdsAssumption ==
  \A r \in Results : \A x, y \in r.ids : x[1] = y[1] => x = y

ASSUME FilesAssumption == NoFile \notin Files /\ LibraryOf \in [Files -> STRING \ {NoLibrary}]

VARIABLES items,  \* the rows of items, by id
          ids,    \* item_ids: the item that has an external id, 0 when there is none
          links   \* file_item

rows == <<items, ids, links>>

Ids == UNION {r.ids : r \in Results}

Library(f) == IF f = NoFile THEN NoLibrary ELSE LibraryOf[f]

\* The texts of the tree: what results say, and what stands in for it.
Texts == {Nothing, NoLibrary, BangumiPoster, ""} \cup {LibraryOf[f] : f \in Files}
           \cup UNION {{r.title, r.image, r.overview, r.air_date} \cup r.values : r \in Results}

ItemRows == [kind : {"series", "season", "episode", "movie"}, lib : Texts, parent : Nat,
             title : Texts, no : Nat, series : Nat, overview : Texts, air_date : Texts,
             poster : Texts, values : SUBSET Texts]

AtomicInit == /\ items = <<>>
              /\ ids = [x \in Ids |-> 0]
              /\ links = {}

-----------------------------------------------------------------------------
(* Finding the series or the film *)

\* Films, and placeholders for what is unknown, are a single item.
InEpisodes(r) == r.media \in {"tv_episode", "ova"}
TopKind(r) == IF InEpisodes(r) THEN "series" ELSE "movie"

\* (mutant) the name of the field is not the name of the provider
AnchorFields == <<"tmdb", "bangumi", "dandanplay_anime">>

\* The ids that anchor a result, the better first; "imdb" is kept but anchors nothing.
Anchors == <<"tmdb", "bangumi", "dandanplay">>

\* What is told as text is kept, too, and anchors nothing.
IsNumber(r, x) == x[1] \notin r.quoted

IdOf(r, n) == {x \in r.ids : x[1] = Anchors[n] /\ IsNumber(r, x)}
IsHit(r, n) == \E x \in IdOf(r, n) : ids[x] # 0

\* Anchors count in every library and for every kind of item.
Anchored(r) == {i \in DOMAIN items :
                  \E n \in DOMAIN Anchors : /\ \E x \in IdOf(r, n) : ids[x] = i
                                            /\ \A m \in 1..(n - 1) : ~IsHit(r, m)}

Titled(r, lib) == {i \in DOMAIN items : /\ items[i].lib = lib
                                        /\ items[i].kind = TopKind(r)
                                        /\ items[i].title = r.title}

\* The item a result goes to and how it was found; 0 stands for a new one.
Choices(r, lib) ==
  IF Anchored(r) # {} THEN {[top |-> i, how |-> "anchor"] : i \in Anchored(r)}
  ELSE IF Titled(r, lib) # {} THEN {[top |-> i, how |-> "title"] : i \in Titled(r, lib)}
  ELSE {[top |-> 0, how |-> "new"]}

-----------------------------------------------------------------------------
(* Building the rest and writing *)

NewItem(kind, lib, parent, title, no) ==
  [kind |-> kind, lib |-> lib, parent |-> parent, title |-> title, no |-> no, series |-> 0,
   overview |-> Nothing, air_date |-> Nothing, poster |-> Nothing, values |-> {}]

\* A tree and the item at hand.
Found(tree, i) == [tree |-> tree, at |-> i]

FindOrAdd(tree, found, item) ==
  IF found # {} THEN Found(tree, CHOOSE i \in found : TRUE)
                ELSE Found(Append(tree, item), Len(tree) + 1)

Children(tree, parent, kind, no) ==
  {i \in DOMAIN tree : tree[i].parent = parent /\ tree[i].kind = kind /\ tree[i].no = no}

TopOf(r, lib, top) == FindOrAdd(items, {top} \ {0}, NewItem(TopKind(r), lib, 0, r.title, 0))

SeasonOf(r, lib, t) ==
  FindOrAdd(t.tree, Children(t.tree, t.at, "season", r.season), NewItem("season", lib, t.at, "", r.season))

\* (mutant) the episode is not looked for
EpisodeAnew(r, lib, t) == FindOrAdd(t.tree, {}, NewItem("episode", lib, t.at, r.title, r.episode))

\* An episode without a number is never found: every merge of it is an item.
EpisodeOf(r, lib, t) ==
  FindOrAdd(t.tree,
            IF r.episode = 0 THEN {} ELSE Children(t.tree, t.at, "episode", r.episode),
            NewItem("episode", lib, t.at, r.title, r.episode))

Leaf(r, lib, top) ==
  IF InEpisodes(r) THEN EpisodeOf(r, lib, SeasonOf(r, lib, TopOf(r, lib, top))) ELSE TopOf(r, lib, top)

\* COALESCE: what is there stays.
Filled(old, new) == IF old = Nothing THEN new ELSE old

\* series_id, then apply_metadata, then the poster.
WithMetadata(tree, r, top, leaf) ==
  [i \in DOMAIN tree |->
     [tree[i] EXCEPT
        !.series = IF i = leaf /\ InEpisodes(r) /\ @ = 0 THEN top ELSE @,
        !.air_date = IF i = leaf THEN Filled(@, r.air_date) ELSE @,
        !.overview = IF i = top THEN Filled(@, r.overview) ELSE @,
        !.values = IF i = top THEN @ \cup r.values ELSE @,
        !.poster = IF i = top THEN Filled(@, r.image) ELSE @]]

\* ON CONFLICT DO NOTHING: an id stays where it is, an item keeps its id of a provider.
Attached(xs, item) ==
  [x \in Ids |-> IF /\ x \in xs
                    /\ ids[x] = 0
                    /\ \A y \in Ids : y[1] = x[1] => ids[y] # item
                 THEN item ELSE ids[x]]

\* Result r of file f is merged into item top.  Without a library the foreign key
\* refuses new items.
Enter(r, f, top, how) ==
  LET lib == Library(f)
      leaf == Leaf(r, lib, top)
  IN /\ lib = NoLibrary => Len(leaf.tree) = Len(items)
     /\ items' = WithMetadata(leaf.tree, r, TopOf(r, lib, top).at, leaf.at)
     /\ ids' = IF how = "anchor" THEN ids ELSE Attached(r.ids, TopOf(r, lib, top).at)
     /\ links' = links \cup ({f} \cap Files) \X {leaf.at}

\* A missing poster is filled in.
Poster(i) == /\ items' = [items EXCEPT ![i].poster = Filled(@, BangumiPoster)]
             /\ UNCHANGED <<ids, links>>

AtomicNext == \/ \E r \in Results, f \in Files \cup {NoFile} :
                    \E c \in Choices(r, Library(f)) : Enter(r, f, c.top, c.how)
              \/ \E i \in DOMAIN items : Poster(i)

AtomicSpec == AtomicInit /\ [][AtomicNext]_rows
=============================================================================
