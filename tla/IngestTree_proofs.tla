------------------------- MODULE IngestTree_proofs -------------------------
(***************************************************************************)
(* Overlapping transactions implement merges made one after the other: a   *)
(* transaction that may still commit would find today what it found when   *)
(* it began.                                                               *)
(***************************************************************************)
EXTENDS IngestTree, TLAPS

HasFields(x) == x = [at |-> x.at, top |-> x.top, how |-> x.how, fresh |-> x.fresh,
                     result |-> x.result, file |-> x.file]

\* What job j would find now.
FoundNow(j) == Choices(job[j].result, Library(job[j].file))

JobsKept == /\ job = [j \in Jobs |-> job[j]]
            /\ \A j \in Jobs : \/ job[j] = Idle
                               \/ HasFields(job[j]) /\ job[j].at \in {"open", "poster"}
            /\ \A j \in Jobs : job[j].at = "open" => /\ job[j].result \in Results
                                                     /\ job[j].file \in Files \cup {NoFile}

SnapshotsCurrent ==
  \A j \in Jobs : job[j].at = "open" /\ job[j].fresh
                  => \E c \in FoundNow(j) : job[j].top = c.top /\ job[j].how = c.how

IInv == /\ items = [i \in DOMAIN items |-> items[i]]
        /\ JobsKept
        /\ SnapshotsCurrent

-----------------------------------------------------------------------------
(* Lemmas *)

\* While the items and the ids stay, so does what a result would find.
LEMMA SameChoices ==
  ASSUME items' = items, ids' = ids, NEW r, NEW lib
  PROVE  Choices(r, lib)' = Choices(r, lib)
BY DEF Choices, Anchored, IsHit, Titled

\* After a write nobody who is reading may commit, and the rest of a job stays.
LEMMA WrittenIsStale ==
  ASSUME NEW js, NEW k \in Jobs,
         js[k] = Idle \/ HasFields(js[k])
  PROVE  /\ Written(js)[k].at = js[k].at
         /\ Written(js)[k].at = "open" => Written(js)[k].fresh = FALSE
         /\ js[k] = Idle => Written(js)[k] = Idle
         /\ HasFields(js[k]) => HasFields(Written(js)[k])
         /\ js[k].at = "open" => /\ Written(js)[k].result = js[k].result
                                 /\ Written(js)[k].file = js[k].file
<1>1. CASE js[k] = Idle
  BY <1>1 DEF Written, Idle, HasFields
<1>2. CASE HasFields(js[k]) /\ js[k].at # "open"
  BY <1>2 DEF Written, HasFields
<1>3. CASE HasFields(js[k]) /\ js[k].at = "open"
  <2>1. Written(js)[k] = [js[k] EXCEPT !.fresh = FALSE]
    BY <1>3 DEF Written
  <2>2. Written(js)[k] = [at |-> js[k].at, top |-> js[k].top, how |-> js[k].how, fresh |-> FALSE,
                          result |-> js[k].result, file |-> js[k].file]
    BY <1>3, <2>1 DEF HasFields
  <2>3. js[k] # Idle
    BY <1>3 DEF Idle
  <2> QED BY <1>3, <2>2, <2>3 DEF HasFields
<1> QED BY <1>1, <1>2, <1>3

-----------------------------------------------------------------------------
(* The invariant *)

LEMMA InitInv == Init => IInv
BY DEF Init, AtomicInit, IInv, JobsKept, SnapshotsCurrent, Idle

\* A step that writes leaves only jobs behind that read an old snapshot.
LEMMA WritingKeeps ==
  ASSUME IInv, NEW js, js = [k \in Jobs |-> js[k]],
         \A k \in Jobs : \/ js[k] = Idle
                         \/ HasFields(js[k]) /\ js[k].at \in {"open", "poster"},
         \A k \in Jobs : js[k].at = "open" => /\ js[k].result \in Results
                                              /\ js[k].file \in Files \cup {NoFile},
         job' = Written(js)
  PROVE  JobsKept' /\ SnapshotsCurrent'
<1>1. job' = [k \in Jobs |-> job'[k]]
  BY DEF Written
<1>2. ASSUME NEW k \in Jobs
      PROVE  /\ job'[k] = Idle \/ (HasFields(job'[k]) /\ job'[k].at \in {"open", "poster"})
             /\ job'[k].at = "open" => /\ job'[k].fresh = FALSE
                                       /\ job'[k].result \in Results
                                       /\ job'[k].file \in Files \cup {NoFile}
  BY WrittenIsStale
<1> QED BY <1>1, <1>2 DEF JobsKept, SnapshotsCurrent, HasFields

\* A step that changes one job to something that does not read, and no row.
LEMMA RestingKeeps ==
  ASSUME IInv, NEW j \in Jobs, job' = [job EXCEPT ![j] = Idle], items' = items, ids' = ids
  PROVE  IInv'
<1>1. ASSUME NEW k \in Jobs PROVE job'[k] = Idle \/ job'[k] = job[k]
  BY DEF IInv, JobsKept
<1>2. JobsKept'
  BY <1>1 DEF IInv, JobsKept, HasFields, Idle
<1>3. SnapshotsCurrent'
  BY <1>1, SameChoices DEF IInv, SnapshotsCurrent, FoundNow, Idle
<1> QED BY <1>2, <1>3 DEF IInv

LEMMA StepInv == IInv /\ [Next]_vars => IInv'
<1> SUFFICES ASSUME IInv, [Next]_vars PROVE IInv'
  OBVIOUS
<1>1. ASSUME NEW j \in Jobs, NEW r \in Results, NEW f \in Files \cup {NoFile}, Open(j, r, f)
      PROVE  IInv'
  <2>1. PICK c \in Choices(r, Library(f)) :
          job' = [job EXCEPT ![j] = [at |-> "open", top |-> c.top, how |-> c.how, fresh |-> TRUE,
                                     result |-> r, file |-> f]]
    BY <1>1 DEF Open
  <2>2. items' = items /\ ids' = ids
    BY <1>1 DEF Open
  <2>3. job'[j] = [at |-> "open", top |-> c.top, how |-> c.how, fresh |-> TRUE,
                   result |-> r, file |-> f]
    BY <2>1 DEF IInv, JobsKept
  <2>4. ASSUME NEW k \in Jobs, k # j PROVE job'[k] = job[k]
    BY <2>1, <2>4 DEF IInv, JobsKept
  <2>5. JobsKept'
    BY <2>1, <2>3, <2>4 DEF IInv, JobsKept, HasFields
  <2>6. SnapshotsCurrent'
    <3> SUFFICES ASSUME NEW k \in Jobs, (job[k].at = "open" /\ job[k].fresh)'
                 PROVE  (\E d \in FoundNow(k) : job[k].top = d.top /\ job[k].how = d.how)'
      BY DEF SnapshotsCurrent
    <3>1. CASE k = j
      <4>1. FoundNow(k)' = Choices(r, Library(f))
        BY <3>1, <2>2, <2>3, SameChoices DEF FoundNow
      <4> QED BY <3>1, <4>1, <2>3
    <3>2. CASE k # j
      <4>1. FoundNow(k)' = FoundNow(k)
        BY <3>2, <2>2, <2>4, SameChoices DEF FoundNow
      <4> QED BY <3>2, <4>1, <2>4 DEF IInv, SnapshotsCurrent
    <3> QED BY <3>1, <3>2
  <2> QED BY <2>2, <2>5, <2>6 DEF IInv
<1>2. ASSUME NEW j \in Jobs, Merge(j) PROVE IInv'
  <2> DEFINE top == TopOf(job[j].result, Library(job[j].file), job[j].top).at
             js == [job EXCEPT ![j] = IF AwaitsPoster(job[j].result)
                                      THEN [@ EXCEPT !.at = "poster", !.top = top] ELSE Idle]
  <2>1. job' = Written(js) /\ job[j].at = "open"
    BY <1>2 DEF Merge
  <2>2. HasFields(job[j])
    BY <2>1 DEF IInv, JobsKept, Idle
  <2>3. \/ js[j] = Idle
        \/ js[j] = [at |-> "poster", top |-> top, how |-> job[j].how, fresh |-> job[j].fresh,
                    result |-> job[j].result, file |-> job[j].file]
    <3> HIDE DEF top
    <3>1. js[j] = IF AwaitsPoster(job[j].result)
                  THEN [job[j] EXCEPT !.at = "poster", !.top = top] ELSE Idle
      BY DEF IInv, JobsKept
    <3> HIDE DEF js
    <3> QED BY <2>2, <3>1 DEF HasFields
  <2>4. ASSUME NEW k \in Jobs, k # j PROVE js[k] = job[k]
    BY <2>4 DEF IInv, JobsKept
  <2>5. js = [k \in Jobs |-> js[k]]
    BY DEF IInv, JobsKept
  <2>6. items' = [i \in DOMAIN items' |-> items'[i]]
    BY <1>2 DEF Merge, Enter, WithMetadata
  <2>7. JobsKept' /\ SnapshotsCurrent'
    <3> HIDE DEF js, top
    <3>1. ASSUME NEW k \in Jobs
          PROVE  /\ js[k] = Idle \/ (HasFields(js[k]) /\ js[k].at \in {"open", "poster"})
                 /\ js[k].at = "open" => /\ js[k].result \in Results
                                         /\ js[k].file \in Files \cup {NoFile}
      <4>1. CASE k # j
        BY <2>4, <4>1 DEF IInv, JobsKept
      <4>2. CASE k = j /\ js[j] = Idle
        BY <4>2 DEF Idle
      <4>3. CASE k = j /\ js[j] # Idle
        <5>1. HasFields(js[j]) /\ js[j].at = "poster"
          BY <2>3, <4>3 DEF HasFields
        <5> QED BY <4>3, <5>1
      <4> QED BY <4>1, <4>2, <4>3
    <3> QED BY <2>1, <2>5, <3>1, WritingKeeps
  <2> QED BY <2>6, <2>7 DEF IInv
<1>3. ASSUME NEW j \in Jobs, Fail(j) \/ SkipPoster(j) PROVE IInv'
  BY <1>3, RestingKeeps DEF Fail, SkipPoster
<1>4. ASSUME NEW j \in Jobs, FillPoster(j) PROVE IInv'
  <2>1. ids' = ids /\ items' = [i \in DOMAIN items' |-> items'[i]]
    BY <1>4 DEF FillPoster, Poster, IInv
  <2>2. CASE items' = items
    BY <1>4, <2>1, <2>2, RestingKeeps DEF FillPoster
  <2>3. CASE items' # items
    <3> DEFINE js == [job EXCEPT ![j] = Idle]
    <3>1. job' = Written(js)
      BY <1>4, <2>3 DEF FillPoster, Written, IInv, JobsKept, Idle
    <3>2. js = [k \in Jobs |-> js[k]] /\ \A k \in Jobs : js[k] = Idle \/ js[k] = job[k]
      BY DEF IInv, JobsKept
    <3>3. ASSUME NEW k \in Jobs
          PROVE  /\ js[k] = Idle \/ (HasFields(js[k]) /\ js[k].at \in {"open", "poster"})
                 /\ js[k].at = "open" => /\ js[k].result \in Results
                                         /\ js[k].file \in Files \cup {NoFile}
      BY <3>2 DEF IInv, JobsKept, Idle
    <3> HIDE DEF js
    <3> QED BY <2>1, <3>1, <3>2, <3>3, WritingKeeps DEF IInv
  <2> QED BY <2>2, <2>3
<1>5. CASE UNCHANGED vars
  BY <1>5, SameChoices DEF vars, IInv, JobsKept, SnapshotsCurrent, FoundNow
<1> QED BY <1>1, <1>2, <1>3, <1>4, <1>5 DEF Next

\* A transaction that may still commit would find what it found (the snapshot of
\* SQLite that find_or_create_item reads and ingest_result writes).
THEOREM Inductive == Spec => []IInv
BY InitInv, StepInv, PTL DEF Spec

-----------------------------------------------------------------------------
(* The refinement *)

LEMMA StepImplements == IInv /\ [Next]_vars => [AtomicNext]_rows
<1> SUFFICES ASSUME IInv, [Next]_vars PROVE [AtomicNext]_rows
  OBVIOUS
<1>1. ASSUME NEW j \in Jobs, Merge(j) PROVE AtomicNext
  <2>1. job[j].result \in Results /\ job[j].file \in Files \cup {NoFile}
    BY <1>1 DEF Merge, IInv, JobsKept
  <2>2. PICK c \in Choices(job[j].result, Library(job[j].file)) :
          job[j].top = c.top /\ job[j].how = c.how
    BY <1>1 DEF Merge, IsFresh, IInv, SnapshotsCurrent, FoundNow
  <2>3. Enter(job[j].result, job[j].file, c.top, c.how)
    BY <1>1, <2>2 DEF Merge
  <2> QED BY <2>1, <2>3 DEF AtomicNext
<1>2. ASSUME NEW j \in Jobs, FillPoster(j) PROVE [AtomicNext]_rows
  <2>1. CASE job[j].top \in DOMAIN items
    BY <1>2, <2>1 DEF FillPoster, AtomicNext
  <2>2. CASE job[j].top \notin DOMAIN items
    BY <1>2, <2>2 DEF FillPoster, Poster, IInv, rows
  <2> QED BY <2>1, <2>2
<1>3. ASSUME NEW j \in Jobs, Fail(j) \/ SkipPoster(j) PROVE UNCHANGED rows
  BY <1>3 DEF Fail, SkipPoster, rows
<1>4. ASSUME NEW j \in Jobs, NEW r \in Results, NEW f \in Files \cup {NoFile}, Open(j, r, f)
      PROVE  UNCHANGED rows
  BY <1>4 DEF Open, rows
<1>5. CASE UNCHANGED vars
  BY <1>5 DEF vars, rows
<1> QED BY <1>1, <1>2, <1>3, <1>4, <1>5 DEF Next

\* However many jobs ingest_result runs in at once, the library is what merges made
\* one after the other leave.
THEOREM Serial == Spec => MergesAreSerial
<1>1. Init => AtomicInit
  BY DEF Init
<1> QED BY <1>1, Inductive, StepImplements, PTL DEF Spec, AtomicSpec, MergesAreSerial

-----------------------------------------------------------------------------
(* Rows: their types, and that nothing is doubled *)

NoTwins(tree) == \A i, k \in DOMAIN tree : Twins(tree[i], tree[k]) => i = k

RowsOK == /\ items \in Seq(ItemRows)
          /\ ids \in [Ids -> 0..Len(items)]
          /\ links \subseteq Files \X (1..Len(items))
          /\ NoTwins(items)

\* What tells rows apart.
Alike(x, y) == x.kind = y.kind /\ x.lib = y.lib /\ x.parent = y.parent /\ x.title = y.title /\ x.no = y.no

LEMMA ResultTypes ==
  ASSUME NEW r \in Results
  PROVE  /\ r.title \in Texts /\ r.season \in Nat /\ r.episode \in Nat
         /\ r.image \in Texts /\ r.overview \in Texts /\ r.air_date \in Texts
         /\ r.values \in SUBSET Texts
         /\ r.ids \subseteq Ids
<1>1. r \in [media : {"tv_episode", "ova", "movie", "unknown"}, title : STRING,
             season : Nat, episode : Nat, ids : SUBSET (Providers \X Nat), quoted : SUBSET Providers,
             image : STRING, overview : STRING, air_date : STRING, values : SUBSET STRING]
  BY ResultsAssumption
<1>2. r.ids \subseteq Ids
  BY DEF Ids
<1>3. {r.title, r.image, r.overview, r.air_date} \cup r.values \subseteq Texts
  BY DEF Texts
<1> QED BY <1>1, <1>2, <1>3

LEMMA LibraryType == ASSUME NEW f \in Files \cup {NoFile} PROVE Library(f) \in Texts
BY DEF Library, Texts

LEMMA NewItemType ==
  ASSUME NEW kind \in {"series", "season", "episode", "movie"}, NEW lib \in Texts,
         NEW parent \in Nat, NEW title \in Texts, NEW no \in Nat
  PROVE  NewItem(kind, lib, parent, title, no) \in ItemRows
BY DEF NewItem, ItemRows, Texts

\* An item is found, or appended when nothing in the tree is its twin.
LEMMA FindOrAddKeeps ==
  ASSUME NEW tree \in Seq(ItemRows), NoTwins(tree), NEW item \in ItemRows,
         NEW found \in SUBSET DOMAIN tree,
         found = {} => \A i \in DOMAIN tree : ~Twins(tree[i], item)
  PROVE  LET t == FindOrAdd(tree, found, item)
         IN /\ t.tree \in Seq(ItemRows)
            /\ NoTwins(t.tree)
            /\ Len(t.tree) \in Nat /\ Len(tree) \in Nat /\ Len(tree) <= Len(t.tree)
            /\ t.at \in 1..Len(t.tree)
<1>1. CASE found # {}
  BY <1>1 DEF FindOrAdd, Found
<1>2. CASE found = {}
  <2> DEFINE more == Append(tree, item)
  <2>1. FindOrAdd(tree, found, item) = [tree |-> more, at |-> Len(tree) + 1]
    BY <1>2 DEF FindOrAdd, Found
  <2>2. more \in Seq(ItemRows) /\ Len(more) = Len(tree) + 1 /\ Len(tree) \in Nat
    OBVIOUS
  <2>3. \A i \in DOMAIN more : \/ i \in DOMAIN tree /\ more[i] = tree[i]
                               \/ i = Len(tree) + 1 /\ more[i] = item
    OBVIOUS
  <2>4. \A i \in DOMAIN tree : ~Twins(tree[i], item) /\ ~Twins(item, tree[i])
    BY <1>2 DEF Twins
  <2>5. NoTwins(more)
    BY <2>3, <2>4 DEF NoTwins
  <2> QED BY <2>1, <2>2, <2>5
<1> QED BY <1>1, <1>2

\* What a result finds is a row, and a row of that name is not overlooked.
LEMMA ChoiceIsRow ==
  ASSUME RowsOK, NEW r \in Results, NEW lib, NEW c \in Choices(r, lib)
  PROVE  /\ c.top \in 0..Len(items)
         /\ c.how \in {"anchor", "title", "new"}
         /\ c.top = 0 => Titled(r, lib) = {}
<1>1. DOMAIN items = 1..Len(items) /\ Len(items) \in Nat
  BY DEF RowsOK
<1> QED BY <1>1 DEF Choices, Anchored, Titled

LEMMA TopKeeps ==
  ASSUME RowsOK, NEW r \in Results, NEW f \in Files \cup {NoFile},
         NEW c \in Choices(r, Library(f))
  PROVE  LET t == TopOf(r, Library(f), c.top)
         IN /\ t.tree \in Seq(ItemRows)
            /\ NoTwins(t.tree)
            /\ Len(t.tree) \in Nat /\ Len(items) \in Nat /\ Len(items) <= Len(t.tree)
            /\ t.at \in 1..Len(t.tree)
<1> DEFINE item == NewItem(TopKind(r), Library(f), 0, r.title, 0)
<1>1. item \in ItemRows /\ items \in Seq(ItemRows) /\ NoTwins(items)
  BY ResultTypes, LibraryType, NewItemType DEF TopKind, RowsOK
<1>2. {c.top} \ {0} \in SUBSET DOMAIN items
  BY ChoiceIsRow DEF RowsOK
<1>3. ASSUME {c.top} \ {0} = {}, NEW i \in DOMAIN items PROVE ~Twins(items[i], item)
  <2>1. Titled(r, Library(f)) = {}
    BY <1>3, ChoiceIsRow
  <2>2. item.kind = TopKind(r) /\ item.lib = Library(f) /\ item.title = r.title
    BY DEF NewItem
  <2>3. TopKind(r) \in {"series", "movie"}
    BY DEF TopKind
  <2> HIDE DEF item
  <2> QED BY <2>1, <2>2, <2>3 DEF Twins, Titled
<1> HIDE DEF item
<1>4. TopOf(r, Library(f), c.top) = FindOrAdd(items, {c.top} \ {0}, item)
  BY DEF TopOf, item
<1> QED BY <1>1, <1>2, <1>3, <1>4, FindOrAddKeeps

\* The child of an item that has the number.
LEMMA ChildKeeps ==
  ASSUME NEW tree \in Seq(ItemRows), NoTwins(tree), NEW at \in 1..Len(tree),
         NEW kind \in {"season", "episode"}, NEW lib \in Texts, NEW title \in Texts, NEW no \in Nat,
         NEW found, found = Children(tree, at, kind, no) \/ (found = {} /\ kind = "episode" /\ no = 0)
  PROVE  LET t == FindOrAdd(tree, found, NewItem(kind, lib, at, title, no))
         IN /\ t.tree \in Seq(ItemRows)
            /\ NoTwins(t.tree)
            /\ Len(t.tree) \in Nat /\ Len(tree) \in Nat /\ Len(tree) <= Len(t.tree)
            /\ t.at \in 1..Len(t.tree)
<1> DEFINE item == NewItem(kind, lib, at, title, no)
<1>1. item \in ItemRows
  BY NewItemType
<1>2. item.kind = kind /\ item.parent = at /\ item.no = no
  BY DEF NewItem
<1> HIDE DEF item
<1>3. found \in SUBSET DOMAIN tree
  BY DEF Children
<1>4. ASSUME found = {}, NEW i \in DOMAIN tree PROVE ~Twins(tree[i], item)
  BY <1>2, <1>4 DEF Twins, Children
<1>5. LET t == FindOrAdd(tree, found, item)
      IN /\ t.tree \in Seq(ItemRows)
         /\ NoTwins(t.tree)
         /\ Len(t.tree) \in Nat /\ Len(tree) \in Nat /\ Len(tree) <= Len(t.tree)
         /\ t.at \in 1..Len(t.tree)
  BY <1>1, <1>3, <1>4, FindOrAddKeeps
<1> QED BY <1>5 DEF item

LEMMA LeafKeeps ==
  ASSUME RowsOK, NEW r \in Results, NEW f \in Files \cup {NoFile},
         NEW c \in Choices(r, Library(f))
  PROVE  LET t == TopOf(r, Library(f), c.top)
             leaf == Leaf(r, Library(f), c.top)
         IN /\ leaf.tree \in Seq(ItemRows)
            /\ NoTwins(leaf.tree)
            /\ Len(leaf.tree) \in Nat /\ Len(items) \in Nat /\ Len(items) <= Len(leaf.tree)
            /\ leaf.at \in 1..Len(leaf.tree)
            /\ t.at \in 1..Len(leaf.tree)
<1> DEFINE lib == Library(f)
           t == TopOf(r, lib, c.top)
           s == SeasonOf(r, lib, t)
           e == EpisodeOf(r, lib, s)
<1>1. /\ t.tree \in Seq(ItemRows) /\ NoTwins(t.tree) /\ t.at \in 1..Len(t.tree)
      /\ Len(t.tree) \in Nat /\ Len(items) \in Nat /\ Len(items) <= Len(t.tree)
  BY TopKeeps
<1>2. lib \in Texts /\ r.title \in Texts /\ r.season \in Nat /\ r.episode \in Nat /\ "" \in Texts
  BY LibraryType, ResultTypes DEF Texts
<1> HIDE DEF t, lib
<1>3. /\ s.tree \in Seq(ItemRows) /\ NoTwins(s.tree) /\ s.at \in 1..Len(s.tree)
      /\ Len(s.tree) \in Nat /\ Len(t.tree) <= Len(s.tree)
  BY <1>1, <1>2, ChildKeeps DEF SeasonOf
<1> HIDE DEF s
<1>4. /\ e.tree \in Seq(ItemRows) /\ NoTwins(e.tree) /\ e.at \in 1..Len(e.tree)
      /\ Len(e.tree) \in Nat /\ Len(s.tree) <= Len(e.tree)
  <2> DEFINE found == IF r.episode = 0 THEN {} ELSE Children(s.tree, s.at, "episode", r.episode)
  <2>1. found = Children(s.tree, s.at, "episode", r.episode) \/ (found = {} /\ r.episode = 0)
    OBVIOUS
  <2>2. e = FindOrAdd(s.tree, found, NewItem("episode", lib, s.at, r.title, r.episode))
    BY DEF EpisodeOf
  <2> HIDE DEF found, e
  <2> QED BY <1>2, <1>3, <2>1, <2>2, ChildKeeps
<1> HIDE DEF e
<1>5. Leaf(r, lib, c.top) = IF InEpisodes(r) THEN e ELSE t
  BY DEF Leaf, e, s, t
<1> QED BY <1>1, <1>3, <1>4, <1>5 DEF t, lib

\* What metadata adds to a row leaves alone what makes it a twin of another.
LEMMA MetadataKeeps ==
  ASSUME NEW tree \in Seq(ItemRows), NoTwins(tree), NEW r \in Results,
         NEW top \in 1..Len(tree), NEW leaf \in 1..Len(tree)
  PROVE  LET filled == WithMetadata(tree, r, top, leaf)
         IN /\ filled \in Seq(ItemRows) /\ NoTwins(filled) /\ Len(filled) = Len(tree)
            /\ \A i \in DOMAIN tree : Alike(tree[i], filled[i])
<1> DEFINE filled == WithMetadata(tree, r, top, leaf)
<1>1. ASSUME NEW i \in DOMAIN tree
      PROVE  /\ filled[i] \in ItemRows
             /\ filled[i].kind = tree[i].kind /\ filled[i].lib = tree[i].lib
             /\ filled[i].parent = tree[i].parent /\ filled[i].title = tree[i].title
             /\ filled[i].no = tree[i].no
  <2> DEFINE x == tree[i]
             series == IF i = leaf /\ InEpisodes(r) /\ x.series = 0 THEN top ELSE x.series
             air == IF i = leaf THEN Filled(x.air_date, r.air_date) ELSE x.air_date
             about == IF i = top THEN Filled(x.overview, r.overview) ELSE x.overview
             values == IF i = top THEN x.values \cup r.values ELSE x.values
             poster == IF i = top THEN Filled(x.poster, r.image) ELSE x.poster
  <2>1. x \in ItemRows
    OBVIOUS
  <2>2. /\ x.series \in Nat /\ x.air_date \in Texts /\ x.overview \in Texts
        /\ x.poster \in Texts /\ x.values \in SUBSET Texts
    BY <2>1 DEF ItemRows
  <2>3. series \in Nat /\ air \in Texts /\ about \in Texts /\ poster \in Texts
    BY <2>2, ResultTypes DEF Filled
  <2>4. values \in SUBSET Texts
    BY <2>2, ResultTypes
  <2>5. filled[i] = [x EXCEPT !.series = series, !.air_date = air, !.overview = about,
                              !.values = values, !.poster = poster]
    BY DEF WithMetadata
  <2> DEFINE y == filled[i]
  <2> HIDE DEF x, series, air, about, values, poster, filled, y
  <2>6. /\ filled[i] \in ItemRows
        /\ filled[i].kind = x.kind /\ filled[i].lib = x.lib /\ filled[i].parent = x.parent
        /\ filled[i].title = x.title /\ filled[i].no = x.no
    <3>1. series \in Nat /\ air \in Texts /\ about \in Texts /\ poster \in Texts /\ values \in SUBSET Texts
      BY <2>3, <2>4
    <3>2. y = [x EXCEPT !.series = series, !.air_date = air, !.overview = about,
                        !.values = values, !.poster = poster]
      BY <2>5 DEF y
    <3>3. /\ y \in ItemRows
          /\ y.kind = x.kind /\ y.lib = x.lib /\ y.parent = x.parent
          /\ y.title = x.title /\ y.no = x.no
      BY <2>1, <3>1, <3>2 DEF ItemRows
    <3> QED BY <3>3 DEF y
  <2> QED BY <2>6 DEF x
<1>2. DOMAIN filled = DOMAIN tree /\ filled = [i \in DOMAIN tree |-> filled[i]]
  BY DEF WithMetadata
<1> HIDE DEF filled
<1>3. filled \in Seq(ItemRows) /\ Len(filled) = Len(tree)
  <2>1. DOMAIN tree = 1..Len(tree) /\ Len(tree) \in Nat
    OBVIOUS
  <2>2. filled \in [1..Len(tree) -> ItemRows]
    BY <1>1, <1>2, <2>1
  <2> QED BY <1>2, <2>1, <2>2
<1>4. NoTwins(filled)
  BY <1>1, <1>2 DEF NoTwins, Twins
<1>5. \A i \in DOMAIN tree : Alike(tree[i], filled[i])
  BY <1>1 DEF Alike
<1> QED BY <1>3, <1>4, <1>5 DEF filled

\* A merge, made at once, keeps the rows well.
LEMMA EnterKeeps ==
  ASSUME RowsOK, NEW r \in Results, NEW f \in Files \cup {NoFile},
         NEW c \in Choices(r, Library(f)), Enter(r, f, c.top, c.how)
  PROVE  /\ RowsOK'
         /\ TopOf(r, Library(f), c.top).at \in 1..Len(items')
<1> DEFINE leaf == Leaf(r, Library(f), c.top)
           top == TopOf(r, Library(f), c.top).at
<1>1. /\ leaf.tree \in Seq(ItemRows) /\ NoTwins(leaf.tree)
      /\ Len(leaf.tree) \in Nat /\ Len(items) \in Nat /\ Len(items) <= Len(leaf.tree)
      /\ leaf.at \in 1..Len(leaf.tree) /\ top \in 1..Len(leaf.tree)
  BY LeafKeeps
<1>2. /\ items' = WithMetadata(leaf.tree, r, top, leaf.at)
      /\ ids' = IF c.how = "anchor" THEN ids ELSE Attached(r.ids, top)
      /\ links' = links \cup ({f} \cap Files) \X {leaf.at}
  BY DEF Enter
<1> HIDE DEF leaf, top
<1>3. items' \in Seq(ItemRows) /\ NoTwins(items') /\ Len(items') = Len(leaf.tree)
  BY <1>1, <1>2, MetadataKeeps
<1>4. ids' \in [Ids -> 0..Len(items')]
  BY <1>1, <1>2, <1>3 DEF RowsOK, Attached
<1>5. links' \subseteq Files \X (1..Len(items'))
  BY <1>1, <1>2, <1>3 DEF RowsOK
<1> QED BY <1>1, <1>3, <1>4, <1>5 DEF RowsOK, NoTwins, top

LEMMA PosterKeeps ==
  ASSUME RowsOK, NEW i \in DOMAIN items, Poster(i)
  PROVE  /\ RowsOK' /\ Len(items') = Len(items)
         /\ \A k \in DOMAIN items : Alike(items[k], items'[k])
<1>1. /\ items' = [items EXCEPT ![i].poster = Filled(@, BangumiPoster)]
      /\ ids' = ids /\ links' = links
  BY DEF Poster
<1>2. items[i] \in ItemRows /\ items[i].poster \in Texts /\ Filled(items[i].poster, BangumiPoster) \in Texts
  <2>1. items[i] \in ItemRows
    BY DEF RowsOK
  <2>2. items[i].poster \in Texts
    BY <2>1 DEF ItemRows
  <2>3. BangumiPoster \in Texts
    BY DEF Texts
  <2> QED BY <2>1, <2>2, <2>3 DEF Filled
<1> DEFINE y == [items[i] EXCEPT !.poster = Filled(items[i].poster, BangumiPoster)]
<1>3. /\ y \in ItemRows /\ y.kind = items[i].kind /\ y.lib = items[i].lib
      /\ y.parent = items[i].parent /\ y.title = items[i].title /\ y.no = items[i].no
  <2> DEFINE p == Filled(items[i].poster, BangumiPoster)
  <2> HIDE DEF p
  <2>1. y = [items[i] EXCEPT !.poster = p]
    BY DEF p
  <2>2. p \in Texts
    BY <1>2 DEF p
  <2> HIDE DEF y
  <2> QED BY <1>2, <2>1, <2>2 DEF ItemRows
<1>4. items' = [items EXCEPT ![i] = y]
  BY <1>1
<1> HIDE DEF y
<1>5. items' \in Seq(ItemRows) /\ Len(items') = Len(items) /\ DOMAIN items' = DOMAIN items
  BY <1>3, <1>4 DEF RowsOK
<1>6. \A k \in DOMAIN items : /\ items'[k].kind = items[k].kind /\ items'[k].lib = items[k].lib
                              /\ items'[k].parent = items[k].parent
                              /\ items'[k].title = items[k].title /\ items'[k].no = items[k].no
  BY <1>3, <1>4, <1>5
<1>7. NoTwins(items')
  BY <1>5, <1>6 DEF RowsOK, NoTwins, Twins
<1> QED BY <1>1, <1>5, <1>6, <1>7 DEF RowsOK, NoTwins, Alike

\* Merges made one after the other keep the rows well.
THEOREM AtomicRows == AtomicSpec => []RowsOK
<1>1. AtomicInit => RowsOK
  BY DEF AtomicInit, RowsOK, NoTwins
<1>2. RowsOK /\ [AtomicNext]_rows => RowsOK'
  <2>1. ASSUME RowsOK, UNCHANGED rows PROVE RowsOK'
    BY <2>1 DEF RowsOK, rows, NoTwins
  <2> QED BY <2>1, EnterKeeps, PosterKeeps DEF AtomicNext
<1> QED BY <1>1, <1>2, PTL DEF AtomicSpec

\* Overlapping merges of one work never create a second series, season or episode
\* for it: what find_or_create_item finds missing is still missing at the commit.
THEOREM NeverDoubled == Spec => []NothingIsDoubled
<1>1. RowsOK => NothingIsDoubled
  BY DEF RowsOK, NoTwins, NothingIsDoubled
<1> QED BY <1>1, Serial, AtomicRows, PTL DEF MergesAreSerial

-----------------------------------------------------------------------------
(* Types *)

JobTypes == job \in [Jobs -> Merging \cup {Idle}] /\ done \in Seq(Merges)

LEMMA WrittenType ==
  ASSUME NEW js \in [Jobs -> Merging \cup {Idle}]
  PROVE  Written(js) \in [Jobs -> Merging \cup {Idle}]
<1>1. ASSUME NEW k \in Jobs, js[k].at = "open" PROVE [js[k] EXCEPT !.fresh = FALSE] \in Merging
  <2>1. js[k] \in Merging
    BY <1>1 DEF Idle
  <2> QED BY <2>1 DEF Merging
<1> QED BY <1>1 DEF Written

LEMMA StepTypes ==
  ASSUME RowsOK, IInv, JobTypes, [Next]_vars
  PROVE  JobTypes'
<1>1. ASSUME NEW j \in Jobs, NEW r \in Results, NEW f \in Files \cup {NoFile}, Open(j, r, f)
      PROVE  JobTypes'
  <2>1. PICK c \in Choices(r, Library(f)) :
          job' = [job EXCEPT ![j] = [at |-> "open", top |-> c.top, how |-> c.how, fresh |-> TRUE,
                                     result |-> r, file |-> f]]
    BY <1>1 DEF Open
  <2>2. c.top \in Nat /\ c.how \in {"anchor", "title", "new"}
    BY ChoiceIsRow DEF RowsOK
  <2>3. [at |-> "open", top |-> c.top, how |-> c.how, fresh |-> TRUE, result |-> r, file |-> f] \in Merging
    BY <2>2 DEF Merging
  <2> QED BY <1>1, <2>1, <2>3 DEF JobTypes, Open
<1>2. ASSUME NEW j \in Jobs, Merge(j) PROVE JobTypes'
  <2> DEFINE r == job[j].result
             f == job[j].file
             top == TopOf(r, Library(f), job[j].top).at
             next == IF AwaitsPoster(r) THEN [job[j] EXCEPT !.at = "poster", !.top = top] ELSE Idle
             entry == [result |-> r, file |-> f, top |-> top, how |-> job[j].how]
  <2>1. job[j] \in Merging
    BY <1>2 DEF Merge, JobTypes, Idle
  <2>2. r \in Results /\ f \in Files \cup {NoFile} /\ job[j].how \in {"anchor", "title", "new"}
    BY <2>1 DEF Merging
  <2>3. PICK c \in Choices(r, Library(f)) : job[j].top = c.top /\ job[j].how = c.how
    BY <1>2 DEF Merge, IsFresh, IInv, SnapshotsCurrent, FoundNow
  <2>4. Enter(r, f, c.top, c.how)
    BY <1>2, <2>3 DEF Merge
  <2>5. TopOf(r, Library(f), c.top).at \in 1..Len(items') /\ Len(items') \in Nat
    BY <2>2, <2>4, EnterKeeps DEF RowsOK
  <2>6. top \in Nat
    BY <2>3, <2>5
  <2>7. job' = Written([job EXCEPT ![j] = next]) /\ done' = Append(done, entry)
    BY <1>2 DEF Merge
  <2> HIDE DEF top
  <2>8. entry \in Merges
    BY <2>2, <2>6 DEF Merges
  <2>9. next \in Merging \cup {Idle}
    <3>1. [job[j] EXCEPT !.at = "poster", !.top = top] \in Merging
      BY <2>1, <2>6 DEF Merging
    <3> QED BY <3>1
  <2> HIDE DEF next, entry
  <2>10. [job EXCEPT ![j] = next] \in [Jobs -> Merging \cup {Idle}]
    BY <2>9 DEF JobTypes
  <2>11. job' \in [Jobs -> Merging \cup {Idle}]
    BY <2>7, <2>10, WrittenType
  <2>12. done' \in Seq(Merges)
    BY <2>7, <2>8 DEF JobTypes
  <2> QED BY <2>11, <2>12 DEF JobTypes
<1>3. ASSUME NEW j \in Jobs, Fail(j) \/ SkipPoster(j) PROVE JobTypes'
  BY <1>3 DEF Fail, SkipPoster, JobTypes
<1>4. ASSUME NEW j \in Jobs, FillPoster(j) PROVE JobTypes'
  <2> DEFINE js == IF items' = items THEN job ELSE Written(job)
  <2>1. js \in [Jobs -> Merging \cup {Idle}]
    BY WrittenType DEF JobTypes
  <2>2. job' = [js EXCEPT ![j] = Idle] /\ done' = done
    BY <1>4 DEF FillPoster
  <2> HIDE DEF js
  <2> QED BY <2>1, <2>2 DEF JobTypes
<1>5. CASE UNCHANGED vars
  BY <1>5 DEF vars, JobTypes
<1> QED BY <1>1, <1>2, <1>3, <1>4, <1>5 DEF Next

\* Every variable keeps its type: ids and links name rows that exist, and the texts
\* of the tree are those that results brought.
THEOREM TypeCorrect == Spec => []TypeOK
<1>1. Init => JobTypes
  BY DEF Init, JobTypes
<1>2. RowsOK /\ IInv /\ JobTypes /\ [Next]_vars => JobTypes'
  BY StepTypes
<1>3. RowsOK /\ JobTypes => TypeOK
  BY DEF RowsOK, JobTypes, TypeOK
<1> QED BY <1>1, <1>2, <1>3, Serial, AtomicRows, Inductive, PTL DEF Spec, MergesAreSerial

-----------------------------------------------------------------------------
(* Known ids decide *)

\* A result one of whose anchors is known is anchored, at a row.
LEMMA KnownIsAnchored ==
  ASSUME RowsOK, NEW r \in Results, NEW x \in r.ids, Leads(r, x), ids[x] # 0
  PROVE  Anchored(r) # {}
<1>1. r.ids \subseteq Ids /\ r.ids \subseteq Providers \X Nat
  BY ResultTypes, ResultsAssumption
<1>2. DOMAIN Anchors = 1..3 /\ Anchors[1] = "tmdb" /\ Anchors[2] = "bangumi" /\ Anchors[3] = "dandanplay"
  BY DEF Anchors
<1>3. PICK k \in 1..3 : x \in IdOf(r, k)
  BY <1>1, <1>2 DEF IdOf, Leads, IsNumber, Providers
<1>4. \E n \in 1..3 : IsHit(r, n) /\ \A m \in 1..(n - 1) : ~IsHit(r, m)
  <2>1. IsHit(r, k)
    BY <1>3 DEF IsHit
  <2>2. CASE IsHit(r, 1)
    <3>1. \A m \in 1..(1 - 1) : ~IsHit(r, m)
      OBVIOUS
    <3> QED BY <2>2, <3>1
  <2>3. CASE ~IsHit(r, 1) /\ IsHit(r, 2)
    <3>1. \A m \in 1..(2 - 1) : ~IsHit(r, m)
      BY <2>3
    <3> QED BY <2>3, <3>1
  <2>4. CASE ~IsHit(r, 1) /\ ~IsHit(r, 2)
    <3>1. k = 3 /\ \A m \in 1..(3 - 1) : ~IsHit(r, m)
      BY <2>1, <2>4
    <3> QED BY <2>1, <3>1
  <2> QED BY <2>2, <2>3, <2>4
<1>5. PICK n \in 1..3 : IsHit(r, n) /\ \A m \in 1..(n - 1) : ~IsHit(r, m)
  BY <1>4
<1>6. PICK y \in IdOf(r, n) : ids[y] # 0
  BY <1>5 DEF IsHit
<1>7. ids[y] \in DOMAIN items
  BY <1>1, <1>6 DEF IdOf, RowsOK
<1> QED BY <1>2, <1>5, <1>6, <1>7 DEF Anchored

\* What a result finds by an anchor is what one of its known ids names.
LEMMA AnchoredIsKnown ==
  ASSUME RowsOK, NEW r \in Results, NEW i \in Anchored(r)
  PROVE  i # 0 /\ \E y \in r.ids : Leads(r, y) /\ ids[y] = i
<1>1. DOMAIN items = 1..Len(items)
  BY DEF RowsOK
<1>2. PICK n \in DOMAIN Anchors : \E y \in IdOf(r, n) : ids[y] = i
  BY DEF Anchored
<1>3. Anchors[n] # "imdb"
  BY DEF Anchors
<1> QED BY <1>1, <1>2, <1>3 DEF Anchored, IdOf, Leads

LEMMA MergeGoesToKnown ==
  ASSUME RowsOK, IInv, JobTypes, [Next]_vars
  PROVE  MergedIsKnown
<1>1. SUFFICES ASSUME Len(done') > Len(done) PROVE MergedIsKnown
  BY DEF MergedIsKnown
<1>2. Len(done) \in Nat
  BY DEF JobTypes
<1>3. done' # done
  BY <1>1, <1>2
<1>4. PICK j \in Jobs : Merge(j)
  BY <1>3 DEF Next, vars, Open, Fail, FillPoster, SkipPoster
<1> DEFINE r == job[j].result
           f == job[j].file
           top == TopOf(r, Library(f), job[j].top).at
           entry == [result |-> r, file |-> f, top |-> top, how |-> job[j].how]
<1>5. r \in Results /\ f \in Files \cup {NoFile}
  BY <1>4 DEF Merge, IInv, JobsKept
<1>6. done'[Len(done')] = entry
  <2>1. done' = Append(done, entry)
    BY <1>4 DEF Merge
  <2> HIDE DEF entry
  <2> QED BY <2>1 DEF JobTypes
<1>7. PICK c \in Choices(r, Library(f)) : job[j].top = c.top
  BY <1>4 DEF Merge, IsFresh, IInv, SnapshotsCurrent, FoundNow
<1>8. ASSUME NEW x \in r.ids, Leads(r, x), ids[x] # 0
      PROVE  \E y \in r.ids : Leads(r, y) /\ ids[y] # 0 /\ ids[y] = top
  <2>1. Anchored(r) # {}
    BY <1>5, <1>8, KnownIsAnchored
  <2>2. c.top \in Anchored(r)
    BY <1>7, <2>1 DEF Choices
  <2>3. c.top # 0 /\ \E y \in r.ids : Leads(r, y) /\ ids[y] = c.top
    BY <1>5, <2>2, AnchoredIsKnown
  <2>4. top = c.top
    BY <1>7, <2>3 DEF TopOf, FindOrAdd, Found
  <2> HIDE DEF top
  <2> QED BY <2>3, <2>4
<1> HIDE DEF r, f, top
<1> QED BY <1>6, <1>8 DEF MergedIsKnown

\* However merges overlap, a result with an anchor that is known at the commit goes to
\* an item that one of its ids names (find_by_anchor before the title): what it found
\* when it began is still what it would find.
THEOREM IdsDecide == Spec => KnownIdsDecide
<1>1. Init => JobTypes
  BY DEF Init, JobTypes
<1>2. RowsOK /\ IInv /\ JobTypes /\ [Next]_vars => JobTypes'
  BY StepTypes
<1>3. RowsOK /\ IInv /\ JobTypes /\ [Next]_vars => [MergedIsKnown]_vars
  BY MergeGoesToKnown
<1> QED BY <1>1, <1>2, <1>3, Serial, AtomicRows, Inductive, PTL
        DEF Spec, MergesAreSerial, KnownIdsDecide

-----------------------------------------------------------------------------
(* A result that is merged again *)

\* Rows are added, and what tells them apart stays.
Grown(old, new) == Len(old) <= Len(new) /\ \A i \in DOMAIN old : i \in DOMAIN new /\ Alike(old[i], new[i])

Named(tree, r, lib, i) == /\ i \in DOMAIN tree
                          /\ tree[i].lib = lib /\ tree[i].kind = TopKind(r) /\ tree[i].title = r.title

IsChild(tree, i, parent, kind, no) == i \in DOMAIN tree /\ i \in Children(tree, parent, kind, no)

\* Series and films are below nothing.
Rooted(tree) == \A i \in DOMAIN tree : tree[i].kind \in {"series", "movie"} => tree[i].parent = 0

\* The episode of a result below its series.
EpisodeIs(tree, r, top, s, e) == IsChild(tree, s, top, "season", r.season) /\ IsChild(tree, e, s, "episode", r.episode)

\* What merge d has left behind: a row its ids or its title lead to, and below it
\* the leaf of its file.
Entered(d) ==
  /\ d.result \in Results /\ d.file \in Files \cup {NoFile} /\ d.top \in DOMAIN items
  /\ d.how = "anchor" => \E x \in d.result.ids : Leads(d.result, x) /\ ids[x] = d.top
  /\ d.how # "anchor" => Named(items, d.result, Library(d.file), d.top)
  /\ InEpisodes(d.result) => \E s, e \in DOMAIN items : /\ EpisodeIs(items, d.result, d.top, s, e)
                                                        /\ d.file \in Files => <<d.file, e>> \in links
  /\ ~InEpisodes(d.result) /\ d.file \in Files => <<d.file, d.top>> \in links

EnteredInv == Rooted(items) /\ \A n \in DOMAIN done : Entered(done[n])

LEMMA FindOrAddGives ==
  ASSUME NEW tree \in Seq(ItemRows), NEW item \in ItemRows, NEW found \in SUBSET DOMAIN tree,
         Rooted(tree), item.kind \in {"series", "movie"} => item.parent = 0
  PROVE  LET t == FindOrAdd(tree, found, item)
         IN /\ Rooted(t.tree) /\ t.at \in DOMAIN t.tree
            /\ \A i \in DOMAIN tree : i \in DOMAIN t.tree /\ t.tree[i] = tree[i]
            /\ t.at \in found \/ t.tree[t.at] = item
            /\ t.tree \in Seq(ItemRows)
<1>1. CASE found # {}
  BY <1>1 DEF FindOrAdd, Found
<1>2. CASE found = {}
  <2> DEFINE more == Append(tree, item)
  <2>1. FindOrAdd(tree, found, item) = [tree |-> more, at |-> Len(tree) + 1]
    BY <1>2 DEF FindOrAdd, Found
  <2>2. /\ more \in Seq(ItemRows) /\ Len(tree) + 1 \in DOMAIN more /\ more[Len(tree) + 1] = item
        /\ \A i \in DOMAIN tree : i \in DOMAIN more /\ more[i] = tree[i]
        /\ \A i \in DOMAIN more : i \in DOMAIN tree \/ i = Len(tree) + 1
    OBVIOUS
  <2> HIDE DEF more
  <2>3. Rooted(more)
    BY <2>2 DEF Rooted
  <2> QED BY <2>1, <2>2, <2>3
<1> QED BY <1>1, <1>2

LEMMA TopGives ==
  ASSUME RowsOK, Rooted(items), NEW r \in Results, NEW f \in Files \cup {NoFile}, NEW c \in Choices(r, Library(f))
  PROVE  LET t == TopOf(r, Library(f), c.top)
         IN /\ t.tree \in Seq(ItemRows) /\ t.at \in DOMAIN t.tree /\ Rooted(t.tree)
            /\ \A i \in DOMAIN items : i \in DOMAIN t.tree /\ t.tree[i] = items[i]
            /\ c.how = "anchor" => t.at \in Anchored(r)
            /\ c.how # "anchor" => Named(t.tree, r, Library(f), t.at)
<1> DEFINE item == NewItem(TopKind(r), Library(f), 0, r.title, 0)
           t == TopOf(r, Library(f), c.top)
<1>1. item \in ItemRows
  BY ResultTypes, LibraryType, NewItemType DEF TopKind
<1>2. item.kind = TopKind(r) /\ item.lib = Library(f) /\ item.title = r.title /\ item.parent = 0
  BY DEF NewItem
<1>3. {c.top} \ {0} \in SUBSET DOMAIN items /\ items \in Seq(ItemRows)
  BY ChoiceIsRow DEF RowsOK
<1> HIDE DEF item
<1>4. t = FindOrAdd(items, {c.top} \ {0}, item)
  BY DEF TopOf, item
<1> HIDE DEF t
<1>5. /\ t.tree \in Seq(ItemRows) /\ t.at \in DOMAIN t.tree /\ Rooted(t.tree)
      /\ \A i \in DOMAIN items : i \in DOMAIN t.tree /\ t.tree[i] = items[i]
      /\ t.at \in {c.top} \ {0} \/ t.tree[t.at] = item
  BY <1>1, <1>2, <1>3, <1>4, FindOrAddGives
<1>6. CASE c.how = "anchor"
  <2>1. c.top \in Anchored(r)
    BY <1>6 DEF Choices
  <2>2. c.top # 0
    BY <2>1, AnchoredIsKnown
  <2>3. t.at = c.top
    BY <1>4, <2>2 DEF FindOrAdd, Found
  <2> QED BY <1>5, <1>6, <2>1, <2>3 DEF t
<1>7. CASE c.how # "anchor"
  <2>1. c.top = 0 \/ c.top \in Titled(r, Library(f))
    BY <1>7 DEF Choices
  <2>2. Named(t.tree, r, Library(f), t.at)
    BY <1>2, <1>5, <2>1 DEF Named, Titled
  <2> QED BY <1>5, <1>7, <2>2 DEF t
<1> QED BY <1>6, <1>7

LEMMA ChildGives ==
  ASSUME NEW tree \in Seq(ItemRows), Rooted(tree), NEW at \in DOMAIN tree,
         NEW kind \in {"season", "episode"}, NEW lib \in Texts, NEW title \in Texts, NEW no \in Nat,
         NEW found, found = Children(tree, at, kind, no) \/ found = {}
  PROVE  LET t == FindOrAdd(tree, found, NewItem(kind, lib, at, title, no))
         IN /\ t.tree \in Seq(ItemRows) /\ t.at \in DOMAIN t.tree /\ Rooted(t.tree)
            /\ \A i \in DOMAIN tree : i \in DOMAIN t.tree /\ t.tree[i] = tree[i]
            /\ IsChild(t.tree, t.at, at, kind, no)
<1> DEFINE item == NewItem(kind, lib, at, title, no)
           t == FindOrAdd(tree, found, item)
<1>1. item \in ItemRows
  BY NewItemType
<1>2. item.kind = kind /\ item.parent = at /\ item.no = no
  BY DEF NewItem
<1>3. found \in SUBSET DOMAIN tree
  BY DEF Children
<1> HIDE DEF item
<1>4. /\ t.tree \in Seq(ItemRows) /\ t.at \in DOMAIN t.tree /\ Rooted(t.tree)
      /\ \A i \in DOMAIN tree : i \in DOMAIN t.tree /\ t.tree[i] = tree[i]
      /\ t.at \in found \/ t.tree[t.at] = item
  BY <1>1, <1>2, <1>3, FindOrAddGives
<1> HIDE DEF t
<1>5. IsChild(t.tree, t.at, at, kind, no)
  BY <1>2, <1>3, <1>4 DEF IsChild, Children
<1> QED BY <1>4, <1>5 DEF t, item

\* The tree after a merge, before metadata is filled in.
LEMMA LeafGives ==
  ASSUME RowsOK, Rooted(items), NEW r \in Results, NEW f \in Files \cup {NoFile}, NEW c \in Choices(r, Library(f))
  PROVE  LET t == TopOf(r, Library(f), c.top)
             leaf == Leaf(r, Library(f), c.top)
         IN /\ Rooted(leaf.tree)
            /\ \A i \in DOMAIN items : i \in DOMAIN leaf.tree /\ leaf.tree[i] = items[i]
            /\ c.how = "anchor" => t.at \in Anchored(r)
            /\ c.how # "anchor" => Named(leaf.tree, r, Library(f), t.at)
            /\ InEpisodes(r) => \E s \in DOMAIN leaf.tree : EpisodeIs(leaf.tree, r, t.at, s, leaf.at)
            /\ ~InEpisodes(r) => leaf.at = t.at
<1> DEFINE lib == Library(f)
           t == TopOf(r, lib, c.top)
           s == SeasonOf(r, lib, t)
           e == EpisodeOf(r, lib, s)
           leaf == Leaf(r, lib, c.top)
<1>1. /\ t.tree \in Seq(ItemRows) /\ t.at \in DOMAIN t.tree /\ Rooted(t.tree)
      /\ \A i \in DOMAIN items : i \in DOMAIN t.tree /\ t.tree[i] = items[i]
      /\ c.how = "anchor" => t.at \in Anchored(r)
      /\ c.how # "anchor" => Named(t.tree, r, lib, t.at)
  BY TopGives
<1>2. lib \in Texts /\ r.title \in Texts /\ r.season \in Nat /\ r.episode \in Nat /\ "" \in Texts
  BY LibraryType, ResultTypes DEF Texts
<1>3. leaf = IF InEpisodes(r) THEN e ELSE t
  BY DEF Leaf
<1> HIDE DEF t, lib, leaf
<1>4. CASE ~InEpisodes(r)
  BY <1>1, <1>3, <1>4 DEF t, lib, leaf
<1>5. CASE InEpisodes(r)
  <2>1. /\ s.tree \in Seq(ItemRows) /\ s.at \in DOMAIN s.tree /\ Rooted(s.tree)
        /\ \A i \in DOMAIN t.tree : i \in DOMAIN s.tree /\ s.tree[i] = t.tree[i]
        /\ IsChild(s.tree, s.at, t.at, "season", r.season)
    <3>1. s = FindOrAdd(t.tree, Children(t.tree, t.at, "season", r.season), NewItem("season", lib, t.at, "", r.season))
      BY DEF SeasonOf
    <3>2. PICK tree, at, no : tree = t.tree /\ at = t.at /\ no = r.season
      OBVIOUS
    <3>3. /\ tree \in Seq(ItemRows) /\ at \in DOMAIN tree /\ Rooted(tree) /\ no \in Nat
          /\ "season" \in {"season", "episode"}
      BY <1>1, <1>2, <3>2
    <3> HIDE DEF s
    <3>4. LET x == FindOrAdd(tree, Children(tree, at, "season", no), NewItem("season", lib, at, "", no))
          IN /\ x.tree \in Seq(ItemRows) /\ x.at \in DOMAIN x.tree /\ Rooted(x.tree)
             /\ \A i \in DOMAIN tree : i \in DOMAIN x.tree /\ x.tree[i] = tree[i]
             /\ IsChild(x.tree, x.at, at, "season", no)
      BY <1>2, <3>3, ChildGives
    <3> QED BY <3>1, <3>2, <3>4
  <2> HIDE DEF s
  <2>2. /\ e.tree \in Seq(ItemRows) /\ e.at \in DOMAIN e.tree /\ Rooted(e.tree)
        /\ \A i \in DOMAIN s.tree : i \in DOMAIN e.tree /\ e.tree[i] = s.tree[i]
        /\ IsChild(e.tree, e.at, s.at, "episode", r.episode)
    <3> DEFINE found == IF r.episode = 0 THEN {} ELSE Children(s.tree, s.at, "episode", r.episode)
    <3>1. found = Children(s.tree, s.at, "episode", r.episode) \/ found = {}
      OBVIOUS
    <3>2. e = FindOrAdd(s.tree, found, NewItem("episode", lib, s.at, r.title, r.episode))
      BY DEF EpisodeOf
    <3>3. s.tree \in Seq(ItemRows) /\ Rooted(s.tree) /\ s.at \in DOMAIN s.tree /\ "episode" \in {"season", "episode"}
      BY <2>1
    <3> HIDE DEF found, e
    <3>4. LET x == FindOrAdd(s.tree, found, NewItem("episode", lib, s.at, r.title, r.episode))
          IN /\ x.tree \in Seq(ItemRows) /\ x.at \in DOMAIN x.tree /\ Rooted(x.tree)
             /\ \A i \in DOMAIN s.tree : i \in DOMAIN x.tree /\ x.tree[i] = s.tree[i]
             /\ IsChild(x.tree, x.at, s.at, "episode", r.episode)
      BY <1>2, <3>1, <3>3, ChildGives
    <3> QED BY <3>2, <3>4
  <2> HIDE DEF e
  <2>3. s.at \in DOMAIN e.tree /\ EpisodeIs(e.tree, r, t.at, s.at, e.at)
    BY <2>1, <2>2 DEF EpisodeIs, IsChild, Children
  <2>4. c.how # "anchor" => Named(e.tree, r, lib, t.at)
    BY <1>1, <2>1, <2>2 DEF Named
  <2>5. \A i \in DOMAIN items : i \in DOMAIN e.tree /\ e.tree[i] = items[i]
    BY <1>1, <2>1, <2>2
  <2>6. leaf = e
    BY <1>3, <1>5
  <2> QED BY <1>1, <1>5, <2>2, <2>3, <2>4, <2>5, <2>6 DEF t, lib, leaf
<1> QED BY <1>4, <1>5

\* A merge keeps what there is and leaves its own rows and link.
LEMMA EnterLeaves ==
  ASSUME RowsOK, Rooted(items), NEW r \in Results, NEW f \in Files \cup {NoFile},
         NEW c \in Choices(r, Library(f)), Enter(r, f, c.top, c.how),
         NEW d, d = [result |-> r, file |-> f, top |-> TopOf(r, Library(f), c.top).at, how |-> c.how]
  PROVE  /\ Rooted(items') /\ Grown(items, items')
         /\ \A x \in Ids : ids[x] # 0 => ids'[x] = ids[x]
         /\ links \subseteq links'
         /\ Entered(d)'
<1> DEFINE leaf == Leaf(r, Library(f), c.top)
           top == TopOf(r, Library(f), c.top).at
<1>1. /\ leaf.tree \in Seq(ItemRows) /\ NoTwins(leaf.tree)
      /\ Len(leaf.tree) \in Nat /\ Len(items) \in Nat /\ Len(items) <= Len(leaf.tree)
      /\ leaf.at \in 1..Len(leaf.tree) /\ top \in 1..Len(leaf.tree)
  BY LeafKeeps
<1>2. /\ items' = WithMetadata(leaf.tree, r, top, leaf.at)
      /\ ids' = IF c.how = "anchor" THEN ids ELSE Attached(r.ids, top)
      /\ links' = links \cup ({f} \cap Files) \X {leaf.at}
  BY DEF Enter
<1>3. /\ Rooted(leaf.tree)
      /\ \A i \in DOMAIN items : i \in DOMAIN leaf.tree /\ leaf.tree[i] = items[i]
      /\ c.how = "anchor" => top \in Anchored(r)
      /\ c.how # "anchor" => Named(leaf.tree, r, Library(f), top)
      /\ InEpisodes(r) => \E s \in DOMAIN leaf.tree : EpisodeIs(leaf.tree, r, top, s, leaf.at)
      /\ ~InEpisodes(r) => leaf.at = top
  BY LeafGives
<1>4. d = [result |-> r, file |-> f, top |-> top, how |-> c.how]
  OBVIOUS
<1> HIDE DEF leaf, top
<1>5. /\ items' \in Seq(ItemRows) /\ Len(items') = Len(leaf.tree)
      /\ \A i \in DOMAIN leaf.tree : Alike(leaf.tree[i], items'[i])
  BY <1>1, <1>2, MetadataKeeps
<1>6. DOMAIN items' = DOMAIN leaf.tree
  BY <1>1, <1>5
<1>7. Grown(items, items')
  BY <1>1, <1>3, <1>5, <1>6 DEF Grown
<1>8. ASSUME NEW x \in Ids, ids[x] # 0 PROVE ids'[x] = ids[x]
  BY <1>2, <1>8 DEF Attached
<1>9. links \subseteq links' /\ (f \in Files => <<f, leaf.at>> \in links')
  BY <1>2
<1>10. c.how = "anchor" => \E x \in r.ids : Leads(r, x) /\ ids'[x] = top
  BY <1>2, <1>3, AnchoredIsKnown
<1>11. c.how # "anchor" => Named(items', r, Library(f), top)
  BY <1>3, <1>5, <1>6 DEF Named, Alike
<1>12. InEpisodes(r) => \E s, e \in DOMAIN items' : /\ EpisodeIs(items', r, top, s, e)
                                                    /\ f \in Files => <<f, e>> \in links'
  <2> SUFFICES ASSUME InEpisodes(r)
               PROVE  \E s, e \in DOMAIN items' : /\ EpisodeIs(items', r, top, s, e)
                                                  /\ f \in Files => <<f, e>> \in links'
    OBVIOUS
  <2>1. PICK s \in DOMAIN leaf.tree : EpisodeIs(leaf.tree, r, top, s, leaf.at)
    BY <1>3
  <2>2. EpisodeIs(items', r, top, s, leaf.at)
    BY <1>5, <1>6, <2>1 DEF EpisodeIs, IsChild, Children, Alike
  <2>3. s \in DOMAIN items' /\ leaf.at \in DOMAIN items'
    BY <1>6, <2>1 DEF EpisodeIs, IsChild
  <2> QED BY <1>9, <2>2, <2>3
<1>13. ~InEpisodes(r) /\ f \in Files => <<f, top>> \in links'
  BY <1>3, <1>9
<1>14. top \in DOMAIN items'
  BY <1>1, <1>6
<1>15. d.result = r /\ d.file = f /\ d.top = top /\ d.how = c.how
  BY <1>4
<1>16. Entered(d)'
  BY <1>10, <1>11, <1>12, <1>13, <1>14, <1>15 DEF Entered
<1>17. Rooted(items')
  BY <1>3, <1>5, <1>6 DEF Rooted, Alike
<1> QED BY <1>7, <1>8, <1>9, <1>16, <1>17

\* What a merge left behind stays.
LEMMA EnteredStays ==
  ASSUME RowsOK, NEW d, Entered(d), Grown(items, items'), links \subseteq links',
         \A x \in Ids : ids[x] # 0 => ids'[x] = ids[x]
  PROVE  Entered(d)'
<1>1. d.result \in Results /\ d.result.ids \subseteq Ids /\ d.top \in DOMAIN items
  BY ResultTypes DEF Entered
<1>2. 0 \notin DOMAIN items
  BY DEF RowsOK
<1>3. d.how = "anchor" => \E x \in d.result.ids : Leads(d.result, x) /\ ids'[x] = d.top
  BY <1>1, <1>2 DEF Entered
<1>4. \A i \in DOMAIN items : i \in DOMAIN items' /\ Alike(items[i], items'[i])
  BY DEF Grown
<1>5. d.how # "anchor" => Named(items', d.result, Library(d.file), d.top)
  BY <1>4 DEF Entered, Named, Alike
<1>6. ASSUME NEW s, NEW e, EpisodeIs(items, d.result, d.top, s, e)
      PROVE  EpisodeIs(items', d.result, d.top, s, e)
  BY <1>4, <1>6 DEF EpisodeIs, IsChild, Children, Alike
<1>7. InEpisodes(d.result) => \E s, e \in DOMAIN items' : /\ EpisodeIs(items', d.result, d.top, s, e)
                                                          /\ d.file \in Files => <<d.file, e>> \in links'
  BY <1>4, <1>6 DEF Entered
<1>8. ~InEpisodes(d.result) /\ d.file \in Files => <<d.file, d.top>> \in links'
  BY DEF Entered
<1> QED BY <1>1, <1>3, <1>4, <1>5, <1>7, <1>8 DEF Entered

\* What job j merges, if it may.
LEMMA MergeEnters ==
  ASSUME RowsOK, IInv, JobTypes, NEW j \in Jobs, Merge(j)
  PROVE  \E r \in Results, f \in Files \cup {NoFile} : \E c \in Choices(r, Library(f)) :
           /\ Enter(r, f, c.top, c.how)
           /\ done' = Append(done, [result |-> r, file |-> f, top |-> TopOf(r, Library(f), c.top).at,
                                    how |-> c.how])
<1> DEFINE r == job[j].result
           f == job[j].file
<1>1. r \in Results /\ f \in Files \cup {NoFile}
  BY DEF Merge, IInv, JobsKept
<1>2. PICK c \in Choices(r, Library(f)) : job[j].top = c.top /\ job[j].how = c.how
  BY DEF Merge, IsFresh, IInv, SnapshotsCurrent, FoundNow
<1>3. Enter(r, f, c.top, c.how)
  BY <1>2 DEF Merge
<1>4. done' = Append(done, [result |-> r, file |-> f, top |-> TopOf(r, Library(f), c.top).at,
                            how |-> c.how])
  BY <1>2 DEF Merge
<1> QED BY <1>1, <1>3, <1>4

LEMMA EnteredStep ==
  ASSUME RowsOK, IInv, JobTypes, EnteredInv, [Next]_vars
  PROVE  EnteredInv'
<1>1. done \in Seq(Merges)
  BY DEF JobTypes
<1>2. ASSUME NEW j \in Jobs, Merge(j) PROVE EnteredInv'
  <2>1. PICK r \in Results, f \in Files \cup {NoFile} : \E c \in Choices(r, Library(f)) :
           /\ Enter(r, f, c.top, c.how)
           /\ done' = Append(done, [result |-> r, file |-> f, top |-> TopOf(r, Library(f), c.top).at,
                                    how |-> c.how])
    BY <1>2, MergeEnters
  <2>2. PICK c \in Choices(r, Library(f)) :
           /\ Enter(r, f, c.top, c.how)
           /\ done' = Append(done, [result |-> r, file |-> f, top |-> TopOf(r, Library(f), c.top).at,
                                    how |-> c.how])
    BY <2>1
  <2>3. PICK d : d = [result |-> r, file |-> f, top |-> TopOf(r, Library(f), c.top).at, how |-> c.how]
    OBVIOUS
  <2>4. /\ Rooted(items') /\ Grown(items, items') /\ links \subseteq links' /\ Entered(d)'
        /\ \A x \in Ids : ids[x] # 0 => ids'[x] = ids[x]
    BY <2>2, <2>3, EnterLeaves DEF EnteredInv
  <2>5. ASSUME NEW n \in DOMAIN done, NEW e, e = done[n] PROVE Entered(e)'
    <3>1. Entered(e)
      BY <2>5 DEF EnteredInv
    <3> QED BY <2>4, <3>1, EnteredStays
  <2>6. done' = Append(done, d)
    BY <2>2, <2>3
  <2>7. \A n \in DOMAIN done' : (n \in DOMAIN done /\ done'[n] = done[n]) \/ done'[n] = d
    BY <1>1, <2>6
  <2> QED BY <2>4, <2>5, <2>7 DEF EnteredInv, Entered
<1>3. ASSUME NEW j \in Jobs, FillPoster(j) PROVE EnteredInv'
  <2>1. done' = done /\ Poster(job[j].top)
    BY <1>3 DEF FillPoster
  <2>2. ids' = ids /\ links' = links /\ Grown(items, items') /\ DOMAIN items' = DOMAIN items
    <3>1. CASE job[j].top \in DOMAIN items
      <4>1. Len(items') = Len(items) /\ DOMAIN items' = DOMAIN items /\ Len(items) \in Nat
        BY <2>1 DEF Poster, RowsOK
      <4>2. \A k \in DOMAIN items : Alike(items[k], items'[k])
        BY <2>1, <3>1, PosterKeeps
      <4> QED BY <2>1, <4>1, <4>2 DEF Poster, Grown
    <3>2. CASE job[j].top \notin DOMAIN items
      <4>1. items' = items
        BY <2>1, <3>2 DEF Poster, RowsOK
      <4>2. Len(items) \in Nat
        BY DEF RowsOK
      <4> QED BY <2>1, <4>1, <4>2 DEF Poster, Grown, Alike
    <3> QED BY <3>1, <3>2
  <2>3. ASSUME NEW n \in DOMAIN done, NEW e, e = done[n] PROVE Entered(e)'
    <3>1. Entered(e)
      BY <2>3 DEF EnteredInv
    <3> QED BY <2>2, <3>1, EnteredStays
  <2>4. Rooted(items')
    BY <2>2 DEF EnteredInv, Rooted, Grown, Alike
  <2> QED BY <2>1, <2>3, <2>4 DEF EnteredInv, Entered
<1>4. ASSUME UNCHANGED <<items, ids, links, done>> PROVE EnteredInv'
  BY <1>4 DEF EnteredInv, Entered, Rooted
<1> QED BY <1>2, <1>3, <1>4 DEF Next, vars, Open, Fail, SkipPoster

\* A result finds the item again that it went to.
LEMMA FindsAgain ==
  ASSUME RowsOK, Rooted(items), NEW d, Entered(d), Settled(d), NEW c \in Choices(d.result, Library(d.file))
  PROVE  c.top = d.top
<1> DEFINE r == d.result
           lib == Library(d.file)
<1>1. r \in Results /\ r.ids \subseteq Ids /\ d.top \in DOMAIN items
  BY ResultTypes DEF Entered
<1>2. CASE Anchored(r) # {}
  <2>1. c.top \in Anchored(r)
    BY <1>2 DEF Choices
  <2>2. PICK y \in r.ids : ids[y] = c.top /\ c.top # 0
    BY <1>1, <2>1, AnchoredIsKnown
  <2> QED BY <2>2 DEF Settled
<1>3. CASE Anchored(r) = {}
  <2>1. d.how # "anchor"
    <3> SUFFICES ASSUME d.how = "anchor" PROVE FALSE
      OBVIOUS
    <3>1. PICK x \in r.ids : Leads(r, x) /\ ids[x] = d.top
      BY DEF Entered
    <3>2. ids[x] # 0
      BY <1>1, <3>1 DEF RowsOK
    <3> QED BY <1>1, <1>3, <3>1, <3>2, KnownIsAnchored
  <2>2. Named(items, r, lib, d.top)
    BY <2>1 DEF Entered
  <2>3. d.top \in Titled(r, lib)
    BY <2>2 DEF Named, Titled
  <2>4. c.top \in Titled(r, lib)
    BY <1>3, <2>3 DEF Choices
  <2>5. Twins(items[c.top], items[d.top]) /\ c.top \in DOMAIN items
    <3>1. TopKind(r) \in {"series", "movie"}
      BY DEF TopKind
    <3>2. items[c.top].parent = 0 /\ items[d.top].parent = 0
      BY <2>2, <2>4, <3>1 DEF Titled, Named, Rooted
    <3> QED BY <2>2, <2>4, <3>1, <3>2 DEF Titled, Named, Twins
  <2> QED BY <1>1, <2>5 DEF RowsOK, NoTwins
<1> QED BY <1>2, <1>3

\* What is there is found, and the tree stays as it is.
LEMMA ChildIsFound ==
  ASSUME RowsOK, NEW parent, NEW kind \in {"season", "episode"}, NEW no, NEW i, NEW item,
         IsChild(items, i, parent, kind, no), kind = "episode" => no # 0
  PROVE  FindOrAdd(items, Children(items, parent, kind, no), item) = Found(items, i)
<1>1. i \in Children(items, parent, kind, no)
  BY DEF IsChild
<1>2. ASSUME NEW k \in Children(items, parent, kind, no) PROVE k = i
  <2>1. Twins(items[k], items[i]) /\ k \in DOMAIN items /\ i \in DOMAIN items
    BY <1>1 DEF Children, Twins
  <2> QED BY <2>1 DEF RowsOK, NoTwins
<1>3. (CHOOSE k \in Children(items, parent, kind, no) : TRUE) = i
  BY <1>1, <1>2
<1> QED BY <1>1, <1>3 DEF FindOrAdd

LEMMA AgainAddsNothing ==
  ASSUME RowsOK, Rooted(items), NEW d, Entered(d), Settled(d), InEpisodes(d.result) => d.result.episode # 0,
         NEW c \in Choices(d.result, Library(d.file)), Enter(d.result, d.file, c.top, c.how)
  PROVE  Len(items') = Len(items) /\ links' = links
<1> DEFINE r == d.result
           lib == Library(d.file)
           t == TopOf(r, lib, c.top)
           leaf == Leaf(r, lib, c.top)
<1>1. c.top = d.top /\ d.top \in DOMAIN items /\ d.top # 0 /\ r \in Results
  <2>1. c.top = d.top
    BY FindsAgain
  <2> QED BY <2>1 DEF Entered, RowsOK
<1>2. t = Found(items, d.top)
  <2>1. (CHOOSE i \in {d.top} : TRUE) = d.top
    OBVIOUS
  <2>2. {c.top} \ {0} = {d.top} /\ {d.top} # {}
    BY <1>1
  <2> QED BY <2>1, <2>2 DEF TopOf, FindOrAdd
<1>3. t.tree = items /\ t.at = d.top
  BY <1>2 DEF Found
<1>4. leaf.tree = items /\ leaf.at \in DOMAIN items /\ (d.file \in Files => <<d.file, leaf.at>> \in links)
  <2>1. CASE ~InEpisodes(r)
    <3>1. leaf = t
      BY <2>1 DEF Leaf
    <3> HIDE DEF t, leaf
    <3> QED BY <1>1, <1>3, <2>1, <3>1 DEF Entered
  <2>2. CASE InEpisodes(r)
    <3>1. PICK s, e \in DOMAIN items : /\ EpisodeIs(items, r, d.top, s, e)
                                       /\ d.file \in Files => <<d.file, e>> \in links
      BY <2>2 DEF Entered
    <3>2. SeasonOf(r, lib, t) = Found(items, s)
      <4>1. IsChild(items, s, d.top, "season", r.season)
        BY <3>1 DEF EpisodeIs
      <4>2. SeasonOf(r, lib, t) = FindOrAdd(items, Children(items, d.top, "season", r.season),
                                            NewItem("season", lib, d.top, "", r.season))
        BY <1>3 DEF SeasonOf
      <4> HIDE DEF t, lib
      <4>3. "season" \in {"season", "episode"} /\ "season" # "episode"
        OBVIOUS
      <4>4. FindOrAdd(items, Children(items, d.top, "season", r.season),
                      NewItem("season", lib, d.top, "", r.season)) = Found(items, s)
        <5>1. PICK no, item : no = r.season /\ item = NewItem("season", lib, d.top, "", r.season)
          OBVIOUS
        <5>2. IsChild(items, s, d.top, "season", no)
          BY <4>1, <5>1
        <5>3. FindOrAdd(items, Children(items, d.top, "season", no), item) = Found(items, s)
          <6>1. PICK parent, kind : parent = d.top /\ kind = "season"
            OBVIOUS
          <6>2. IsChild(items, s, parent, kind, no) /\ kind # "episode" /\ kind \in {"season", "episode"}
            BY <4>3, <5>2, <6>1
          <6>3. FindOrAdd(items, Children(items, parent, kind, no), item) = Found(items, s)
            BY <6>2, ChildIsFound
          <6> QED BY <6>1, <6>3
        <5> QED BY <5>1, <5>3
      <4> QED BY <4>2, <4>4
    <3>3. EpisodeOf(r, lib, Found(items, s)) = Found(items, e)
      <4>1. IsChild(items, e, s, "episode", r.episode) /\ r.episode # 0
        BY <2>2, <3>1 DEF EpisodeIs
      <4>2. Found(items, s).tree = items /\ Found(items, s).at = s
        BY DEF Found
      <4>3. EpisodeOf(r, lib, Found(items, s)) =
              FindOrAdd(items, Children(items, s, "episode", r.episode),
                        NewItem("episode", lib, s, r.title, r.episode))
        BY <4>1, <4>2 DEF EpisodeOf
      <4> HIDE DEF lib
      <4>4. FindOrAdd(items, Children(items, s, "episode", r.episode),
                      NewItem("episode", lib, s, r.title, r.episode)) = Found(items, e)
        <5>1. PICK no, item : no = r.episode /\ item = NewItem("episode", lib, s, r.title, r.episode)
          OBVIOUS
        <5>2. IsChild(items, e, s, "episode", no) /\ no # 0
          BY <4>1, <5>1
        <5>3. FindOrAdd(items, Children(items, s, "episode", no), item) = Found(items, e)
          BY <5>2, ChildIsFound
        <5> QED BY <5>1, <5>3
      <4> QED BY <4>3, <4>4
    <3>4. leaf = Found(items, e)
      BY <2>2, <3>2, <3>3 DEF Leaf
    <3>5. leaf.tree = items /\ leaf.at = e
      BY <3>4 DEF Found
    <3> HIDE DEF leaf
    <3> QED BY <3>1, <3>5
  <2> QED BY <2>1, <2>2
<1>5. items' = WithMetadata(leaf.tree, r, t.at, leaf.at) /\ links' = links \cup ({d.file} \cap Files) \X {leaf.at}
  BY DEF Enter
<1> HIDE DEF leaf, t
<1>6. Len(items') = Len(items)
  <2>1. items' = WithMetadata(items, r, d.top, leaf.at)
    BY <1>3, <1>4, <1>5
  <2>2. items \in Seq(ItemRows) /\ NoTwins(items) /\ d.top \in 1..Len(items) /\ leaf.at \in 1..Len(items)
    BY <1>1, <1>4 DEF RowsOK
  <2> QED BY <1>1, <2>1, <2>2, MetadataKeeps
<1>7. links' = links
  BY <1>4, <1>5
<1> QED BY <1>6, <1>7

LEMMA RepeatStep ==
  ASSUME RowsOK, IInv, JobTypes, EnteredInv, [Next]_vars
  PROVE  MergedAgain
<1> SUFFICES ASSUME NEW n \in DOMAIN done, Len(done') > Len(done),
                    done'[Len(done')].result = done[n].result,
                    done'[Len(done')].file = done[n].file,
                    Settled(done[n]), InEpisodes(done[n].result) => done[n].result.episode # 0
             PROVE  Len(items') = Len(items) /\ links' = links
  BY DEF MergedAgain
<1>1. Len(done) \in Nat /\ done \in Seq(Merges)
  BY DEF JobTypes
<1>2. done' # done
  BY <1>1
<1>3. PICK j \in Jobs : Merge(j)
  BY <1>2 DEF Next, vars, Open, Fail, FillPoster, SkipPoster
<1>4. PICK r \in Results, f \in Files \cup {NoFile} : \E c \in Choices(r, Library(f)) :
           /\ Enter(r, f, c.top, c.how)
           /\ done' = Append(done, [result |-> r, file |-> f, top |-> TopOf(r, Library(f), c.top).at,
                                    how |-> c.how])
  BY <1>3, MergeEnters
<1>5. PICK c \in Choices(r, Library(f)) :
           /\ Enter(r, f, c.top, c.how)
           /\ done' = Append(done, [result |-> r, file |-> f, top |-> TopOf(r, Library(f), c.top).at,
                                    how |-> c.how])
  BY <1>4
<1>6. PICK e : e = [result |-> r, file |-> f, top |-> TopOf(r, Library(f), c.top).at, how |-> c.how]
  OBVIOUS
<1>7. done' = Append(done, e) /\ e.result = r /\ e.file = f
  BY <1>5, <1>6
<1>8. done'[Len(done')] = e
  BY <1>1, <1>7
<1>9. r = done[n].result /\ f = done[n].file
  BY <1>7, <1>8
<1>10. PICK d : d = done[n]
  OBVIOUS
<1>11. Rooted(items) /\ Entered(d) /\ Settled(d) /\ (InEpisodes(d.result) => d.result.episode # 0)
  BY <1>10 DEF EnteredInv
<1>12. c \in Choices(d.result, Library(d.file)) /\ Enter(d.result, d.file, c.top, c.how)
  BY <1>5, <1>9, <1>10
<1> QED BY <1>11, <1>12, AgainAddsNothing

\* However merges of other results overlap and come in between, a result that is merged
\* again with its file finds the series, season and episode it made and the link it has
\* (find_or_create_item, ON CONFLICT DO NOTHING).
THEOREM Repeats == Spec => RepeatsAddNothing
<1>1. Init => JobTypes /\ EnteredInv
  BY DEF Init, AtomicInit, JobTypes, EnteredInv, Rooted
<1>2. RowsOK /\ IInv /\ JobTypes /\ EnteredInv /\ [Next]_vars => JobTypes' /\ EnteredInv'
  BY StepTypes, EnteredStep
<1>3. RowsOK /\ IInv /\ JobTypes /\ EnteredInv /\ [Next]_vars => [MergedAgain]_vars
  BY RepeatStep
<1> QED BY <1>1, <1>2, <1>3, Serial, AtomicRows, Inductive, PTL
        DEF Spec, MergesAreSerial, RepeatsAddNothing
=============================================================================
