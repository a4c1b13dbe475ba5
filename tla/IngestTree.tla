----------------------------- MODULE IngestTree -----------------------------
(***************************************************************************)
(* Results enter the library (nipa-server/src/ingest.rs): scans and the    *)
(* worker merge at once, each result in a transaction of its own, and the  *)
(* poster may be filled in afterwards.                                     *)
(*                                                                         *)
(* A transaction of SQLite in WAL mode reads from a snapshot and can write *)
(* only while nobody else has written since; otherwise it fails and leaves *)
(* nothing behind.                                                         *)
(***************************************************************************)
EXTENDS AtomicIngest

CONSTANTS Jobs,        \* scans and the worker, each merging one result at a time
          MaxMerges    \* bound on the transactions that commit

ASSUME BoundsAssumption == MaxMerges \in Nat

VARIABLES job,    \* the results being merged
          done    \* the merges that committed, in their order

vars == <<items, ids, links, job, done>>

Idle == [at |-> "rest", top |-> 0, how |-> "new", fresh |-> FALSE]

Merging == [at : {"open", "poster"}, top : Nat, how : {"anchor", "title", "new"}, fresh : BOOLEAN,
            result : Results, file : Files \cup {NoFile}]

Merges == [result : Results, file : Files \cup {NoFile}, top : Nat,
           how : {"anchor", "title", "new"}]

TypeOK == /\ items \in Seq(ItemRows)
          /\ ids \in [Ids -> 0..Len(items)]
          /\ links \subseteq Files \X (1..Len(items))
          /\ job \in [Jobs -> Merging \cup {Idle}]
          /\ done \in Seq(Merges)

Init == /\ AtomicInit
        /\ job = [j \in Jobs |-> Idle]
        /\ done = <<>>

-----------------------------------------------------------------------------
(* A merge *)

\* The transaction begins and looks for the item.
Open(j, r, f) ==
  /\ job[j].at = "rest"
  /\ \E c \in Choices(r, Library(f)) :
       job' = [job EXCEPT ![j] = [at |-> "open", top |-> c.top, how |-> c.how, fresh |-> TRUE,
                                  result |-> r, file |-> f]]
  /\ UNCHANGED <<items, ids, links, done>>

\* (mutant) reads and writes are not one transaction
AnySnapshot(j) == TRUE

IsFresh(j) == job[j].fresh

\* Whoever is reading has an old snapshot from now on.
Written(js) == [k \in Jobs |-> IF js[k].at = "open" THEN [js[k] EXCEPT !.fresh = FALSE] ELSE js[k]]

\* The poster of a Bangumi subject is filled in after the transaction.
AwaitsPoster(r) == r.image = Nothing /\ \E x \in r.ids : x[1] = "bangumi" /\ IsNumber(r, x)

\* What was found is built upon, written and committed.
Merge(j) ==
  LET r == job[j].result
      f == job[j].file
      top == TopOf(r, Library(f), job[j].top).at
  IN /\ job[j].at = "open"
     /\ IsFresh(j)
     /\ Len(done) < MaxMerges
     /\ Enter(r, f, job[j].top, job[j].how)
     /\ done' = Append(done, [result |-> r, file |-> f, top |-> top, how |-> job[j].how])
     /\ job' = Written([job EXCEPT ![j] = IF AwaitsPoster(r)
                                          THEN [@ EXCEPT !.at = "poster", !.top = top] ELSE Idle])

\* The snapshot is old, the foreign key refuses, a statement fails or the job is dropped.
Fail(j) == /\ job[j].at = "open"
           /\ job' = [job EXCEPT ![j] = Idle]
           /\ UNCHANGED <<items, ids, links, done>>

FillPoster(j) ==
  /\ job[j].at = "poster"
  /\ Poster(job[j].top)
  /\ job' = [(IF items' = items THEN job ELSE Written(job)) EXCEPT ![j] = Idle]
  /\ UNCHANGED done

\* Failures are ignored.
SkipPoster(j) == /\ job[j].at = "poster"
                 /\ job' = [job EXCEPT ![j] = Idle]
                 /\ UNCHANGED <<items, ids, links, done>>

Next == \E j \in Jobs : \/ \E r \in Results, f \in Files \cup {NoFile} : Open(j, r, f)
                        \/ Merge(j) \/ Fail(j) \/ FillPoster(j) \/ SkipPoster(j)

Spec == Init /\ [][Next]_vars

-----------------------------------------------------------------------------
(* Properties *)

\* However merges overlap, they come out as if each had been made at once on what
\* the ones before it had left: what a transaction found is still there when it
\* commits.
MergesAreSerial == AtomicSpec

\* Two rows for the same thing.
Twins(x, y) ==
  /\ x.kind = y.kind /\ x.parent = y.parent
  /\ IF x.kind \in {"series", "movie"} THEN x.lib = y.lib /\ x.title = y.title ELSE x.no = y.no
  /\ x.kind = "episode" => x.no # 0

\* However merges overlap, a library has one series or film of a title, a series
\* one season of a number and a season one episode of a number.
NothingIsDoubled == \A i, k \in DOMAIN items : Twins(items[i], items[k]) => i = k

\* An IMDb id and an id that is told as text are kept but lead nowhere.
Leads(r, x) == x[1] # "imdb" /\ IsNumber(r, x)

\* A result with an id that is known by the time it commits goes to an item that
\* one of its ids names, however merges overlap: a work is not split by the
\* titles it is given.
MergedIsKnown == Len(done') > Len(done) =>
  LET e == done'[Len(done')]
      known == {x \in e.result.ids : Leads(e.result, x) /\ ids[x] # 0}
  IN known # {} => \E x \in known : ids[x] = e.top
KnownIdsDecide == [][MergedIsKnown]_vars

\* Merge d has left nothing to add: its ids are unknown or its item's.
Settled(d) == \A x \in d.result.ids : ids[x] \in {0, d.top}

\* A result that is merged again changes neither the tree nor the links of its
\* file, unless its episode has no number or its ids belong to other items.
MergedAgain ==
  \A d \in {done[n] : n \in DOMAIN done} :
    /\ Len(done') > Len(done)
    /\ LET e == done'[Len(done')] IN e.result = d.result /\ e.file = d.file
    /\ Settled(d)
    /\ InEpisodes(d.result) => d.result.episode # 0
    => Len(items') = Len(items) /\ links' = links
RepeatsAddNothing == [][MergedAgain]_vars
=============================================================================
