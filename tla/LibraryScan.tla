---------------------------- MODULE LibraryScan ----------------------------
(***************************************************************************)
(* The scan of one library (nipa-server/src/scan.rs): walk the tree, skip  *)
(* the files whose fingerprint is known, hash the others, recognise a file *)
(* that was moved by its (size, hash), insert or update the row of any     *)
(* other, and have it identified: by dandanplay at once (L1), or by a task *)
(* for the AI queue (L2).  Scans are started by a request and by every     *)
(* finished download, and nothing keeps two from running at once; files    *)
(* come, go and are renamed while they run.                                *)
(*                                                                         *)
(* A path is its place in the order of the walk.  A file is its content    *)
(* (which stands for its size and hash: contents differ in both) and its   *)
(* modification time.                                                      *)
(***************************************************************************)
EXTENDS Naturals, FiniteSets

CONSTANTS Paths,      \* 1..n, in the order of the walk
          Contents, Times,
          Scans,      \* scans that may run at once
          MaxRows,    \* bound on the rows of media_files
          MaxChanges, \* bound on the changes of the files
          MaxFaults,  \* bound on the scans cut off and the files that cannot be read
          Copies,     \* may two files have the same content?
          Busy,       \* may files change while a scan runs?
          AiConfigured

ASSUME FlagsAssumption == {Copies, Busy, AiConfigured} \subseteq BOOLEAN
ASSUME SizesAssumption == Paths \subseteq Nat \ {0} /\ {MaxRows, MaxChanges, MaxFaults} \subseteq Nat
ASSUME ContentsAssumption == "none" \notin Contents

VARIABLES disk,    \* the files of the library's directory
          changes, \* how often they have changed
          faults,  \* how often something has gone wrong
          row,    \* media_files by id
          link,   \* file_item: what each row's items were identified from
          tasks,  \* scrape_tasks of the AI: the file, and the content its evidence is of
          scan,   \* the scans
          asked,      \* how often each content was taken for a new file's, at most twice
          earlier,    \* contents a row was of before the file at its path changed
          stranded,   \* what was being identified when its scan was interrupted
          overlapped  \* have two scans ever run at once?

history == <<asked, earlier, stranded, overlapped>>
vars == <<disk, changes, faults, row, link, tasks, scan, history>>

Ids == 1..MaxRows
Files == [content : Contents, time : Times]
NoFile == [content |-> "none", time |-> 0]
Rows == [path : Paths, content : Contents, fp : Files, status : {"pending", "matched", "ai_matched"}]
NoRow == [path |-> 0, content |-> "none", fp |-> NoFile, status |-> "none"]

\* todo: what is left of the walk.  path, fp: the file at hand and its
\* fingerprint.  content: its hash.  id: its row, or the row that was moved.
Resting == [at |-> "rest", todo |-> {}, path |-> 0, fp |-> NoFile, content |-> "none", id |-> 0]

TypeOK == /\ disk \in [Paths -> Files \cup {NoFile}]
          /\ changes \in 0..MaxChanges /\ faults \in 0..MaxFaults
          /\ row \in [Ids -> Rows \cup {NoRow}]
          /\ link \in [Ids -> SUBSET Contents]
          /\ tasks \subseteq [id : Ids, content : Contents]
          /\ scan \in [Scans -> [at : {"rest", "next", "hash", "look", "move", "upsert", "identify", "failed"},
                                 todo : SUBSET [path : Paths, fp : Files], path : Paths \cup {0},
                                 fp : Files \cup {NoFile}, content : Contents \cup {"none"}, id : Ids \cup {0}]]
          /\ asked \in [Contents -> 0..2]
          /\ earlier \in [Ids -> SUBSET Contents]
          /\ stranded \subseteq [id : Ids, content : Contents]
          /\ overlapped \in BOOLEAN

Init == /\ disk = [p \in Paths |-> NoFile] /\ changes = 0 /\ faults = 0
        /\ row = [i \in Ids |-> NoRow]
        /\ link = [i \in Ids |-> {}]
        /\ tasks = {}
        /\ scan = [s \in Scans |-> Resting]
        /\ asked = [c \in Contents |-> 0]
        /\ earlier = [i \in Ids |-> {}]
        /\ stranded = {}
        /\ overlapped = FALSE

-----------------------------------------------------------------------------
(* The user's files *)

Active(s) == scan[s].at \notin {"rest", "failed"}

Free(p) == disk[p] = NoFile

\* A file comes to a path, takes the place of the one there, or is touched.
Store(p, f) == /\ disk[p] # f
               /\ Copies \/ \A q \in Paths \ {p} : disk[q].content # f.content
               /\ disk' = [disk EXCEPT ![p] = f]

Rename(p, q) == /\ p # q /\ ~Free(p)
                /\ disk' = [disk EXCEPT ![p] = NoFile, ![q] = disk[p]]

Delete(p) == /\ ~Free(p)
             /\ disk' = [disk EXCEPT ![p] = NoFile]

DiskStep == /\ Busy \/ \A s \in Scans : ~Active(s)
            /\ changes < MaxChanges /\ changes' = changes + 1
            /\ \E p \in Paths : \/ \E f \in Files : Store(p, f)
                                \/ Delete(p)
                                \/ \E q \in Paths : Rename(p, q)
            /\ UNCHANGED <<faults, row, link, tasks, scan, history>>

-----------------------------------------------------------------------------
(* A scan *)

Known == {i \in Ids : row[i] # NoRow}
RowsAt(p) == {i \in Known : row[i].path = p}
NewId(i) == i \notin Known /\ \A j \in Ids : j < i => j \in Known

\* On to what is left of the walk, if anything is.  Rows whose files are gone stay.
GoesOn(todo) == IF todo = {} THEN Resting ELSE [Resting EXCEPT !.at = "next", !.todo = todo]

\* Something goes wrong that need not.
Fault == faults < MaxFaults /\ faults' = faults + 1
NoFault == UNCHANGED faults

Present == {[path |-> p, fp |-> disk[p]] : p \in {q \in Paths : ~Free(q)}}

\* A walk takes a while: a file it meets at two paths is, here, one that was
\* copied before the walk, and one it misses is one it could not read.
Walk(s) == /\ ~Active(s)
           /\ \E found \in SUBSET Present :
                /\ IF found = Present THEN NoFault ELSE Fault
                /\ scan' = [scan EXCEPT ![s] = GoesOn(found)]
           /\ overlapped' = (overlapped \/ \E o \in Scans \ {s} : Active(o))
           /\ UNCHANGED <<disk, changes, row, link, tasks, asked, earlier, stranded>>

\* The row of the path has the fingerprint of the walk.
Unchanged(f) == \E i \in RowsAt(f.path) : row[i].fp = f.fp

\* The next file of the walk: a known and unchanged one is skipped.
Examine(s) == /\ scan[s].at = "next"
              /\ \E f \in scan[s].todo :
                   /\ \A g \in scan[s].todo : f.path <= g.path
                   /\ scan' = [scan EXCEPT ![s] =
                        IF Unchanged(f) THEN GoesOn(scan[s].todo \ {f})
                        ELSE [Resting EXCEPT !.at = "hash", !.todo = scan[s].todo \ {f}, !.path = f.path, !.fp = f.fp]]
              /\ UNCHANGED <<disk, changes, faults, row, link, tasks, history>>

\* The hash is of what the path holds by now.
Hash(s) == /\ scan[s].at = "hash" /\ ~Free(scan[s].path)
           /\ scan' = [scan EXCEPT ![s].content = disk[scan[s].path].content, ![s].at = "look"]
           /\ UNCHANGED <<disk, changes, faults, row, link, tasks, history>>

\* A file that is gone or cannot be read is skipped.
SkipFile(s) == /\ scan[s].at = "hash"
               /\ IF Free(scan[s].path) THEN NoFault ELSE Fault
               /\ scan' = [scan EXCEPT ![s] = GoesOn(scan[s].todo)]
               /\ UNCHANGED <<disk, changes, row, link, tasks, history>>

\* (mutant) files are never recognised
MovedFromNowhere(s) == {}

\* (mutant) the hash is left out of the query
MovedFromAnywhere(s) == {i \in Known : row[i].path # scan[s].path}

\* Rows of the same (size, hash) under another path, on disk or not.  The size
\* is the walk's, so the hash of a file that has been replaced since finds none.
MovedFrom(s) == {i \in Known : /\ row[i].path # scan[s].path
                               /\ row[i].content = scan[s].content
                               /\ row[i].fp.content = scan[s].fp.content}

Look(s) == /\ scan[s].at = "look"
           /\ \/ /\ MovedFrom(s) = {}
                 /\ scan' = [scan EXCEPT ![s].at = "upsert"]
              \/ \E i \in MovedFrom(s) : scan' = [scan EXCEPT ![s].at = "move", ![s].id = i]
           /\ UNCHANGED <<disk, changes, faults, row, link, tasks, history>>

\* (mutant) a moved row is pending again, but nothing identifies it
MigratedAsPending(s) == [row[scan[s].id] EXCEPT !.path = scan[s].path, !.fp = scan[s].fp, !.status = "pending"]

Migrated(s) == [row[scan[s].id] EXCEPT !.path = scan[s].path, !.fp = scan[s].fp]

\* The moved row takes the new path; if another row already has it, the UNIQUE
\* constraint fails the statement and with it the whole scan.
Move(s) == /\ scan[s].at = "move"
           /\ IF RowsAt(scan[s].path) \ {scan[s].id} = {}
              THEN /\ row' = [row EXCEPT ![scan[s].id] = Migrated(s)]
                   /\ scan' = [scan EXCEPT ![s] = GoesOn(scan[s].todo)]
              ELSE /\ scan' = [scan EXCEPT ![s] = [Resting EXCEPT !.at = "failed"]]
                   /\ UNCHANGED row
           /\ UNCHANGED <<disk, changes, faults, link, tasks, history>>

\* What makes way when a scan writes row i: the file the row was of, if another
\* fingerprint is written over it; a content that was hashed when the path no
\* longer held what the walk saw; and what another scan is about to move away.
MakesWay(s, i) ==
  LET c == scan[s].content
      f == scan[s].fp
  IN  (IF row[i] = NoRow \/ row[i].fp = f THEN {} ELSE {row[i].content, row[i].fp.content})
        \cup ({c} \ {f.content})
        \cup (IF \E o \in Scans \ {s} : scan[o].at = "move" /\ scan[o].id = i THEN {f.content} ELSE {})

AskFor(c) == asked' = [asked EXCEPT ![c] = IF @ < 2 THEN @ + 1 ELSE 2]

\* INSERT ... ON CONFLICT(library_id, rel_path) DO UPDATE: the links stay.
Upsert(s) == /\ scan[s].at = "upsert"
             /\ \E i \in Ids :
                  /\ IF RowsAt(scan[s].path) = {} THEN NewId(i) ELSE i \in RowsAt(scan[s].path)
                  /\ row' = [row EXCEPT ![i] = [path |-> scan[s].path, content |-> scan[s].content,
                                                fp |-> scan[s].fp, status |-> "pending"]]
                  /\ scan' = [scan EXCEPT ![s] = [Resting EXCEPT !.at = "identify", !.todo = scan[s].todo,
                                                                 !.content = scan[s].content, !.id = i]]
                  /\ earlier' = [earlier EXCEPT ![i] = @ \cup MakesWay(s, i)]
             /\ AskFor(scan[s].content)
             /\ UNCHANGED <<disk, changes, faults, link, tasks, stranded, overlapped>>

-----------------------------------------------------------------------------
(* A file is identified *)

\* What a scan at "identify" is about.
Question(s) == [id |-> scan[s].id, content |-> scan[s].content]

Answered(s) == /\ scan' = [scan EXCEPT ![s] = GoesOn(scan[s].todo)]
               /\ stranded' = stranded \ {Question(s)}
               /\ UNCHANGED <<disk, changes, asked, earlier, overlapped>>

\* ingest_result links the row's file to the items of content c.
Linked(i, c) == [link EXCEPT ![i] = @ \cup {c}]

\* Dandanplay knows the hash: the items are linked and the row is matched.
MatchExactly(s) == /\ scan[s].at = "identify"
                   /\ link' = Linked(scan[s].id, scan[s].content)
                   /\ row' = [row EXCEPT ![scan[s].id].status = "matched"]
                   /\ Answered(s)
                   /\ UNCHANGED <<faults, tasks>>

\* It does not, or the merge failed: a task, if there is an AI.  Whether or not
\* the channel takes the request, the task is there for the steward to requeue.
QueueTask(s) == /\ scan[s].at = "identify"
                /\ IF AiConfigured THEN tasks' = tasks \cup {Question(s)} ELSE UNCHANGED tasks
                /\ Answered(s)
                /\ UNCHANGED <<faults, row, link>>

\* The AI decides a task, at the scan's request or at the steward's, now or after
\* any other verdict.  If it is sure, the row it was asked for is linked; if it
\* is not, or fails, or the merge does, the file stays as it is.
Decide(t) == /\ t \in tasks
             /\ \/ /\ link' = Linked(t.id, t.content)
                   /\ row' = [row EXCEPT ![t.id].status = "ai_matched"]
                \/ UNCHANGED <<link, row>>
             /\ UNCHANGED <<disk, changes, faults, tasks, scan, history>>

\* A statement fails or the process ends in the middle of a scan.
Interrupt(s) == /\ Active(s)
                /\ Fault
                /\ scan' = [scan EXCEPT ![s] = Resting]
                /\ stranded' = IF scan[s].at = "identify" THEN stranded \cup {Question(s)} ELSE stranded
                /\ UNCHANGED <<disk, changes, row, link, tasks, asked, earlier, overlapped>>

ScanStep(s) == \/ Walk(s) \/ Examine(s) \/ Hash(s) \/ SkipFile(s) \/ Look(s) \/ Move(s)
               \/ Upsert(s) \/ MatchExactly(s) \/ QueueTask(s)

Next == \/ DiskStep
        \/ \E s \in Scans : ScanStep(s) \/ Interrupt(s)
        \/ \E t \in tasks : Decide(t)

Spec == Init /\ [][Next]_vars

-----------------------------------------------------------------------------
(* Properties *)

\* A file that is moved is not identified again ("migrate the file_item
\* association instead of scraping again"), nor is one that a scan meets again,
\* also when scans are interrupted, as long as no two of them run at once: a
\* content is taken for a new file's once, unless a row of it made way.
IdentifiedOnce ==
  ~overlapped => \A c \in Contents : (\A i \in Ids : c \notin earlier[i]) => asked[c] <= 1

\* Associations follow the file when it is moved: a row that the next scan will
\* take for up to date is linked only to items identified from that very file or
\* from one that the row was of before its file changed.
UpToDateRowsAreRight ==
  \A i \in Known : disk[row[i].path] = row[i].fp => link[i] \subseteq {row[i].fp.content} \cup earlier[i]

\* A scan does not fail over the files it finds.
NoScanFails == \A s \in Scans : scan[s].at # "failed"

\* A pending row is not lost sight of: a scan is identifying what it is of, or
\* there is a task for just that, which the steward can put back into the queue.
\* Only an interruption leaves a row with neither, for no scan looks at it again.
PendingHasTask ==
  \A i \in Known : row[i].status = "pending" =>
     \/ \E s \in Scans : scan[s].at = "identify" /\ Question(s) = [id |-> i, content |-> row[i].content]
     \/ [id |-> i, content |-> row[i].content] \in tasks \cup stranded
     \/ ~AiConfigured
=============================================================================
