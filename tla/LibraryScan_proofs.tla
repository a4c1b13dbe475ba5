------------------------- MODULE LibraryScan_proofs -------------------------
(***************************************************************************)
(* What a library keeps of its files (LibraryScan), for any files, scans   *)
(* that overlap or are interrupted, and bounds.                            *)
(***************************************************************************)
EXTENDS LibraryScan, TLAPS

-----------------------------------------------------------------------------
(* The types *)

\* A scan is at a file, and when it has read the file it knows its hash.
Working == {"hash", "look", "move", "upsert"}
Hashed == {"look", "move", "upsert", "identify"}

Fingerprints == [path : Paths, fp : Files]
Walkers == [at : {"rest", "next", "failed", "identify"} \cup Working, todo : SUBSET Fingerprints,
            path : Paths \cup {0}, fp : Files \cup {NoFile}, content : Contents \cup {"none"}, id : Ids \cup {0}]
Questions == [id : Ids, content : Contents]

DiskTypes == disk \in [Paths -> Files \cup {NoFile}] /\ changes \in 0..MaxChanges /\ faults \in 0..MaxFaults
RowTypes == /\ row \in [Ids -> Rows \cup {NoRow}]
            /\ link \in [Ids -> SUBSET Contents]
            /\ tasks \subseteq Questions
PastTypes == /\ asked \in [Contents -> 0..2]
             /\ earlier \in [Ids -> SUBSET Contents]
             /\ stranded \subseteq Questions
ScanTypes == scan \in [Scans -> Walkers] /\ overlapped \in BOOLEAN

\* What a scan has in hand is there, and so is the row of a task.
AtHand == \A s \in Scans : /\ scan[s].at \in Working => scan[s].path \in Paths /\ scan[s].fp \in Files
                           /\ scan[s].at \in Hashed => scan[s].content \in Contents
                           /\ scan[s].at \in {"move", "identify"} => scan[s].id \in Known
Filed == /\ \A t \in tasks : t.id \in Known
         /\ \A i \in Ids \ Known : link[i] = {}

TypeInv == DiskTypes /\ RowTypes /\ PastTypes /\ ScanTypes /\ AtHand /\ Filed

LEMMA TypeImplies == TypeInv => TypeOK
BY DEF TypeInv, TypeOK, DiskTypes, RowTypes, PastTypes, ScanTypes, Walkers, Working, Fingerprints, Questions

LEMMA Constants == /\ MaxRows \in Nat /\ MaxChanges \in Nat /\ MaxFaults \in Nat /\ Ids \subseteq Nat
                   /\ 0 \notin Paths /\ "none" \notin Contents
BY SizesAssumption, ContentsAssumption DEF Ids

LEMMA NoFileIsNone == /\ NoFile \notin Files /\ NoFile.content = "none"
                      /\ \A f \in Files : f.content \in Contents /\ f.content # "none"
BY Constants DEF Files, NoFile

LEMMA NoRowIsNone == /\ NoRow \notin Rows
                     /\ \A r \in Rows : r.path \in Paths /\ r.fp \in Files /\ r.content \in Contents
BY Constants DEF Rows, NoRow

LEMMA RestingIs == /\ Resting \in Walkers /\ Resting.at = "rest"
                   /\ [Resting EXCEPT !.at = "failed"] \in Walkers
                   /\ [Resting EXCEPT !.at = "failed"].at = "failed"
BY DEF Resting, Walkers, Working

LEMMA GoesOnIs == ASSUME NEW todo \in SUBSET Fingerprints
                  PROVE  GoesOn(todo) \in Walkers /\ GoesOn(todo).at \in {"rest", "next"}
BY RestingIs DEF GoesOn, Resting, Walkers

LEMMA KnownRows == ASSUME RowTypes, NEW i \in Known
                   PROVE  i \in Ids /\ row[i] \in Rows
BY DEF RowTypes, Known

LEMMA FaultTypes == ASSUME DiskTypes, Fault \/ NoFault PROVE faults' \in 0..MaxFaults
BY Constants DEF DiskTypes, Fault, NoFault

LEMMA TypeInit == Init => TypeInv
<1> SUFFICES ASSUME Init PROVE TypeInv
  OBVIOUS
<1>1. DiskTypes
  BY Constants DEF Init, DiskTypes
<1>2. RowTypes /\ PastTypes /\ Known = {}
  BY DEF Init, RowTypes, PastTypes, Known
<1>3. ScanTypes /\ \A s \in Scans : scan[s].at = "rest"
  <2> HIDE DEF Resting
  <2> QED BY RestingIs DEF Init, ScanTypes
<1>4. AtHand /\ Filed
  BY <1>2, <1>3 DEF AtHand, Filed, Working, Hashed, Init
<1> QED BY <1>1, <1>2, <1>3, <1>4 DEF TypeInv

\* A scan takes the state x, and has in hand what x says.
LEMMA ScanMoves ==
  ASSUME TypeInv, NEW s \in Scans, NEW x \in Walkers, scan' = [scan EXCEPT ![s] = x],
         overlapped' \in BOOLEAN, Known \subseteq Known',
         x.at \in Working => x.path \in Paths /\ x.fp \in Files,
         x.at \in Hashed => x.content \in Contents,
         x.at \in {"move", "identify"} => x.id \in Known'
  PROVE  ScanTypes' /\ AtHand'
<1>1. ScanTypes' /\ \A o \in Scans : scan'[o] = IF o = s THEN x ELSE scan[o]
  BY DEF TypeInv, ScanTypes
<1> QED BY <1>1 DEF TypeInv, AtHand

\* A scan that is done with its file.
LEMMA ScanGoesOn ==
  ASSUME TypeInv, NEW s \in Scans, scan' = [scan EXCEPT ![s] = GoesOn(scan[s].todo)],
         overlapped' \in BOOLEAN, Known \subseteq Known'
  PROVE  ScanTypes' /\ AtHand'
<1> DEFINE y == GoesOn(scan[s].todo)
<1>1. scan[s].todo \in SUBSET Fingerprints
  BY DEF TypeInv, ScanTypes, Walkers
<1>2. y \in Walkers /\ y.at \in {"rest", "next"}
  BY <1>1, GoesOnIs
<1> HIDE DEF y
<1>3. scan' = [scan EXCEPT ![s] = y]
  BY DEF y
<1> QED BY <1>2, <1>3, ScanMoves DEF Working, Hashed

LEMMA FiledStays == ASSUME TypeInv, UNCHANGED <<link, tasks>>, Known \subseteq Known' PROVE Filed'
BY DEF TypeInv, Filed

\* A row is written; what was known stays known.
LEMMA RowWritten ==
  ASSUME TypeInv, NEW i \in Ids, NEW r \in Rows, row' = [row EXCEPT ![i] = r]
  PROVE  /\ row' \in [Ids -> Rows \cup {NoRow}]
         /\ \A j \in Ids : row'[j] = IF j = i THEN r ELSE row[j]
         /\ Known' = Known \cup {i}
<1>1. row \in [Ids -> Rows \cup {NoRow}]
  BY DEF TypeInv, RowTypes
<1>2. \A j \in Ids : row'[j] = IF j = i THEN r ELSE row[j]
  BY <1>1
<1>3. r # NoRow
  BY NoRowIsNone
<1> QED BY <1>1, <1>2, <1>3 DEF Known

LEMMA DiskTypesStep == ASSUME TypeInv, [Next]_vars PROVE DiskTypes'
<1> USE DEF DiskTypes
<1>1. DiskTypes
  BY DEF TypeInv
<1>2. CASE DiskStep
  <2>1. changes' \in 0..MaxChanges /\ UNCHANGED faults
    BY <1>1, <1>2, Constants DEF DiskStep
  <2>2. ASSUME NEW p \in Paths, NEW f \in Files, Store(p, f) PROVE disk' \in [Paths -> Files \cup {NoFile}]
    BY <1>1, <2>2 DEF Store
  <2>3. ASSUME NEW p \in Paths, Delete(p) PROVE disk' \in [Paths -> Files \cup {NoFile}]
    BY <1>1, <2>3 DEF Delete
  <2>4. ASSUME NEW p \in Paths, NEW q \in Paths, Rename(p, q) PROVE disk' \in [Paths -> Files \cup {NoFile}]
    BY <1>1, <2>4 DEF Rename
  <2> QED BY <1>1, <1>2, <2>1, <2>2, <2>3, <2>4 DEF DiskStep
<1>3. CASE UNCHANGED <<disk, changes>> /\ (Fault \/ NoFault)
  BY <1>1, <1>3, FaultTypes
<1> QED BY <1>2, <1>3 DEF Next, vars, history, ScanStep, Walk, Examine, Hash, SkipFile, Look, Move, Upsert,
           MatchExactly, Answered, QueueTask, Interrupt, Decide, NoFault

\* One step of one scan on its own: rows, links and tasks are as they were.
Onward(s) == \/ Walk(s) \/ Examine(s) \/ Hash(s) \/ SkipFile(s) \/ Look(s) \/ Interrupt(s)

LEMMA OnwardKeeps ==
  ASSUME NEW s, Onward(s)
  PROVE  UNCHANGED <<disk, row, link, tasks, asked, earlier>> /\ Known' = Known
BY DEF Onward, Walk, Examine, Hash, SkipFile, Look, Interrupt, history, Known

LEMMA OnwardTypes ==
  ASSUME TypeInv, NEW s \in Scans, Onward(s)
  PROVE  (RowTypes /\ PastTypes /\ ScanTypes /\ AtHand /\ Filed)'
<1> DEFINE x == scan[s]
<1>0. x \in Walkers /\ DiskTypes /\ RowTypes /\ PastTypes /\ AtHand /\ overlapped \in BOOLEAN
  BY DEF TypeInv, ScanTypes
<1>1. UNCHANGED <<row, link, tasks, asked, earlier>> /\ Known' = Known
  BY OnwardKeeps
<1>2. RowTypes' /\ PastTypes'
  <2>1. stranded' \subseteq Questions
    <3>1. CASE Interrupt(s)
      <4>1. x.at = "identify" => Question(s) \in Questions
        BY <1>0 DEF AtHand, Known, Question, Questions, Hashed
      <4> QED BY <1>0, <3>1, <4>1 DEF Interrupt, PastTypes
    <3>2. CASE UNCHANGED stranded
      BY <1>0, <3>2 DEF PastTypes
    <3> QED BY <3>1, <3>2 DEF Onward, Walk, Examine, Hash, SkipFile, Look, history
  <2> QED BY <1>0, <1>1, <2>1 DEF RowTypes, PastTypes
<1>3. Filed'
  BY <1>1, FiledStays
<1>4. CASE Walk(s)
  <2>0. Present \in SUBSET Fingerprints
    <3> SUFFICES ASSUME NEW p \in Paths, ~Free(p) PROVE [path |-> p, fp |-> disk[p]] \in Fingerprints
      BY DEF Present
    <3> QED BY <1>0 DEF Fingerprints, DiskTypes, Free
  <2>1. PICK found \in SUBSET Present : scan' = [scan EXCEPT ![s] = GoesOn(found)]
    BY <1>4 DEF Walk
  <2> DEFINE y == GoesOn(found)
  <2>2. y \in Walkers /\ y.at \in {"rest", "next"}
    BY <2>0, GoesOnIs
  <2> HIDE DEF y
  <2>3. overlapped' \in BOOLEAN /\ scan' = [scan EXCEPT ![s] = y]
    BY <1>0, <1>4, <2>1 DEF Walk, y
  <2> QED BY <1>1, <1>2, <1>3, <2>2, <2>3, ScanMoves DEF Working, Hashed
<1>5. CASE Examine(s)
  <2>1. PICK f \in x.todo : scan' = [scan EXCEPT ![s] =
                        IF Unchanged(f) THEN GoesOn(x.todo \ {f})
                        ELSE [Resting EXCEPT !.at = "hash", !.todo = x.todo \ {f}, !.path = f.path, !.fp = f.fp]]
    BY <1>5 DEF Examine
  <2>2. f.path \in Paths /\ f.fp \in Files /\ x.todo \ {f} \in SUBSET Fingerprints
    BY <1>0, <2>1 DEF Walkers, Fingerprints
  <2>3. overlapped' = overlapped
    BY <1>5 DEF Examine, history
  <2>4. CASE Unchanged(f)
    <3> DEFINE y == GoesOn(x.todo \ {f})
    <3>1. y \in Walkers /\ y.at \in {"rest", "next"}
      BY <2>2, GoesOnIs
    <3>2. scan' = [scan EXCEPT ![s] = y]
      BY <2>1, <2>4
    <3> HIDE DEF y
    <3> QED BY <1>0, <1>1, <1>2, <1>3, <2>3, <3>1, <3>2, ScanMoves DEF Working, Hashed
  <2>5. CASE ~Unchanged(f)
    <3> DEFINE y == [Resting EXCEPT !.at = "hash", !.todo = x.todo \ {f}, !.path = f.path, !.fp = f.fp]
    <3>1. y \in Walkers /\ y.at = "hash" /\ y.path = f.path /\ y.fp = f.fp
      BY <2>2 DEF Walkers, Working, Resting
    <3>2. scan' = [scan EXCEPT ![s] = y]
      BY <2>1, <2>5
    <3> HIDE DEF y
    <3> QED BY <1>0, <1>1, <1>2, <1>3, <2>2, <2>3, <3>1, <3>2, ScanMoves DEF Working, Hashed
  <2> QED BY <2>4, <2>5
<1>6. CASE Hash(s)
  <2> DEFINE y == [x EXCEPT !.content = disk[x.path].content, !.at = "look"]
  <2>1. x.path \in Paths /\ x.fp \in Files
    BY <1>0, <1>6 DEF Hash, AtHand, Working
  <2>2. disk[x.path].content \in Contents
    BY <1>0, <1>6, <2>1, NoFileIsNone DEF DiskTypes, Hash, Free
  <2>3. y \in Walkers /\ y.path = x.path /\ y.fp = x.fp /\ y.content = disk[x.path].content /\ y.at = "look"
    BY <1>0, <2>2 DEF Walkers, Working
  <2>4. scan' = [scan EXCEPT ![s] = y] /\ overlapped' = overlapped
    BY <1>6 DEF Hash, history
  <2> HIDE DEF y
  <2> QED BY <1>0, <1>1, <1>2, <1>3, <2>1, <2>2, <2>3, <2>4, ScanMoves DEF Working, Hashed
<1>7. CASE Look(s)
  <2>1. x.path \in Paths /\ x.fp \in Files /\ x.content \in Contents /\ x.at = "look" /\ overlapped' = overlapped
    BY <1>0, <1>7 DEF Look, AtHand, Working, Hashed, history
  <2>2. CASE scan' = [scan EXCEPT ![s].at = "upsert"]
    <3> DEFINE y == [x EXCEPT !.at = "upsert"]
    <3>1. y \in Walkers /\ y.path = x.path /\ y.fp = x.fp /\ y.content = x.content /\ y.at = "upsert"
      BY <1>0 DEF Walkers, Working
    <3>2. scan' = [scan EXCEPT ![s] = y]
      BY <2>2
    <3> HIDE DEF y
    <3> QED BY <1>0, <1>1, <1>2, <1>3, <2>1, <3>1, <3>2, ScanMoves DEF Working, Hashed
  <2>3. CASE \E i \in MovedFrom(s) : scan' = [scan EXCEPT ![s].at = "move", ![s].id = i]
    <3>1. PICK i \in MovedFrom(s) : scan' = [scan EXCEPT ![s].at = "move", ![s].id = i]
      BY <2>3
    <3>2. i \in Known /\ i \in Ids
      BY DEF MovedFrom, Known
    <3> DEFINE y == [x EXCEPT !.at = "move", !.id = i]
    <3>3. y \in Walkers /\ y.path = x.path /\ y.fp = x.fp /\ y.content = x.content /\ y.at = "move" /\ y.id = i
      BY <1>0, <3>2 DEF Walkers, Working
    <3>4. scan' = [scan EXCEPT ![s] = y]
      BY <3>1
    <3> HIDE DEF y
    <3> QED BY <1>0, <1>1, <1>2, <1>3, <2>1, <3>2, <3>3, <3>4, ScanMoves DEF Working, Hashed
  <2> QED BY <1>7, <2>2, <2>3 DEF Look
<1>8. CASE SkipFile(s)
  BY <1>0, <1>1, <1>2, <1>3, <1>8, ScanGoesOn DEF SkipFile, history
<1>9. CASE Interrupt(s)
  <2>1. scan' = [scan EXCEPT ![s] = Resting] /\ overlapped' = overlapped
    BY <1>9 DEF Interrupt
  <2> HIDE DEF Resting
  <2> QED BY <1>0, <1>1, <1>2, <1>3, <2>1, RestingIs, ScanMoves DEF Working, Hashed
<1> QED BY <1>4, <1>5, <1>6, <1>7, <1>8, <1>9 DEF Onward

\* The row that Upsert writes is the one at the path or a new one.
Writes(s, i) ==
  /\ i \in Ids
  /\ IF RowsAt(scan[s].path) = {} THEN i \notin Known ELSE i \in RowsAt(scan[s].path)
  /\ row' \in [Ids -> Rows \cup {NoRow}] /\ Known' = Known \cup {i} /\ \A j \in Ids \ {i} : row'[j] = row[j]
  /\ row'[i].path = scan[s].path /\ row'[i].fp = scan[s].fp /\ row'[i].content = scan[s].content
  /\ earlier' = [earlier EXCEPT ![i] = @ \cup MakesWay(s, i)]
  /\ scan'[s].at = "identify" /\ scan'[s].id = i /\ scan'[s].content = scan[s].content
  /\ scan'[s] \in Walkers /\ \A o \in Scans \ {s} : scan'[o] = scan[o]

LEMMA UpsertWrites == ASSUME TypeInv, NEW s \in Scans, Upsert(s) PROVE \E i \in Ids : Writes(s, i)
<1>0. RowTypes /\ scan \in [Scans -> Walkers]
  BY DEF TypeInv, ScanTypes
<1>1. scan[s].path \in Paths /\ scan[s].fp \in Files /\ scan[s].content \in Contents /\ scan[s].todo \in SUBSET Fingerprints
  BY <1>0 DEF TypeInv, AtHand, Upsert, Working, Hashed, Walkers
<1> DEFINE r == [path |-> scan[s].path, content |-> scan[s].content, fp |-> scan[s].fp, status |-> "pending"]
           y(i) == [Resting EXCEPT !.at = "identify", !.todo = scan[s].todo, !.content = scan[s].content, !.id = i]
<1>2. PICK i \in Ids : /\ IF RowsAt(scan[s].path) = {} THEN NewId(i) ELSE i \in RowsAt(scan[s].path)
                       /\ row' = [row EXCEPT ![i] = r]
                       /\ scan' = [scan EXCEPT ![s] = y(i)]
                       /\ earlier' = [earlier EXCEPT ![i] = @ \cup MakesWay(s, i)]
  BY DEF Upsert
<1>3. r \in Rows /\ r.path = scan[s].path /\ r.fp = scan[s].fp /\ r.content = scan[s].content
  BY <1>1 DEF Rows
<1>4. y(i) \in Walkers /\ y(i).at = "identify" /\ y(i).id = i /\ y(i).content = scan[s].content
  BY <1>1 DEF Walkers, Resting
<1> HIDE DEF r, y
<1>5. /\ row' \in [Ids -> Rows \cup {NoRow}] /\ Known' = Known \cup {i}
      /\ \A j \in Ids : row'[j] = IF j = i THEN r ELSE row[j]
  BY <1>2, <1>3, RowWritten
<1>6. scan'[s] = y(i) /\ \A o \in Scans \ {s} : scan'[o] = scan[o]
  BY <1>0, <1>2
<1> QED BY <1>2, <1>3, <1>4, <1>5, <1>6 DEF Writes, NewId

LEMMA MakesWayTypes == ASSUME TypeInv, NEW s \in Scans, scan[s].at = "upsert", NEW i \in Ids
                       PROVE  MakesWay(s, i) \subseteq Contents
<1>1. scan[s].fp.content \in Contents /\ scan[s].content \in Contents
  BY NoFileIsNone DEF TypeInv, AtHand, Working, Hashed
<1>2. row[i] # NoRow => row[i].content \in Contents /\ row[i].fp.content \in Contents
  BY NoRowIsNone, NoFileIsNone DEF TypeInv, RowTypes
<1> QED BY <1>1, <1>2 DEF MakesWay

LEMMA AskTypes == ASSUME PastTypes, NEW c \in Contents, AskFor(c)
                  PROVE  asked' \in [Contents -> 0..2]
BY DEF PastTypes, AskFor

LEMMA UpsertTypes ==
  ASSUME TypeInv, NEW s \in Scans, Upsert(s)
  PROVE  (RowTypes /\ PastTypes /\ ScanTypes /\ AtHand /\ Filed)'
<1>0. /\ RowTypes /\ PastTypes /\ overlapped \in BOOLEAN /\ scan[s].content \in Contents /\ scan[s].at = "upsert"
      /\ scan \in [Scans -> Walkers]
  BY DEF TypeInv, ScanTypes, AtHand, Upsert, Hashed
<1>1. PICK i \in Ids : Writes(s, i)
  BY UpsertWrites
<1>2. RowTypes' /\ Filed'
  BY <1>0, <1>1, FiledStays DEF RowTypes, Upsert, Writes
<1>3. PastTypes'
  <2>1. asked' \in [Contents -> 0..2] /\ UNCHANGED stranded
    BY <1>0, AskTypes DEF Upsert
  <2>2. earlier' = [earlier EXCEPT ![i] = @ \cup MakesWay(s, i)]
    BY <1>1 DEF Writes
  <2>3. MakesWay(s, i) \subseteq Contents
    BY <1>0, MakesWayTypes
  <2> QED BY <1>0, <2>1, <2>2, <2>3 DEF PastTypes
<1>4. ScanTypes'
  <2>1. scan' = [scan EXCEPT ![s] = scan'[s]]
    BY <1>0 DEF Upsert
  <2>2. scan'[s] \in Walkers
    BY <1>1 DEF Writes
  <2> QED BY <1>0, <2>1, <2>2 DEF ScanTypes, Upsert
<1>5. AtHand'
  BY <1>0, <1>1 DEF Writes, TypeInv, AtHand, Working, Hashed
<1> QED BY <1>2, <1>3, <1>4, <1>5

\* A row that is moved keeps its content and its status.
Moves(s) ==
  /\ scan[s].id \in Known
  /\ RowsAt(scan[s].path) \subseteq {scan[s].id}
  /\ row' \in [Ids -> Rows \cup {NoRow}] /\ Known' = Known /\ \A j \in Ids \ {scan[s].id} : row'[j] = row[j]
  /\ row'[scan[s].id].path = scan[s].path /\ row'[scan[s].id].fp = scan[s].fp
  /\ row'[scan[s].id].content = row[scan[s].id].content
  /\ row'[scan[s].id].status = row[scan[s].id].status

LEMMA MoveMoves == ASSUME TypeInv, NEW s \in Scans, Move(s)
                   PROVE  /\ Moves(s) \/ UNCHANGED row
                          /\ scan'[s].at \in {"rest", "next", "failed"}
                          /\ \A o \in Scans \ {s} : scan'[o] = scan[o]
                          /\ ScanTypes' /\ AtHand'
<1>0. RowTypes /\ scan \in [Scans -> Walkers] /\ overlapped \in BOOLEAN /\ UNCHANGED overlapped
  BY DEF TypeInv, ScanTypes, Move, history
<1>1. scan[s].id \in Known /\ scan[s].id \in Ids /\ row[scan[s].id] \in Rows /\ scan[s].path \in Paths /\ scan[s].fp \in Files
  BY KnownRows DEF TypeInv, AtHand, Move, Working
<1>2. CASE row' = [row EXCEPT ![scan[s].id] = Migrated(s)] /\ scan' = [scan EXCEPT ![s] = GoesOn(scan[s].todo)]
           /\ RowsAt(scan[s].path) \ {scan[s].id} = {}
  <2>1. /\ Migrated(s) \in Rows /\ Migrated(s).path = scan[s].path /\ Migrated(s).fp = scan[s].fp
        /\ Migrated(s).content = row[scan[s].id].content /\ Migrated(s).status = row[scan[s].id].status
    BY <1>1 DEF Migrated, Rows
  <2>2. /\ row' \in [Ids -> Rows \cup {NoRow}] /\ Known' = Known \cup {scan[s].id}
        /\ \A j \in Ids : row'[j] = IF j = scan[s].id THEN Migrated(s) ELSE row[j]
    BY <1>1, <1>2, <2>1, RowWritten
  <2>3. scan'[s].at \in {"rest", "next"} /\ \A o \in Scans \ {s} : scan'[o] = scan[o]
    <3>1. scan[s].todo \in SUBSET Fingerprints
      BY <1>0 DEF Walkers
    <3>2. scan'[s] = GoesOn(scan[s].todo) /\ \A o \in Scans \ {s} : scan'[o] = scan[o]
      BY <1>0, <1>2
    <3> QED BY <3>1, <3>2, GoesOnIs
  <2>4. ScanTypes' /\ AtHand'
    BY <1>0, <1>2, <2>2, ScanGoesOn
  <2> HIDE DEF Migrated
  <2> QED BY <1>1, <1>2, <2>1, <2>2, <2>3, <2>4 DEF Moves
<1>3. CASE UNCHANGED row /\ scan' = [scan EXCEPT ![s] = [Resting EXCEPT !.at = "failed"]]
  <2> DEFINE y == [Resting EXCEPT !.at = "failed"]
  <2>1. y \in Walkers /\ y.at = "failed"
    BY RestingIs
  <2> HIDE DEF y
  <2>2. scan' = [scan EXCEPT ![s] = y] /\ Known' = Known
    BY <1>3 DEF y, Known
  <2>3. scan'[s] = y /\ \A o \in Scans \ {s} : scan'[o] = scan[o]
    BY <1>0, <2>2
  <2>4. ScanTypes' /\ AtHand'
    BY <1>0, <2>1, <2>2, ScanMoves DEF Working, Hashed
  <2> QED BY <1>3, <2>1, <2>3, <2>4
<1> QED BY <1>2, <1>3 DEF Move

LEMMA MoveTypes ==
  ASSUME TypeInv, NEW s \in Scans, Move(s)
  PROVE  (RowTypes /\ PastTypes /\ ScanTypes /\ AtHand /\ Filed)'
<1>1. ScanTypes' /\ AtHand' /\ (Moves(s) \/ UNCHANGED row)
  BY MoveMoves
<1>2. row' \in [Ids -> Rows \cup {NoRow}] /\ Known' = Known
  BY <1>1 DEF Moves, TypeInv, RowTypes, Known
<1>3. UNCHANGED <<link, tasks, asked, earlier, stranded>>
  BY DEF Move, history
<1> QED BY <1>1, <1>2, <1>3, FiledStays DEF TypeInv, RowTypes, PastTypes

\* A row takes the status st, and is linked to the items of content c.
Labels == {"matched", "ai_matched"}
Labelled(i, c, st) == row' = [row EXCEPT ![i].status = st] /\ link' = Linked(i, c)

Judged(i, c, st) ==
  /\ row' \in [Ids -> Rows \cup {NoRow}] /\ link' \in [Ids -> SUBSET Contents]
  /\ Known' = Known /\ \A j \in Ids \ Known : link'[j] = {}
  /\ \A j \in Known : /\ row'[j].path = row[j].path /\ row'[j].fp = row[j].fp
                      /\ row'[j].content = row[j].content
                      /\ row'[j].status = IF j = i THEN st ELSE row[j].status
  /\ \A j \in Ids : link'[j] = IF j = i THEN link[i] \cup {c} ELSE link[j]

LEMMA Identified ==
  ASSUME TypeInv, NEW i \in Known, NEW c \in Contents, NEW st \in Labels, Labelled(i, c, st)
  PROVE  Judged(i, c, st)
<1>0. i \in Ids /\ row[i] \in Rows /\ RowTypes /\ Filed
  BY KnownRows DEF TypeInv
<1> DEFINE r == [row[i] EXCEPT !.status = st]
<1>1. r \in Rows /\ r.path = row[i].path /\ r.fp = row[i].fp /\ r.content = row[i].content /\ r.status = st
  BY <1>0 DEF Rows, Labels
<1>2. row' = [row EXCEPT ![i] = r] /\ link' = Linked(i, c)
  BY DEF Labelled
<1> HIDE DEF r
<1>3. /\ row' \in [Ids -> Rows \cup {NoRow}] /\ Known' = Known \cup {i}
      /\ \A j \in Ids : row'[j] = IF j = i THEN r ELSE row[j]
  BY <1>0, <1>1, <1>2, RowWritten
<1>4. link' \in [Ids -> SUBSET Contents] /\ \A j \in Ids : link'[j] = IF j = i THEN link[i] \cup {c} ELSE link[j]
  BY <1>0, <1>2 DEF RowTypes, Linked
<1> QED BY <1>0, <1>1, <1>3, <1>4 DEF Judged, Filed, Known

\* What dandanplay's answer and a task do.
LEMMA MatchJudges == ASSUME TypeInv, NEW s \in Scans, MatchExactly(s)
                     PROVE  /\ scan[s].id \in Known /\ Judged(scan[s].id, scan[s].content, "matched")
                            /\ UNCHANGED tasks
<1>1. scan[s].id \in Known /\ scan[s].content \in Contents
  BY DEF TypeInv, AtHand, MatchExactly, Hashed
<1>2. Labelled(scan[s].id, scan[s].content, "matched") /\ "matched" \in Labels /\ UNCHANGED tasks
  BY DEF MatchExactly, Labelled, Labels
<1> QED BY <1>1, <1>2, Identified

LEMMA DecideJudges == ASSUME TypeInv, NEW t \in tasks, Decide(t)
                      PROVE  /\ t.id \in Known
                             /\ Judged(t.id, t.content, "ai_matched") \/ UNCHANGED <<row, link>>
<1>1. t.id \in Known /\ t.content \in Contents
  BY DEF TypeInv, Filed, RowTypes, Questions
<1>2. CASE Labelled(t.id, t.content, "ai_matched")
  <2>1. "ai_matched" \in Labels
    BY DEF Labels
  <2> QED BY <1>1, <1>2, <2>1, Identified
<1> QED BY <1>1, <1>2 DEF Decide, Labelled

LEMMA AnsweredIs == ASSUME TypeInv, NEW s \in Scans, Answered(s), Known' = Known
                    PROVE  /\ scan'[s].at \in {"rest", "next"} /\ \A o \in Scans \ {s} : scan'[o] = scan[o]
                           /\ ScanTypes' /\ AtHand' /\ PastTypes'
<1>1. scan \in [Scans -> Walkers] /\ overlapped' \in BOOLEAN /\ scan[s].todo \in SUBSET Fingerprints
  BY DEF TypeInv, ScanTypes, Answered, Walkers
<1>2. scan'[s] = GoesOn(scan[s].todo) /\ \A o \in Scans \ {s} : scan'[o] = scan[o]
  BY <1>1 DEF Answered
<1>3. ScanTypes' /\ AtHand'
  BY <1>1, ScanGoesOn DEF Answered
<1>4. PastTypes'
  BY DEF Answered, TypeInv, PastTypes
<1> QED BY <1>1, <1>2, <1>3, <1>4, GoesOnIs

LEMMA IdentifyTypes ==
  ASSUME TypeInv, NEW s \in Scans, MatchExactly(s) \/ QueueTask(s)
  PROVE  (RowTypes /\ PastTypes /\ ScanTypes /\ AtHand /\ Filed)'
<1>0. RowTypes /\ Filed /\ scan[s].content \in Contents /\ scan[s].id \in Known /\ scan[s].id \in Ids
  BY DEF TypeInv, AtHand, MatchExactly, QueueTask, Hashed, Known
<1>1. RowTypes' /\ Filed' /\ Known' = Known
  <2>1. CASE MatchExactly(s)
    BY <1>0, <2>1, MatchJudges DEF Judged, RowTypes, Filed
  <2>2. CASE QueueTask(s)
    <3>1. UNCHANGED <<row, link>> /\ Known' = Known
      BY <2>2 DEF QueueTask, Known
    <3>2. tasks' \subseteq tasks \cup {Question(s)}
      BY <2>2 DEF QueueTask
    <3>3. Question(s) \in Questions /\ Question(s).id \in Known
      BY <1>0 DEF Question, Questions
    <3> QED BY <1>0, <3>1, <3>2, <3>3 DEF RowTypes, Filed
  <2> QED BY <2>1, <2>2
<1> QED BY <1>1, AnsweredIs DEF MatchExactly, QueueTask

LEMMA DecideTypes ==
  ASSUME TypeInv, NEW t \in tasks, Decide(t)
  PROVE  (RowTypes /\ PastTypes /\ ScanTypes /\ AtHand /\ Filed)'
<1>1. UNCHANGED <<asked, earlier, scan, stranded, overlapped, tasks>>
  BY DEF Decide, history
<1>2. CASE Judged(t.id, t.content, "ai_matched")
  BY <1>1, <1>2 DEF Judged, TypeInv, RowTypes, PastTypes, ScanTypes, AtHand, Filed
<1>3. CASE UNCHANGED <<row, link>>
  BY <1>1, <1>3 DEF Known, TypeInv, RowTypes, PastTypes, ScanTypes, AtHand, Filed
<1> QED BY <1>2, <1>3, DecideJudges

LEMMA TypeStep == ASSUME TypeInv, [Next]_vars PROVE TypeInv'
<1>1. DiskTypes'
  BY DiskTypesStep
<1>2. (RowTypes /\ PastTypes /\ ScanTypes /\ AtHand /\ Filed)'
  <2>1. CASE DiskStep \/ UNCHANGED vars
    <3>1. UNCHANGED <<row, link, tasks, asked, earlier, scan, stranded, overlapped>>
      BY <2>1 DEF DiskStep, vars, history
    <3>2. Known' = Known
      BY <3>1 DEF Known
    <3> QED BY <3>1, <3>2 DEF TypeInv, RowTypes, PastTypes, ScanTypes, AtHand, Filed
  <2>2. ASSUME NEW s \in Scans, ScanStep(s) \/ Interrupt(s)
        PROVE  (RowTypes /\ PastTypes /\ ScanTypes /\ AtHand /\ Filed)'
    BY <2>2, OnwardTypes, MoveTypes, UpsertTypes, IdentifyTypes DEF ScanStep, Onward
  <2>3. ASSUME NEW t \in tasks, Decide(t) PROVE (RowTypes /\ PastTypes /\ ScanTypes /\ AtHand /\ Filed)'
    BY <2>3, DecideTypes
  <2> QED BY <2>1, <2>2, <2>3 DEF Next
<1> QED BY <1>1, <1>2 DEF TypeInv

\* The types of the rows, links, tasks and scans of a library are kept, whatever
\* the files do and however many scans run or are interrupted.
THEOREM TypeCorrect == Spec => []TypeOK
<1>1. Init => TypeInv
  BY TypeInit
<1>2. TypeInv /\ [Next]_vars => TypeInv'
  BY TypeStep
<1>3. TypeInv => TypeOK
  BY TypeImplies
<1> QED BY <1>1, <1>2, <1>3, PTL DEF Spec

-----------------------------------------------------------------------------
(* Pending rows *)

AskedBy(q) == \E s \in Scans : scan[s].at = "identify" /\ Question(s) = q
LookedAfter(q) == AskedBy(q) \/ q \in tasks \cup stranded \/ ~AiConfigured

\* What a scan asks goes into a task, unless it is answered or the scan is cut off.
LEMMA AskedOn ==
  ASSUME TypeInv, NEW s \in Scans, ScanStep(s) \/ Interrupt(s), NEW q, LookedAfter(q)
  PROVE  LookedAfter(q)' \/ (q = Question(s) /\ MatchExactly(s))
<1>0. scan \in [Scans -> Walkers]
  BY DEF TypeInv, ScanTypes
<1>1. tasks \subseteq tasks'
  BY DEF ScanStep, Walk, Examine, Hash, SkipFile, Look, Move, Upsert, MatchExactly, QueueTask, Interrupt
<1>2. \A o \in Scans \ {s} : scan'[o] = scan[o]
  BY <1>0 DEF ScanStep, Walk, Examine, Hash, SkipFile, Look, Move, Upsert, MatchExactly, QueueTask, Answered, Interrupt
<1>3. ASSUME NEW o \in Scans \ {s}, scan[o].at = "identify", Question(o) = q PROVE AskedBy(q)'
  BY <1>2, <1>3 DEF AskedBy, Question
<1>4. CASE scan[s].at = "identify" /\ Question(s) = q
  <2>1. CASE Interrupt(s)
    BY <1>4, <2>1 DEF Interrupt, LookedAfter
  <2>2. CASE QueueTask(s)
    BY <1>4, <2>2 DEF QueueTask, LookedAfter
  <2>3. CASE Walk(s)
    BY <1>4, <2>3 DEF Walk, Active
  <2> QED BY <1>4, <2>1, <2>2, <2>3 DEF ScanStep, Examine, Hash, SkipFile, Look, Move, Upsert
<1>5. CASE q \in stranded
  <2>1. stranded \subseteq stranded' \/ (scan[s].at = "identify" /\ stranded' = stranded \ {Question(s)})
    BY DEF ScanStep, Walk, Examine, Hash, SkipFile, Look, Move, Upsert, MatchExactly, QueueTask, Answered,
           Interrupt, history
  <2>2. CASE q = Question(s) /\ scan[s].at = "identify"
    BY <1>4, <2>2
  <2>3. CASE stranded \subseteq stranded' \/ q # Question(s)
    BY <1>5, <2>1, <2>3 DEF LookedAfter
  <2> QED BY <2>1, <2>2, <2>3
<1>6. CASE AskedBy(q)
  <2>1. PICK o \in Scans : scan[o].at = "identify" /\ Question(o) = q
    BY <1>6 DEF AskedBy
  <2>2. CASE o = s
    BY <1>4, <2>1, <2>2
  <2>3. CASE o # s
    BY <1>3, <2>1, <2>3 DEF LookedAfter
  <2> QED BY <2>2, <2>3
<1>7. CASE q \in tasks \/ ~AiConfigured
  BY <1>1, <1>7 DEF LookedAfter
<1> QED BY <1>5, <1>6, <1>7 DEF LookedAfter

LEMMA PendingStep == ASSUME TypeInv, [Next]_vars, PendingHasTask
                     PROVE  PendingHasTask'
<1>1. SUFFICES ASSUME NEW i \in Known', row'[i].status = "pending",
                      NEW q, q = [id |-> i, content |-> row'[i].content]
               PROVE  LookedAfter(q)'
  BY DEF PendingHasTask, LookedAfter, AskedBy
<1>2. i \in Ids
  BY DEF Known
<1> DEFINE old == i \in Known /\ row[i].status = "pending" /\ row'[i].content = row[i].content
<1>3. old => LookedAfter(q)
  BY <1>1 DEF PendingHasTask, LookedAfter, AskedBy
<1>4. UNCHANGED row => old
  BY <1>1 DEF Known
<1>5. CASE UNCHANGED <<row, tasks, scan, stranded>>
  BY <1>3, <1>4, <1>5 DEF LookedAfter, AskedBy, Question
<1>6. ASSUME NEW s \in Scans, ScanStep(s) \/ Interrupt(s), old PROVE LookedAfter(q)'
  <2>1. CASE q = Question(s) /\ MatchExactly(s)
    <3>1. i = scan[s].id
      BY <1>1, <2>1 DEF Question
    <3>2. row'[i].status = "matched"
      BY <2>1, <3>1, MatchJudges DEF Judged
    <3> QED BY <1>1, <3>2
  <2> QED BY <1>3, <1>6, <2>1, AskedOn
<1>7. ASSUME NEW s \in Scans, ScanStep(s) \/ Interrupt(s) PROVE LookedAfter(q)'
  <2>1. CASE Onward(s) \/ QueueTask(s)
    <3>1. UNCHANGED row
      BY <2>1, OnwardKeeps DEF QueueTask
    <3> QED BY <1>4, <1>6, <1>7, <3>1
  <2>2. CASE Move(s)
    <3>1. old
      BY <1>1, <1>2, <1>4, <2>2, MoveMoves DEF Moves
    <3> QED BY <1>6, <1>7, <3>1
  <2>3. CASE Upsert(s)
    <3>1. PICK j \in Ids : Writes(s, j)
      BY <2>3, UpsertWrites
    <3>2. CASE i = j
      BY <1>1, <3>1, <3>2 DEF Writes, LookedAfter, AskedBy, Question
    <3>3. CASE i # j
      <4>1. old
        BY <1>1, <1>2, <3>1, <3>3 DEF Writes
      <4> QED BY <1>6, <1>7, <4>1
    <3> QED BY <3>2, <3>3
  <2>4. CASE MatchExactly(s)
    <3>1. old
      BY <1>1, <2>4, MatchJudges DEF Judged
    <3> QED BY <1>6, <1>7, <3>1
  <2> QED BY <1>7, <2>1, <2>2, <2>3, <2>4 DEF ScanStep, Onward
<1>8. ASSUME NEW t \in tasks, Decide(t) PROVE LookedAfter(q)'
  <2>1. UNCHANGED <<tasks, scan, stranded>>
    BY <1>8 DEF Decide, history
  <2>2. CASE Judged(t.id, t.content, "ai_matched")
    <3>1. old
      BY <1>1, <2>2 DEF Judged
    <3> QED BY <1>3, <2>1, <3>1 DEF LookedAfter, AskedBy, Question
  <2> QED BY <1>5, <1>8, <2>1, <2>2, DecideJudges
<1> QED BY <1>5, <1>7, <1>8 DEF Next, DiskStep, vars, history

\* A row is never left pending with no one at it: a scan is identifying what it is
\* of, or there is a task for just that, which can be put into the queue again, or
\* a scan was cut off there.
THEOREM PendingRowsAreLookedAfter == Spec => []PendingHasTask
<1>1. Init => TypeInv /\ PendingHasTask
  <2>1. Init => Known = {}
    BY DEF Init, Known
  <2> QED BY <2>1, TypeInit DEF PendingHasTask
<1>2. TypeInv /\ PendingHasTask /\ [Next]_vars => (TypeInv /\ PendingHasTask)'
  BY TypeStep, PendingStep
<1> QED BY <1>1, <1>2, PTL DEF Spec

-----------------------------------------------------------------------------
(* Associations *)

\* The contents a row may be linked to: of its file, and of those it was of.
Its(i) == {row[i].fp.content} \cup earlier[i]

RowsRight == \A i \in Known : {row[i].content} \cup link[i] \subseteq Its(i)
TasksRight == \A t \in tasks : t.content \in Its(t.id)
AsksRight == \A s \in Scans : scan[s].at = "identify" => scan[s].content \in Its(scan[s].id)

\* A row that is about to be moved is of the file it is moved to, or has been of both.
OfBoth(i, c) == c = row[i].fp.content \/ {c, row[i].fp.content} \subseteq earlier[i]
MovesRight == \A s \in Scans : scan[s].at = "move" => OfBoth(scan[s].id, scan[s].fp.content)

RightInv == RowsRight /\ TasksRight /\ AsksRight /\ MovesRight

LEMMA RightImplies == RightInv => UpToDateRowsAreRight
BY DEF RightInv, RowsRight, Its, UpToDateRowsAreRight

LEMMA RightInit == Init => RightInv
<1> SUFFICES ASSUME Init PROVE RightInv
  OBVIOUS
<1>1. Known = {} /\ tasks = {}
  BY DEF Init, Known
<1>2. \A s \in Scans : scan[s].at = "rest"
  BY RestingIs DEF Init
<1> QED BY <1>1, <1>2 DEF RightInv, RowsRight, TasksRight, AsksRight, MovesRight

\* What Upsert makes of the row's contents, and of those of a move of that row.
LEMMA UpsertKeeps ==
  ASSUME TypeInv, NEW s \in Scans, NEW i \in Ids, Upsert(s), Writes(s, i)
  PROVE  /\ \A j \in Ids : earlier[j] \subseteq earlier'[j]
         /\ i \in Known => Its(i) \subseteq Its(i)' /\ (row'[i].fp # row[i].fp => row[i].fp.content \in earlier'[i])
         /\ scan[s].content \in Its(i)'
         /\ \A o \in Scans \ {s} : scan[o].at = "move" /\ scan[o].id = i => scan[s].fp.content \in earlier'[i]
<1>1. /\ \A j \in Ids : earlier[j] \subseteq earlier'[j]
      /\ earlier'[i] = earlier[i] \cup MakesWay(s, i)
  BY DEF Writes, TypeInv, PastTypes
<1>2. i \in Known => row'[i].fp = row[i].fp \/ row[i].fp.content \in earlier'[i]
  BY <1>1 DEF Writes, MakesWay, Known
<1>3. scan[s].content \in {scan[s].fp.content} \cup earlier'[i]
  BY <1>1 DEF MakesWay
<1>4. \A o \in Scans \ {s} : scan[o].at = "move" /\ scan[o].id = i => scan[s].fp.content \in earlier'[i]
  BY <1>1 DEF MakesWay
<1>5. i \in Known => Its(i) \subseteq Its(i)'
  BY <1>1, <1>2 DEF Its
<1>6. scan[s].content \in Its(i)'
  BY <1>3 DEF Writes, Its
<1> QED BY <1>1, <1>2, <1>4, <1>5, <1>6

\* A scan that has a row to move, or to identify, was given it by Look or Upsert.
LEMMA NewWork ==
  ASSUME TypeInv, [Next]_vars, NEW s \in Scans, scan'[s] # scan[s], scan'[s].at \in {"move", "identify"}
  PROVE  \/ Upsert(s)
         \/ /\ Look(s) /\ scan'[s].at = "move"
            /\ scan'[s].id \in MovedFrom(s) /\ scan'[s].fp = scan[s].fp
<1>0. scan \in [Scans -> Walkers] /\ scan[s] \in Walkers
  BY DEF TypeInv, ScanTypes
<1>1. PICK o \in Scans : ScanStep(o) \/ Interrupt(o)
  BY DEF Next, Decide, DiskStep, vars, history
<1>2. o = s
  BY <1>0, <1>1 DEF ScanStep, Walk, Examine, Hash, SkipFile, Look, Move, Upsert, MatchExactly, QueueTask, Answered, Interrupt
<1>3. CASE Walk(s)
  <2>1. Present \in SUBSET Fingerprints
    <3> SUFFICES ASSUME NEW p \in Paths, ~Free(p) PROVE [path |-> p, fp |-> disk[p]] \in Fingerprints
      BY DEF Present
    <3> QED BY DEF Fingerprints, TypeInv, DiskTypes, Free
  <2>2. PICK found \in SUBSET Present : scan' = [scan EXCEPT ![s] = GoesOn(found)]
    BY <1>3 DEF Walk
  <2>3. GoesOn(found).at \in {"rest", "next"} /\ scan'[s] = GoesOn(found)
    BY <1>0, <2>1, <2>2, GoesOnIs
  <2> QED BY <2>3
<1>4. CASE Examine(s)
  <2>1. PICK f \in scan[s].todo : scan'[s] = IF Unchanged(f) THEN GoesOn(scan[s].todo \ {f})
                        ELSE [Resting EXCEPT !.at = "hash", !.todo = scan[s].todo \ {f}, !.path = f.path, !.fp = f.fp]
    BY <1>0, <1>4 DEF Examine
  <2>2. GoesOn(scan[s].todo \ {f}).at \in {"rest", "next"}
    BY <1>0, GoesOnIs DEF Walkers
  <2>3. scan'[s].at \in {"rest", "next", "hash"}
    BY <2>1, <2>2 DEF Resting
  <2> QED BY <2>3
<1>5. CASE Hash(s)
  BY <1>0, <1>5 DEF Hash, Walkers
<1>6. CASE Look(s)
  BY <1>0, <1>6 DEF Look, Walkers
<1>7. CASE SkipFile(s) \/ MatchExactly(s) \/ QueueTask(s)
  <2>1. scan'[s] = GoesOn(scan[s].todo)
    BY <1>0, <1>7 DEF SkipFile, MatchExactly, QueueTask, Answered
  <2>2. scan'[s].at \in {"rest", "next"}
    BY <1>0, <2>1, GoesOnIs DEF Walkers
  <2> QED BY <2>2
<1>8. CASE Interrupt(s)
  BY <1>0, <1>8, RestingIs DEF Interrupt
<1>9. CASE Move(s)
  BY <1>9, MoveMoves
<1> QED BY <1>1, <1>2, <1>3, <1>4, <1>5, <1>6, <1>7, <1>8, <1>9 DEF ScanStep

\* The rows are those of the same files, unless one is moved or written.
SameRows == /\ Known' = Known
            /\ \A i \in Known : /\ row'[i].path = row[i].path /\ row'[i].fp = row[i].fp
                                /\ row'[i].content = row[i].content

LEMMA RowsStay ==
  ASSUME TypeInv, [Next]_vars
  PROVE  \/ SameRows /\ UNCHANGED <<asked, earlier>>
         \/ \E s \in Scans : Move(s) /\ Moves(s)
         \/ \E s \in Scans, j \in Ids : Upsert(s) /\ Writes(s, j)
<1>0. UNCHANGED row => SameRows
  BY DEF SameRows, Known
<1>1. ASSUME NEW s \in Scans, Onward(s) \/ QueueTask(s) PROVE SameRows /\ UNCHANGED <<asked, earlier>>
  BY <1>0, <1>1, OnwardKeeps DEF QueueTask, Answered
<1>2. ASSUME NEW s \in Scans, MatchExactly(s) PROVE SameRows /\ UNCHANGED <<asked, earlier>>
  BY <1>2, MatchJudges DEF Judged, SameRows, MatchExactly, Answered
<1>3. ASSUME NEW t \in tasks, Decide(t) PROVE SameRows /\ UNCHANGED <<asked, earlier>>
  <2>1. UNCHANGED <<asked, earlier>>
    BY <1>3 DEF Decide, history
  <2> QED BY <1>0, <1>3, <2>1, DecideJudges DEF Judged, SameRows
<1>4. ASSUME NEW s \in Scans, Move(s) PROVE Moves(s) \/ (SameRows /\ UNCHANGED <<asked, earlier>>)
  BY <1>0, <1>4, MoveMoves DEF Move, history
<1>5. ASSUME NEW s \in Scans, Upsert(s) PROVE \E j \in Ids : Writes(s, j)
  BY <1>5, UpsertWrites
<1> QED BY <1>0, <1>1, <1>2, <1>3, <1>4, <1>5 DEF Next, ScanStep, Onward, DiskStep, vars, history

\* What a row may be linked to, it may be linked to from then on.
LEMMA ItsStays == ASSUME TypeInv, MovesRight, [Next]_vars, NEW i \in Known
                  PROVE  Its(i) \subseteq Its(i)'
<1>0. i \in Ids
  BY DEF Known
<1>1. CASE SameRows /\ UNCHANGED earlier
  BY <1>1 DEF SameRows, Its
<1>2. ASSUME NEW s \in Scans, Move(s), Moves(s) PROVE Its(i) \subseteq Its(i)'
  <2>1. UNCHANGED earlier /\ scan[s].at = "move"
    BY <1>2 DEF Move, history
  <2>2. CASE i = scan[s].id
    BY <1>2, <2>1, <2>2 DEF Moves, MovesRight, OfBoth, Its
  <2>3. CASE i # scan[s].id
    BY <1>0, <1>2, <2>1, <2>3 DEF Moves, Its
  <2> QED BY <2>2, <2>3
<1>3. ASSUME NEW s \in Scans, NEW j \in Ids, Upsert(s), Writes(s, j) PROVE Its(i) \subseteq Its(i)'
  <2>1. CASE i = j
    BY <1>3, <2>1, UpsertKeeps
  <2>2. CASE i # j
    <3>1. earlier[i] \subseteq earlier'[i]
      BY <1>0, <1>3, UpsertKeeps
    <3> QED BY <1>0, <1>3, <2>2, <3>1 DEF Writes, Its
  <2> QED BY <2>1, <2>2
<1> QED BY <1>1, <1>2, <1>3, RowsStay

LEMMA RightStep == ASSUME TypeInv, RightInv, [Next]_vars PROVE RightInv'
<1>0. RowsRight /\ TasksRight /\ AsksRight /\ MovesRight
  BY DEF RightInv
<1>1. \A i \in Known : Its(i) \subseteq Its(i)'
  BY <1>0, ItsStays
<1>2. RowsRight'
  <2> SUFFICES ASSUME NEW i \in Known' PROVE {row'[i].content} \cup link'[i] \subseteq Its(i)'
    BY DEF RowsRight, Its
  <2>0. i \in Ids
    BY DEF Known
  <2>1. i \in Known => {row[i].content} \cup link[i] \subseteq Its(i)'
    BY <1>0, <1>1 DEF RowsRight
  <2>2. CASE UNCHANGED <<row, link>>
    BY <2>1, <2>2 DEF Known
  <2>3. ASSUME NEW s \in Scans, Onward(s) \/ QueueTask(s) PROVE UNCHANGED <<row, link>>
    BY <2>3, OnwardKeeps DEF QueueTask
  <2>4. ASSUME NEW s \in Scans, Move(s) PROVE {row'[i].content} \cup link'[i] \subseteq Its(i)'
    <3>1. UNCHANGED link
      BY <2>4 DEF Move
    <3>2. CASE Moves(s)
      BY <2>0, <2>1, <3>1, <3>2 DEF Moves
    <3> QED BY <2>2, <2>4, <3>1, <3>2, MoveMoves
  <2>5. ASSUME NEW s \in Scans, Upsert(s) PROVE {row'[i].content} \cup link'[i] \subseteq Its(i)'
    <3>1. PICK j \in Ids : Writes(s, j)
      BY <2>5, UpsertWrites
    <3>2. UNCHANGED link
      BY <2>5 DEF Upsert
    <3>3. CASE i = j
      <4>1. row'[i].content \in Its(i)'
        BY <2>5, <3>1, <3>3, UpsertKeeps DEF Writes
      <4>2. i \notin Known => link[i] = {}
        BY <2>0 DEF TypeInv, Filed
      <4> QED BY <2>1, <3>2, <4>1, <4>2
    <3>4. CASE i # j
      <4>1. i \in Known /\ row'[i] = row[i]
        BY <2>0, <3>1, <3>4 DEF Writes
      <4> QED BY <2>1, <3>2, <4>1
    <3> QED BY <3>3, <3>4
  <2>6. ASSUME NEW k \in Known, NEW c, NEW st, c \in Its(k), Judged(k, c, st)
        PROVE  {row'[i].content} \cup link'[i] \subseteq Its(i)'
    BY <1>1, <2>0, <2>1, <2>6 DEF Judged
  <2>7. ASSUME NEW s \in Scans, MatchExactly(s) PROVE {row'[i].content} \cup link'[i] \subseteq Its(i)'
    <3>1. scan[s].content \in Its(scan[s].id)
      BY <1>0, <2>7 DEF MatchExactly, AsksRight
    <3>2. scan[s].id \in Known /\ Judged(scan[s].id, scan[s].content, "matched")
      BY <2>7, MatchJudges
    <3> QED BY <2>6, <3>1, <3>2
  <2>8. ASSUME NEW t \in tasks, Decide(t) PROVE {row'[i].content} \cup link'[i] \subseteq Its(i)'
    <3>1. t.content \in Its(t.id)
      BY <1>0 DEF TasksRight
    <3>2. t.id \in Known /\ (Judged(t.id, t.content, "ai_matched") \/ UNCHANGED <<row, link>>)
      BY <2>8, DecideJudges
    <3> QED BY <2>2, <2>6, <3>1, <3>2
  <2> QED BY <2>2, <2>3, <2>4, <2>5, <2>7, <2>8 DEF Next, ScanStep, Onward, DiskStep, vars, history
<1>3. TasksRight'
  <2> SUFFICES ASSUME NEW t \in tasks' PROVE t.content \in Its(t.id)'
    BY DEF TasksRight, Its
  <2>1. CASE t \in tasks
    BY <1>0, <1>1, <2>1 DEF TasksRight, TypeInv, Filed
  <2>2. CASE t \notin tasks
    <3>1. PICK s \in Scans : QueueTask(s)
      BY <2>2 DEF Next, ScanStep, Walk, Examine, Hash, SkipFile, Look, Move, Upsert, MatchExactly, Interrupt,
                  Decide, DiskStep, vars, history
    <3>2. t.id = scan[s].id /\ t.content = scan[s].content
      BY <2>2, <3>1 DEF QueueTask, Question
    <3>3. scan[s].content \in Its(scan[s].id) /\ scan[s].id \in Known
      BY <1>0, <3>1 DEF AsksRight, QueueTask, TypeInv, AtHand
    <3> QED BY <1>1, <3>2, <3>3
  <2> QED BY <2>1, <2>2
<1>4. AsksRight'
  <2> SUFFICES ASSUME NEW s \in Scans, scan'[s].at = "identify",
                      NEW i, i = scan'[s].id, NEW c, c = scan'[s].content
               PROVE  c \in Its(i)'
    BY DEF AsksRight, Its
  <2>1. CASE scan'[s] = scan[s]
    BY <1>0, <1>1, <2>1 DEF AsksRight, TypeInv, AtHand
  <2>2. CASE Upsert(s)
    BY <2>2, UpsertWrites, UpsertKeeps DEF Writes
  <2> QED BY <2>1, <2>2, NewWork
<1>5. MovesRight'
  <2> SUFFICES ASSUME NEW s \in Scans, scan'[s].at = "move",
                      NEW i, i = scan'[s].id, NEW c, c = scan'[s].fp.content
               PROVE  OfBoth(i, c)'
    BY DEF MovesRight, OfBoth
  <2>1. CASE scan'[s] # scan[s]
    <3>1. CASE Upsert(s)
      BY <3>1, UpsertWrites DEF Writes
    <3>2. CASE Look(s) /\ scan'[s].id \in MovedFrom(s) /\ scan'[s].fp = scan[s].fp
      BY <3>2 DEF Look, MovedFrom, OfBoth
    <3> QED BY <2>1, <3>1, <3>2, NewWork
  <2>2. CASE scan'[s] = scan[s]
    <3>1. OfBoth(i, c) /\ i \in Known /\ i \in Ids
      BY <1>0, <2>2 DEF MovesRight, TypeInv, AtHand, Known
    <3>2. CASE SameRows /\ UNCHANGED earlier
      BY <3>1, <3>2 DEF SameRows, OfBoth
    <3>3. ASSUME NEW o \in Scans, Move(o), Moves(o) PROVE OfBoth(i, c)'
      <4>1. UNCHANGED earlier /\ OfBoth(scan[o].id, scan[o].fp.content)
        BY <1>0, <3>3 DEF Move, history, MovesRight
      <4>2. CASE i = scan[o].id
        <5>1. row'[i].fp.content = scan[o].fp.content
          BY <3>3, <4>2 DEF Moves
        <5> QED BY <3>1, <4>1, <4>2, <5>1 DEF OfBoth
      <4>3. CASE i # scan[o].id
        BY <3>1, <3>3, <4>1, <4>3 DEF Moves, OfBoth
      <4> QED BY <4>2, <4>3
    <3>4. ASSUME NEW o \in Scans, NEW j \in Ids, Upsert(o), Writes(o, j) PROVE OfBoth(i, c)'
      <4>1. earlier[i] \subseteq earlier'[i] /\ o # s
        <5>1. scan[o].at = "upsert"
          BY <3>4 DEF Upsert
        <5> QED BY <2>2, <3>1, <3>4, <5>1, UpsertKeeps
      <4>2. CASE i = j
        <5>1. row'[i].fp = row[i].fp \/ row[i].fp.content \in earlier'[i]
          BY <3>1, <3>4, <4>2, UpsertKeeps
        <5>2. scan[o].fp.content \in earlier'[i] /\ row'[i].fp = scan[o].fp
          <6>1. s \in Scans \ {o} /\ scan[s].at = "move" /\ scan[s].id = i
            BY <2>2, <4>1
          <6> QED BY <3>4, <4>2, <6>1, UpsertKeeps DEF Writes
        <5> QED BY <3>1, <4>1, <5>1, <5>2 DEF OfBoth
      <4>3. CASE i # j
        BY <3>1, <3>4, <4>1, <4>3 DEF Writes, OfBoth
      <4> QED BY <4>2, <4>3
    <3> QED BY <3>1, <3>2, <3>3, <3>4, RowsStay
  <2> QED BY <2>1, <2>2
<1> QED BY <1>2, <1>3, <1>4, <1>5 DEF RightInv

\* The items a row is linked to are those of its file, whatever is moved, copied
\* or replaced and whichever scans overlap or are cut off, or of a file the row was
\* of before: a row the next scan skips is linked to nothing else.
THEOREM LinksFollowTheFile == Spec => []UpToDateRowsAreRight
<1>1. Init => TypeInv /\ RightInv
  BY TypeInit, RightInit
<1>2. TypeInv /\ RightInv /\ [Next]_vars => (TypeInv /\ RightInv)'
  BY TypeStep, RightStep
<1>3. RightInv => UpToDateRowsAreRight
  BY RightImplies
<1> QED BY <1>1, <1>2, <1>3, PTL DEF Spec

-----------------------------------------------------------------------------
(* Files are identified once *)

Alone == \A s, o \in Scans : Active(s) /\ Active(o) => s = o

\* The database's UNIQUE(library_id, rel_path).
OneRowEach == \A i, j \in Known : row[i].path = row[j].path => i = j

\* No row says that the file at hand is unchanged, and none is to be moved to it.
Changed == \A s \in Scans : /\ scan[s].at \in {"hash", "look", "upsert"} =>
                                 \A i \in RowsAt(scan[s].path) : row[i].fp # scan[s].fp
                            /\ scan[s].at = "upsert" => MovedFrom(s) = {}

Lasting(c) == \A i \in Ids : c \notin earlier[i]
HasRow(c) == \E i \in Known : row[i].content = c /\ row[i].fp.content = c
Counted == \A c \in Contents : Lasting(c) => asked[c] <= 1 /\ (asked[c] >= 1 => HasRow(c))

OnceInv == OneRowEach /\ (~overlapped => Alone /\ Changed /\ Counted)

LEMMA OnceImplies == OnceInv => IdentifiedOnce
BY DEF OnceInv, Counted, Lasting, IdentifiedOnce

LEMMA OnceInit == Init => OnceInv
<1> SUFFICES ASSUME Init PROVE OnceInv
  OBVIOUS
<1>1. Known = {} /\ \A c \in Contents : asked[c] = 0
  BY DEF Init, Known
<1>2. \A s \in Scans : scan[s].at = "rest"
  BY RestingIs DEF Init
<1> QED BY <1>1, <1>2 DEF OnceInv, OneRowEach, Alone, Active, Changed, Counted

LEMMA OneRowStep == ASSUME TypeInv, OneRowEach, [Next]_vars PROVE OneRowEach'
<1>1. CASE SameRows
  BY <1>1 DEF SameRows, OneRowEach
<1>2. ASSUME NEW s \in Scans, Moves(s) PROVE OneRowEach'
  BY <1>2 DEF Moves, OneRowEach, RowsAt, Known
<1>3. ASSUME NEW s \in Scans, NEW j \in Ids, Writes(s, j) PROVE OneRowEach'
  BY <1>3 DEF Writes, OneRowEach, RowsAt, Known
<1> QED BY <1>1, <1>2, <1>3, RowsStay

\* As long as scans have not overlapped, the others rest while one takes a step.
LEMMA Turn ==
  ASSUME TypeInv, [Next]_vars, ~overlapped => Alone, ~overlapped'
  PROVE  /\ ~overlapped
         /\ \/ UNCHANGED scan
            \/ \E s \in Scans : /\ ScanStep(s) \/ Interrupt(s)
                               /\ \A o \in Scans \ {s} : ~Active(o) /\ scan'[o] = scan[o]
<1>0. scan \in [Scans -> Walkers] /\ overlapped \in BOOLEAN
  BY DEF TypeInv, ScanTypes
<1>1. ~overlapped
  BY <1>0 DEF Next, ScanStep, Walk, Examine, Hash, SkipFile, Look, Move, Upsert, MatchExactly, QueueTask, Answered,
              Interrupt, Decide, DiskStep, vars, history
<1>2. ASSUME NEW s \in Scans, ScanStep(s) \/ Interrupt(s)
      PROVE  \A o \in Scans \ {s} : ~Active(o) /\ scan'[o] = scan[o]
  <2>1. \A o \in Scans \ {s} : scan'[o] = scan[o]
    BY <1>0, <1>2 DEF ScanStep, Walk, Examine, Hash, SkipFile, Look, Move, Upsert, MatchExactly, QueueTask, Answered,
                      Interrupt
  <2>2. CASE Walk(s)
    BY <2>1, <2>2 DEF Walk
  <2>3. CASE ~Walk(s)
    <3>1. Active(s)
      BY <1>2, <2>3 DEF ScanStep, Examine, Hash, SkipFile, Look, Move, Upsert, MatchExactly, QueueTask, Interrupt, Active
    <3> QED BY <1>1, <2>1, <3>1 DEF Alone
  <2> QED BY <2>2, <2>3
<1>3. (\E s \in Scans : ScanStep(s) \/ Interrupt(s)) \/ UNCHANGED scan
  BY DEF Next, Decide, DiskStep, vars, history
<1> QED BY <1>1, <1>2, <1>3

\* One step of the only scan: what it examines has changed, what it takes for new
\* has not been moved.
LEMMA ChangedStep ==
  ASSUME TypeInv, [Next]_vars, Changed, NEW s \in Scans, ScanStep(s) \/ Interrupt(s),
         scan'[s].at \in {"hash", "look", "upsert"}, NEW p, p = scan'[s].path
  PROVE  /\ \A i \in RowsAt(p)' : row'[i].fp # scan'[s].fp
         /\ scan'[s].at = "upsert" => MovedFrom(s)' = {}
<1>0. scan \in [Scans -> Walkers] /\ scan[s] \in Walkers
  BY DEF TypeInv, ScanTypes
<1>1. CASE Examine(s)
  <2>1. PICK f \in scan[s].todo : scan'[s] = IF Unchanged(f) THEN GoesOn(scan[s].todo \ {f})
                        ELSE [Resting EXCEPT !.at = "hash", !.todo = scan[s].todo \ {f}, !.path = f.path, !.fp = f.fp]
    BY <1>0, <1>1 DEF Examine
  <2>2. GoesOn(scan[s].todo \ {f}).at \in {"rest", "next"}
    BY <1>0, GoesOnIs DEF Walkers
  <2>3. ~Unchanged(f)
    BY <2>1, <2>2
  <2>4. scan'[s].at = "hash" /\ scan'[s].path = f.path /\ scan'[s].fp = f.fp
    BY <2>1, <2>3 DEF Resting
  <2>5. UNCHANGED row
    BY <1>1 DEF Examine
  <2> QED BY <2>3, <2>4, <2>5 DEF Unchanged, RowsAt, Known
<1>2. CASE Hash(s) \/ Look(s)
  <2>1. UNCHANGED row /\ scan[s].at \in {"hash", "look"}
    BY <1>2 DEF Hash, Look
  <2>2. scan'[s].path = scan[s].path /\ scan'[s].fp = scan[s].fp
    BY <1>0, <1>2 DEF Hash, Look, Walkers
  <2>3. scan'[s].at = "upsert" => MovedFrom(s) = {} /\ scan'[s].content = scan[s].content
    BY <1>0, <1>2 DEF Hash, Look, Walkers
  <2> QED BY <2>1, <2>2, <2>3 DEF Changed, RowsAt, Known, MovedFrom
<1>3. ~Walk(s) /\ ~SkipFile(s) /\ ~MatchExactly(s) /\ ~QueueTask(s)
  <2>1. ASSUME NEW todo \in SUBSET Fingerprints, scan'[s] = GoesOn(todo) PROVE FALSE
    BY <2>1, GoesOnIs
  <2>2. ~Walk(s)
    <3>1. Present \in SUBSET Fingerprints
      <4> SUFFICES ASSUME NEW q \in Paths, ~Free(q) PROVE [path |-> q, fp |-> disk[q]] \in Fingerprints
        BY DEF Present
      <4> QED BY DEF Fingerprints, TypeInv, DiskTypes, Free
    <3> QED BY <1>0, <2>1, <3>1 DEF Walk
  <2> QED BY <1>0, <2>1, <2>2 DEF SkipFile, MatchExactly, QueueTask, Answered, Walkers
<1>4. ~Interrupt(s)
  BY <1>0, RestingIs DEF Interrupt
<1>5. ~Move(s)
  BY MoveMoves
<1>6. ~Upsert(s)
  BY UpsertWrites DEF Writes
<1> QED BY <1>1, <1>2, <1>3, <1>4, <1>5, <1>6 DEF ScanStep

LEMMA CountedUpsert ==
  ASSUME TypeInv, OneRowEach, Changed, Counted, NEW s \in Scans, NEW j \in Ids, Upsert(s), Writes(s, j),
         NEW c \in Contents, Lasting(c)'
  PROVE  asked'[c] <= 1 /\ (asked'[c] >= 1 => HasRow(c)')
<1> DEFINE mine == scan[s].content
           f == scan[s].fp
<1>0. asked \in [Contents -> 0..2] /\ mine \in Contents /\ scan[s].at = "upsert"
  BY DEF TypeInv, PastTypes, AtHand, Upsert, Hashed
<1>1. Lasting(c) /\ c \notin MakesWay(s, j)
  BY DEF Writes, Lasting, TypeInv, PastTypes
<1>2. j \in Known => row[j].fp # f
  BY <1>0 DEF Writes, Changed, RowsAt
<1>3. j \in Known => c # row[j].content /\ c # row[j].fp.content
  BY <1>1, <1>2 DEF MakesWay, Known
<1>4. asked[c] <= 1 /\ (asked[c] >= 1 => HasRow(c))
  BY <1>1 DEF Counted
<1>5. CASE c = mine
  <2>1. f.content = c
    BY <1>1, <1>5 DEF MakesWay
  <2>2. ~HasRow(c)
    <3> SUFFICES ASSUME NEW i \in Known, row[i].content = c, row[i].fp.content = c PROVE FALSE
      BY DEF HasRow
    <3>1. row[i].path = scan[s].path
      BY <1>0, <1>5, <2>1 DEF Changed, MovedFrom
    <3>2. i = j
      BY <3>1 DEF Writes, RowsAt, OneRowEach
    <3> QED BY <1>3, <3>2
  <2>3. asked'[c] = 1
    BY <1>0, <1>4, <1>5, <2>2 DEF Upsert, AskFor
  <2>4. HasRow(c)'
    BY <1>5, <2>1 DEF Writes, HasRow
  <2> QED BY <2>3, <2>4
<1>6. CASE c # mine
  <2>1. asked'[c] = asked[c]
    BY <1>0, <1>6 DEF Upsert, AskFor
  <2>2. HasRow(c) => HasRow(c)'
    BY <1>3 DEF Writes, HasRow, Known
  <2> QED BY <1>4, <2>1, <2>2
<1> QED BY <1>5, <1>6

LEMMA OnceStep == ASSUME TypeInv, RightInv, OnceInv, [Next]_vars PROVE OnceInv'
<1>1. OneRowEach /\ OneRowEach'
  BY OneRowStep DEF OnceInv
<1>2. SUFFICES ASSUME ~overlapped' PROVE (Alone /\ Changed /\ Counted)'
  BY <1>1 DEF OnceInv
<1>3. Alone /\ Changed /\ Counted
  BY <1>2, Turn DEF OnceInv
<1>4. \/ UNCHANGED scan
      \/ \E s \in Scans : (ScanStep(s) \/ Interrupt(s)) /\ \A o \in Scans \ {s} : ~Active(o) /\ scan'[o] = scan[o]
  BY <1>2, <1>3, Turn
<1>5. Alone'
  BY <1>3, <1>4 DEF Alone, Active
<1>6. Changed'
  <2> SUFFICES ASSUME NEW s \in Scans, scan'[s].at \in {"hash", "look", "upsert"}, NEW p, p = scan'[s].path
               PROVE  /\ \A i \in RowsAt(p)' : row'[i].fp # scan'[s].fp
                      /\ scan'[s].at = "upsert" => MovedFrom(s)' = {}
    BY DEF Changed, RowsAt, Known
  <2>1. CASE UNCHANGED scan
    <3>1. SameRows
      BY <2>1, RowsStay, MoveMoves DEF Writes, Move, Upsert
    <3> QED BY <1>3, <2>1, <3>1 DEF SameRows, Changed, RowsAt, MovedFrom
  <2>2. CASE ScanStep(s) \/ Interrupt(s)
    BY <1>3, <2>2, ChangedStep
  <2> QED BY <1>4, <2>1, <2>2 DEF Active
<1>7. Counted'
  <2> SUFFICES ASSUME NEW c \in Contents, Lasting(c)' PROVE asked'[c] <= 1 /\ (asked'[c] >= 1 => HasRow(c)')
    BY DEF Counted, Lasting, HasRow
  <2>1. CASE SameRows /\ UNCHANGED <<asked, earlier>>
    BY <1>3, <2>1 DEF SameRows, Counted, Lasting, HasRow
  <2>2. ASSUME NEW s \in Scans, Move(s), Moves(s) PROVE asked'[c] <= 1 /\ (asked'[c] >= 1 => HasRow(c)')
    <3>1. UNCHANGED <<asked, earlier>> /\ scan[s].at = "move"
      BY <2>2 DEF Move, history
    <3>2. Lasting(c)
      BY <3>1 DEF Lasting
    <3>3. OfBoth(scan[s].id, scan[s].fp.content) /\ scan[s].id \in Ids
      BY <2>2, <3>1 DEF RightInv, MovesRight, Moves, Known
    <3>4. HasRow(c) => HasRow(c)'
      <4> SUFFICES ASSUME NEW i \in Known, row[i].content = c, row[i].fp.content = c PROVE HasRow(c)'
        BY DEF HasRow
      <4>1. CASE i = scan[s].id
        <5>1. scan[s].fp.content = c
          BY <3>2, <3>3, <4>1 DEF OfBoth, Lasting
        <5> QED BY <2>2, <4>1, <5>1 DEF Moves, HasRow
      <4>2. CASE i # scan[s].id
        BY <2>2, <4>2 DEF Moves, HasRow, Known
      <4> QED BY <4>1, <4>2
    <3> QED BY <1>3, <3>1, <3>2, <3>4 DEF Counted
  <2>3. ASSUME NEW s \in Scans, NEW j \in Ids, Upsert(s), Writes(s, j)
        PROVE  asked'[c] <= 1 /\ (asked'[c] >= 1 => HasRow(c)')
    BY <1>1, <1>3, <2>3, CountedUpsert
  <2> QED BY <2>1, <2>2, <2>3, RowsStay
<1> QED BY <1>5, <1>6, <1>7

\* As long as no two scans run at once, a file that is moved, copied or met again is
\* not identified again: each content is taken for a new file's at most once, unless
\* a row of it made way for another file.
THEOREM MovedIsNotIdentifiedAgain == Spec => []IdentifiedOnce
<1>1. Init => TypeInv /\ RightInv /\ OnceInv
  BY TypeInit, RightInit, OnceInit
<1>2. TypeInv /\ RightInv /\ OnceInv /\ [Next]_vars => (TypeInv /\ RightInv /\ OnceInv)'
  BY TypeStep, RightStep, OnceStep
<1>3. OnceInv => IdentifiedOnce
  BY OnceImplies
<1> QED BY <1>1, <1>2, <1>3, PTL DEF Spec
=============================================================================
