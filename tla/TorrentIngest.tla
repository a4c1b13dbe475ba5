---------------------------- MODULE TorrentIngest ----------------------------
(***************************************************************************)
(* Downloads and their way into the library                                *)
(* (nipa-server/src/api_download.rs, nipa-download/src/lib.rs): the        *)
(* librqbit session is the source of truth, the table torrents is a        *)
(* projection of it, and torrent_ingests remembers what has been entered.  *)
(* Every ten seconds the reconciler rebuilds the projection and scans the  *)
(* download directory for each finished torrent that is not done; adding   *)
(* and deleting a torrent rebuild the projection too.                      *)
(*                                                                         *)
(* The session and the download of files are external.  A row is what the  *)
(* library recorded of a torrent's files: nothing, a part, or all of them. *)
(***************************************************************************)
EXTENDS Naturals

CONSTANTS Torrents,
          Handlers,     \* add and delete requests that may be in flight
          MaxAdds,      \* bound on the additions of each torrent
          MaxFaults     \* bound on failed scans and statements, cut requests, restarts

\* Assumed wherever the module is used.
BoundsAssumption == MaxAdds \in Nat /\ MaxFaults \in Nat

VARIABLES session,     \* the librqbit session, persisted
          files,       \* what is on disk of each torrent
          row,         \* what the library recorded of the files
          ingest,      \* torrent_ingests
          projection,  \* the table torrents
          handler,     \* add and delete requests that have changed the session
          reconciler,  \* the background task
          adds,        \* times each torrent was added
          faults,
          missed       \* torrents whose files the last scan to meet them could not read

vars == <<session, files, row, ingest, projection, handler, reconciler, adds, faults, missed>>

Amount == {"none", "part", "full"}
SessionState == {"absent", "live", "paused", "finished"}
Snapshots == [Torrents -> SessionState]
NoSnapshot == [t \in Torrents |-> "absent"]

\* snap: the last list() of the session.  left: what the scan has still to
\* look at.  todo: finished torrents of the last list().
Resting == [at |-> "rest", snap |-> NoSnapshot, todo |-> {}, torrent |-> {}, left |-> {}]
Answered == [at |-> "rest", snap |-> NoSnapshot]

TypeOK == /\ session \in Snapshots
          /\ files \in [Torrents -> Amount] /\ row \in [Torrents -> Amount]
          /\ ingest \in [Torrents -> {"none", "pending", "done"}]
          /\ projection \in Snapshots
          /\ handler \in [Handlers -> [at : {"rest", "commit"}, snap : Snapshots]]
          /\ reconciler \in [at : {"rest", "commit", "list", "next", "scan", "mark"}, snap : Snapshots,
                             todo : SUBSET Torrents, torrent : SUBSET Torrents, left : SUBSET Torrents]
          /\ adds \in [Torrents -> 0..MaxAdds]
          /\ faults \in 0..MaxFaults
          /\ missed \subseteq Torrents

Init == /\ session = NoSnapshot
        /\ files = [t \in Torrents |-> "none"] /\ row = [t \in Torrents |-> "none"]
        /\ ingest = [t \in Torrents |-> "none"]
        /\ projection = NoSnapshot
        /\ handler = [h \in Handlers |-> Answered]
        /\ reconciler = Resting
        /\ adds = [t \in Torrents |-> 0]
        /\ faults = 0
        /\ missed = {}

-----------------------------------------------------------------------------
(* The torrent engine and the requests *)

Download(t) == /\ session[t] = "live"
               /\ files[t] \in {"none", "part"}
               /\ files' = [files EXCEPT ![t] = IF @ = "none" THEN "part" ELSE "full"]
               /\ UNCHANGED <<session, row, ingest, projection, handler, reconciler, adds, faults, missed>>

\* The engine has checked what is on disk.
Finish(t) == /\ session[t] = "live"
             /\ files[t] = "full"
             /\ session' = [session EXCEPT ![t] = "finished"]
             /\ UNCHANGED <<files, row, ingest, projection, handler, reconciler, adds, faults, missed>>

\* The session has changed; its list() follows at once, its transaction later.
Await(h) == /\ handler[h].at = "rest"
            /\ handler' = [handler EXCEPT ![h] = [at |-> "commit", snap |-> session']]

\* add_download: once the torrent is in the session, the projection is rebuilt.
\* A subscription's poll adds it too, and leaves the projection to the reconciler.
Add(t) == /\ session[t] = "absent"
          /\ adds[t] < MaxAdds
          /\ session' = [session EXCEPT ![t] = "live"]
          /\ adds' = [adds EXCEPT ![t] = @ + 1]
          /\ UNCHANGED <<files, row, ingest, projection, reconciler, faults, missed>>

\* delete_download, with the files or without.
Delete(t, withFiles) ==
  /\ session[t] # "absent"
  /\ session' = [session EXCEPT ![t] = "absent"]
  /\ files' = IF withFiles THEN [files EXCEPT ![t] = "none"] ELSE files
  /\ UNCHANGED <<row, ingest, projection, reconciler, adds, faults, missed>>

AddRequest(h, t) == Add(t) /\ Await(h)
AddByPoll(t) == Add(t) /\ UNCHANGED handler
DeleteRequest(h, t, withFiles) == Delete(t, withFiles) /\ Await(h)

\* pause_download and resume_download leave the projection to the reconciler.
Pause(t) == /\ session[t] = "live"
            /\ session' = [session EXCEPT ![t] = "paused"]
            /\ UNCHANGED <<files, row, ingest, projection, handler, reconciler, adds, faults, missed>>

Resume(t) == /\ session[t] = "paused"
             /\ session' = [session EXCEPT ![t] = "live"]
             /\ UNCHANGED <<files, row, ingest, projection, handler, reconciler, adds, faults, missed>>

-----------------------------------------------------------------------------
(* The projection *)

\* (mutant) torrents are inserted or updated, never deleted
Upserted(snap) == [t \in Torrents |-> IF snap[t] = "absent" THEN projection[t] ELSE snap[t]]

\* One transaction empties the table and inserts the snapshot.
Projected(snap) == snap

HandlerCommits(h) == /\ handler[h].at = "commit"
                     /\ projection' = Projected(handler[h].snap)
                     /\ handler' = [handler EXCEPT ![h] = Answered]
                     /\ UNCHANGED <<session, files, row, ingest, reconciler, adds, faults, missed>>

Tick == /\ reconciler.at = "rest"
        /\ reconciler' = [reconciler EXCEPT !.at = "commit", !.snap = session]
        /\ UNCHANGED <<session, files, row, ingest, projection, handler, adds, faults, missed>>

Commit == /\ reconciler.at = "commit"
          /\ projection' = Projected(reconciler.snap)
          /\ reconciler' = [Resting EXCEPT !.at = "list"]
          /\ UNCHANGED <<session, files, row, ingest, handler, adds, faults, missed>>

-----------------------------------------------------------------------------
(* The way into the library *)

\* The session is listed again; a torrent has a manifest when it is finished.
List == /\ reconciler.at = "list"
        /\ reconciler' = [Resting EXCEPT !.at = "next", !.todo = {t \in Torrents : session[t] = "finished"}]
        /\ UNCHANGED <<session, files, row, ingest, projection, handler, adds, faults, missed>>

\* (mutant) a torrent that was begun counts as done
Begun(t) == ingest[t] \in {"pending", "done"}

Done(t) == ingest[t] = "done"

OnDisk == {t \in Torrents : files[t] # "none"}

\* A torrent that is not done is marked as pending, and the directory walked.
Take(t) == /\ reconciler.at = "next"
           /\ t \in reconciler.todo
           /\ \/ /\ Done(t)
                 /\ reconciler' = [reconciler EXCEPT !.todo = @ \ {t}]
                 /\ UNCHANGED ingest
              \/ /\ ~Done(t)
                 /\ ingest' = [ingest EXCEPT ![t] = "pending"]
                 /\ reconciler' = [reconciler EXCEPT !.at = "scan", !.torrent = {t}, !.todo = @ \ {t},
                                                     !.left = OnDisk]
           /\ UNCHANGED <<session, files, row, projection, handler, adds, faults, missed>>

\* The scan records whatever it finds of each torrent's files; what is recorded
\* already is skipped, which comes to the same.
ScanFile(t) == /\ reconciler.at = "scan"
               /\ t \in reconciler.left
               /\ row' = [row EXCEPT ![t] = IF files[t] = "none" THEN @ ELSE files[t]]
               /\ reconciler' = [reconciler EXCEPT !.left = @ \ {t}]
               /\ missed' = missed \ {t}
               /\ UNCHANGED <<session, files, ingest, projection, handler, adds, faults>>

Fault == faults < MaxFaults /\ faults' = faults + 1

\* Some or all of them cannot be walked or hashed: the scan skips those and goes on.
SkipFile(t) == /\ reconciler.at = "scan"
               /\ t \in reconciler.left
               /\ Fault
               /\ row' \in {row, [row EXCEPT ![t] = IF @ = "none" THEN "part" ELSE @]}
               /\ reconciler' = [reconciler EXCEPT !.left = @ \ {t}]
               /\ missed' = missed \cup {t}
               /\ UNCHANGED <<session, files, ingest, projection, handler, adds>>

\* (mutant) the scan is started, not waited for
ScanStarted == reconciler.at = "scan"

ScanOver == reconciler.at = "scan" /\ reconciler.left = {}

MarkDone == /\ ScanOver
            /\ ingest' = [t \in Torrents |-> IF t \in reconciler.torrent THEN "done" ELSE ingest[t]]
            /\ reconciler' = [reconciler EXCEPT !.at = "next", !.torrent = {}, !.left = {}]
            /\ UNCHANGED <<session, files, row, projection, handler, adds, faults, missed>>

\* A scan that fails leaves the torrent pending; the others go on.
ScanFails == /\ reconciler.at = "scan"
             /\ Fault
             /\ reconciler' = [reconciler EXCEPT !.at = "next", !.torrent = {}, !.left = {}]
             /\ UNCHANGED <<session, files, row, ingest, projection, handler, adds, missed>>

Rest == /\ reconciler.at = "next"
        /\ reconciler.todo = {}
        /\ reconciler' = Resting
        /\ UNCHANGED <<session, files, row, ingest, projection, handler, adds, faults, missed>>

-----------------------------------------------------------------------------
(* Faults *)

\* A statement of the reconciler fails: the rest waits for the next tick.
DbFails == /\ reconciler.at # "rest"
           /\ Fault
           /\ reconciler' = Resting
           /\ UNCHANGED <<session, files, row, ingest, projection, handler, adds, missed>>

\* A request is cut off, or its transaction fails, after the session changed.
CutRequest(h) == /\ handler[h].at # "rest"
                 /\ Fault
                 /\ handler' = [handler EXCEPT ![h] = Answered]
                 /\ UNCHANGED <<session, files, row, ingest, projection, reconciler, adds, missed>>

\* The tables and the session survive a restart.
Restart == /\ Fault
           /\ handler' = [h \in Handlers |-> Answered]
           /\ reconciler' = Resting
           /\ UNCHANGED <<session, files, row, ingest, projection, adds, missed>>

ReconcilerStep == \/ Commit \/ List \/ MarkDone \/ Rest
                  \/ \E t \in Torrents : Take(t) \/ ScanFile(t)

Next == \/ \E t \in Torrents : \/ Download(t) \/ Finish(t) \/ Pause(t) \/ Resume(t) \/ AddByPoll(t)
                               \/ \E h \in Handlers : \/ AddRequest(h, t)
                                                      \/ \E withFiles \in BOOLEAN : DeleteRequest(h, t, withFiles)
        \/ \E h \in Handlers : HandlerCommits(h) \/ CutRequest(h)
        \/ Tick \/ ReconcilerStep
        \/ ScanFails \/ DbFails \/ Restart
        \/ \E t \in Torrents : SkipFile(t)

-----------------------------------------------------------------------------
(* Properties *)

\* A torrent that was added once and is done is in the library as a whole,
\* whatever was downloading, paused, cut or restarted meanwhile, unless the last
\* scan to meet its files could not read them: the scan skips those in silence.
DoneIsWhole ==
  \A t \in Torrents : adds[t] <= 1 /\ ingest[t] = "done" /\ session[t] = "finished"
                     => row[t] = "full" \/ t \in missed

\* A finished torrent is entered in the library in the end: the entry does not
\* hang on an event that a crash may lose.
FinishedIsEntered == \A t \in Torrents : <>[](session[t] = "finished") => <>(ingest[t] = "done")

\* When the session comes to rest the projection agrees with it, whatever stale
\* snapshots were committed on the way.
ProjectionConverges == \A s \in Snapshots : <>[](session = s) => <>[](projection = s)
=============================================================================
