---------------------------- MODULE HlsSession ----------------------------
(***************************************************************************)
(* One session of the on-demand HLS transcoder (nipa-stream/src/hls.rs):   *)
(* requests for segments, the ffmpeg they start and restart, the files it  *)
(* writes one after the other, the reaper of idle sessions and the         *)
(* shutdown.  Requests hold the session while they run; it is dropped, and *)
(* its ffmpeg killed with it (kill_on_drop), when nobody holds it.         *)
(*                                                                         *)
(* The content of a segment is how much of it has been written.  ffmpeg is *)
(* external: from the segment it is started at, it opens a file, fills it, *)
(* closes it and opens the next; it may die at any time.                   *)
(***************************************************************************)
EXTENDS Integers, FiniteSets

CONSTANTS Requests,    \* requests that may be in flight on the session
          Count,       \* segments of the playlist
          SeekGap,     \* seek_gap_segments
          WaitLimit,   \* segment_wait_timeout, in ticks
          IdleLimit    \* idle_timeout, in ticks

ASSUME CountAssumption == Count \in Nat \ {0} /\ SeekGap \in Nat
ASSUME LimitsAssumption == WaitLimit \in Nat /\ IdleLimit \in Nat /\ WaitLimit < IdleLimit

VARIABLES listed,  \* is the session in the manager's map?
          dir,     \* does its directory exist?
          file,    \* the files of the directory
          ffmpeg,  \* the child process
          lock,    \* who holds the process mutex across an await
          idle,    \* ticks since last_access
          req,     \* the requests
          closer,  \* the reaper and the shutdown
          starts,  \* ffmpegs started so far, at most 2 are told apart
          spoilt   \* what has happened to the files: a crash, a kill, a seek back

vars == <<listed, dir, file, ffmpeg, lock, idle, req, closer, starts, spoilt>>

Closers == {"reaper", "shutdown"}
InitSegment == -1                            \* the init segment, -1.m4s
Segments == 0..Count - 1
Files == Segments \cup {InitSegment}

Off == [run |-> FALSE, target |-> InitSegment, start |-> 0, open |-> FALSE]
Away == [at |-> "away", index |-> InitSegment, waited |-> 0, polled |-> FALSE]

TypeOK == /\ listed \in BOOLEAN /\ dir \in BOOLEAN
          /\ file \in [Files -> {"none", "empty", "partial", "whole"}]
          /\ ffmpeg \in [run : BOOLEAN, target : Files \cup {Count}, start : Segments, open : BOOLEAN]
          /\ lock \in Requests \cup {"free"}
          /\ idle \in 0..IdleLimit + 1
          /\ req \in [Requests -> [at : {"away", "found", "ensure", "restart", "wait", "read"},
                                   index : Files, waited : 0..WaitLimit, polled : BOOLEAN]]
          /\ closer \in [Closers -> {"resting", "judged", "removed", "stopped"}]
          /\ starts \in 0..2
          /\ spoilt \subseteq {"crash", "kill", "back"}

Init == /\ listed = TRUE /\ dir = TRUE
        /\ file = [f \in Files |-> "none"]
        /\ ffmpeg = Off
        /\ lock = "free"
        /\ idle = 0
        /\ req = [r \in Requests |-> Away]
        /\ closer = [k \in Closers |-> "resting"]
        /\ starts = 0
        /\ spoilt = {}

-----------------------------------------------------------------------------
(* ffmpeg *)

Runs == ffmpeg.run /\ dir

Open == /\ Runs /\ ~ffmpeg.open /\ ffmpeg.target # Count
        /\ ffmpeg' = [ffmpeg EXCEPT !.open = TRUE]
        /\ file' = [file EXCEPT ![ffmpeg.target] = "empty"]
        /\ UNCHANGED spoilt

Fill == /\ Runs /\ ffmpeg.open /\ file[ffmpeg.target] = "empty"
        /\ file' = [file EXCEPT ![ffmpeg.target] = "partial"]
        /\ UNCHANGED <<ffmpeg, spoilt>>

\* The init segment is followed by the segment ffmpeg was started at.
Close == /\ Runs /\ ffmpeg.open /\ file[ffmpeg.target] = "partial"
         /\ file' = [file EXCEPT ![ffmpeg.target] = "whole"]
         /\ ffmpeg' = [ffmpeg EXCEPT !.open = FALSE,
                         !.target = IF ffmpeg.target = InitSegment THEN ffmpeg.start ELSE ffmpeg.target + 1]
         /\ UNCHANGED spoilt

\* The source ends, or ffmpeg dies; it has nothing to write to without a directory.
Exit == /\ ffmpeg.run
        /\ ffmpeg' = [ffmpeg EXCEPT !.run = FALSE]
        /\ spoilt' = IF ffmpeg.target = Count THEN spoilt ELSE spoilt \cup {"crash"}
        /\ UNCHANGED file

Kill == /\ ffmpeg' = [ffmpeg EXCEPT !.run = FALSE]
        /\ spoilt' = IF ffmpeg.run THEN spoilt \cup {"kill"} ELSE spoilt

Transcode == /\ Open \/ Fill \/ Close \/ Exit
             /\ UNCHANGED <<listed, dir, lock, idle, req, closer, starts>>

-----------------------------------------------------------------------------
(* Requests *)

Holding(r) == req[r].at # "away"
Closing(k) == closer[k] \in {"removed", "stopped"}

\* (mutant) the child outlives its handle
KeptOnDrop == ffmpeg

\* kill_on_drop: the process of a session nobody holds any more is killed.
KilledOnDrop == [ffmpeg EXCEPT !.run = FALSE]

\* Request r is answered, with a file or an error, and lets go of the session.
Answer(r) ==
  /\ req' = [req EXCEPT ![r] = Away]
  /\ ffmpeg' = IF listed \/ \E q \in Requests \ {r} : Holding(q) \/ \E k \in Closers : Closing(k)
               THEN ffmpeg ELSE KilledOnDrop

\* session(): an unknown session is refused.
Find(r, i) == /\ req[r].at = "away"
              /\ listed
              /\ req' = [req EXCEPT ![r] = [Away EXCEPT !.at = "found", !.index = i]]
              /\ UNCHANGED <<listed, dir, file, ffmpeg, lock, idle, closer, starts, spoilt>>

Ready(f) == f \in Files /\ file[f] \in {"partial", "whole"}

Touched == 0

\* touch, then the fast path: a file with content is served at once.
Check(r) == /\ req[r].at = "found"
            /\ idle' = Touched
            /\ req' = [req EXCEPT ![r].at = IF Ready(req[r].index) THEN "read" ELSE "ensure"]
            /\ UNCHANGED <<listed, dir, file, ffmpeg, lock, closer, starts, spoilt>>

\* latest_segment: the highest number in the directory, whoever wrote it.
Present == {s \in Segments : file[s] # "none"}
Latest(s) == s \in Present /\ \A p \in Present : p <= s

\* The number the request is for; the init segment comes with segment 0.
Requested(r) == IF req[r].index = InitSegment THEN 0 ELSE req[r].index

NeedsRestart(r) == \/ ~ffmpeg.run
                   \/ Requested(r) = 0 /\ file[InitSegment] = "none"
                   \/ \E s \in Segments : /\ Latest(s)
                                          /\ \/ Requested(r) < s
                                             \/ Requested(r) - s > SeekGap

\* ensure_transcoding takes the process mutex; a running ffmpeg that is near
\* enough is waited for, any other is sent the kill.
Ensure(r) == /\ req[r].at = "ensure"
             /\ lock = "free"
             /\ IF NeedsRestart(r)
                THEN /\ req' = [req EXCEPT ![r].at = "restart"]
                     /\ lock' = r
                ELSE /\ req' = [req EXCEPT ![r].at = "wait"]
                     /\ UNCHANGED lock
             /\ UNCHANGED <<listed, dir, file, ffmpeg, idle, closer, starts, spoilt>>

\* (mutant) nothing is removed before the restart
LastKept == file

\* The last segment may be half written: it alone is removed.
LastRemoved == [f \in Files |-> IF Latest(f) THEN "none" ELSE file[f]]

\* The old ffmpeg is gone; a new one starts at the requested segment.
Respawn(r) == /\ req[r].at = "restart"
              /\ file' = LastRemoved
              /\ ffmpeg' = [run |-> TRUE, target |-> InitSegment, start |-> Requested(r), open |-> FALSE]
              /\ lock' = "free"
              /\ req' = [req EXCEPT ![r].at = "wait"]
              /\ starts' = IF starts = 0 THEN 1 ELSE 2
              /\ spoilt' = IF \E p \in Present : p > Requested(r) THEN spoilt \cup {"back"} ELSE spoilt
              /\ UNCHANGED <<listed, dir, idle, closer>>

\* ... or cannot be started: the old one is gone, and so is its last segment.
SpawnFails(r) == /\ req[r].at = "restart"
                 /\ file' = LastRemoved
                 /\ Kill
                 /\ lock' = "free"
                 /\ req' = [req EXCEPT ![r] = Away]
                 /\ UNCHANGED <<listed, dir, idle, closer, starts>>

\* (mutant) a segment counts as complete as soon as it has content
CompleteEarly(i) == Ready(i)

\* wait_until_ready: the next segment's file tells that this one is complete.
Complete(i) == Ready(i) /\ (i = InitSegment \/ ~ffmpeg.run \/ Ready(i + 1))

\* (mutant) the wait has no deadline
GivesUpOnExit(r) == ~ffmpeg.run

\* ffmpeg has ended without the segment, or the deadline is over.
GivesUp(r) == ~ffmpeg.run \/ req[r].waited = WaitLimit

\* One round of the poll; it looks at the process under the mutex.
Poll(r) == /\ req[r].at = "wait"
           /\ lock = "free"
           /\ \/ /\ Complete(req[r].index)
                 /\ req' = [req EXCEPT ![r].at = "read", ![r].polled = TRUE]
                 /\ UNCHANGED ffmpeg
              \/ /\ ~Complete(req[r].index)
                 /\ GivesUp(r)
                 /\ Answer(r)
           /\ UNCHANGED <<listed, dir, file, lock, idle, closer, starts, spoilt>>

\* The file is read as it is now; it may be gone.
Read(r) == /\ req[r].at = "read"
           /\ Answer(r)
           /\ UNCHANGED <<listed, dir, file, lock, idle, closer, starts, spoilt>>

\* The client is gone: the request ends where it waits, its locks are released
\* and a kill it has sent takes effect.
Drop(r) == /\ Holding(r)
           /\ IF lock = r
              THEN /\ req' = [req EXCEPT ![r] = Away]
                   /\ Kill
                   /\ lock' = "free"
              ELSE /\ Answer(r)
                   /\ UNCHANGED <<lock, spoilt>>
           /\ UNCHANGED <<listed, dir, file, idle, closer, starts>>

-----------------------------------------------------------------------------
(* The reaper and the shutdown *)

\* (mutant) a session that still transcodes is not idle
ExpiredAndQuiet == idle > IdleLimit /\ ~ffmpeg.run

Expired == idle > IdleLimit

\* The reaper looks at its snapshot of the map: the session has been idle.
Judge == /\ closer["reaper"] = "resting"
         /\ listed
         /\ Expired
         /\ closer' = [closer EXCEPT !["reaper"] = "judged"]
         /\ UNCHANGED <<listed, dir, file, ffmpeg, lock, idle, req, starts, spoilt>>

\* ... and then removes it, unless the shutdown has.
Reap == /\ closer["reaper"] = "judged"
        /\ listed' = FALSE
        /\ closer' = [closer EXCEPT !["reaper"] = IF listed THEN "removed" ELSE "resting"]
        /\ UNCHANGED <<dir, file, ffmpeg, lock, idle, req, starts, spoilt>>

Drain == /\ listed
         /\ listed' = FALSE
         /\ closer' = [closer EXCEPT !["shutdown"] = "removed"]
         /\ UNCHANGED <<dir, file, ffmpeg, lock, idle, req, starts, spoilt>>

\* stop: under the process mutex.
StopFfmpeg(k) == /\ closer[k] = "removed"
                 /\ lock = "free"
                 /\ Kill
                 /\ closer' = [closer EXCEPT ![k] = "stopped"]
                 /\ UNCHANGED <<listed, dir, file, lock, idle, req, starts>>

\* The directory is removed and the closer lets go of the session.
Clean(k) == /\ closer[k] = "stopped"
            /\ dir' = FALSE
            /\ file' = [f \in Files |-> "none"]
            /\ closer' = [closer EXCEPT ![k] = "resting"]
            /\ ffmpeg' = IF \E r \in Requests : Holding(r) THEN ffmpeg ELSE KilledOnDrop
            /\ UNCHANGED <<listed, lock, idle, req, starts, spoilt>>

\* Time passes while requests sleep: every other step of theirs takes none, and
\* a request polls before it oversleeps.
Tick == /\ \A r \in Requests : \/ ~Holding(r)
                               \/ req[r].at = "wait" /\ req[r].waited < WaitLimit
        /\ idle' = IF idle <= IdleLimit THEN idle + 1 ELSE idle
        /\ req' = [r \in Requests |-> IF Holding(r) THEN [req[r] EXCEPT !.waited = @ + 1] ELSE req[r]]
        /\ UNCHANGED <<listed, dir, file, ffmpeg, lock, closer, starts, spoilt>>

RequestStep(r) == Check(r) \/ Ensure(r) \/ Respawn(r) \/ SpawnFails(r) \/ Poll(r) \/ Read(r)
CloserStep == Judge \/ Reap \/ \E k \in Closers : StopFfmpeg(k) \/ Clean(k)

Next == \/ Transcode
        \/ \E r \in Requests : \/ \E i \in Files : Find(r, i)
                               \/ RequestStep(r)
                               \/ Drop(r)
        \/ CloserStep
        \/ Drain
        \/ Tick

\* Tasks of the runtime go on, the mutexes serve in order and time passes.
\* Nothing is assumed of ffmpeg, of the clients and of the shutdown.
Spec == /\ Init
        /\ [][Next]_vars
        /\ \A r \in Requests : SF_vars(RequestStep(r))
        /\ SF_vars(CloserStep)
        /\ SF_vars(Tick)

-----------------------------------------------------------------------------
(* Properties *)

\* No ffmpeg outlives its session: a running one belongs to a session that is in
\* the map, or that a request or a closer still holds and will let go of.
NoOrphanFfmpeg == ffmpeg.run => \/ listed
                                \/ \E r \in Requests : Holding(r)
                                \/ \E k \in Closers : Closing(k)

\* "The next segment has appeared" does tell that a segment is complete as long
\* as a single ffmpeg has written the files and has not died over them.
WaitedIsWhole ==
  \A r \in Requests : /\ req[r].at = "read" /\ req[r].polled /\ req[r].index # InitSegment
                      /\ starts <= 1 /\ spoilt = {}
                      => file[req[r].index] \in {"whole", "none"}

\* A segment that is half written is the one ffmpeg is writing or was when it
\* ended.
LeftoversAreWhole ==
  \A s \in Segments : file[s] \in {"empty", "partial"} => ffmpeg.target = s

\* A half-written segment is left over only after a seek back.
LeftoverOnlyAfterSeekBack == "back" \in spoilt \/ LeftoversAreWhole

\* Every request is answered: with a file, an error or a timeout.
EveryRequestAnswered == \A r \in Requests : Holding(r) ~> ~Holding(r)

\* An idle session is closed unless somebody comes back to it.
IdleSessionReaped == idle > IdleLimit ~> (~listed \/ idle <= IdleLimit)
=============================================================================
