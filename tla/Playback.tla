------------------------------ MODULE Playback ------------------------------
(***************************************************************************)
(* A film from the client's question how to play it to the end of the      *)
(* server: the decision, the HLS session that may come of it, the signed   *)
(* address that opens it for a while (nipa-server/src/api_playback.rs,     *)
(* stream_token.rs), and the graceful shutdown that waits for the answers  *)
(* under way before it drains the sessions (main.rs).                      *)
(*                                                                         *)
(* The session is that of HlsSession, which is made here and not there     *)
(* from the start.  An address is as old as its session; the segments      *)
(* carry the playlist's.                                                   *)
(***************************************************************************)
EXTENDS HlsSession, PlaybackDecision, Playlist

CONSTANTS Profiles,    \* the clients
          Films,       \* the files: what the database and ffprobe say of them
          HasFfmpeg,   \* were ffmpeg and ffprobe found at start?
          TokenLife    \* how long an address is good for, in ticks

ASSUME TokenAssumption == TokenLife \in Nat /\ HasFfmpeg \in BOOLEAN
ASSUME LengthAssumption == \A f \in Films : /\ f.probe.duration \in Nat
                                            /\ f.probe.duration > 0 => SegmentCount(f.probe.duration) = Count

VARIABLES made,    \* the film the session was made of, and how it is played
          asked,   \* a client asks how to play a film, and is not answered yet
          age,     \* ticks since the address was signed
          open,    \* does a client hold on to an answer without an end?
          phase    \* of the server

playVars == <<made, asked, age, open, phase>>
allVars == <<vars, playVars>>

NoFilm == [duration |-> 0, method |-> "direct_play"]   \* there is no session yet

Phases == {"up", "draining", "closing", "stopping", "ended"}

TypesOK == /\ TypeOK
           /\ made.duration \in Nat /\ made.method \in Methods
           /\ asked \in BOOLEAN
           /\ age \in 0..TokenLife + 1
           /\ open \in BOOLEAN
           /\ phase \in Phases

\* The server is up, nobody has asked for a film yet.
Start == /\ listed = FALSE /\ dir = FALSE
         /\ file = [f \in Files |-> "none"]
         /\ ffmpeg = Off
         /\ lock = "free"
         /\ idle = 0
         /\ req = [r \in Requests |-> Away]
         /\ closer = [k \in Closers |-> "resting"]
         /\ starts = 0
         /\ spoilt = {}
         /\ made = NoFilm /\ asked = FALSE
         /\ age = 0
         /\ open = FALSE
         /\ phase = "up"

-----------------------------------------------------------------------------
(* The answers *)

\* (mutant) connections that are kept alive go on to be served
ServedWhileDraining == phase \in {"up", "draining"}

\* New requests are taken until the signal.
Serving == phase = "up"

\* (mutant) an address that is too old is good while the session is in use
VerifiedOrUsed == age <= TokenLife \/ idle <= IdleLimit

\* verify_hls: the address of the session, not yet too old.
Verified == age <= TokenLife

\* load_file_source: the row of the file, and a path inside its library.
Loads(f) == f.row /\ f.inside

NoProbe == [format |-> <<>>, streams |-> <<>>, duration |-> 0, bitrate |-> NoRate]

\* ensure_probe: what is stored, else what ffprobe says, if it can read the file.
\* A client that plays everything needs no ffprobe.
Probes(p, f) ==
  IF f.stored THEN {f.probe}
  ELSE IF HasFfmpeg THEN IF f.readable THEN {f.probe} ELSE {}
  ELSE IF p.client = "nipa" THEN {NoProbe} ELSE {}

\* A session is made for what is not played directly, given ffmpeg and a length.
Wanted(p, f) ==
  {film \in {[duration |-> Summary(probe).duration, method |-> Decide(p, Judged(probe, f.extension)).method] :
              probe \in Probes(p, f)} :
     film.method # "direct_play" /\ HasFfmpeg /\ film.duration > 0}

\* playback_info, up to the end of ffprobe.
AskHow == /\ Serving
          /\ ~asked
          /\ asked' = TRUE
          /\ UNCHANGED <<vars, made, age, open, phase>>

\* create_session and sign_subject.
MakeSession(film) == /\ listed' = TRUE /\ dir' = TRUE
                     /\ idle' = 0
                     /\ made' = film
                     /\ age' = 0
                     /\ UNCHANGED <<file, ffmpeg, lock, req, closer, starts, spoilt>>

\* ... and its answer: a direct address, an error, or a session of its own; of the
\* sessions the first is followed.
TellHow == /\ asked
           /\ asked' = FALSE
           /\ \E p \in Profiles, f \in Films :
                \/ /\ Loads(f) /\ made = NoFilm
                   /\ \E film \in Wanted(p, f) : MakeSession(film)
                \/ /\ Loads(f) /\ made = NoFilm => Wanted(p, f) = {}
                   /\ UNCHANGED <<vars, made, age>>
           /\ UNCHANGED <<open, phase>>

\* hls_playlist, and a segment that the playlist has not: the session is touched.
GetPlaylist == /\ Serving /\ Verified
               /\ listed
               /\ idle' = Touched
               /\ UNCHANGED <<listed, dir, file, ffmpeg, lock, req, closer, starts, spoilt, playVars>>

\* hls_segment, for an index the playlist has.
GetSegment(r, i) == /\ Serving /\ Verified
                    /\ Find(r, i)
                    /\ UNCHANGED playVars

\* events, which never end, and direct_stream, which sends a film as fast as the
\* client takes it; the client decides when it has had enough.
Hold == /\ Serving
        /\ ~open
        /\ open' = TRUE
        /\ UNCHANGED <<vars, made, asked, age, phase>>

LetGo == /\ open
         /\ open' = FALSE
         /\ UNCHANGED <<vars, made, asked, age, phase>>

-----------------------------------------------------------------------------
(* The shutdown *)

Signal == /\ phase = "up"
          /\ phase' = "draining"
          /\ UNCHANGED <<vars, made, asked, age, open>>

\* The last answer is out: serve returns.
ServeEnds == /\ phase = "draining"
             /\ ~asked /\ ~open /\ \A r \in Requests : ~Holding(r)
             /\ phase' = "closing"
             /\ UNCHANGED <<vars, made, asked, age, open>>

\* HlsManager::shutdown takes the sessions, if there are any left.
DrainSessions == /\ phase = "closing"
                 /\ phase' = "stopping"
                 /\ IF listed THEN Drain ELSE UNCHANGED vars
                 /\ UNCHANGED <<made, asked, age, open>>

\* The root is removed, the process ends, and the reaper and what it was about to
\* stop end with it.
End == /\ phase = "stopping"
       /\ closer["shutdown"] = "resting"
       /\ phase' = "ended"
       /\ dir' = FALSE
       /\ file' = [f \in Files |-> "none"]
       /\ ffmpeg' = KilledOnDrop
       /\ closer' = [k \in Closers |-> "resting"]
       /\ UNCHANGED <<listed, lock, idle, req, starts, spoilt, made, asked, age, open>>

-----------------------------------------------------------------------------
Alive == phase # "ended"

OldTick == /\ Tick
           /\ age' = IF made # NoFilm /\ age <= TokenLife THEN age + 1 ELSE age
           /\ UNCHANGED <<made, asked, open, phase>>

\* The steps of HlsSession that need nothing from here.
SessionStep(step) == Alive /\ step /\ UNCHANGED playVars

PlaybackNext ==
  \/ AskHow \/ TellHow \/ GetPlaylist
  \/ Hold \/ LetGo
  \/ \E r \in Requests : \/ \E i \in Files : GetSegment(r, i)
                         \/ SessionStep(RequestStep(r))
                         \/ SessionStep(Drop(r))
  \/ SessionStep(Transcode)
  \/ SessionStep(CloserStep)
  \/ Alive /\ OldTick
  \/ Signal \/ ServeEnds \/ DrainSessions \/ End

\* The tasks go on and time passes; ffprobe ends.  Nothing is assumed of the
\* clients: one that holds on to an answer need not let go.
PlaybackSpec == /\ Start
                /\ [][PlaybackNext]_allVars
                /\ \A r \in Requests : SF_allVars(SessionStep(RequestStep(r)))
                /\ SF_allVars(SessionStep(CloserStep))
                /\ SF_allVars(Alive /\ OldTick)
                /\ WF_allVars(TellHow)
                /\ WF_allVars(ServeEnds \/ DrainSessions \/ End)

-----------------------------------------------------------------------------
(* Properties *)

\* Once the signal has come the server ends, unless a client holds on to an answer
\* that has no end: then nothing else is shut down either.
ShutdownEnds == phase = "draining" ~> (phase = "ended" \/ open)

\* The playlist of the session fits its film, wherever the film ends in its last
\* segment, and ffmpeg was started where a segment of it begins, or a little before.
PlaylistFits ==
  made # NoFilm => Fits(made.duration) /\ StartsAt(made.duration, made.method, ffmpeg.start)

\* When the address has grown too old the session goes, however busy the client
\* was: nothing it still may do keeps it.
OldAddressFreesSession == age > TokenLife ~> ~listed
=============================================================================
