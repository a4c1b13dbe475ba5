# nipaserver in TLA+

Specifications of nipaserver, a media server that identifies anime files with
the help of a language model, downloads releases and streams them: what is
modelled, what TLC checks and what TLAPS proves. Line references are to the
files under `src/`; `PROJECT.json` maps every definition to the lines it
stands for and lists the hazards line by line.

## The system

One process (tokio tasks, SQLite through sqlx, an in-memory broadcast channel
of events) made of these components:

| Component | State | Operations | Talks to |
|---|---|---|---|
| HLS session manager (`nipa-stream/src/hls.rs`) | map of sessions, each with a directory of segments, an ffmpeg child, the last access | create, segment, stop, reaper, drain | playback API, ffmpeg, file system |
| Scrape queue (`nipa-server/src/scrape.rs`) | rows of `scrape_tasks`, a bounded channel, one worker, a cancellation token | enqueue, run, confidence gate, requeue, confirm, shutdown | scan, steward tools, agent, ingest, event bus |
| Library scan (`scan.rs`) | rows of `media_files`, links in `file_item` | walk, skip, hash, move detection, upsert, match, AI task | dandanplay, scrape queue, ingest |
| Downloads and automatic ingest (`api_download.rs`, `nipa-download`) | the librqbit session, tables `torrents` and `torrent_ingests` | add, delete, pause, resume, reconcile, ingest | librqbit, library scan |
| RSS subscriptions (`api_download.rs`, `nipa-download`) | `subscriptions`, `subscription_entries` | create, update, delete, poll by timer or by request | HTTP feeds, downloads |
| Steward chat memory (`steward/mod.rs`) | `chat_messages`, `chat_sessions.summary` | chat, assemble the context, compact | model, tools |
| Ingest of results (`ingest.rs`) | items, external ids, `file_item` | find or create series, season, episode; fill metadata | scan, scrape queue |
| User data (`userdata.rs`, `api_userdata.rs`) | `watch_history`, favourites | report progress, mark played, resume, next up | player |
| Image cache (`images.rs`) | files on disk, throttle | fetch once, serve | TMDB, Bangumi |
| Playback (`api_playback.rs`, `stream_token.rs`, `nipa-stream/src/playback.rs`, `probe.rs`) | `media_streams` as probe cache, signed addresses that expire | probe, decide, start a session, sign a URL | ffprobe, HLS |
| Metadata providers (`nipa-providers`) | TTL cache, token bucket | search, detail, episodes | HTTP |
| dandanplay client (`nipa-match`) | time of the last request | match, comments | HTTP |
| Scanner (`nipa-scanner`) | none; a limiter | walk, hash, evidence, plan | library scan |
| Library lists (`api_library.rs`) and the page that scrolls them (`webui`, `LibraryView`) | items and marks; the works on the page | filter, order, count, page; load, load more | ingest, user data |
| Event bus and SSE (`api.rs`) | bounded broadcast channel | send, subscribe | every component, the web UI |
| Start-up and shutdown (`main.rs`) | handles of the above | start, graceful shutdown | every component |

The agent runtime (`nipa-agent`) is a repository of its own and is treated as
external, like librqbit, SQLite, ffmpeg and the HTTP services.

### What is hard

Every `await` is a point where another task may run, and a request's future is
dropped when its client leaves. State is split between SQLite, memory, the file
system and child processes, and no transaction spans two of them. The
properties that make each component correct follow from that:

- **HLS**: no request is answered with half a segment; a wait ends; no ffmpeg
  outlives its session; a session in use is not reaped.
- **Scrape queue**: every request is decided; rows and channel agree; the last
  request decides; a doubtful result is done only by the user's word.
- **Scan**: a moved file keeps its identification; a row that counts as up to
  date is linked to what the file holds, also when scans overlap or are cut.
- **Downloads**: a finished torrent is entered, as a whole, once, across
  crashes; the projection converges to the session.
- **Subscriptions**: no release is added twice; an entry that counts as
  downloaded was; the best release is added in the end.
- **Steward**: no message gets out of reach of the model; prompts have no hole.
- **Ingest**: a work is one series or film, a season and an episode are one
  item, known ids decide, what is filled in stays.
- **User data**: seen stays seen whatever reports come late; a position to
  resume makes sense; the next episode never goes back.
- **Image cache**: what is published is a whole file.
- **Playback**: the playlist, handed out before anything is transcoded, fits the
  film; ffmpeg starts where a segment does; an address that is too old keeps no
  session; the shutdown ends.
- **Metadata and match clients**: the pace and the interval hold whoever waits
  and whoever is dropped; an answer from the cache is recent although slow
  callers overwrite newer ones.
- **Scrolling**: pages taken by offset from a list that changes skip nothing, and
  the scrolling ends.

## Modules

Each component is one module, ingest two (what it promises and how it gets there);
`MC<module>` instantiates it for TLC (values and symmetry only), each run has its
`.cfg`, and `<module>_proofs` holds the theorems. Definitions marked `(mutant)` are
plausible bugs that the properties must detect; no specification uses them. Some
variables are histories that no guard reads (`stale`, `lost`, `sent`, LibraryScan's
`asked`, `earlier`, `stranded`, `overlapped`, `starts`, `spoilt`, `adds`, `missed`,
`shared`, `cut`, `broken`, `steady`, `came`, `gap`, `taken`): they say which faults or
overlaps have happened, or how close two calls were, so that a property can state what
the code guarantees without them. A module that others only instantiate states its
assumptions as plain definitions; the module that instantiates it has the ASSUME.

**StewardMemory** A message is its row id; a summary is the set of messages it
digests. Each statement of `chat`, `assemble_context` and `maybe_compact` is an
action (`Ask`, `Recall`, `Assemble`, `StoreTool`, `StoreReply`, `PickOldest`,
`ReadPrevious`, `CommitDigest`), and `Finish` ends a request at any point.

**ScrapeQueue** Rows, channel, callers (`Create`, `Requeue`, `Send`, `Confirm`)
and the worker (`Take`, `Start`, `Answer`, `Merge`, `Write`); failed statements
(`DbFails`), dropped callers (`Dropped`), the token (`Shutdown`, `Stop`) and
`Restart`, which keeps rows and loses the channel. `lost` is the set of rows
whose request a fault took.

**RequestService** What the scrape service promises of requests: each one is open,
then served, alone and once, then decided, or it is lost; a file enters the library
only while its task is served. ScrapeQueue implements it (`RequestsAreServedOnce`):
the requests that callers hold, that lie in the channel and that the worker has not
started on are the open ones (`Waiting`), the one it works on is served
(`InService`).

**HlsSession** One session: requests pass lookup, touch, fast path, lock, restart
decision, wait and read; ffmpeg writes empty, partial and whole files one after the
other and may die, or fail to start (`SpawnFails`); the reaper and the drain are
closers. Time is `idle`; the wait limit is below the idle limit, as in the configuration
(60 s and 120 s), which is all that the properties use of them.

**Playback** extends HlsSession, PlaybackDecision and Playlist to the life of a film: a
client asks how to play it (`AskHow`, then ffprobe, then `TellHow`), which may make the
session (`MakeSession`, remembered as `made`); playlist and segments are served under an
address that ages (`Verified`); `Hold` and `LetGo` are answers without an end (an event
stream, a film played directly); `Signal`, `ServeEnds`, `DrainSessions` and `End` are
the shutdown in the order of `main.rs`. Only one session is followed; others share
nothing with it but the shutdown.

**PlaybackDecision** The choice between playing, copying and encoding as
operators on what ffprobe says and what the client's profile takes, with the
reasons and the defaults. **Playlist** The number of segments, their starts and
lengths, and where ffmpeg is started in the source, in milliseconds.

**LibraryScan** The steps of one file (`Examine`, `Hash`, `Look`, `Move`, `Upsert`,
`MatchExactly`, `QueueTask`), several scans at once, and the user's files changing
between any two steps: they come, go, are renamed, copied, replaced and touched. A
file's content stands for its size and hash, so that contents are assumed to differ in
both; touching a file changes its time alone. The walk is one step that may miss files
it cannot read; what it would see of a change in its midst, a file at two paths, it also
sees of a copy. A file that is gone by the time it is hashed, or cannot be read, is
skipped (`SkipFile`). A file whose exact match or merge fails falls to a task
(`QueueTask`); whether or not the channel takes the request, the task is there, and its
row pending. The AI may decide a task at any time and again (`Decide`), and links the
row only if it is sure and the merge succeeds. Flags choose which kinds of change a run
allows, `Copies` and `Busy`.

**AtomicIngest** What ingest promises: results enter the library one after the
other. `Enter` is the whole of `ingest_result`: find or create the series or
film (`Choices`: by anchor, then by title), season and episode, link the file,
attach ids, fill metadata; `Poster` is the statement that may follow. A trial
has no library, so its inserts fail on the foreign key. An id that is told as text is
attached like a number, but anchors nothing (`IsNumber`).

**IngestTree** How the scrape worker and the scans (`Jobs`) get there: `Open`
begins a transaction and looks for the item, `Merge` writes and commits, `Fail`
rolls back. A transaction of SQLite in WAL mode commits only if nobody has
written since it began to read (`fresh`). `FillPoster` comes after the
transaction. `MergesAreSerial` says that this implements AtomicIngest.

**WatchState** Each request of `api_userdata.rs` is one action (`Start`,
`Report`, `MarkPlayed`, `MarkUnplayed`, `MarkFavorite`), with `PlayState` for
`resolve_play_state`; reports come in any order. The home page's queries are
operators on the state (`Resumable`, `NextOf`, `Candidates`).

**ImageCache** One image and its three file names. A request finds, fetches, creates,
writes in two halves and renames; a request for a width checks for the scaled file,
decodes and draws it. A writer keeps its file when the name goes (`node`), so that two
downloads may write one file under two names. `Leave` drops a request at an await, but a
call handed to the blocking pool is made all the same. A write of the download
(`WriteFails`) or of the scaled image (`DrawFails`) fails on a full disk, and what has
been written stays.

**MetadataClient** One service: the TTL cache, bounded, that drops what has
expired and then the oldest; the token bucket whose waiters are not queued; the
calls of the five tools, one key after the other, overlapping, failing,
cancelled. What an answer says is its `age`, the time since the service changed
its mind. **MatchClient** The lock under which a caller sleeps the rest of the
interval; callers that are dropped give it back. The credentials come from the
first server that answers, at start or never.

**Outbound** puts the two and ImageCache side by side. They share nothing, so
one of them runs at a time (`which`), and the state space is their sum.

**LibraryScroll** The server's list (filter, order, count and rows in two statements)
and the page that asks for more by the number of works it shows and decides when it has
them all (`Ends`). Works arrive and are marked meanwhile. The page asks for premieres
and ratings, too, but the server knows only names and falls back to the order of arrival
(`ByName`). **Viewing** is the sum of it and WatchState (`part`).

**SubscriptionPoll** A release is an episode and the rank of its group; `Step`
is one statement or one external call of a poll. `Cut` drops a poll anywhere,
`Delete` cascades to the entries, `Create` may reuse the id.

**TorrentIngest** Session, files, rows, `torrent_ingests` and projection; the
reconciler's commit, list and scan, torrent by torrent, some of whose files cannot be
read (`SkipFile`, remembered as `missed`); add and delete requests,
whose rebuild of the projection may commit a stale list. Scans of the download
directory that users start are left out. **Downloads** puts the two side by side
like Outbound and Viewing (`part`): for the poll an added torrent is a call that may
fail, for the torrents an addition that may come at any time, and nothing else
passes between them. Each part has its fairness (`PollingSpec`, `IngestingSpec`).

Apart from Playback and its session the components share no variables; where a
component calls another, the module of the caller has the callee's effect as a
step (a merge in ScrapeQueue and LibraryScan, a scan in TorrentIngest), and the
callee's module has the calls as its inputs.

## Runs

Passing runs show what the code guarantees, violations are findings: a document
promises what a trace refutes.

| Run | Bounds | Shows |
|---|---|---|
| StewardOverlap | 2 requests, 8 rows | messages are lost only through a stale digest; the window has no hole; a prompt misses only what was compacted between its two reads |
| StewardForgets | 2 requests, 6 rows | *violation*: the second of two compactions loses the digest of the first |
| ScrapeQueue | a task and a trial, 2 callers, channel of 2, 4 requests | rows and requests agree, the last request decides, doubt is reviewed, every request that no fault takes is decided; implements RequestService |
| HlsSafety | 2 requests, 3 segments, gap 1 | no orphan ffmpeg; waited-for segments are whole; half segments are left only by seeks back |
| Playback | 3 films (copied, 8.25 s; played directly, 8 s; encoded, 4.251 s), 2 clients, 1 request, 2 segments, an address good for 1 tick | playlists fit, requests are answered, idle sessions are reaped, an address that is too old frees its session, the shutdown ends unless an endless answer is held |
| ScanOverlap | 2 paths, 2 contents, 2 times, 2 scans, 3 changes of the files, 1 interruption or file that cannot be read | up-to-date rows are linked to what they hold or held; only overlaps and files that made way are identified twice; a pending row has a scan at it or a task, unless its scan was cut off there |
| ScanRenames | 3 paths, 2 contents, 1 scan | *violation*: a chain of renames fails every scan |
| IngestTree | 4 results of one work, 2 libraries and a trial, 2 jobs, 3 merges | overlapping merges implement serial ones, nothing is doubled, known ids decide, repeats add nothing |
| Viewing | 3 series in 5 episodes, a short film, 3 requests, 3 seconds; or 5 works, pages of 2, 4 queries (2 orders, 3 filters) | resumable is in the middle, next up never goes back, the page is filled; a complete page skips nothing that stayed, scrolling ends |
| Outbound | 2 tools, 3 keys, cache of 2, burst of 2; or 3 scans, an interval of 3; or 3 requests for an image | answers are recent, pace and interval are kept; a download that is alone publishes whole files; half a file is being written unless a writer was cut off or failed |
| SubsOverlap | a release of each of 2 episodes, the first bad, timer and a request, 2 lives, 1 fault | added once, entries tell the truth, claims are worked on, the best release is added in the end |
| TorrentIngest | 2 torrents, 1 request, 1 fault | done is whole, finished is entered, the projection converges |

### Why these bounds

Every race that is modelled is between two actors, or an actor and itself after a fault:
two requests, two scans, two polls or a handler and the reconciler reach it. Three
requests for an image because a truncated original takes two writers and a reader; three
scans because the one that is dropped leaves two to compete for the lock. Three keys in
a cache of two make room by age, and a detail lives longer than a search, so that what
has expired goes first. Five works and pages of two give a second and a third page and
works that come before and among them. The films' lengths are the longest that gets two
segments (the rest of 250 ms gets none), a whole number of segments, and the shortest
that gets two; the proof covers every length. Two contents tell right from wrong links;
two paths give a move, a copy, a replacement and a swap of scans over them (for more
paths the properties of ScanOverlap are proved), three a chain of renames; two episodes
put a bad release before a good one, while the choice between releases of one episode
needs two of one and is met by no run: the safety properties are proved for any
releases; three segments and a gap of one give seeks ahead, back and far; eight rows
give two compactions with rows left over; three merges give a work entered anew, found
by id or title, and a repeat. The reported positions of WatchState in Viewing are the
limits of 5 % and 90 % and their neighbours. Counters (`MaxMessages`, `MaxRequests`,
`MaxRows`, `MaxChanges`, `MaxMerges`, `MaxAdds`, `MaxLives`, `MaxFaults`, `MaxNow`) are
guards that bound histories and nothing else. Symmetry is used for safety properties and
for action properties that treat the symmetric values alike, not where liveness is
checked. Deadlock is checked except in the runs of the steward and of Viewing, where the
bound ends the behaviours of a database that in truth has no end, and of Playback, where
the server ends.

### Fairness

The worker, the reconciler, the timer and the handlers that wait for the database are
tasks of the runtime and go on (weak fairness). In HlsSession the requests, the closers
and the clock have strong fairness: tokio's mutexes serve in order, so that a request
that keeps finding the lock free gets it, and time passes whatever else happens. A
sender waiting for room has strong fairness because the channel serves waiters in order.
In SubscriptionPoll a feed that can be fetched again and again is fetched, and a torrent
that can be added is added in the end (strong fairness): both are external and without
them nothing can be promised (`PollsGoOn`, `IngestsGoOn` of Downloads). In LibraryScroll
the server answers and the user scrolls on. Nothing is assumed of other users, files,
faults or ffmpeg: that segment requests are answered rests on the timeout alone; and a
client that holds an endless answer need not let go.

### Findings

Two runs are violations. **StewardForgets**: `maybe_compact` replaces a summary
it has not read, so that of two overlapping requests the later forgets the
digest of the earlier (`docs/06` promises that the oldest half goes into the
summary and that decisions cannot be lost). **ScanRenames**: migrating a moved
row onto a path that another moved row still occupies violates the UNIQUE
constraint and ends the scan, now and every time after (`docs/01` promises that
the association migrates).

Other limits of the code appear as the conditions of passing properties, and
the mutants show that the conditions do not empty them:

- a prompt may miss what was compacted between the reads of summary and window;
- confirming a doubtful result flips its row without merging it; queued rows do
  not survive a restart (`lost`), nor do claims of a poll that is cut off
  (`stranded`);
- a segment that ffmpeg is writing is served in part to a request that takes the
  fast path (`WaitedIsWhole` speaks of requests that waited), and one that a
  killed ffmpeg left is kept after a seek back;
- a file that is touched is identified again, and so is one that moves back to a path
  that was used for another, or whose row made way for another file
  (`IdentifiedOnce` speaks of the contents that never did, `earlier`);
- a file that is copied takes over the row of its twin, in a single scan already, and the
  next scan finds the twin moved in turn;
- a file that is replaced by another under its path keeps the links of the old one
  beside the new; so does a row that another scan rewrites between the look-up of a
  moved file and its migration;
- no scan looks at a pending row again: one whose verdict is doubtful or failed, whose merge
  failed or whose request found no room stays pending until the steward queues its task
  again, and a scan that is cut off before the task leaves a row with none
  (`stranded`);
- a finished torrent whose files cannot be walked or hashed is done all the same, in
  part or not at all in the library (`missed`);
- an anchor that hits drops the other ids of the result, so that a series can split
  later, and so does an id that is told as text; anchors ignore kind and library, so
  that an episode may hang below a film; an episode without a number is added again with
  every merge; a file identified anew keeps its old link;
- a late progress report moves the position back; an episode without a number
  sorts first in next up; series watched to their end, more than the limit of
  the page, hide others;
- two first requests for an image share a temporary file, and if one of them is
  cut off or cannot write half an image stays; so it does when drawing the scaled one fails;
- releases of one episode by two groups that appear in different fetches are
  both downloaded; a bad release ends every poll before those behind it;
- a torrent deleted with its files and added again keeps its done row and is
  not scanned again;
- `docs/01-开发文档.md:593` has the shutdown refuse requests, then kill ffmpeg;
  the code first waits for every answer under way, event streams and films played
  directly included, and only then drains the sessions, so that a client that
  stays holds up the end (`\/ open` in `ShutdownEnds`; without it the run fails);
- a session's address is good for an hour and its segments carry the playlist's,
  so that a longer film is refused in its last part (`OldAddressFreesSession`
  says that at least nothing is kept for it);
- the last segment's start is held five seconds from the end, so that a seek
  there is made up to five seconds early; the rest of up to 250 ms behind the last
  segment gets none (`Fits`, `StartsAt`);
- ffprobe says "matroska,webm" of both containers and the decision takes mkv, so
  that a WebM is never played directly by a client with the default profile;
  nothing writes the stored probe, so that every playback probes anew;
- pages are taken by offset: works that leave the list hide others, as many new
  works as fill a page make the page ask for the same works over and over, a work
  that arrives between count and rows may end the scrolling early, and so does an
  error (`spoilt`, `came`);
- of two callers that miss the same key of the metadata cache both fetch, and the
  slower may overwrite the newer answer with its older one: what is told is then
  older than its time to live, by a request's timeout at most.

## Proofs

TLAPS checks eight modules of proofs, for every value of the constants that their
assumptions allow.

`StewardMemory_proofs`: `TypeCorrect`, `WindowStaysNewest`, `OnlyStaleDigestsForget`,
`PromptsMissLittle`, `RowsLeaveOnlyIntoSummary` (rows leave the context only into a
summary that covers them, and never come back) and, for a single request,
`LoneRequestForgetsNothing`. None of these is inductive by itself: a compaction commits
what it read many steps ago. The inductive invariant `IInv` adds what requests hold
(`LocalsOK`: the rows in hand are older than the message of a request, a recalled
summary is the present one unless a commit in between makes it stale) and
`RowsAreOldest` (what a request has picked is, with everything before it, still the
oldest of the window or already out). `Inductive` proves it action by action.

`Downloads_proofs`: `TypeCorrect`; of the polls `NoReleaseAddedTwice`,
`EntriesTellTheTruth` and `ClaimsAreWorkedOn`; of the torrents `DoneAreWhole`. For the
polls (`PollInvariant`) the argument is that a claim is exclusive: in the first life of
a subscription, the poll that has claimed a release is the only one that has it at hand,
nobody has added it before (`ClaimIsExclusive`), and a release without an entry is one
nobody has touched (`AbsentIsUntouched`). `HandOK`, `RecordedWasAdded` and `Unborn`
carry this through the steps of a poll, deletions and cuts. For the torrents
(`IngestInvariant`): one that was added once is taken up only when its download is over,
and it is over for good then: it can leave the session but not start again (`Entering`).
Its files are whole while it stays, so a scan for its sake has them before it, has
recorded them or could not read them (`Entered`). A torrent added anew after it was
deleted breaks this, which is why the property is about one addition.

`IngestTree_proofs`: `Serial` (IngestTree implements AtomicIngest), `NeverDoubled`,
`TypeCorrect`, `IdsDecide` and `Repeats`. The invariant of the detailed module is only
that a transaction that may still commit would find now what it found when it began
(`SnapshotsCurrent`): every write makes the snapshots of the others stale, and what does
not write changes no answer. With it each `Merge` is an `Enter`. What merges do to the
tree is then proved once, of the abstract module (`AtomicRows`: an item is appended only
when nothing in the tree is its twin, metadata does not touch what makes rows twins),
and `NeverDoubled` follows through the refinement. `IdsDecide` needs that the snapshot
knows the same ids as the present, and that a merge goes to the item an id names
(`MergeGoesToKnown`). `Repeats` (`RepeatsAddNothing`) needs what every merge leaves
behind for good (`Entered`): a row its ids or its title lead to, and below it the
season, the episode and the link of its file; as nothing is doubled, a second merge can
only find these.

`ScrapeQueue_proofs`: `TypeCorrect`, `Underway`, `LastDecides`, `DoubtReviewed` (of what
the row says, for a confirmation merges nothing) and `ServedOnce` (ScrapeQueue
implements RequestService). The worker has a request exactly while it works (`HandInv`),
so a row that says queued or running always has one in the channel or in the worker's
hand. That the newest request decides needs the order of the channel: the newest request
of a task stands behind all others of the task, in the channel (`QueueOrder`) and
against the one in hand (`HandOrder`), so a late verdict is never an old one. The
refinement needs that no request is in two places (`ApartInv`): only then does the start
of one, or the loss of one, take it from all that wait. It also needs that a row that
was never created has no requests and no history (`AbsentInv`). One lemma for each
action of RequestService shows which steps of the queue it stands for (`AskStep`,
`ServeStep`, `EnterStep`, `DecideStep`, `LoseStep`); passing a request on is a stutter
(`PassStep`).

`Playback_proofs`, of HlsSession: `TypeCorrect`, `NoOrphans`, `OnlySeekBackLeaves` and
`WaitedFor`. Each rests on the one before. That no ffmpeg outlives its session needs
that whoever is closing it has taken it from the map (`ClosersInv`). That half segments
are left by seeks back alone needs that without one nothing lies ahead of what ffmpeg
has reached, so that the one segment a restart removes is the one it may have been
writing (`LeftoverInv`). That the next segment tells needs that the only ffmpeg writes
in order (`InOrder`) and, unless it died, ends when everything is written or nobody can
ask any more (`EndedWell`), and that what was waited for stays whole (`KeptWhole`).

Of Playback it proves `EveryPlaylistFits`, arithmetic about a film of any length,
and `SessionsFit`, which adds that ffmpeg only ever starts at a segment of the
playlist: a session is made of a film with `Count` segments, and the types of
HlsSession, which Playback extends, do the rest.

`Outbound_proofs`, of the metadata client: `OutboundPaced` and `OutboundRecent`. The
pace follows from a budget: in any window, what was taken and what is left in the
bucket are together no more than a full bucket and what came in (`Budget`).
`KeptRecent` and `HeardRecent` bound the age of what lies in the cache and of what a
caller has in hand by the time it has waited. Of the match client it proves the
interval (`OutboundSpaced`): who sleeps holds
the lock and has at least the rest of the interval to sleep (`SleeperHolds`), so
nobody else can send before. That is lost if the lock is given back early, which
the mutant does. Of the image cache it proves `OutboundWhole` and
`OutboundHalves`: a download that is alone has the temporary file for itself
(`Alone`), and what a file lacks somebody is about to write unless he was cut off or failed
(`DownloadsEnd`, `DrawingEnds`); that no two names stand for one node needs that
a new file gets a node nobody holds, which is counted (`NodeToSpare`). `TypeCorrect`
is about the types of all three and needs `RestOK`: what a tool has left to ask is
always a question of some tool.

`LibraryScan_proofs`: `TypeCorrect`, `PendingRowsAreLookedAfter`, `LinksFollowTheFile`
and `MovedIsNotIdentifiedAgain`. That a pending row is looked after is inductive as it
stands: who asks hands his question to a task, which nothing takes away, unless he is
cut off (`LookedAfter`). That links are right needs more than it says, for a scan works
on with what it has read while the disk and the rows change under it (`RightInv`):
whatever a row, a task or a scan that identifies has in hand is of the row's file or of
one it was of before (`RowsRight`, `TasksRight`, `AsksRight`), and a row found as moved
is of the file it is to be moved to, or has been of both (`MovesRight`). What a row was
of only grows, so this stays true of answers that come late. That a moved file is not
identified again (`OnceInv`) is counted: a path has one row (`OneRowEach`, the
database's constraint), and before two scans have overlapped one of them is at work
(`Alone`), the file it has in hand is not known (`Changed`), and a content that never
made way was asked for once and has a row by which a scan finds it moved (`Counted`).
None of the three needs a hypothesis.

`Viewing_proofs`, of WatchState: `WatchTypeCorrect`, `ResumesInTheMiddle`,
`NextAdvances` and `HomePageIsFilled`. A row's position is resumable only if the step
that wrote it found it in the middle of the duration it wrote beside it. Next up
never goes back because the farthest seen episode of a series, in the order of
seasons and numbers, only moves on, and what follows it cannot precede what
followed an earlier one. The page is filled because among twice the limit of
candidates at most the limit were watched to their end, which is counted. Of
LibraryScroll: `ScrollTypeCorrect` and `ScrollShowsAll`. What is shown is, work for
work, what stands first in the list, but for works that came meanwhile; so whatever
stays and is not shown stands at the offset asked for or behind it, and a count
reached means that nothing does. `ScrollShowsAll` assumes that the page asks for no
more than the server gives (`Asked <= 200`; the page asks for 60).

The assumptions are those the modules name (`ReleasesAssumption`, `ResultsAssumption`,
`LengthAssumption`, bounds that are natural numbers) and the two hypotheses named above,
a single request in `LoneRequestForgetsNothing` and `Asked <= 200` in `ScrollShowsAll`.
Every safety invariant that a run checks is proved, and so are the action properties
listed here. Liveness under fairness and ENABLED are out of the prover's reach, as are
induction over data and recursive operators; what the runs check of these stays with
TLC: `BestReleaseAdded`, `FinishedIsEntered`, `ProjectionConverges`,
`EveryRequestDecided`, `EveryRequestAnswered`, `IdleSessionReaped`, `ShutdownEnds`,
`OldAddressFreesSession` and `ScrollEnds`. Type invariants are proved for every value of
the constants, and no run repeats them.

## Plan

1. FeedSelection, the pure choice of releases that SubscriptionPoll abstracts,
   against a reference definition.
2. Composition of scan, queue and ingest, where two tasks for one file meet.
3. An exactly-once adder that SubscriptionPoll implements, and the proof that it does.

## Not modelled

The text of playlists, evidence, prompts and reports; parsing of configuration, XML and
ffprobe output; signatures (a cryptographic claim); the steward's patrol, one insert
made from four counts; its read-only tools; finding ffmpeg and extracting subtitles,
which start a program and keep no state; the scanner's plan and IO limiter, which
nothing calls; the events themselves, which are hints to reload that nothing waits for;
the web UI but for the scrolling, where a change of filter and the random order, which
is loaded once, are left out; an error of asking whether ffmpeg still runs (`try_wait`);
the agent runtime, which is not part of the repository.
