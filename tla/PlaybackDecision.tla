------------------------- MODULE PlaybackDecision -------------------------
(***************************************************************************)
(* How a client gets a video (nipa-stream/src/playback.rs): as the file    *)
(* is, copied into HLS segments, or encoded.  The names of containers and  *)
(* codecs are strings in lower case, as ffprobe and the clients write      *)
(* them, and a list of them is the set of its names.                       *)
(***************************************************************************)
EXTENDS Integers, Sequences

NoName == ""   \* there is no such stream
NoRate == -1   \* not known, or not limited

\* A client: the names it lists (none: the defaults) and its limit.
DeviceProfiles(names, rates) ==
  [client : {"nipa", "web"}, containers : SUBSET names, video : SUBSET names,
   audio : SUBSET names, limit : rates \cup {NoRate}]

\* What the decision looks at.
MediaSources(names, rates) ==
  [container : names, video : names \cup {NoName}, audio : names \cup {NoName},
   bitrate : rates \cup {NoRate}, hdr : BOOLEAN]

Methods == {"direct_play", "remux", "transcode"}
Reasons == {"container", "video", "audio", "bitrate", "hdr"}

\* A client that lists nothing is taken to play the defaults.
Defaulted(listed, defaults) == IF listed = {} THEN defaults ELSE listed

Containers(p) == Defaulted(p.containers, {"mp4", "webm"})
VideoCodecs(p) == Defaulted(p.video, {"h264", "av1"})
AudioCodecs(p) == Defaulted(p.audio, {"aac", "opus"})

\* A rate that is not known counts as 40 Mbit/s.
Bitrate(s) == IF s.bitrate = NoRate THEN 40000000 ELSE s.bitrate

ReasonHolds(p, s, reason) ==
  CASE reason = "container" -> s.container \notin Containers(p)
    [] reason = "video" -> s.video # NoName /\ s.video \notin VideoCodecs(p)
    [] reason = "audio" -> s.audio # NoName /\ s.audio \notin AudioCodecs(p)
    [] reason = "bitrate" -> p.limit # NoRate /\ Bitrate(s) > p.limit
    [] reason = "hdr" -> s.hdr

TranscodeReasons(p, s) == {reason \in Reasons : ReasonHolds(p, s, reason)}

\* Only these can be copied into fMP4 segments.
Copyable == {"h264", "hevc"}
MustEncode == {"video", "bitrate", "hdr"}

\* decide_video.
Method(p, s) ==
  IF p.client = "nipa" \/ TranscodeReasons(p, s) = {} THEN "direct_play"
  ELSE IF s.video \in Copyable /\ TranscodeReasons(p, s) \cap MustEncode = {} THEN "remux"
  ELSE "transcode"

Decide(p, s) == [method |-> Method(p, s),
                 reasons |-> IF p.client = "nipa" THEN {} ELSE TranscodeReasons(p, s),
                 copyVideo |-> Method(p, s) # "transcode"]

-----------------------------------------------------------------------------
(* From what ffprobe says to what the decision looks at *)

\* normalize_container: ffprobe names all the containers a demuxer reads; the
\* first name decides.
Normalized(names) ==
  IF names = <<>> THEN ""
  ELSE CASE names[1] = "matroska" -> "mkv"
         [] names[1] \in {"mov", "m4v", "3gp", "3g2", "mj2"} -> "mp4"
         [] OTHER -> names[1]

\* summarize: the first video stream that is no cover picture, the audio tracks.
Videos(streams) == SelectSeq(streams, LAMBDA x : x.type = "video" /\ ~x.cover)
Audios(streams) == SelectSeq(streams, LAMBDA x : x.type = "audio")
HdrTransfers == {"smpte2084", "arib-std-b67"}

Summary(probe) ==
  [container |-> Normalized(probe.format),
   duration |-> probe.duration,
   video |-> IF Videos(probe.streams) = <<>> THEN NoName ELSE Videos(probe.streams)[1].codec,
   audio |-> IF Audios(probe.streams) = <<>> THEN NoName ELSE Audios(probe.streams)[1].codec,
   hdr |-> Videos(probe.streams) # <<>> /\ Videos(probe.streams)[1].transfer \in HdrTransfers]

\* The source that is judged; the file's extension stands in for the container.
Judged(probe, extension) ==
  LET sum == Summary(probe)
  IN  [container |-> IF sum.container = "" THEN Normalized(<<extension>>) ELSE sum.container,
       video |-> sum.video, audio |-> sum.audio, bitrate |-> probe.bitrate, hdr |-> sum.hdr]
=============================================================================
