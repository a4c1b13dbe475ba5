---------------------------- MODULE MCPlayback ----------------------------
(* Instances of Playback for TLC. *)
EXTENDS Playback

Web == [client |-> "web", containers |-> {}, video |-> {}, audio |-> {}, limit |-> NoRate]
MCProfiles == {Web, [Web EXCEPT !.client = "nipa"]}

Stream(type, codec) == [type |-> type, codec |-> codec, cover |-> FALSE, transfer |-> "bt709"]
Probe(format, codec, duration) ==
  [format |-> format, duration |-> duration, bitrate |-> NoRate,
   streams |-> <<[Stream("video", "mjpeg") EXCEPT !.cover = TRUE], Stream("video", codec), Stream("audio", "aac")>>]

\* One to copy, one to play as it is and one to encode; the shortest and the longest
\* of two segments are among them.
Film(format, codec, duration) ==
  [row |-> TRUE, inside |-> TRUE, stored |-> FALSE, readable |-> TRUE, extension |-> "mkv",
   probe |-> Probe(format, codec, duration)]
MCFilms == {Film(<<"matroska", "webm">>, "h264", 8250), Film(<<"mov", "mp4">>, "h264", 8000),
            Film(<<"matroska", "webm">>, "mpeg4", 4251)}
=============================================================================
