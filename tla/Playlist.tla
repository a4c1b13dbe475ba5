----------------------------- MODULE Playlist -----------------------------
(***************************************************************************)
(* The playlist that is handed out before anything is transcoded, and      *)
(* where ffmpeg is started in the source (nipa-stream/src/hls.rs).  Times  *)
(* are in milliseconds.                                                    *)
(***************************************************************************)
EXTENDS Integers

SegmentDuration == 4000   \* HlsConfig::default
Tolerance == 250          \* a rest that gets no segment of its own
Margin == 5000            \* a start is at least that far from the end

Least(a, b) == IF a <= b THEN a ELSE b
Most(a, b) == IF a <= b THEN b ELSE a

\* segment_count
SegmentCount(duration) ==
  LET full == duration \div SegmentDuration
      rest == duration % SegmentDuration
  IN  IF full >= 1 /\ rest <= Tolerance THEN full ELSE full + 1

\* vod_playlist: where a segment begins and how long it is said to be.
Begin(i) == i * SegmentDuration

\* (mutant) every segment is said to be a whole one
WholeLength(duration, i) == SegmentDuration

Length(duration, i) == Most(Least(duration - Begin(i), SegmentDuration), 0)

\* ffmpeg_args: -ss for the segment ffmpeg is started at.  A copied stream is cut
\* at a key frame, half a second is added to reach the one that is meant.
KeyFrameShift(method) == IF method = "remux" THEN 500 ELSE 0

Seek(duration, method, start) ==
  IF start = 0 THEN 0
  ELSE Least(Begin(start) + KeyFrameShift(method), Most(duration - Margin, 0))

\* The rest of the command line: what is written, under which number, and how the
\* video is cut into segments.
Command(duration, method, start) ==
  [seek |-> Seek(duration, method, start),
   first |-> start,
   video |-> IF method = "remux" THEN "copy" ELSE "encode",
   keyFrameEvery |-> IF method = "remux" THEN 0 ELSE SegmentDuration,
   segment |-> SegmentDuration]

\* ffmpeg, started at a segment, begins less than the margin before it and no further
\* behind it than to its key frame.
StartsAt(duration, method, i) ==
  Command(duration, method, i).seek \in Begin(i) - Margin + 1..Begin(i) + KeyFrameShift(method)

\* What the playlist says of a film: the segments follow one another, none is empty,
\* and they end where the film does but for the rest that gets none.
Fits(duration) ==
  LET last == SegmentCount(duration) - 1
  IN  /\ \A i \in 0..last : Length(duration, i) > 0
      /\ \A i \in 0..last - 1 : Begin(i) + Length(duration, i) = Begin(i + 1)
      /\ Begin(last) + Length(duration, last) \in duration - Tolerance..duration
=============================================================================
