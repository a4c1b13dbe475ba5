-------------------------- MODULE Playback_proofs --------------------------
(***************************************************************************)
(* The safety of one HLS session (HlsSession), for any requests, number of *)
(* segments, seek gap and limits; and of what it plays (Playback): the     *)
(* playlists fit their films, of whatever length, and ffmpeg is started    *)
(* where a segment begins or a little before.                              *)
(***************************************************************************)
EXTENDS Playback, TLAPS

-----------------------------------------------------------------------------
(* The types *)

Children == [run : BOOLEAN, target : Files \cup {Count}, start : Segments, open : BOOLEAN]
Askers == [at : {"away", "found", "ensure", "restart", "wait", "read"},
           index : Files, waited : 0..WaitLimit, polled : BOOLEAN]
Contents == {"none", "empty", "partial", "whole"}

\* What is open is a file.
TypeInv == TypeOK /\ (ffmpeg.open => ffmpeg.target # Count)

LEMMA Numbers == /\ Count \in Nat \ {0} /\ WaitLimit \in Nat /\ IdleLimit \in Nat
                 /\ 0 \in Segments /\ InitSegment \in Files
                 /\ \A s \in Segments : s \in Nat /\ s \in Files /\ s # InitSegment /\ s # Count
                 /\ \A f \in Files : f \in Segments \/ f = InitSegment
                 /\ Count \notin Files
BY CountAssumption, LimitsAssumption DEF Segments, Files, InitSegment

LEMMA TypeParts ==
  ASSUME TypeInv
  PROVE  /\ listed \in BOOLEAN /\ dir \in BOOLEAN
         /\ file \in [Files -> Contents]
         /\ ffmpeg \in Children
         /\ lock \in Requests \cup {"free"}
         /\ idle \in 0..IdleLimit + 1
         /\ req \in [Requests -> Askers]
         /\ closer \in [Closers -> {"resting", "judged", "removed", "stopped"}]
         /\ starts \in 0..2
         /\ spoilt \subseteq {"crash", "kill", "back"}
         /\ ffmpeg.open => ffmpeg.target # Count
BY DEF TypeInv, TypeOK, Contents, Children, Askers

LEMMA TypeInit == Init => TypeInv
BY Numbers DEF Init, TypeInv, TypeOK, Off, Away

\* A child that is killed, and a request that is over.
LEMMA Ended == ASSUME TypeInv
               PROVE  /\ KilledOnDrop \in Children /\ ~KilledOnDrop.run
                      /\ KilledOnDrop.open = ffmpeg.open /\ KilledOnDrop.target = ffmpeg.target
                      /\ KilledOnDrop.start = ffmpeg.start
                      /\ Away \in Askers /\ Away.at = "away" /\ ~Away.polled
<1>1. ffmpeg \in Children
  BY TypeParts
<1>2. /\ KilledOnDrop \in Children /\ ~KilledOnDrop.run
      /\ KilledOnDrop.open = ffmpeg.open /\ KilledOnDrop.target = ffmpeg.target
      /\ KilledOnDrop.start = ffmpeg.start
  BY <1>1 DEF KilledOnDrop, Children
<1>3. 0 \in 0..WaitLimit
  BY Numbers
<1>4. Away \in Askers /\ Away.at = "away" /\ ~Away.polled
  BY <1>3, Numbers DEF Away, Askers
<1>5. QED BY <1>2, <1>4

\* Every step keeps the types.
LEMMA TypeStep ==
  ASSUME TypeInv, [Next]_vars
  PROVE  TypeInv'
<1>1. /\ listed \in BOOLEAN /\ dir \in BOOLEAN
      /\ file \in [Files -> Contents] /\ ffmpeg \in Children
      /\ lock \in Requests \cup {"free"} /\ idle \in 0..IdleLimit + 1
      /\ req \in [Requests -> Askers]
      /\ closer \in [Closers -> {"resting", "judged", "removed", "stopped"}]
      /\ starts \in 0..2 /\ spoilt \subseteq {"crash", "kill", "back"}
      /\ ffmpeg.open => ffmpeg.target # Count
  BY TypeParts
<1>2. ASSUME ffmpeg' = ffmpeg \/ ffmpeg' = KilledOnDrop
      PROVE  ffmpeg' \in Children /\ (ffmpeg'.open => ffmpeg'.target # Count)
  BY <1>1, <1>2, Ended
<1>3. CASE Transcode
  <2>1. UNCHANGED <<listed, dir, lock, idle, req, closer, starts>>
    BY <1>3 DEF Transcode
  <2>2. ASSUME file' \in [Files -> Contents], ffmpeg' \in Children, spoilt' \subseteq {"crash", "kill", "back"},
               ffmpeg'.open => ffmpeg'.target # Count
        PROVE  TypeInv'
    BY <1>1, <2>1, <2>2 DEF TypeInv, TypeOK, Contents, Children, Askers
  <2>3. CASE Open
    <3>1. file' \in [Files -> Contents]
      BY <1>1, <2>3 DEF Open, Contents
    <3>2. ffmpeg' \in Children /\ ffmpeg'.target = ffmpeg.target
      BY <1>1, <2>3 DEF Open, Children
    <3>3. QED BY <1>1, <2>2, <2>3, <3>1, <3>2 DEF Open
  <2>4. CASE Fill
    <3>1. file' \in [Files -> Contents]
      BY <1>1, <2>4 DEF Fill, Contents
    <3>2. QED BY <1>1, <2>2, <2>4, <3>1 DEF Fill
  <2>5. CASE Close
    <3>1. file' \in [Files -> Contents]
      BY <1>1, <2>5 DEF Close, Contents
    <3> DEFINE next == IF ffmpeg.target = InitSegment THEN ffmpeg.start ELSE ffmpeg.target + 1
    <3>2. next \in Files \cup {Count}
      BY <1>1, <2>5, Numbers DEF Close, Children, Files, Segments
    <3>3. ffmpeg' = [ffmpeg EXCEPT !.open = FALSE, !.target = next]
      BY <2>5 DEF Close
    <3> HIDE DEF next
    <3>4. ffmpeg' \in Children /\ ~ffmpeg'.open
      BY <1>1, <3>2, <3>3 DEF Children
    <3>5. QED BY <1>1, <2>2, <2>5, <3>1, <3>4 DEF Close
  <2>6. CASE Exit
    <3>1. ffmpeg' = KilledOnDrop
      BY <2>6 DEF Exit, KilledOnDrop
    <3>2. QED BY <1>1, <1>2, <2>2, <2>6, <3>1 DEF Exit
  <2>7. QED BY <1>3, <2>3, <2>4, <2>5, <2>6 DEF Transcode
<1>4. ASSUME NEW r \in Requests, Answer(r), UNCHANGED <<listed, dir, file, idle, closer, starts>>,
             lock' \in Requests \cup {"free"}, spoilt' \subseteq {"crash", "kill", "back"}
      PROVE  TypeInv'
  <2>1. req' \in [Requests -> Askers]
    BY <1>1, <1>4, Ended DEF Answer
  <2>2. ffmpeg' = ffmpeg \/ ffmpeg' = KilledOnDrop
    BY <1>4 DEF Answer
  <2>3. QED BY <1>1, <1>2, <1>4, <2>1, <2>2 DEF TypeInv, TypeOK, Contents, Children, Askers
<1>5. ASSUME NEW r \in Requests, \E i \in Files : Find(r, i)
      PROVE  TypeInv'
  <2>1. PICK i \in Files : req' = [req EXCEPT ![r] = [Away EXCEPT !.at = "found", !.index = i]]
    BY <1>5, Numbers DEF Find
  <2>2. [Away EXCEPT !.at = "found", !.index = i] \in Askers
    BY Ended DEF Askers
  <2>3. req' \in [Requests -> Askers]
    BY <1>1, <2>1, <2>2
  <2>4. UNCHANGED <<listed, dir, file, ffmpeg, lock, idle, closer, starts, spoilt>>
    BY <1>5 DEF Find
  <2>5. QED BY <1>1, <2>3, <2>4 DEF TypeInv, TypeOK, Contents, Children, Askers
<1>6. ASSUME NEW r \in Requests, Check(r)
      PROVE  TypeInv'
  <2>1. req' \in [Requests -> Askers]
    BY <1>1, <1>6 DEF Check, Askers
  <2>2. idle' \in 0..IdleLimit + 1
    BY <1>6, Numbers DEF Check, Touched
  <2>3. QED BY <1>1, <1>6, <2>1, <2>2 DEF Check, TypeInv, TypeOK, Contents, Children, Askers
<1>7. ASSUME NEW r \in Requests, Ensure(r)
      PROVE  TypeInv'
  <2>1. req' \in [Requests -> Askers]
    BY <1>1, <1>7 DEF Ensure, Askers
  <2>2. lock' \in Requests \cup {"free"}
    BY <1>1, <1>7 DEF Ensure
  <2>3. QED BY <1>1, <1>7, <2>1, <2>2 DEF Ensure, TypeInv, TypeOK, Contents, Children, Askers
<1>8. ASSUME NEW r \in Requests, Respawn(r)
      PROVE  TypeInv'
  <2>1. req' \in [Requests -> Askers]
    BY <1>1, <1>8 DEF Respawn, Askers
  <2>2. Requested(r) \in Segments
    BY <1>1, Numbers DEF Requested, Askers
  <2>3. ffmpeg' = [run |-> TRUE, target |-> InitSegment, start |-> Requested(r), open |-> FALSE]
    BY <1>8 DEF Respawn
  <2>4. ffmpeg' \in Children /\ ~ffmpeg'.open
    BY <2>2, <2>3, Numbers DEF Children
  <2>5. file' \in [Files -> Contents]
    BY <1>1, <1>8 DEF Respawn, LastRemoved, Contents
  <2>6. starts' \in 0..2 /\ lock' = "free" /\ spoilt' \subseteq {"crash", "kill", "back"}
        /\ UNCHANGED <<listed, dir, idle, closer>>
    BY <1>1, <1>8 DEF Respawn
  <2>7. QED BY <1>1, <2>1, <2>4, <2>5, <2>6 DEF TypeInv, TypeOK, Contents, Children, Askers
<1>16. ASSUME NEW r \in Requests, SpawnFails(r)
       PROVE  TypeInv'
  <2>1. req' \in [Requests -> Askers]
    BY <1>1, <1>16, Ended DEF SpawnFails
  <2>2. file' \in [Files -> Contents]
    BY <1>1, <1>16 DEF SpawnFails, LastRemoved, Contents
  <2>3. ffmpeg' = KilledOnDrop /\ lock' = "free" /\ spoilt' \subseteq {"crash", "kill", "back"}
        /\ UNCHANGED <<listed, dir, idle, closer, starts>>
    BY <1>1, <1>16 DEF SpawnFails, Kill, KilledOnDrop
  <2>4. QED BY <1>1, <1>2, <2>1, <2>2, <2>3 DEF TypeInv, TypeOK, Contents, Children, Askers
<1>9. ASSUME NEW r \in Requests, Poll(r)
      PROVE  TypeInv'
  <2>1. UNCHANGED <<listed, dir, file, lock, idle, closer, starts, spoilt>>
    BY <1>9 DEF Poll
  <2>2. CASE Answer(r)
    BY <1>1, <1>4, <2>1, <2>2
  <2>3. CASE req' = [req EXCEPT ![r].at = "read", ![r].polled = TRUE] /\ UNCHANGED ffmpeg
    <3>1. req' \in [Requests -> Askers]
      <4>1. req \in [Requests -> Askers]
        BY <1>1
      <4>2. [req[r] EXCEPT !.at = "read", !.polled = TRUE] \in Askers
        BY <4>1 DEF Askers
      <4> HIDE DEF Askers
      <4> QED BY <2>3, <4>1, <4>2
    <3>2. QED BY <1>1, <2>1, <2>3, <3>1 DEF TypeInv, TypeOK, Contents, Children, Askers
  <2>4. QED BY <1>9, <2>2, <2>3 DEF Poll
<1>10. ASSUME NEW r \in Requests, Read(r)
       PROVE  TypeInv'
  BY <1>1, <1>4, <1>10 DEF Read
<1>11. ASSUME NEW r \in Requests, Drop(r)
       PROVE  TypeInv'
  <2>1. CASE lock # r
    BY <1>1, <1>4, <1>11, <2>1 DEF Drop
  <2>2. CASE lock = r
    <3>1. req' \in [Requests -> Askers]
      BY <1>1, <1>11, <2>2, Ended DEF Drop
    <3>2. ffmpeg' = KilledOnDrop /\ lock' = "free" /\ spoilt' \subseteq {"crash", "kill", "back"}
          /\ UNCHANGED <<listed, dir, file, idle, closer, starts>>
      BY <1>1, <1>11, <2>2 DEF Drop, Kill, KilledOnDrop
    <3>3. QED BY <1>1, <1>2, <3>1, <3>2 DEF TypeInv, TypeOK, Contents, Children, Askers
  <2>3. QED BY <2>1, <2>2
<1>12. CASE CloserStep \/ Drain
  <2>1. /\ listed' \in BOOLEAN /\ dir' \in BOOLEAN
        /\ closer' \in [Closers -> {"resting", "judged", "removed", "stopped"}]
        /\ file' = file \/ file' = [f \in Files |-> "none"]
        /\ ffmpeg' = ffmpeg \/ ffmpeg' = KilledOnDrop
        /\ spoilt' \subseteq {"crash", "kill", "back"}
        /\ UNCHANGED <<lock, idle, req, starts>>
    BY <1>1, <1>12 DEF CloserStep, Judge, Reap, StopFfmpeg, Clean, Drain, Kill, KilledOnDrop
  <2>2. file' \in [Files -> Contents]
    BY <1>1, <2>1 DEF Contents
  <2>3. QED BY <1>1, <1>2, <2>1, <2>2 DEF TypeInv, TypeOK, Contents, Children, Askers
<1>13. CASE Tick
  <2>1. UNCHANGED <<listed, dir, file, ffmpeg, lock, closer, starts, spoilt>>
        /\ req' = [r \in Requests |-> IF Holding(r) THEN [req[r] EXCEPT !.waited = @ + 1] ELSE req[r]]
        /\ idle' = IF idle <= IdleLimit THEN idle + 1 ELSE idle
    BY <1>13 DEF Tick
  <2>2. ASSUME NEW r \in Requests
        PROVE  req'[r] \in Askers
    <3>1. CASE ~Holding(r)
      BY <1>1, <2>1, <3>1
    <3>2. CASE Holding(r) /\ req[r].waited < WaitLimit
      <4>1. req[r].waited + 1 \in 0..WaitLimit
        BY <1>1, <3>2, Numbers DEF Askers
      <4>2. QED BY <1>1, <2>1, <3>2, <4>1 DEF Askers
    <3>3. QED BY <1>13, <3>1, <3>2 DEF Tick
  <2>3. req' \in [Requests -> Askers] /\ idle' \in 0..IdleLimit + 1
    BY <1>1, <2>1, <2>2, Numbers
  <2>4. QED BY <1>1, <2>1, <2>3 DEF TypeInv, TypeOK, Contents, Children, Askers
<1>14. CASE UNCHANGED vars
  BY <1>14 DEF vars, TypeInv, TypeOK
<1>15. QED
  BY <1>3, <1>5, <1>6, <1>7, <1>8, <1>9, <1>10, <1>11, <1>12, <1>13, <1>14, <1>16 DEF Next, RequestStep

\* Every variable keeps its type.
THEOREM TypeCorrect == Spec => []TypeOK
<1>1. TypeInv => TypeOK
  BY DEF TypeInv
<1>2. QED BY TypeInit, TypeStep, <1>1, PTL DEF Spec

-----------------------------------------------------------------------------
(* The child *)

\* What a closer still has to stop is not in the map any more.
ClosersInv == \A k \in Closers : Closing(k) => ~listed

ChildInv == TypeInv /\ ClosersInv /\ NoOrphanFfmpeg

LEMMA ChildInit == Init => ChildInv
BY TypeInit DEF Init, ChildInv, ClosersInv, NoOrphanFfmpeg, Closing, Off

\* Who lets go of the session last takes ffmpeg with it.
LEMMA ChildStep == ASSUME ChildInv, [Next]_vars
                   PROVE  ChildInv'
<1>1. TypeInv' /\ TypeInv
  BY TypeStep DEF ChildInv
<1>2. /\ ffmpeg \in Children /\ req \in [Requests -> Askers]
      /\ closer \in [Closers -> {"resting", "judged", "removed", "stopped"}]
      /\ ~KilledOnDrop.run
  BY <1>1, TypeParts, Ended
<1>3. ClosersInv /\ NoOrphanFfmpeg
  BY DEF ChildInv
<1>4. CASE Transcode
  <2>1. UNCHANGED <<listed, req, closer>>
    BY <1>4 DEF Transcode
  <2>2. ffmpeg'.run => ffmpeg.run
    BY <1>2, <1>4 DEF Transcode, Open, Fill, Close, Exit, Children
  <2>3. QED BY <1>1, <1>3, <2>1, <2>2 DEF ChildInv, ClosersInv, NoOrphanFfmpeg, Holding, Closing
<1>5. ASSUME NEW r \in Requests, Answer(r), UNCHANGED <<listed, closer>>
      PROVE  ChildInv'
  <2>1. \A q \in Requests \ {r} : Holding(q)' <=> Holding(q)
    BY <1>2, <1>5 DEF Answer, Holding
  <2>2. CASE listed \/ (\E q \in Requests \ {r} : Holding(q)) \/ (\E k \in Closers : Closing(k))
    BY <1>1, <1>3, <1>5, <2>1, <2>2 DEF ChildInv, ClosersInv, NoOrphanFfmpeg, Closing
  <2>3. CASE ffmpeg' = KilledOnDrop
    BY <1>1, <1>2, <1>3, <1>5, <2>3 DEF ChildInv, ClosersInv, NoOrphanFfmpeg, Closing
  <2>4. QED BY <1>5, <2>2, <2>3 DEF Answer
<1>6. ASSUME NEW r \in Requests, Check(r) \/ Ensure(r) \/ Respawn(r) \/ \E i \in Files : Find(r, i)
      PROVE  ChildInv'
  <2>1. UNCHANGED <<listed, closer>>
    BY <1>6 DEF Check, Ensure, Respawn, Find
  <2>2. \A q \in Requests \ {r} : Holding(q)' <=> Holding(q)
    BY <1>2, <1>6 DEF Check, Ensure, Respawn, Find, Holding
  <2>3. Holding(r)'
    BY <1>2, <1>6 DEF Check, Ensure, Respawn, Find, Holding, Away, Askers
  <2>4. QED BY <1>1, <1>3, <2>1, <2>3 DEF ChildInv, ClosersInv, NoOrphanFfmpeg, Closing
<1>7. ASSUME NEW r \in Requests, Poll(r) \/ Read(r)
      PROVE  ChildInv'
  <2>1. UNCHANGED <<listed, closer>>
    BY <1>7 DEF Poll, Read
  <2>2. CASE Answer(r)
    BY <1>5, <2>1, <2>2
  <2>3. CASE req' = [req EXCEPT ![r].at = "read", ![r].polled = TRUE] /\ UNCHANGED ffmpeg
    <3>1. Holding(r)'
      BY <1>2, <2>3 DEF Holding, Askers
    <3>2. QED BY <1>1, <1>3, <2>1, <2>3, <3>1 DEF ChildInv, ClosersInv, NoOrphanFfmpeg, Closing
  <2>4. QED BY <1>7, <2>2, <2>3 DEF Poll, Read
<1>8. ASSUME NEW r \in Requests, Drop(r) \/ SpawnFails(r)
      PROVE  ChildInv'
  <2>1. UNCHANGED <<listed, closer>>
    BY <1>8 DEF Drop, SpawnFails
  <2>2. CASE Answer(r)
    BY <1>5, <2>1, <2>2
  <2>3. CASE Kill
    <3>1. ~ffmpeg'.run
      BY <1>2, <2>3 DEF Kill, Children
    <3>2. QED BY <1>1, <1>3, <2>1, <3>1 DEF ChildInv, ClosersInv, NoOrphanFfmpeg, Closing
  <2>4. QED BY <1>8, <2>2, <2>3 DEF Drop, SpawnFails
<1>9. CASE Judge
  <2>1. UNCHANGED <<listed, ffmpeg, req>> /\ listed
    BY <1>9 DEF Judge
  <2>2. \A k \in Closers : Closing(k)' => Closing(k)
    BY <1>2, <1>9 DEF Judge, Closing
  <2>3. QED BY <1>1, <1>3, <2>1, <2>2 DEF ChildInv, ClosersInv, NoOrphanFfmpeg
<1>10. CASE Reap
  <2>1. listed' = FALSE /\ UNCHANGED <<ffmpeg, req>> /\ "reaper" \in Closers /\ ~Closing("reaper")
    BY <1>10 DEF Reap, Closers, Closing
  <2>2. closer' = [closer EXCEPT !["reaper"] = IF listed THEN "removed" ELSE "resting"]
    BY <1>10 DEF Reap
  <2>3. (listed => Closing("reaper")') /\ \A k \in Closers : Closing(k) => Closing(k)'
    BY <1>2, <2>1, <2>2 DEF Closing
  <2>4. QED BY <1>1, <1>3, <2>1, <2>3 DEF ChildInv, ClosersInv, NoOrphanFfmpeg, Holding
<1>11. CASE Drain
  <2>1. listed' = FALSE /\ UNCHANGED <<ffmpeg, req>> /\ "shutdown" \in Closers
        /\ closer' = [closer EXCEPT !["shutdown"] = "removed"]
    BY <1>11 DEF Drain, Closers
  <2>2. Closing("shutdown")'
    BY <1>2, <2>1 DEF Closing
  <2>3. QED BY <1>1, <2>1, <2>2 DEF ChildInv, ClosersInv, NoOrphanFfmpeg
<1>12. ASSUME NEW k \in Closers, StopFfmpeg(k)
       PROVE  ChildInv'
  <2>1. ~ffmpeg'.run /\ UNCHANGED listed
    BY <1>2, <1>12 DEF StopFfmpeg, Kill, Children
  <2>2. \A j \in Closers : Closing(j)' <=> Closing(j)
    BY <1>2, <1>12 DEF StopFfmpeg, Closing
  <2>3. QED BY <1>1, <1>3, <2>1, <2>2 DEF ChildInv, ClosersInv, NoOrphanFfmpeg
<1>13. ASSUME NEW k \in Closers, Clean(k)
       PROVE  ChildInv'
  <2>1. UNCHANGED <<listed, req>> /\ closer' = [closer EXCEPT ![k] = "resting"]
        /\ (~(\E r \in Requests : Holding(r)) => ffmpeg' = KilledOnDrop)
    BY <1>13 DEF Clean
  <2>2. \A j \in Closers : Closing(j)' => Closing(j)
    BY <1>2, <2>1 DEF Closing
  <2>3. ffmpeg'.run => \E r \in Requests : Holding(r)'
    BY <1>2, <2>1 DEF Holding
  <2>4. QED BY <1>1, <1>3, <2>1, <2>2, <2>3 DEF ChildInv, ClosersInv, NoOrphanFfmpeg
<1>14. CASE Tick
  <2>1. UNCHANGED <<listed, ffmpeg, closer>>
        /\ req' = [r \in Requests |-> IF Holding(r) THEN [req[r] EXCEPT !.waited = @ + 1] ELSE req[r]]
    BY <1>14 DEF Tick
  <2>2. \A r \in Requests : Holding(r)' <=> Holding(r)
    BY <1>2, <2>1 DEF Holding, Askers
  <2>3. QED BY <1>1, <1>3, <2>1, <2>2 DEF ChildInv, ClosersInv, NoOrphanFfmpeg, Closing
<1>15. CASE UNCHANGED vars
  BY <1>1, <1>3, <1>15 DEF vars, ChildInv, ClosersInv, NoOrphanFfmpeg, Holding, Closing
<1>16. QED
  BY <1>4, <1>6, <1>7, <1>8, <1>9, <1>10, <1>11, <1>12, <1>13, <1>14, <1>15 DEF Next, RequestStep, CloserStep

\* No ffmpeg outlives its session: while it runs, the session is in the map, or a request
\* or a closer holds it and will let go of it.
THEOREM NoOrphans == Spec => []NoOrphanFfmpeg
<1>1. ChildInv => NoOrphanFfmpeg
  BY DEF ChildInv
<1>2. QED BY ChildInit, ChildStep, <1>1, PTL DEF Spec

-----------------------------------------------------------------------------
(* What is left over *)

\* The segment ffmpeg has reached; before it has written the init segment, the one it
\* was started at.
Reached == IF ffmpeg.target = InitSegment THEN ffmpeg.start ELSE ffmpeg.target
NothingAhead == \A s \in Present : s <= Reached

LeftoverInv == TypeInv /\ ("back" \notin spoilt => LeftoversAreWhole /\ NothingAhead)

LEMMA LeftoverInit == Init => LeftoverInv
BY TypeInit, Numbers DEF Init, LeftoverInv, LeftoversAreWhole, NothingAhead, Present

\* Without a seek back the half-written segment is the last one, which a restart removes.
LEMMA LeftoverStep == ASSUME LeftoverInv, [Next]_vars
                      PROVE  LeftoverInv'
<1>1. TypeInv /\ TypeInv'
  BY TypeStep DEF LeftoverInv
<1>2. ffmpeg \in Children /\ file \in [Files -> Contents] /\ ffmpeg.start \in Segments
  BY <1>1, TypeParts DEF Children
<1>3. "back" \notin spoilt => LeftoversAreWhole /\ NothingAhead
  BY DEF LeftoverInv
<1>4. ASSUME \A s \in Segments : file'[s] = file[s] \/ file'[s] = "none",
             ffmpeg'.target = ffmpeg.target, ffmpeg'.start = ffmpeg.start, "back" \in spoilt => "back" \in spoilt'
      PROVE  LeftoverInv'
  BY <1>1, <1>3, <1>4 DEF LeftoverInv, LeftoversAreWhole, NothingAhead, Present, Reached
<1>5. CASE Open
  <2>1. ffmpeg'.target = ffmpeg.target /\ ffmpeg'.start = ffmpeg.start /\ UNCHANGED spoilt
    BY <1>2, <1>5 DEF Open, Children
  <2>2. \A s \in Segments : s # ffmpeg.target => file'[s] = file[s]
    BY <1>2, <1>5, Numbers DEF Open
  <2>3. \A s \in Segments : s = ffmpeg.target => s <= Reached
    BY Numbers DEF Reached
  <2>4. QED BY <1>1, <1>3, <2>1, <2>2, <2>3 DEF LeftoverInv, LeftoversAreWhole, NothingAhead, Present, Reached
<1>6. CASE Fill
  <2>1. UNCHANGED <<ffmpeg, spoilt>>
    BY <1>6 DEF Fill
  <2>2. \A s \in Segments : s # ffmpeg.target => file'[s] = file[s]
    BY <1>2, <1>6, Numbers DEF Fill
  <2>3. \A s \in Segments : s = ffmpeg.target => s <= Reached
    BY Numbers DEF Reached
  <2>4. QED BY <1>1, <1>3, <2>1, <2>2, <2>3 DEF LeftoverInv, LeftoversAreWhole, NothingAhead, Present, Reached
<1>7. CASE Close
  <2>1. UNCHANGED spoilt /\ file' = [file EXCEPT ![ffmpeg.target] = "whole"] /\ file[ffmpeg.target] = "partial"
    BY <1>7 DEF Close
  <2>2. ffmpeg.target \in Files
    BY <1>1, <1>7, TypeParts DEF Close, Children
  <2>3. file'[ffmpeg.target] = "whole" /\ \A s \in Segments : s # ffmpeg.target => file'[s] = file[s]
    BY <1>2, <2>1, <2>2, Numbers
  <2>4. ffmpeg' = [ffmpeg EXCEPT !.open = FALSE,
                     !.target = IF ffmpeg.target = InitSegment THEN ffmpeg.start ELSE ffmpeg.target + 1]
    BY <1>7 DEF Close
  <2>5. ffmpeg'.target = (IF ffmpeg.target = InitSegment THEN ffmpeg.start ELSE ffmpeg.target + 1)
    BY <1>2, <2>4 DEF Children
  <2>6. Reached' >= Reached /\ Reached \in Nat /\ Reached' \in Nat
    BY <1>2, <2>2, <2>5, Numbers DEF Reached, Children, Files, Segments, InitSegment
  <2>7. ASSUME "back" \notin spoilt
        PROVE  LeftoversAreWhole' /\ NothingAhead'
    <3>1. LeftoversAreWhole /\ NothingAhead
      BY <1>3, <2>7
    <3>2. LeftoversAreWhole'
      BY <2>3, <3>1 DEF LeftoversAreWhole
    <3>3. \A s \in Segments : file'[s] # "none" => s \in Present
      BY <2>1, <2>3 DEF Present
    <3>4. NothingAhead'
      BY <2>6, <3>1, <3>3, Numbers DEF NothingAhead, Present
    <3>5. QED BY <3>2, <3>4
  <2>8. QED BY <1>1, <2>1, <2>7 DEF LeftoverInv
<1>8. ASSUME NEW r \in Requests, Respawn(r)
      PROVE  LeftoverInv'
  <2>1. ffmpeg' = [run |-> TRUE, target |-> InitSegment, start |-> Requested(r), open |-> FALSE]
        /\ file' = [f \in Files |-> IF Latest(f) THEN "none" ELSE file[f]]
        /\ spoilt' = IF \E p \in Present : p > Requested(r) THEN spoilt \cup {"back"} ELSE spoilt
    BY <1>8 DEF Respawn, LastRemoved
  <2>2. Reached' = Requested(r) /\ Requested(r) \in Segments
    <3>1. req[r] \in Askers
      BY <1>1, TypeParts
    <3>2. Requested(r) \in Segments
      BY <3>1, Numbers DEF Requested, Askers
    <3>3. ffmpeg'.target = InitSegment /\ ffmpeg'.start = Requested(r)
      BY <2>1
    <3>4. QED BY <3>2, <3>3 DEF Reached
  <2>3. ASSUME "back" \notin spoilt'
        PROVE  LeftoversAreWhole' /\ NothingAhead'
    <3>1. LeftoversAreWhole /\ NothingAhead /\ \A p \in Present : ~(p > Requested(r))
      BY <1>3, <2>1, <2>3
    <3>2. \A s \in Segments : file'[s] # "none" => s \in Present /\ file'[s] = file[s] /\ ~Latest(s)
      BY <2>1, Numbers DEF Present
    <3>3. NothingAhead'
      BY <2>2, <3>1, <3>2, Numbers DEF NothingAhead, Present
    <3>4. ASSUME NEW s \in Segments, file'[s] \in {"empty", "partial"}
          PROVE  FALSE
      <4>1. s \in Present /\ file[s] \in {"empty", "partial"} /\ ~Latest(s)
        BY <3>2, <3>4
      <4>2. ffmpeg.target = s /\ s # InitSegment
        BY <3>1, <4>1, Numbers DEF LeftoversAreWhole
      <4>3. Latest(s)
        BY <3>1, <4>1, <4>2 DEF Latest, NothingAhead, Reached
      <4>4. QED BY <4>1, <4>3
    <3>5. QED BY <3>3, <3>4 DEF LeftoversAreWhole
  <2>4. QED BY <1>1, <2>3 DEF LeftoverInv
<1>9. CASE UNCHANGED <<file, ffmpeg, spoilt>>
  BY <1>4, <1>9
<1>10. ASSUME ffmpeg' = ffmpeg \/ ffmpeg' = KilledOnDrop, UNCHANGED file, spoilt \subseteq spoilt'
       PROVE  LeftoverInv'
  BY <1>1, <1>4, <1>10, Ended
<1>11. CASE Exit
  BY <1>10, <1>11 DEF Exit, KilledOnDrop
<1>12. ASSUME NEW r \in Requests, Poll(r) \/ Read(r) \/ Drop(r)
       PROVE  LeftoverInv'
  BY <1>10, <1>12 DEF Poll, Read, Drop, Answer, Kill, KilledOnDrop
<1>13. ASSUME NEW k \in Closers, StopFfmpeg(k)
       PROVE  LeftoverInv'
  BY <1>10, <1>13 DEF StopFfmpeg, Kill, KilledOnDrop
<1>17. ASSUME NEW r \in Requests, SpawnFails(r)
       PROVE  LeftoverInv'
  <2>1. ffmpeg' = KilledOnDrop /\ spoilt \subseteq spoilt'
        /\ file' = [f \in Files |-> IF Latest(f) THEN "none" ELSE file[f]]
    BY <1>17 DEF SpawnFails, LastRemoved, Kill, KilledOnDrop
  <2>2. \A s \in Segments : file'[s] = file[s] \/ file'[s] = "none"
    BY <2>1, Numbers
  <2>3. QED BY <1>1, <1>4, <2>1, <2>2, Ended
<1>14. ASSUME NEW k \in Closers, Clean(k)
       PROVE  LeftoverInv'
  <2>1. ffmpeg'.target = ffmpeg.target /\ ffmpeg'.start = ffmpeg.start /\ UNCHANGED spoilt
    BY <1>1, <1>14, Ended DEF Clean
  <2>2. \A s \in Segments : file'[s] = "none"
    BY <1>14, Numbers DEF Clean
  <2>3. QED BY <1>4, <2>1, <2>2
<1>15. CASE \/ Judge \/ Reap \/ Drain \/ Tick \/ UNCHANGED vars
            \/ \E r \in Requests : Check(r) \/ Ensure(r) \/ \E i \in Files : Find(r, i)
  BY <1>9, <1>15 DEF Judge, Reap, Drain, Tick, vars, Check, Ensure, Find
<1>16. QED
  BY <1>5, <1>6, <1>7, <1>8, <1>11, <1>12, <1>13, <1>14, <1>15, <1>17
  DEF Next, RequestStep, CloserStep, Transcode

\* A half-written segment that ffmpeg is not at is left over only after a seek back:
\* removing the last segment before a restart is enough otherwise.
THEOREM OnlySeekBackLeaves == Spec => []LeftoverOnlyAfterSeekBack
<1>1. LeftoverInv => LeftoverOnlyAfterSeekBack
  BY DEF LeftoverInv, LeftoverOnlyAfterSeekBack
<1>2. QED BY LeftoverInit, LeftoverStep, <1>1, PTL DEF Spec

-----------------------------------------------------------------------------
(* What was waited for *)

\* A single ffmpeg has written the files, and nothing has happened to it.
Undisturbed == starts <= 1 /\ spoilt = {}

\* It has not come to this segment yet.
Ahead(s) == \/ ffmpeg.target = InitSegment
            \/ s > ffmpeg.target
            \/ s = ffmpeg.target /\ ~ffmpeg.open

\* The segments are written one after the other: what is half-written is open, and what
\* is ahead does not exist.
InOrder == \A s \in Segments : /\ file[s] \in {"empty", "partial"} => ffmpeg.open /\ ffmpeg.target = s
                               /\ Ahead(s) => file[s] = "none"

\* An ffmpeg that has ended has written everything, or was never started, or nobody can
\* ask for the session any more.
Deserted == ~listed /\ \A r \in Requests : ~Holding(r)
EndedWell == \/ ffmpeg.run
             \/ ffmpeg.target = Count
             \/ starts = 0 /\ ffmpeg.target = InitSegment
             \/ Deserted

\* The last segment is removed, and another ffmpeg cannot be started.
Removed(s) == file[s] = "none" /\ ~ffmpeg.run /\ starts # 0

\* What was waited for stays whole while it is there.
KeptWhole == \A r \in Requests : req[r].at = "read" /\ req[r].polled /\ req[r].index # InitSegment
                                   => file[req[r].index] = "whole" \/ ~dir \/ Removed(req[r].index)

GoneInv == ~dir => \A f \in Files : file[f] = "none"
PolledInv == \A r \in Requests : req[r].polled => req[r].at = "read"
UnstartedInv == starts = 0 => ffmpeg.target = InitSegment /\ ~ffmpeg.run

WaitedInv == /\ ChildInv /\ GoneInv /\ PolledInv
             /\ Undisturbed => InOrder /\ EndedWell /\ KeptWhole /\ UnstartedInv

LEMMA WaitedInit == Init => WaitedInv
BY ChildInit, Numbers
DEF Init, WaitedInv, GoneInv, PolledInv, InOrder, EndedWell, KeptWhole, UnstartedInv, Off, Away

\* What the steps of ffmpeg leave alone.
LEMMA TranscodeStep == ASSUME WaitedInv, Transcode
                       PROVE  WaitedInv'
<1>1. TypeInv /\ ChildInv'
  BY ChildStep DEF WaitedInv, ChildInv, Next
<1>2. ffmpeg \in Children /\ file \in [Files -> Contents] /\ req \in [Requests -> Askers] /\ starts \in 0..2
      /\ (ffmpeg.open => ffmpeg.target # Count)
  BY <1>1, TypeParts
<1>3. UNCHANGED <<listed, dir, req, starts>>
  BY DEF Transcode
<1>4. PolledInv'
  BY <1>3 DEF WaitedInv, PolledInv
<1>5. spoilt' = {} => spoilt = {}
  BY DEF Transcode, Open, Fill, Close, Exit
<1>6. SUFFICES GoneInv' /\ (Undisturbed' => InOrder' /\ EndedWell' /\ KeptWhole' /\ UnstartedInv')
  BY <1>1, <1>4 DEF WaitedInv
<1>7. CASE Exit
  <2>1. ffmpeg' = [ffmpeg EXCEPT !.run = FALSE] /\ UNCHANGED file
        /\ (spoilt' = {} => ffmpeg.target = Count)
    BY <1>7 DEF Exit
  <2>2. ffmpeg'.target = ffmpeg.target /\ ffmpeg'.open = ffmpeg.open /\ ~ffmpeg'.run
    BY <1>2, <2>1 DEF Children
  <2>3. GoneInv'
    BY <1>3, <2>1 DEF WaitedInv, GoneInv
  <2>4. ASSUME Undisturbed'
        PROVE  InOrder' /\ EndedWell' /\ KeptWhole' /\ UnstartedInv'
    <3>1. InOrder /\ KeptWhole /\ UnstartedInv /\ ffmpeg.target = Count
      BY <1>3, <1>5, <2>1, <2>4 DEF Undisturbed, WaitedInv
    <3>2. InOrder' /\ KeptWhole'
      BY <1>3, <2>1, <2>2, <3>1 DEF InOrder, Ahead, KeptWhole, Removed
    <3>3. EndedWell' /\ UnstartedInv'
      BY <1>3, <2>2, <3>1 DEF EndedWell, UnstartedInv
    <3>4. QED BY <3>2, <3>3
  <2>5. QED BY <2>3, <2>4
<1>8. CASE Open \/ Fill \/ Close
  <2>1. Runs /\ dir /\ ffmpeg.target # Count /\ UNCHANGED spoilt
    BY <1>2, <1>8 DEF Open, Fill, Close, Runs
  <2>2. ffmpeg.target \in Files /\ ffmpeg.start \in Segments
    BY <1>2, <2>1 DEF Children
  <2>3. GoneInv'
    BY <1>3, <2>1 DEF GoneInv
  <2>4. ffmpeg' \in Children /\ ffmpeg'.run
    BY <1>1, <1>2, <1>8, <2>1, TypeParts DEF ChildInv, TypeInv, TypeOK, Children, Open, Fill, Close, Runs
  <2>5. SUFFICES ASSUME Undisturbed'
                 PROVE  InOrder' /\ KeptWhole' /\ UnstartedInv'
    BY <2>3, <2>4 DEF EndedWell
  <2>6. InOrder /\ KeptWhole /\ UnstartedInv /\ starts # 0
    BY <1>3, <2>1, <2>5 DEF Undisturbed, WaitedInv, UnstartedInv, Runs
  <2>7. UnstartedInv'
    BY <1>3, <2>6 DEF UnstartedInv
  <2>8. \A s \in Segments : s # ffmpeg.target => file'[s] = file[s]
    BY <1>2, <1>8, <2>2, Numbers DEF Open, Fill, Close
  <2>9. ASSUME NEW r \in Requests, req[r].at = "read", req[r].polled, req[r].index # InitSegment
        PROVE  req[r].index \in Segments /\ file[req[r].index] = "whole"
    <3>1. req[r].index \in Segments
      BY <1>2, <2>9, Numbers DEF Askers
    <3>2. QED BY <2>1, <2>6, <2>9, <3>1 DEF KeptWhole, Removed, Runs
  <2>10. CASE Open
    <3>1. file' = [file EXCEPT ![ffmpeg.target] = "empty"] /\ ~ffmpeg.open
      BY <2>10 DEF Open
    <3>2. ffmpeg'.target = ffmpeg.target /\ ffmpeg'.open
      BY <1>2, <2>10 DEF Open, Children
    <3>3. InOrder'
      <4>1. ASSUME NEW s \in Segments
            PROVE  /\ file'[s] \in {"empty", "partial"} => ffmpeg'.target = s
                   /\ Ahead(s)' => file'[s] = "none"
        <5>1. CASE s = ffmpeg.target
          BY <3>2, <5>1, Numbers DEF Ahead
        <5>2. CASE s # ffmpeg.target
          BY <2>6, <2>8, <3>2, <5>2 DEF InOrder, Ahead
        <5>3. QED BY <5>1, <5>2
      <4>2. QED BY <3>2, <4>1 DEF InOrder
    <3>4. \A s \in Segments : file[s] = "whole" => s # ffmpeg.target
      BY <2>6, <3>1 DEF InOrder, Ahead
    <3>5. KeptWhole'
      BY <1>3, <2>8, <2>9, <3>4 DEF KeptWhole
    <3>6. QED BY <2>7, <3>3, <3>5
  <2>11. CASE Fill
    <3>1. UNCHANGED ffmpeg /\ ffmpeg.open /\ file[ffmpeg.target] = "empty"
      BY <2>11 DEF Fill
    <3>2. InOrder'
      <4>1. ASSUME NEW s \in Segments
            PROVE  /\ file'[s] \in {"empty", "partial"} => ffmpeg.target = s
                   /\ Ahead(s) => file'[s] = "none"
        <5>1. CASE s = ffmpeg.target
          BY <3>1, <5>1, Numbers DEF Ahead
        <5>2. CASE s # ffmpeg.target
          BY <2>6, <2>8, <5>2 DEF InOrder
        <5>3. QED BY <5>1, <5>2
      <4>2. QED BY <3>1, <4>1 DEF InOrder, Ahead
    <3>3. \A s \in Segments : file[s] = "whole" => s # ffmpeg.target
      BY <3>1
    <3>4. KeptWhole'
      BY <1>3, <2>8, <2>9, <3>3 DEF KeptWhole
    <3>5. QED BY <2>7, <3>2, <3>4
  <2>12. CASE Close
    <3>1. file'[ffmpeg.target] = "whole" /\ ffmpeg.open
      BY <1>2, <2>2, <2>12 DEF Close
    <3>2. ffmpeg' = [ffmpeg EXCEPT !.open = FALSE,
                       !.target = IF ffmpeg.target = InitSegment THEN ffmpeg.start ELSE ffmpeg.target + 1]
      BY <2>12 DEF Close
    <3>3. ~ffmpeg'.open /\ ffmpeg'.target = (IF ffmpeg.target = InitSegment THEN ffmpeg.start ELSE ffmpeg.target + 1)
      BY <1>2, <3>2 DEF Children
    <3>4. InOrder'
      <4>1. ASSUME NEW s \in Segments
            PROVE  /\ file'[s] \notin {"empty", "partial"}
                   /\ Ahead(s)' => file'[s] = "none"
        <5>1. CASE s = ffmpeg.target
          <6>1. ffmpeg'.target = s + 1 /\ s \in Nat /\ ffmpeg'.target # InitSegment
            BY <3>3, <5>1, Numbers DEF InitSegment
          <6>2. ~Ahead(s)'
            BY <6>1 DEF Ahead
          <6>3. QED BY <3>1, <5>1, <6>2
        <5>2. CASE s # ffmpeg.target
          <6>1. Ahead(s)' => Ahead(s)
            <7>1. CASE ffmpeg.target = InitSegment
              BY <7>1 DEF Ahead
            <7>2. CASE ffmpeg.target # InitSegment
              <8>1. ffmpeg.target \in Nat /\ ffmpeg'.target = ffmpeg.target + 1 /\ s \in Nat /\ ffmpeg'.target # InitSegment
                BY <2>2, <3>3, <7>2, Numbers DEF InitSegment
              <8>2. Ahead(s)' => s >= ffmpeg.target + 1
                BY <8>1 DEF Ahead
              <8>3. QED BY <8>1, <8>2 DEF Ahead
            <7>3. QED BY <7>1, <7>2
          <6>2. file'[s] = file[s]
            BY <2>8, <5>2
          <6>3. QED BY <2>6, <5>2, <6>1, <6>2 DEF InOrder
        <5>3. QED BY <5>1, <5>2
      <4>2. QED BY <4>1 DEF InOrder
    <3>5. KeptWhole'
      <4>1. \A s \in Segments : file[s] = "whole" => file'[s] = "whole"
        BY <2>8, <3>1
      <4>2. QED BY <1>3, <2>9, <4>1 DEF KeptWhole
    <3>6. QED BY <2>7, <3>4, <3>5
  <2>13. QED BY <1>8, <2>10, <2>11, <2>12
<1>9. QED BY <1>7, <1>8 DEF Transcode

\* A step that leaves the files alone, and of ffmpeg all but whether it runs, keeps the
\* invariant if nobody new has waited.
LEMMA QuietStep ==
  ASSUME WaitedInv, [Next]_vars,
         UNCHANGED <<file, dir, starts>>, spoilt \subseteq spoilt',
         ffmpeg'.target = ffmpeg.target, ffmpeg'.open = ffmpeg.open,
         ffmpeg'.run => ffmpeg.run,
         Undisturbed' => EndedWell',
         \A r \in Requests : req'[r].polled => /\ req'[r].at = "read" /\ req[r].polled
                                               /\ req'[r].index = req[r].index
  PROVE  WaitedInv'
<1>1. ChildInv' /\ GoneInv' /\ PolledInv'
  BY ChildStep DEF WaitedInv, GoneInv, PolledInv
<1>2. ASSUME Undisturbed'
      PROVE  InOrder' /\ KeptWhole' /\ UnstartedInv'
  <2>1. InOrder /\ KeptWhole /\ UnstartedInv
    BY <1>2 DEF WaitedInv, Undisturbed
  <2>2. InOrder' /\ UnstartedInv'
    BY <2>1 DEF InOrder, Ahead, UnstartedInv
  <2>3. ASSUME NEW r \in Requests, req'[r].at = "read", req'[r].polled, req'[r].index # InitSegment
        PROVE  (file[req[r].index] = "whole" \/ ~dir \/ Removed(req[r].index))'
    <3>1. req[r].polled /\ req[r].at = "read" /\ req'[r].index = req[r].index
      BY <2>3 DEF WaitedInv, PolledInv
    <3>2. file[req[r].index] = "whole" \/ ~dir \/ Removed(req[r].index)
      BY <2>1, <2>3, <3>1 DEF KeptWhole
    <3>3. QED BY <3>1, <3>2 DEF Removed
  <2>4. QED BY <2>2, <2>3 DEF KeptWhole
<1>3. QED BY <1>1, <1>2 DEF WaitedInv

\* What request r does changes nobody else's request.
LEMMA RequestQuiet ==
  ASSUME WaitedInv, [Next]_vars, NEW r \in Requests,
         \/ Check(r) \/ Ensure(r) \/ Read(r) \/ Drop(r) \/ \E i \in Files : Find(r, i)
         \/ Poll(r) /\ Answer(r)
  PROVE  WaitedInv'
<1>1. TypeInv /\ PolledInv
  BY DEF WaitedInv, ChildInv
<1>2. req \in [Requests -> Askers] /\ ffmpeg \in Children /\ ~Away.polled /\ Away.at = "away" /\ Away \in Askers
  BY <1>1, TypeParts, Ended
<1>3. UNCHANGED <<listed, file, dir, starts>> /\ spoilt \subseteq spoilt'
  BY DEF Check, Ensure, Read, Drop, Find, Poll, Kill
<1>4. \A q \in Requests \ {r} : req'[q] = req[q]
  BY <1>2 DEF Check, Ensure, Read, Drop, Find, Poll, Answer
<1>5. ~req'[r].polled
  <2>1. CASE Check(r)
    <3>1. ~req[r].polled /\ req'[r].polled = req[r].polled
      BY <1>1, <1>2, <2>1 DEF Check, PolledInv, Askers
    <3>2. QED BY <3>1
  <2>2. CASE Ensure(r)
    <3>1. ~req[r].polled /\ req'[r].polled = req[r].polled
      BY <1>1, <1>2, <2>2 DEF Ensure, PolledInv, Askers
    <3>2. QED BY <3>1
  <2>3. CASE Read(r) \/ Drop(r) \/ (Poll(r) /\ Answer(r))
    <3>1. req'[r] = Away
      BY <1>2, <2>3 DEF Read, Drop, Answer
    <3>2. QED BY <1>2, <3>1
  <2>4. CASE \E i \in Files : Find(r, i)
    <3>1. PICK i \in Files : req'[r] = [Away EXCEPT !.at = "found", !.index = i]
      BY <1>2, <2>4 DEF Find
    <3>2. ~req'[r].polled
      BY <1>2, <3>1 DEF Askers
    <3>3. QED BY <3>2
  <2>5. QED BY <2>1, <2>2, <2>3, <2>4
<1>6. ffmpeg' = ffmpeg \/ ffmpeg' = KilledOnDrop
  BY DEF Check, Ensure, Read, Drop, Find, Poll, Answer, Kill, KilledOnDrop
<1>7. ffmpeg'.target = ffmpeg.target /\ ffmpeg'.open = ffmpeg.open /\ (ffmpeg'.run => ffmpeg.run)
  BY <1>1, <1>2, <1>6, Ended
<1>8. ASSUME Undisturbed'
      PROVE  EndedWell'
  <2>1. EndedWell
    BY <1>3, <1>8 DEF Undisturbed, WaitedInv
  <2>2. Deserted => Deserted'
    <3>1. ASSUME ~listed, \A q \in Requests : ~Holding(q)
          PROVE  UNCHANGED req
      BY <3>1 DEF Check, Ensure, Read, Drop, Find, Poll, Holding
    <3>2. QED BY <1>3, <3>1 DEF Deserted, Holding
  <2>3. CASE ffmpeg' = ffmpeg
    BY <1>3, <2>1, <2>2, <2>3 DEF EndedWell
  <2>4. CASE Drop(r) /\ Kill
    <3>1. ~ffmpeg.run
      BY <1>8, <2>4 DEF Kill, Undisturbed
    <3>2. QED BY <1>3, <1>7, <2>1, <2>2, <3>1 DEF EndedWell
  <2>5. CASE Answer(r) /\ ffmpeg' # ffmpeg
    <3>1. ~listed /\ ~(\E q \in Requests \ {r} : Holding(q))
      BY <2>5 DEF Answer
    <3>2. req'[r].at = "away"
      BY <1>2, <2>5 DEF Answer
    <3>3. Deserted'
      BY <1>3, <1>4, <3>1, <3>2 DEF Deserted, Holding
    <3>4. QED BY <3>3 DEF EndedWell
  <2>6. QED BY <2>3, <2>4, <2>5 DEF Check, Ensure, Read, Drop, Find, Poll
<1>9. QED BY <1>3, <1>4, <1>5, <1>7, <1>8, QuietStep DEF WaitedInv, PolledInv

\* A segment that is complete is whole: were it half-written, the next one would not be
\* there, and ffmpeg would run.
LEMMA PollStep ==
  ASSUME WaitedInv, NEW r \in Requests, Poll(r), Complete(req[r].index),
         req' = [req EXCEPT ![r].at = "read", ![r].polled = TRUE], UNCHANGED ffmpeg
  PROVE  WaitedInv'
<1>1. TypeInv /\ PolledInv
  BY DEF WaitedInv, ChildInv
<1>2. req \in [Requests -> Askers] /\ ffmpeg \in Children
      /\ (ffmpeg.open => ffmpeg.target # Count) /\ file \in [Files -> Contents]
  BY <1>1, TypeParts
<1>3. UNCHANGED <<listed, dir, file, starts, spoilt>> /\ req[r].at = "wait"
  BY DEF Poll
<1>4. req'[r].at = "read" /\ req'[r].polled /\ req'[r].index = req[r].index
      /\ \A q \in Requests \ {r} : req'[q] = req[q]
  BY <1>2 DEF Askers
<1>5. ChildInv' /\ GoneInv' /\ PolledInv'
  <2>1. Next
    BY DEF Next, RequestStep
  <2>2. ChildInv'
    BY <2>1, ChildStep DEF WaitedInv
  <2>3. PolledInv'
    BY <1>1, <1>4 DEF PolledInv
  <2>4. QED BY <1>3, <2>2, <2>3 DEF WaitedInv, GoneInv
<1>6. ASSUME Undisturbed'
      PROVE  InOrder' /\ EndedWell' /\ KeptWhole' /\ UnstartedInv'
  <2>1. InOrder /\ EndedWell /\ KeptWhole /\ UnstartedInv
    BY <1>3, <1>6 DEF Undisturbed, WaitedInv
  <2>2. InOrder' /\ UnstartedInv'
    BY <1>3, <2>1 DEF InOrder, Ahead, UnstartedInv
  <2>3. Holding(r) /\ Holding(r)'
    BY <1>3, <1>4 DEF Holding
  <2>4. EndedWell'
    BY <1>3, <2>1, <2>3 DEF EndedWell, Deserted
  <2>5. ASSUME req[r].index # InitSegment
        PROVE  file[req[r].index] = "whole"
    <3> DEFINE s == req[r].index
    <3>1. s \in Segments /\ s \in Nat
      BY <1>2, <2>5, Numbers DEF Askers
    <3>2. file[s] \in {"partial", "whole"} /\ (~ffmpeg.run \/ Ready(s + 1))
      BY <2>5 DEF Complete, Ready
    <3>3. SUFFICES ASSUME file[s] = "partial"
                   PROVE  FALSE
      BY <3>2
    <3>4. ffmpeg.open /\ ffmpeg.target = s
      BY <2>1, <3>1, <3>3 DEF InOrder
    <3>5. ffmpeg.run
      BY <1>2, <2>1, <2>3, <3>1, <3>4, Numbers DEF EndedWell, Deserted
    <3>6. s + 1 \in Segments /\ file[s + 1] # "none"
      BY <3>1, <3>2, <3>5, Numbers DEF Ready, Files, Segments, InitSegment
    <3>7. file[s + 1] = "none"
      <4>1. s + 1 > ffmpeg.target
        BY <3>1, <3>4
      <4>2. QED BY <2>1, <3>6, <4>1 DEF InOrder, Ahead
    <3>8. QED BY <3>6, <3>7
  <2>6. ASSUME NEW q \in Requests, req'[q].at = "read", req'[q].polled, req'[q].index # InitSegment
        PROVE  (file[req[q].index] = "whole" \/ ~dir \/ Removed(req[q].index))'
    <3>1. CASE q = r
      BY <1>3, <1>4, <2>5, <2>6, <3>1
    <3>2. CASE q # r
      <4>1. req'[q] = req[q]
        BY <1>4, <3>2
      <4>2. file[req[q].index] = "whole" \/ ~dir \/ Removed(req[q].index)
        BY <2>1, <2>6, <4>1 DEF KeptWhole
      <4>3. ffmpeg' = ffmpeg
        OBVIOUS
      <4>4. QED BY <1>3, <4>1, <4>2, <4>3 DEF Removed
    <3>3. QED BY <3>1, <3>2
  <2>7. KeptWhole'
    BY <2>6 DEF KeptWhole
  <2>8. QED BY <2>2, <2>4, <2>7
<1>7. QED BY <1>5, <1>6 DEF WaitedInv

\* The first ffmpeg finds no segments; after the second, nothing is claimed.
LEMMA RespawnStep == ASSUME WaitedInv, NEW r \in Requests, Respawn(r)
                     PROVE  WaitedInv'
<1>1. TypeInv /\ PolledInv
  BY DEF WaitedInv, ChildInv
<1>2. req \in [Requests -> Askers] /\ file \in [Files -> Contents] /\ starts \in 0..2
  BY <1>1, TypeParts
<1>3. /\ ffmpeg' = [run |-> TRUE, target |-> InitSegment, start |-> Requested(r), open |-> FALSE]
      /\ file' = [f \in Files |-> IF Latest(f) THEN "none" ELSE file[f]]
      /\ req' = [req EXCEPT ![r].at = "wait"]
      /\ starts' = (IF starts = 0 THEN 1 ELSE 2)
      /\ spoilt \subseteq spoilt'
      /\ req[r].at = "restart"
      /\ UNCHANGED <<listed, dir>>
  BY DEF Respawn, LastRemoved
<1>4. ffmpeg'.run /\ ffmpeg'.target = InitSegment
  BY <1>3
<1>5. req'[r].at = "wait" /\ req'[r].polled = req[r].polled /\ ~req[r].polled
      /\ \A q \in Requests \ {r} : req'[q] = req[q]
  BY <1>1, <1>2, <1>3 DEF Askers, PolledInv
<1>6. ChildInv' /\ GoneInv' /\ PolledInv'
  <2>1. Next
    BY DEF Next, RequestStep
  <2>2. ChildInv'
    BY <2>1, ChildStep DEF WaitedInv
  <2>3. PolledInv'
    BY <1>1, <1>5 DEF PolledInv
  <2>4. GoneInv'
    BY <1>3 DEF WaitedInv, GoneInv
  <2>5. QED BY <2>2, <2>3, <2>4
<1>7. ASSUME Undisturbed'
      PROVE  InOrder' /\ EndedWell' /\ KeptWhole' /\ UnstartedInv'
  <2>1. starts = 0 /\ Undisturbed
    BY <1>2, <1>3, <1>7 DEF Undisturbed
  <2>2. InOrder /\ KeptWhole /\ UnstartedInv
    BY <2>1 DEF WaitedInv
  <2>3. \A s \in Segments : file[s] = "none" /\ file'[s] = "none"
    BY <1>3, <2>1, <2>2, Numbers DEF InOrder, Ahead, UnstartedInv
  <2>4. InOrder'
    BY <2>3 DEF InOrder
  <2>5. ASSUME NEW q \in Requests, req'[q].at = "read", req'[q].polled, req'[q].index # InitSegment
        PROVE  ~dir'
    <3>1. q # r /\ req'[q] = req[q]
      BY <1>5, <2>5
    <3>2. req[q].index \in Segments
      BY <1>2, <2>5, <3>1, Numbers DEF Askers
    <3>3. file[req[q].index] = "whole" \/ ~dir
      BY <2>1, <2>2, <2>5, <3>1 DEF KeptWhole, Removed
    <3>4. QED BY <1>3, <2>3, <3>2, <3>3
  <2>6. EndedWell' /\ UnstartedInv'
    BY <1>3, <1>4, <2>1 DEF EndedWell, UnstartedInv
  <2>7. QED BY <2>4, <2>5, <2>6 DEF KeptWhole
<1>8. QED BY <1>6, <1>7 DEF WaitedInv

\* If no other can be started the last segment is gone, and nothing is written any more.
LEMMA SpawnFailsStep == ASSUME WaitedInv, NEW r \in Requests, SpawnFails(r)
                        PROVE  WaitedInv'
<1>1. TypeInv /\ PolledInv
  BY DEF WaitedInv, ChildInv
<1>2. /\ req \in [Requests -> Askers] /\ file \in [Files -> Contents] /\ ffmpeg \in Children
      /\ Away.at = "away" /\ ~Away.polled
  BY <1>1, TypeParts, Ended
<1>3. /\ ffmpeg' = KilledOnDrop
      /\ file' = [f \in Files |-> IF Latest(f) THEN "none" ELSE file[f]]
      /\ req' = [req EXCEPT ![r] = Away]
      /\ spoilt \subseteq spoilt' /\ (spoilt' = {} => ~ffmpeg.run)
      /\ req[r].at = "restart"
      /\ UNCHANGED <<listed, dir, starts>>
  BY DEF SpawnFails, LastRemoved, Kill, KilledOnDrop
<1>4. ~ffmpeg'.run /\ ffmpeg'.target = ffmpeg.target /\ ffmpeg'.open = ffmpeg.open
  BY <1>1, <1>3, Ended
<1>5. req'[r].at = "away" /\ ~req'[r].polled /\ \A q \in Requests \ {r} : req'[q] = req[q]
  BY <1>2, <1>3
<1>6. ChildInv' /\ GoneInv' /\ PolledInv'
  <2>1. Next
    BY DEF Next, RequestStep
  <2>2. ChildInv'
    BY <2>1, ChildStep DEF WaitedInv
  <2>3. PolledInv'
    BY <1>1, <1>5 DEF PolledInv
  <2>4. GoneInv'
    BY <1>3 DEF WaitedInv, GoneInv
  <2>5. QED BY <2>2, <2>3, <2>4
<1>7. ASSUME Undisturbed'
      PROVE  InOrder' /\ EndedWell' /\ KeptWhole' /\ UnstartedInv'
  <2>1. InOrder /\ EndedWell /\ KeptWhole /\ UnstartedInv /\ ~ffmpeg.run
    BY <1>3, <1>7 DEF WaitedInv, Undisturbed
  <2>2. \A s \in Segments : file'[s] = file[s] \/ file'[s] = "none"
    BY <1>3, Numbers
  <2>3. InOrder' /\ UnstartedInv'
    BY <1>3, <1>4, <2>1, <2>2 DEF InOrder, Ahead, UnstartedInv
  <2>4. EndedWell'
    BY <1>3, <1>4, <2>1 DEF EndedWell, Deserted, Holding
  <2>5. ASSUME NEW q \in Requests, req'[q].at = "read", req'[q].polled, req'[q].index # InitSegment
        PROVE  (file[req[q].index] = "whole" \/ ~dir \/ Removed(req[q].index))'
    <3>1. q # r /\ req'[q] = req[q]
      BY <1>5, <2>5
    <3>2. PICK i \in Segments : i = req[q].index
      BY <1>2, <2>5, <3>1, Numbers DEF Askers
    <3>3. file[i] = "whole" \/ ~dir \/ Removed(i)
      BY <2>1, <2>5, <3>1, <3>2 DEF KeptWhole
    <3>4. starts = 0 => file[i] = "none"
      BY <2>1, <3>2 DEF InOrder, Ahead, UnstartedInv
    <3>5. file'[i] = "whole" \/ ~dir' \/ Removed(i)'
      BY <1>3, <1>4, <2>2, <3>2, <3>3, <3>4 DEF Removed
    <3>6. QED BY <3>1, <3>2, <3>5 DEF Removed
  <2>6. KeptWhole'
    BY <2>5 DEF KeptWhole
  <2>7. QED BY <2>3, <2>4, <2>6
<1>8. QED BY <1>6, <1>7 DEF WaitedInv

\* The reaper and the shutdown.
LEMMA CloserQuiet == ASSUME WaitedInv, CloserStep \/ Drain
                     PROVE  WaitedInv'
<1>1. TypeInv /\ PolledInv /\ ClosersInv
  BY DEF WaitedInv, ChildInv
<1>2. ffmpeg \in Children
  BY <1>1, TypeParts
<1>3. Next
  BY DEF Next
<1>4. CASE Judge \/ Reap \/ Drain
  <2>1. UNCHANGED <<file, dir, starts, spoilt, ffmpeg, req>> /\ (listed' => listed)
    BY <1>4 DEF Judge, Reap, Drain
  <2>2. Undisturbed' => EndedWell'
    BY <2>1 DEF WaitedInv, Undisturbed, EndedWell, Deserted, Holding
  <2>3. QED BY <1>1, <1>3, <2>1, <2>2, QuietStep DEF PolledInv
<1>5. ASSUME NEW k \in Closers, StopFfmpeg(k)
      PROVE  WaitedInv'
  <2>1. UNCHANGED <<listed, file, dir, starts, req>> /\ ffmpeg' = KilledOnDrop /\ spoilt \subseteq spoilt'
        /\ (spoilt' = {} => ~ffmpeg.run)
    BY <1>5 DEF StopFfmpeg, Kill, KilledOnDrop
  <2>2. ffmpeg'.target = ffmpeg.target /\ ffmpeg'.open = ffmpeg.open /\ ~ffmpeg'.run
    BY <1>1, <2>1, Ended
  <2>3. Undisturbed' => EndedWell'
    BY <2>1, <2>2 DEF WaitedInv, Undisturbed, EndedWell, Deserted, Holding
  <2>4. QED BY <1>1, <1>3, <2>1, <2>2, <2>3, QuietStep DEF PolledInv
<1>6. ASSUME NEW k \in Closers, Clean(k)
      PROVE  WaitedInv'
  <2>1. /\ UNCHANGED <<listed, starts, spoilt, req>> /\ dir' = FALSE
        /\ \A f \in Files : file'[f] = "none"
        /\ ffmpeg' = IF \E r \in Requests : Holding(r) THEN ffmpeg ELSE KilledOnDrop
        /\ ~listed
    BY <1>1, <1>6 DEF Clean, ClosersInv, Closing
  <2>2. ffmpeg'.target = ffmpeg.target /\ ffmpeg'.open = ffmpeg.open /\ (ffmpeg'.run => ffmpeg.run)
    BY <1>1, <2>1, Ended
  <2>3. ChildInv' /\ GoneInv' /\ PolledInv'
    BY <1>1, <1>3, <2>1, ChildStep DEF WaitedInv, GoneInv, PolledInv
  <2>4. ASSUME Undisturbed'
        PROVE  InOrder' /\ EndedWell' /\ KeptWhole' /\ UnstartedInv'
    <3>1. EndedWell /\ UnstartedInv
      BY <2>1, <2>4 DEF Undisturbed, WaitedInv
    <3>2. InOrder' /\ KeptWhole'
      BY <2>1, Numbers DEF InOrder, KeptWhole
    <3>3. UnstartedInv'
      BY <2>1, <2>2, <3>1 DEF UnstartedInv
    <3>4. ASSUME \E r \in Requests : Holding(r)
          PROVE  EndedWell'
      BY <2>1, <3>1, <3>4 DEF EndedWell, Deserted, Holding
    <3>5. ASSUME ~(\E r \in Requests : Holding(r))
          PROVE  EndedWell'
      BY <2>1, <3>5 DEF EndedWell, Deserted, Holding
    <3>6. QED BY <3>2, <3>3, <3>4, <3>5
  <2>5. QED BY <2>3, <2>4 DEF WaitedInv
<1>7. QED BY <1>4, <1>5, <1>6 DEF CloserStep

LEMMA TickQuiet == ASSUME WaitedInv, Tick \/ UNCHANGED vars
                   PROVE  WaitedInv'
<1>1. TypeInv /\ PolledInv
  BY DEF WaitedInv, ChildInv
<1>2. req \in [Requests -> Askers]
  BY <1>1, TypeParts
<1>3. UNCHANGED <<listed, dir, file, ffmpeg, starts, spoilt>>
  BY DEF Tick, vars
<1>4. \A r \in Requests : req'[r].at = req[r].at /\ req'[r].polled = req[r].polled /\ req'[r].index = req[r].index
  BY <1>2 DEF Tick, vars, Askers
<1>5. Undisturbed' => EndedWell'
  BY <1>3, <1>4 DEF WaitedInv, Undisturbed, EndedWell, Deserted, Holding
<1>6. QED BY <1>1, <1>3, <1>4, <1>5, QuietStep DEF PolledInv, Next

LEMMA WaitedStep == ASSUME WaitedInv, [Next]_vars
                    PROVE  WaitedInv'
<1>1. ASSUME NEW r \in Requests, Poll(r)
      PROVE  WaitedInv'
  BY <1>1, PollStep, RequestQuiet DEF Poll
<1>2. ASSUME NEW r \in Requests, RequestStep(r) \/ Drop(r) \/ \E i \in Files : Find(r, i)
      PROVE  WaitedInv'
  BY <1>1, <1>2, RequestQuiet, RespawnStep, SpawnFailsStep DEF RequestStep
<1>3. QED BY <1>2, TranscodeStep, CloserQuiet, TickQuiet DEF Next

\* "The next segment has appeared" tells that a segment is whole, as long as a single
\* ffmpeg has written the files and nothing has happened to it.
THEOREM WaitedFor == Spec => []WaitedIsWhole
<1>1. WaitedInv => WaitedIsWhole
  <2>1. SUFFICES ASSUME WaitedInv, Undisturbed, NEW r \in Requests,
                        req[r].at = "read", req[r].polled, req[r].index # InitSegment
                 PROVE  file[req[r].index] \in {"whole", "none"}
    BY DEF WaitedIsWhole, Undisturbed
  <2>2. req[r].index \in Files
    BY <2>1, TypeParts DEF WaitedInv, ChildInv, Askers
  <2>3. file[req[r].index] \in {"whole", "none"} \/ ~dir
    BY <2>1 DEF WaitedInv, KeptWhole, Removed
  <2>4. QED BY <2>1, <2>2, <2>3 DEF WaitedInv, GoneInv
<1>2. QED BY WaitedInit, WaitedStep, <1>1, PTL DEF Spec


-----------------------------------------------------------------------------
(* Playlists *)

\* The film ends in its last segment, or hardly behind it.
LEMMA LastSegment ==
  ASSUME NEW d \in Nat \ {0}
  PROVE  /\ SegmentCount(d) \in Nat \ {0}
         /\ Begin(SegmentCount(d) - 1) < d
         /\ d <= Begin(SegmentCount(d)) + Tolerance
<1> DEFINE full == d \div 4000
           rest == d % 4000
<1>1. full \in Nat /\ rest \in 0..3999 /\ d = 4000 * full + rest
  OBVIOUS
<1>2. SegmentCount(d) = IF full >= 1 /\ rest <= 250 THEN full ELSE full + 1
  BY DEF SegmentCount, SegmentDuration, Tolerance
<1> HIDE DEF full, rest
<1>3. QED BY <1>1, <1>2 DEF Begin, SegmentDuration, Tolerance

\* A segment is as long as its line of the playlist says, up to the end of the film.
LEMMA LengthOf ==
  ASSUME NEW d \in Nat, NEW i \in Nat
  PROVE  /\ d >= Begin(i + 1) => Length(d, i) = SegmentDuration
         /\ Begin(i) < d /\ d < Begin(i + 1) => Length(d, i) = d - Begin(i)
BY DEF Length, Begin, Least, Most, SegmentDuration

\* Every playlist fits its film, of whatever length (hls.rs, vod_playlist and segment_count).
THEOREM EveryPlaylistFits == \A d \in Nat \ {0} : Fits(d)
<1>1. SUFFICES ASSUME NEW d \in Nat \ {0}
               PROVE  Fits(d)
  OBVIOUS
<1> DEFINE last == SegmentCount(d) - 1
<1>2. last \in Nat /\ Begin(last) < d /\ d <= Begin(last + 1) + 250
  BY LastSegment DEF Tolerance
<1> HIDE DEF last
<1>3. ASSUME NEW i \in 0..last - 1
      PROVE  Length(d, i) = SegmentDuration /\ Begin(i) + SegmentDuration = Begin(i + 1)
  BY <1>2, LengthOf DEF Begin, SegmentDuration
<1>4. Length(d, last) > 0 /\ Begin(last) + Length(d, last) \in d - 250..d
  BY <1>2, LengthOf DEF Begin, SegmentDuration
<1>5. \A i \in 0..last : Length(d, i) > 0
  <2>1. \A i \in 0..last : i = last \/ i \in 0..last - 1
    BY <1>2
  <2>2. QED BY <2>1, <1>3, <1>4 DEF SegmentDuration
<1>6. QED BY <1>3, <1>4, <1>5 DEF Fits, last, Tolerance

\* ffmpeg begins less than five seconds before the segment it is started at, and no
\* further behind it than half a second.
LEMMA EveryStartIsNear ==
  ASSUME NEW d \in Nat \ {0}, NEW method \in Methods, NEW i \in 0..SegmentCount(d) - 1
  PROVE  StartsAt(d, method, i)
<1>1. SegmentCount(d) \in Nat \ {0} /\ Begin(SegmentCount(d) - 1) < d
  BY LastSegment
<1>2. Begin(i) \in Nat /\ Begin(i) < d /\ (i = 0 => Begin(i) = 0)
  BY <1>1 DEF Begin, SegmentDuration
<1>3. KeyFrameShift(method) \in 0..500
  BY DEF KeyFrameShift
<1>4. Command(d, method, i).seek = Seek(d, method, i)
  BY DEF Command
<1>5. CASE i = 0
  BY <1>2, <1>3, <1>4, <1>5 DEF StartsAt, Seek, Margin
<1>6. CASE i # 0
  BY <1>2, <1>3, <1>4, <1>6 DEF StartsAt, Seek, Margin, Least, Most
<1>7. QED BY <1>5, <1>6

-----------------------------------------------------------------------------
(* The session *)

\* The session is of a film that has a length, and as many segments as it is asked for.
FilmInv == made # NoFilm => /\ made.duration \in Nat \ {0}
                            /\ made.method \in Methods
                            /\ SegmentCount(made.duration) = Count
IInv == TypeInv /\ FilmInv

LEMMA StartOK == Start => IInv
<1>1. ASSUME Start
      PROVE  TypeInv
  <2>1. Off \in [run : BOOLEAN, target : Files \cup {Count}, start : Segments, open : BOOLEAN] /\ ~Off.open
    BY Numbers DEF Off
  <2>2. 0 \in 0..WaitLimit /\ 0 \in 0..IdleLimit + 1
    BY Numbers
  <2>3. Away \in [at : {"away", "found", "ensure", "restart", "wait", "read"},
                  index : Files, waited : 0..WaitLimit, polled : BOOLEAN]
    BY <2>2, Numbers DEF Away
  <2>0. listed \in BOOLEAN /\ dir \in BOOLEAN
    BY <1>1, Zenon DEF Start
  <2>4. /\ lock \in Requests \cup {"free"} /\ idle \in 0..IdleLimit + 1
        /\ starts \in 0..2 /\ spoilt \subseteq {"crash", "kill", "back"}
    BY <1>1, <2>2 DEF Start
  <2>5. file \in [Files -> {"none", "empty", "partial", "whole"}]
    BY <1>1 DEF Start
  <2>6. ffmpeg = Off /\ req = [r \in Requests |-> Away] /\ closer = [k \in Closers |-> "resting"]
    BY <1>1 DEF Start
  <2> HIDE DEF Off, Away
  <2>7. QED BY <2>0, <2>1, <2>3, <2>4, <2>5, <2>6 DEF TypeInv, TypeOK
<1>2. Start => FilmInv
  BY DEF Start, FilmInv
<1>3. QED BY <1>1, <1>2 DEF IInv

\* A session is made of a film with a length, and of the segments it is asked for.
LEMMA WantedOK ==
  ASSUME NEW p \in Profiles, NEW f \in Films, NEW film \in Wanted(p, f)
  PROVE  film.duration \in Nat \ {0} /\ film.method \in Methods /\ SegmentCount(film.duration) = Count
<1>1. PICK probe \in Probes(p, f) :
        /\ film = [duration |-> Summary(probe).duration, method |-> Decide(p, Judged(probe, f.extension)).method]
        /\ film.duration > 0
  BY DEF Wanted
<1>2. film.method \in Methods
  BY <1>1 DEF Decide, Method, Methods
<1>3. film.duration = probe.duration
  BY <1>1 DEF Summary
<1>4. probe = f.probe \/ probe.duration = 0
  BY DEF Probes, NoProbe
<1>5. film.duration > 0 /\ (film.duration = f.probe.duration \/ film.duration = 0)
  BY <1>1, <1>3, <1>4
<1>6. QED BY <1>2, <1>5, LengthAssumption

\* Every step keeps the invariant.
LEMMA PlaybackStep == ASSUME IInv, [PlaybackNext]_allVars
                      PROVE  IInv'
<1>1. TypeInv /\ FilmInv
  BY DEF IInv
<1>2. ASSUME UNCHANGED made, [Next]_vars
      PROVE  IInv'
  BY <1>1, <1>2, TypeStep DEF IInv, FilmInv
<1>3. CASE TellHow
  <2>1. CASE UNCHANGED <<vars, made, age>>
    BY <1>2, <2>1
  <2>2. ASSUME NEW p \in Profiles, NEW f \in Films, NEW film \in Wanted(p, f), MakeSession(film)
        PROVE  IInv'
    <3>1. FilmInv'
      BY <2>2, WantedOK DEF FilmInv, MakeSession
    <3>2. TypeInv'
      BY <1>1, <2>2, Numbers DEF MakeSession, TypeInv, TypeOK
    <3>3. QED BY <3>1, <3>2 DEF IInv
  <2>3. QED BY <1>3, <2>1, <2>2 DEF TellHow
<1>4. CASE End
  <2>1. KilledOnDrop \in [run : BOOLEAN, target : Files \cup {Count}, start : Segments, open : BOOLEAN]
        /\ KilledOnDrop.open = ffmpeg.open /\ KilledOnDrop.target = ffmpeg.target
    BY <1>1, Ended DEF Children
  <2>2. TypeInv'
    BY <1>1, <1>4, <2>1 DEF End, TypeInv, TypeOK
  <2>3. QED BY <1>1, <1>4, <2>2 DEF End, IInv, FilmInv
<1>5. CASE GetPlaylist
  <2>1. TypeInv'
    BY <1>1, <1>5, Numbers DEF GetPlaylist, Touched, TypeInv, TypeOK
  <2>2. QED BY <1>1, <1>5, <2>1 DEF GetPlaylist, playVars, IInv, FilmInv
<1>6. CASE DrainSessions
  BY <1>2, <1>6 DEF DrainSessions, Next
<1>7. CASE Alive /\ OldTick
  BY <1>2, <1>7 DEF OldTick, Next
<1>8. CASE SessionStep(Transcode) \/ SessionStep(CloserStep)
  BY <1>2, <1>8 DEF SessionStep, playVars, Next
<1>9. ASSUME NEW r \in Requests, SessionStep(RequestStep(r)) \/ SessionStep(Drop(r))
      PROVE  IInv'
  BY <1>2, <1>9 DEF SessionStep, playVars, Next
<1>10. ASSUME NEW r \in Requests, NEW i \in Files, GetSegment(r, i)
       PROVE  IInv'
  BY <1>2, <1>10 DEF GetSegment, playVars, Next
<1>11. CASE AskHow \/ Hold \/ LetGo \/ Signal \/ ServeEnds \/ UNCHANGED allVars
  BY <1>2, <1>11 DEF AskHow, Hold, LetGo, Signal, ServeEnds, allVars, playVars
<1>12. QED BY <1>3, <1>4, <1>5, <1>6, <1>7, <1>8, <1>9, <1>10, <1>11 DEF PlaybackNext

\* The playlist of a session fits its film, and ffmpeg was started where a segment of it
\* begins or a little before, whatever the films, the clients and the order of requests.
THEOREM SessionsFit == PlaybackSpec => []PlaylistFits
<1>1. Start => IInv
  BY StartOK
<1>2. IInv /\ [PlaybackNext]_allVars => IInv'
  BY PlaybackStep
<1>3. IInv => PlaylistFits
  <2>1. SUFFICES ASSUME IInv, made # NoFilm
                 PROVE  Fits(made.duration) /\ StartsAt(made.duration, made.method, ffmpeg.start)
    BY DEF PlaylistFits
  <2>2. made.duration \in Nat \ {0} /\ made.method \in Methods /\ SegmentCount(made.duration) = Count
    BY <2>1 DEF IInv, FilmInv
  <2>3. ffmpeg.start \in 0..SegmentCount(made.duration) - 1
    BY <2>1, <2>2, TypeParts DEF IInv, Children, Segments
  <2>4. QED BY <2>2, <2>3, EveryPlaylistFits, EveryStartIsNear
<1>4. QED BY <1>1, <1>2, <1>3, PTL DEF PlaybackSpec
=============================================================================
