-------------------------- MODULE Downloads_proofs --------------------------
(***************************************************************************)
(* Proofs about the downloads, for any releases, polls, torrents, requests *)
(* and bounds.  The inductive invariant of the polls says what a claim is  *)
(* worth: while the subscription lives its first life, the poll that has   *)
(* claimed a release is the only one that works on it, and nobody has      *)
(* added it yet.  That of the torrents follows one that was added once     *)
(* from the session to the library.                                        *)
(***************************************************************************)
EXTENDS Downloads, TLAPS

-----------------------------------------------------------------------------
(* The polls *)

\* A poll has a release at hand exactly while it adds, records or releases it.
HandOK ==
  \A p \in Polling!Polls : poll[p].item # Polling!None <=> poll[p].at \in {"add", "record", "release"}

\* A release that is being recorded has been added.
RecordedWasAdded == \A p \in Polling!Polls : poll[p].at = "record" => added[poll[p].item] > 0

\* Before the subscription is first created nothing happens.
Unborn ==
  lives = 0 => /\ sub = "absent"
               /\ \A p \in Polling!Polls : poll[p] = Polling!Resting
               /\ \A r \in Releases : added[r] = 0

\* What the claim of a release means in the first life: no other poll has the
\* release at hand, and it has not been added before the add.
ClaimIsExclusive ==
  lives <= 1 =>
    \A p \in Polling!Polls : poll[p].item # Polling!None =>
      /\ \A q \in Polling!Polls \ {p} : poll[q].item # poll[p].item
      /\ poll[p].at \in {"add", "release"} => added[poll[p].item] = 0

\* A release without an entry is one nobody has touched.
AbsentIsUntouched ==
  lives <= 1 /\ sub # "absent" =>
    \A r \in Releases : entry[r] = "absent" => /\ added[r] = 0
                                               /\ \A p \in Polling!Polls : poll[p].item # r

PollInv == /\ Polling!TypeOK
           /\ HandOK
           /\ RecordedWasAdded
           /\ Polling!LinkedWasAdded
           /\ Polling!ClaimIsWorkedOn
           /\ Unborn
           /\ ClaimIsExclusive
           /\ AbsentIsUntouched
           /\ Polling!AddedOnce

\* The mark of an empty hand is not a release.
LEMMA NoneIsNoRelease == Polling!None \notin Releases
  BY PollingAssumption DEF Polling!ReleasesAssumption, Polling!None

\* Before the subscription is created the invariant holds.
LEMMA PollInit == Polling!Init => PollInv
<1> SUFFICES ASSUME Polling!Init
             PROVE  PollInv
  OBVIOUS
<1>1. Polling!Resting \in Polling!PollStates /\ Polling!Resting.item = Polling!None /\ Polling!Resting.at = "rest"
  BY DEF Polling!Resting, Polling!PollStates
<1>2. Polling!TypeOK
  <2>1. entry \in [Releases -> {"absent", "claimed", "linked"}] /\ added \in [Releases -> 0..2]
    BY DEF Polling!Init
  <2>2. poll \in [Polling!Polls -> Polling!PollStates]
    BY <1>1 DEF Polling!Init
  <2>3. lives \in 0..MaxLives /\ failures \in 0..MaxFaults
    BY PollingAssumption DEF Polling!BoundsAssumption, Polling!Init
  <2>4. error \in BOOLEAN
    BY DEF Polling!Init
  <2> QED
    BY <2>1, <2>2, <2>3, <2>4 DEF Polling!Init, Polling!TypeOK
<1>3. HandOK /\ RecordedWasAdded /\ ClaimIsExclusive
  BY <1>1 DEF Polling!Init, HandOK, RecordedWasAdded, ClaimIsExclusive
<1>4. Polling!LinkedWasAdded /\ Polling!ClaimIsWorkedOn /\ Unborn /\ AbsentIsUntouched /\ Polling!AddedOnce
  BY
  DEF Polling!Init, Polling!LinkedWasAdded, Polling!ClaimIsWorkedOn, Unborn, AbsentIsUntouched,
      Polling!AddedOnce
<1> QED
  BY <1>2, <1>3, <1>4 DEF PollInv

\* What a step of poll p leaves alone.
OthersStay(p) == /\ poll' \in [Polling!Polls -> Polling!PollStates]
                 /\ \A q \in Polling!Polls \ {p} : poll'[q] = poll[q]

\* A poll under way has seen the subscription, so it has been created.
LEMMA BusyIsBorn ==
  ASSUME PollInv, NEW p \in Polling!Polls, Polling!Busy(p)
  PROVE  lives \in Nat /\ lives # 0
  BY PollingAssumption
  DEF Polling!BoundsAssumption, PollInv, Polling!TypeOK, Unborn, Polling!Busy, Polling!Resting

\* A step of a poll that has no release at hand, before or after.
LEMMA PlaceKeeps ==
  ASSUME PollInv, NEW p \in Polling!Polls, OthersStay(p),
         poll[p].item = Polling!None,
         poll'[p].item = Polling!None, poll'[p].at \in {"rest", "fetch", "next", "end"},
         lives # 0,
         UNCHANGED <<feed, sub, entry, added, lives, stranded>>,
         error' \in BOOLEAN, failures' \in 0..MaxFaults
  PROVE  PollInv'
<1>1. Polling!TypeOK'
  BY DEF PollInv, Polling!TypeOK, OthersStay
<1>2. HandOK' /\ RecordedWasAdded' /\ Polling!LinkedWasAdded' /\ Unborn' /\ Polling!AddedOnce'
  BY DEF PollInv, OthersStay, HandOK, RecordedWasAdded, Polling!LinkedWasAdded, Unborn, Polling!AddedOnce
<1>3. Polling!ClaimIsWorkedOn'
  BY NoneIsNoRelease DEF PollInv, OthersStay, Polling!ClaimIsWorkedOn
<1>4. ClaimIsExclusive' /\ AbsentIsUntouched'
  BY NoneIsNoRelease DEF PollInv, OthersStay, ClaimIsExclusive, AbsentIsUntouched
<1> QED
  BY <1>1, <1>2, <1>3, <1>4 DEF PollInv

\* A poll that starts has seen the subscription.
LEMMA StartKeeps ==
  ASSUME PollInv, NEW p \in Polling!Polls, Polling!Start(p)
  PROVE  PollInv'
<1>1. poll[p].item = Polling!None /\ lives # 0
  BY DEF Polling!Start, PollInv, HandOK, Unborn
<1>2. OthersStay(p) /\ poll'[p].item = Polling!None /\ poll'[p].at = "fetch"
  BY <1>1 DEF Polling!Start, Polling!Go, PollInv, Polling!TypeOK, Polling!PollStates, OthersStay
<1> QED
  BY <1>1, <1>2, PlaceKeeps DEF Polling!Start, PollInv, Polling!TypeOK

\* The fetch, and the fetch that fails.
LEMMA FetchKeeps ==
  ASSUME PollInv, NEW p \in Polling!Polls, Polling!Fetch(p) \/ Polling!FetchFails(p)
  PROVE  PollInv'
<1>1. poll[p].item = Polling!None /\ lives # 0
  BY BusyIsBorn DEF Polling!Fetch, Polling!FetchFails, Polling!Busy, PollInv, HandOK
<1>2. Polling!Selected \in SUBSET Releases
  BY DEF Polling!Selected, PollInv, Polling!TypeOK
<1>3. OthersStay(p) /\ poll'[p].item = Polling!None /\ poll'[p].at \in {"next", "end"}
  BY <1>1, <1>2
  DEF Polling!Fetch, Polling!FetchFails, Polling!Fail, PollInv, Polling!TypeOK, Polling!PollStates,
      OthersStay
<1> QED
  BY <1>1, <1>3, PlaceKeeps DEF Polling!Fetch, Polling!FetchFails, PollInv, Polling!TypeOK

\* The end of a poll, with nothing at hand.
LEMMA EndKeeps ==
  ASSUME PollInv, NEW p \in Polling!Polls, Polling!End(p)
  PROVE  PollInv'
<1>1. poll[p].item = Polling!None /\ lives # 0
  BY BusyIsBorn DEF Polling!End, Polling!Busy, PollInv, HandOK
<1>2. OthersStay(p) /\ poll'[p].item = Polling!None /\ poll'[p].at = "rest"
  BY DEF Polling!End, PollInv, Polling!TypeOK, Polling!PollStates, OthersStay, Polling!Resting
<1>3. error' \in BOOLEAN
  BY DEF Polling!End
<1> QED
  BY <1>1, <1>2, <1>3, PlaceKeeps DEF Polling!End, PollInv, Polling!TypeOK

\* The claim: a new entry, which nobody has touched.
LEMMA ClaimKeeps ==
  ASSUME PollInv, NEW p \in Polling!Polls, Polling!Claim(p)
  PROVE  PollInv'
<1>1. poll[p].at = "next" /\ poll[p].item = Polling!None /\ lives # 0
  BY BusyIsBorn DEF Polling!Claim, Polling!Busy, PollInv, HandOK
<1>2. PICK r \in Releases : /\ Polling!First(p, r)
                            /\ \/ sub = "absent" /\ Polling!Fail(p) /\ UNCHANGED entry
                               \/ /\ sub # "absent"
                                  /\ Polling!IsNew(r)
                                  /\ entry' = [entry EXCEPT ![r] = "claimed"]
                                  /\ poll' = [poll EXCEPT ![p].at = "add", ![p].item = r, ![p].todo = @ \ {r}]
                               \/ /\ sub # "absent"
                                  /\ ~Polling!IsNew(r)
                                  /\ poll' = [poll EXCEPT ![p].todo = @ \ {r}]
                                  /\ UNCHANGED entry
  BY DEF Polling!Claim
<1>3. OthersStay(p)
  BY <1>2 DEF Polling!Fail, PollInv, Polling!TypeOK, Polling!PollStates, OthersStay
<1>4. CASE UNCHANGED entry
  <2>1. poll'[p].item = Polling!None /\ poll'[p].at \in {"next", "end"}
    BY <1>1, <1>2, <1>4 DEF Polling!Fail, PollInv, Polling!TypeOK, Polling!PollStates, Polling!IsNew
  <2> QED
    BY <1>1, <1>3, <1>4, <2>1, PlaceKeeps DEF Polling!Claim, PollInv, Polling!TypeOK
<1>5. CASE /\ sub # "absent"
           /\ entry[r] = "absent"
           /\ entry' = [entry EXCEPT ![r] = "claimed"]
           /\ poll' = [poll EXCEPT ![p].at = "add", ![p].item = r, ![p].todo = @ \ {r}]
  <2>1. poll'[p].item = r /\ poll'[p].at = "add"
    BY <1>5 DEF PollInv, Polling!TypeOK, Polling!PollStates
  <2>2. UNCHANGED <<feed, sub, error, added, lives, failures, stranded>>
    BY DEF Polling!Claim
  <2>3. Polling!TypeOK'
    BY <1>3, <1>5, <2>2 DEF PollInv, Polling!TypeOK, OthersStay
  <2>4. HandOK' /\ RecordedWasAdded' /\ Unborn' /\ Polling!AddedOnce'
    BY <1>1, <1>3, <2>1, <2>2, NoneIsNoRelease
       DEF PollInv, OthersStay, HandOK, RecordedWasAdded, Unborn, Polling!AddedOnce
  <2>5. Polling!LinkedWasAdded'
    BY <1>5, <2>2 DEF PollInv, Polling!TypeOK, Polling!LinkedWasAdded
  <2>6. Polling!ClaimIsWorkedOn'
    BY <1>1, <1>3, <1>5, <2>1, <2>2, NoneIsNoRelease
    DEF PollInv, Polling!TypeOK, OthersStay, Polling!ClaimIsWorkedOn
  <2>7. ClaimIsExclusive'
    BY <1>3, <1>5, <2>1, <2>2 DEF PollInv, OthersStay, ClaimIsExclusive, AbsentIsUntouched
  <2>8. AbsentIsUntouched'
    BY <1>3, <1>5, <2>1, <2>2 DEF PollInv, Polling!TypeOK, OthersStay, AbsentIsUntouched
  <2> QED
    BY <2>3, <2>4, <2>5, <2>6, <2>7, <2>8 DEF PollInv
<1> QED
  BY <1>2, <1>4, <1>5 DEF Polling!IsNew

\* The add: in the first life it is the first of the release, as nobody else has
\* the release at hand.
LEMMA AddKeeps ==
  ASSUME PollInv, NEW p \in Polling!Polls, Polling!Add(p)
  PROVE  PollInv'
<1> DEFINE r == poll[p].item
<1>1. poll[p].at = "add" /\ r \in Releases /\ r # Polling!None
  BY NoneIsNoRelease DEF Polling!Add, PollInv, Polling!TypeOK, Polling!PollStates, HandOK
<1>2. OthersStay(p) /\ poll'[p].item = r /\ poll'[p].at = "record"
  BY DEF Polling!Add, Polling!Go, PollInv, Polling!TypeOK, Polling!PollStates, OthersStay
<1>3. /\ added' \in [Releases -> 0..2]
      /\ added'[r] > 0
      /\ \A q \in Releases \ {r} : added'[q] = added[q]
      /\ added[r] = 0 => added'[r] = 1
  BY <1>1 DEF Polling!Add, PollInv, Polling!TypeOK
<1>4. UNCHANGED <<feed, sub, error, entry, lives, failures, stranded>>
  BY DEF Polling!Add
<1>5. Polling!TypeOK'
  BY <1>2, <1>3, <1>4 DEF PollInv, Polling!TypeOK, OthersStay
<1>6. HandOK' /\ Polling!ClaimIsWorkedOn'
  BY <1>1, <1>2, <1>4 DEF PollInv, OthersStay, HandOK, Polling!ClaimIsWorkedOn
<1>7. RecordedWasAdded'
  <2> SUFFICES ASSUME NEW q \in Polling!Polls, poll'[q].at = "record"
               PROVE  added'[poll'[q].item] > 0
    BY DEF RecordedWasAdded
  <2>1. CASE q = p
    BY <2>1, <1>2, <1>3
  <2>2. CASE q # p
    <3>1. poll[q].at = "record" /\ poll'[q].item = poll[q].item /\ poll[q].item \in Releases
      BY <2>2, <1>2 DEF OthersStay, PollInv, Polling!TypeOK, Polling!PollStates, HandOK
    <3> QED
      BY <3>1, <1>3 DEF PollInv, RecordedWasAdded
  <2> QED
    BY <2>1, <2>2
<1>8. Polling!LinkedWasAdded'
  BY <1>3, <1>4 DEF PollInv, Polling!LinkedWasAdded
<1>9. Unborn'
  BY <1>1, <1>4, BusyIsBorn DEF Polling!Busy, Unborn
<1>10. ClaimIsExclusive' /\ Polling!AddedOnce'
  <2> SUFFICES ASSUME lives <= 1
               PROVE  ClaimIsExclusive' /\ Polling!AddedOnce'
    BY <1>4 DEF ClaimIsExclusive, Polling!AddedOnce
  <2>1. added[r] = 0 /\ \A q \in Polling!Polls \ {p} : poll[q].item # r
    BY <1>1 DEF PollInv, ClaimIsExclusive
  <2>2. Polling!AddedOnce'
    BY <2>1, <1>3 DEF PollInv, Polling!AddedOnce
  <2>3. ASSUME NEW q \in Polling!Polls, poll'[q].item # Polling!None
        PROVE  /\ \A o \in Polling!Polls \ {q} : poll'[o].item # poll'[q].item
               /\ poll'[q].at \in {"add", "release"} => added'[poll'[q].item] = 0
    <3>1. CASE q = p
      BY <3>1, <2>1, <1>2 DEF OthersStay
    <3>2. CASE q # p
      <4>1. poll[q].item \in Releases \ {r} /\ poll'[q] = poll[q]
        BY <3>2, <2>1, <2>3, <1>2 DEF OthersStay, PollInv, Polling!TypeOK, Polling!PollStates
      <4> QED
        BY <4>1, <2>3, <1>2, <1>3 DEF OthersStay, PollInv, ClaimIsExclusive
    <3> QED
      BY <3>1, <3>2
  <2> QED
    BY <2>2, <2>3 DEF ClaimIsExclusive
<1>11. AbsentIsUntouched'
  BY <1>1, <1>2, <1>3, <1>4 DEF PollInv, OthersStay, AbsentIsUntouched
<1> QED
  BY <1>5, <1>6, <1>7, <1>8, <1>9, <1>10, <1>11 DEF PollInv

\* The add that fails: the claim is still the poll's, to be released.
LEMMA AddFailsKeeps ==
  ASSUME PollInv, NEW p \in Polling!Polls, Polling!AddFails(p)
  PROVE  PollInv'
<1>1. poll[p].at = "add" /\ poll[p].item # Polling!None
  BY DEF Polling!AddFails, PollInv, HandOK
<1>2. OthersStay(p) /\ poll'[p].item = poll[p].item /\ poll'[p].at = "release"
  BY DEF Polling!AddFails, Polling!Go, PollInv, Polling!TypeOK, Polling!PollStates, OthersStay
<1>3. UNCHANGED <<feed, sub, error, entry, added, lives, failures, stranded>>
  BY DEF Polling!AddFails
<1>4. \A q \in Polling!Polls : poll'[q].item = poll[q].item
  BY <1>2 DEF OthersStay
<1>5. Polling!TypeOK'
  BY <1>2, <1>3 DEF PollInv, Polling!TypeOK, OthersStay
<1>6. HandOK' /\ RecordedWasAdded' /\ Polling!LinkedWasAdded' /\ Polling!ClaimIsWorkedOn' /\ Polling!AddedOnce' /\ AbsentIsUntouched'
  BY <1>1, <1>2, <1>3, <1>4
     DEF PollInv, OthersStay, HandOK, RecordedWasAdded, Polling!LinkedWasAdded, Polling!ClaimIsWorkedOn, Polling!AddedOnce, AbsentIsUntouched
<1>7. Unborn'
  BY <1>1, <1>3, BusyIsBorn DEF Polling!Busy, Unborn
<1>8. ClaimIsExclusive'
  BY <1>1, <1>2, <1>3, <1>4 DEF PollInv, OthersStay, ClaimIsExclusive
<1> QED
  BY <1>5, <1>6, <1>7, <1>8 DEF PollInv

\* A poll lets go of the release at hand; its entry becomes e, or stays.
LEMMA LetGoKeeps ==
  ASSUME PollInv, NEW p \in Polling!Polls, NEW e \in {"absent", "claimed", "linked"},
         OthersStay(p), poll'[p].item = Polling!None, poll'[p].at \in {"rest", "next", "end"},
         Polling!Busy(p),
         poll[p].item # Polling!None => /\ entry' = [entry EXCEPT ![poll[p].item] = e]
                                        /\ e = "claimed" => poll[p].item \in stranded'
                                        /\ e = "linked" => added[poll[p].item] > 0
                                        /\ e = "absent" => entry[poll[p].item] = "absent" \/ poll[p].at = "release",
         poll[p].item = Polling!None => UNCHANGED entry,
         UNCHANGED <<feed, sub, added, lives>>, error' \in BOOLEAN,
         failures' \in 0..MaxFaults, stranded \subseteq stranded', stranded' \subseteq Releases
  PROVE  PollInv'
<1> DEFINE r == poll[p].item
<1>1. r # Polling!None => r \in Releases
  BY DEF PollInv, Polling!TypeOK, Polling!PollStates
<1>2. Polling!TypeOK'
  BY <1>1 DEF PollInv, Polling!TypeOK, OthersStay
<1>3. HandOK' /\ RecordedWasAdded' /\ Polling!AddedOnce'
  BY DEF PollInv, OthersStay, HandOK, RecordedWasAdded, Polling!AddedOnce
<1>4. Unborn'
  BY BusyIsBorn DEF Unborn
<1>5. Polling!LinkedWasAdded'
  BY <1>1 DEF PollInv, Polling!TypeOK, Polling!LinkedWasAdded
<1>6. Polling!ClaimIsWorkedOn'
  <2> SUFFICES ASSUME NEW q \in Releases, entry'[q] = "claimed", q \notin stranded'
               PROVE  \E o \in Polling!Polls : poll'[o].item = q
    BY DEF Polling!ClaimIsWorkedOn
  <2>1. q # r /\ entry[q] = "claimed"
    BY <1>1, NoneIsNoRelease DEF PollInv, Polling!TypeOK
  <2>2. PICK o \in Polling!Polls : poll[o].item = q
    BY <2>1 DEF PollInv, Polling!ClaimIsWorkedOn
  <2> QED
    BY <2>1, <2>2 DEF OthersStay
<1>7. ClaimIsExclusive'
  BY DEF PollInv, OthersStay, ClaimIsExclusive
<1>8. AbsentIsUntouched'
  <2> SUFFICES ASSUME lives <= 1, sub # "absent", NEW q \in Releases, entry'[q] = "absent"
               PROVE  added[q] = 0 /\ \A o \in Polling!Polls : poll'[o].item # q
    BY DEF AbsentIsUntouched
  <2>1. CASE entry[q] = "absent"
    BY <2>1, NoneIsNoRelease DEF PollInv, OthersStay, AbsentIsUntouched
  <2>2. CASE entry[q] # "absent"
    <3>1. q = r /\ poll[p].at = "release"
      BY <2>2, <1>1 DEF PollInv, Polling!TypeOK
    <3> QED
      BY <3>1, NoneIsNoRelease DEF PollInv, OthersStay, ClaimIsExclusive
  <2> QED
    BY <2>1, <2>2
<1> QED
  BY <1>2, <1>3, <1>4, <1>5, <1>6, <1>7, <1>8 DEF PollInv

\* The record and the release of the release at hand.
LEMMA RecordKeeps ==
  ASSUME PollInv, NEW p \in Polling!Polls, Polling!Record(p) \/ Polling!Release(p)
  PROVE  PollInv'
<1> DEFINE r == poll[p].item
<1>1. /\ r \in Releases /\ r # Polling!None /\ Polling!Busy(p)
      /\ poll[p].at \in {"record", "release"}
      /\ poll[p].at = "record" => added[r] > 0
  BY NoneIsNoRelease
  DEF Polling!Record, Polling!Release, Polling!Busy, PollInv, Polling!TypeOK, Polling!PollStates,
      HandOK, RecordedWasAdded
<1>2. OthersStay(p) /\ poll'[p].item = Polling!None /\ poll'[p].at \in {"next", "end"}
  BY DEF Polling!Record, Polling!Release, PollInv, Polling!TypeOK, Polling!PollStates, OthersStay
<1>3. UNCHANGED <<feed, sub, error, added, lives, failures, stranded>>
  BY DEF Polling!Record, Polling!Release
<1>4. PICK e \in {"absent", "linked"} :
        /\ entry' = [entry EXCEPT ![r] = e]
        /\ e = "linked" => added[r] > 0
        /\ e = "absent" => entry[r] = "absent" \/ poll[p].at = "release"
  BY <1>1 DEF Polling!Record, Polling!Release, Polling!Released, PollInv, Polling!TypeOK
<1> QED
  BY <1>1, <1>2, <1>3, <1>4, LetGoKeeps DEF PollInv, Polling!TypeOK

\* A poll that is cut, or whose statement fails, strands what it has at hand.
LEMMA StrandKeeps ==
  ASSUME PollInv, NEW p \in Polling!Polls, Polling!Cut(p) \/ Polling!DbFails(p)
  PROVE  PollInv'
<1> DEFINE r == poll[p].item
<1>1. Polling!Busy(p)
  BY DEF Polling!Cut, Polling!DbFails, Polling!Busy
<1>2. OthersStay(p) /\ poll'[p].item = Polling!None /\ poll'[p].at \in {"rest", "end"}
  <2>1. CASE Polling!Cut(p)
    <3>1. Polling!Resting \in Polling!PollStates /\ Polling!Resting.item = Polling!None /\ Polling!Resting.at = "rest"
      BY DEF Polling!Resting, Polling!PollStates
    <3> QED
      BY <2>1, <3>1 DEF Polling!Cut, PollInv, Polling!TypeOK, OthersStay
  <2>2. CASE Polling!DbFails(p)
    <3>1. poll[p] \in Polling!PollStates
      BY DEF PollInv, Polling!TypeOK
    <3>2. [poll[p] EXCEPT !.at = "end", !.item = Polling!None, !.failed = TRUE] \in Polling!PollStates
      BY <3>1 DEF Polling!PollStates
    <3> QED
      BY <2>2, <3>2 DEF Polling!DbFails, PollInv, Polling!TypeOK, OthersStay
  <2> QED
    BY <2>1, <2>2
<1>3. UNCHANGED <<feed, sub, error, entry, added, lives>>
  BY DEF Polling!Cut, Polling!DbFails
<1>4. /\ failures' \in 0..MaxFaults
      /\ stranded \subseteq stranded' /\ stranded' \subseteq Releases
      /\ r # Polling!None => r \in stranded'
  BY PollingAssumption
  DEF Polling!BoundsAssumption, Polling!Cut, Polling!DbFails, Polling!Strand, PollInv,
      Polling!TypeOK, Polling!PollStates
<1>5. ASSUME r # Polling!None
      PROVE  /\ entry[r] \in {"absent", "claimed", "linked"}
             /\ entry' = [entry EXCEPT ![r] = entry[r]]
             /\ entry[r] = "linked" => added[r] > 0
  BY <1>3, <1>5 DEF PollInv, Polling!TypeOK, Polling!PollStates, Polling!LinkedWasAdded
<1>6. CASE r = Polling!None
  BY <1>1, <1>2, <1>3, <1>4, <1>6, LetGoKeeps DEF PollInv, Polling!TypeOK
<1>7. CASE r # Polling!None
  BY <1>1, <1>2, <1>3, <1>4, <1>5, <1>7, LetGoKeeps DEF PollInv, Polling!TypeOK
<1> QED
  BY <1>6, <1>7

\* What the feed and the user do: only the first creation matters, before which
\* nothing has happened.
LEMMA UserKeeps ==
  ASSUME PollInv, UNCHANGED <<poll, added, failures, stranded>>,
         \/ \E r \in Releases : Polling!Publish(r) \/ Polling!Expire(r)
         \/ \E state \in {"off", "on"} : Polling!Create(state) \/ Polling!Update(state)
         \/ Polling!Delete
  PROVE  PollInv'
<1>1. CASE \E r \in Releases : Polling!Publish(r) \/ Polling!Expire(r)
  BY <1>1
  DEF Polling!Publish, Polling!Expire, PollInv, Polling!TypeOK, HandOK, RecordedWasAdded,
      Polling!LinkedWasAdded, Polling!ClaimIsWorkedOn,
              Unborn, ClaimIsExclusive, AbsentIsUntouched, Polling!AddedOnce
<1>2. CASE \E state \in {"off", "on"} : Polling!Create(state)
  <2>1. /\ lives' = lives + 1 /\ lives' \in 0..MaxLives /\ lives \in Nat
        /\ sub' \in {"off", "on"}
        /\ UNCHANGED <<feed, error, entry>>
    BY <1>2, PollingAssumption DEF Polling!BoundsAssumption, Polling!Create, PollInv, Polling!TypeOK
  <2>2. Polling!TypeOK' /\ HandOK' /\ RecordedWasAdded' /\ Polling!LinkedWasAdded' /\ Polling!ClaimIsWorkedOn' /\ Unborn'
    BY <2>1
    DEF PollInv, Polling!TypeOK, HandOK, RecordedWasAdded, Polling!LinkedWasAdded,
        Polling!ClaimIsWorkedOn, Unborn
  <2>3. ClaimIsExclusive' /\ Polling!AddedOnce'
    BY <2>1 DEF PollInv, ClaimIsExclusive, Polling!AddedOnce
  <2>4. AbsentIsUntouched'
    BY <2>1, NoneIsNoRelease DEF PollInv, Unborn, Polling!Resting, AbsentIsUntouched
  <2> QED
    BY <2>2, <2>3, <2>4 DEF PollInv
<1>3. CASE \E state \in {"off", "on"} : Polling!Update(state)
  <2>1. sub # "absent" /\ sub' \in {"off", "on"} /\ error' = FALSE /\ UNCHANGED <<feed, entry, lives>>
    BY <1>3 DEF Polling!Update
  <2>2. Polling!TypeOK'
    <3>1. error' \in BOOLEAN
      BY <2>1
    <3> QED
      BY <2>1, <3>1 DEF PollInv, Polling!TypeOK
  <2> QED
    BY <2>1, <2>2 DEF PollInv, HandOK, RecordedWasAdded, Polling!LinkedWasAdded, Polling!ClaimIsWorkedOn,
                      Unborn, ClaimIsExclusive, AbsentIsUntouched, Polling!AddedOnce
<1>4. CASE Polling!Delete
  <2>1. /\ sub' = "absent" /\ error' = FALSE
        /\ entry' = [r \in Releases |-> "absent"]
        /\ UNCHANGED <<feed, lives>>
    BY <1>4 DEF Polling!Delete
  <2>2. Polling!TypeOK'
    <3>1. error' \in BOOLEAN
      BY <2>1
    <3>2. entry' \in [Releases -> {"absent", "claimed", "linked"}]
      BY <2>1
    <3> QED
      BY <2>1, <3>1, <3>2 DEF PollInv, Polling!TypeOK
  <2> QED
    BY <2>1, <2>2 DEF PollInv, HandOK, RecordedWasAdded, Polling!LinkedWasAdded, Polling!ClaimIsWorkedOn,
                      Unborn, ClaimIsExclusive, AbsentIsUntouched, Polling!AddedOnce
<1> QED
  BY <1>1, <1>2, <1>3, <1>4

\* The inductive step.
LEMMA PollStep == PollInv /\ [Polling!Next]_pollVars => PollInv'
<1> SUFFICES ASSUME PollInv, [Polling!Next]_pollVars
             PROVE  PollInv'
  OBVIOUS
<1>1. ASSUME NEW r \in Releases, Polling!Publish(r) \/ Polling!Expire(r)
      PROVE  PollInv'
  BY <1>1, UserKeeps DEF Polling!Publish, Polling!Expire
<1>2. ASSUME NEW state \in {"off", "on"}, Polling!Create(state) \/ Polling!Update(state)
      PROVE  PollInv'
  BY <1>2, UserKeeps DEF Polling!Create, Polling!Update
<1>3. CASE Polling!Delete
  BY <1>3, UserKeeps DEF Polling!Delete
<1>4. ASSUME NEW p \in Polling!Polls, Polling!Start(p) \/ Polling!Step(p) \/ Polling!Cut(p) \/ Polling!DbFails(p)
      PROVE  PollInv'
  BY <1>4, StartKeeps, FetchKeeps, ClaimKeeps, AddKeeps, AddFailsKeeps, RecordKeeps, EndKeeps, StrandKeeps
  DEF Polling!Step
<1>5. CASE UNCHANGED pollVars
  BY <1>5
  DEF pollVars, PollInv, Polling!TypeOK, HandOK, RecordedWasAdded, Polling!LinkedWasAdded,
      Polling!ClaimIsWorkedOn,
              Unborn, ClaimIsExclusive, AbsentIsUntouched, Polling!AddedOnce
<1> QED
  BY <1>1, <1>2, <1>3, <1>4, <1>5 DEF Polling!Next

-----------------------------------------------------------------------------
(* The torrents: types *)

Requesting == [at : {"rest", "commit"}, snap : Ingesting!Snapshots]
Reconcilers == [at : {"rest", "commit", "list", "next", "scan", "mark"}, snap : Ingesting!Snapshots,
                todo : SUBSET Torrents, torrent : SUBSET Torrents, left : SUBSET Torrents]

TorrentTypes == /\ session \in Ingesting!Snapshots
                /\ files \in [Torrents -> Ingesting!Amount] /\ row \in [Torrents -> Ingesting!Amount]
                /\ ingest \in [Torrents -> {"none", "pending", "done"}]
                /\ adds \in [Torrents -> 0..MaxAdds]
                /\ missed \subseteq Torrents
TaskTypes == /\ projection \in Ingesting!Snapshots
             /\ handler \in [Handlers -> Requesting]
             /\ reconciler \in Reconcilers
             /\ faults \in 0..MaxFaults

LEMMA TypesAre == Ingesting!TypeOK <=> TorrentTypes /\ TaskTypes
BY DEF Ingesting!TypeOK, TorrentTypes, TaskTypes, Requesting, Reconcilers

LEMMA AtRest == /\ Ingesting!NoSnapshot \in Ingesting!Snapshots
                /\ Ingesting!Answered \in Requesting
                /\ Ingesting!Resting \in Reconcilers /\ [Ingesting!Resting EXCEPT !.at = "list"] \in Reconcilers
                /\ Ingesting!Resting.todo = {} /\ Ingesting!Resting.torrent = {}
                /\ [Ingesting!Resting EXCEPT !.at = "list"].todo = {} /\ [Ingesting!Resting EXCEPT !.at = "list"].torrent = {}
<1>1. Ingesting!NoSnapshot \in Ingesting!Snapshots
  BY DEF Ingesting!NoSnapshot, Ingesting!Snapshots, Ingesting!SessionState
<1> HIDE DEF Ingesting!NoSnapshot
<1> QED BY <1>1 DEF Ingesting!Answered, Ingesting!Resting, Requesting, Reconcilers

LEMMA TypeInit == Ingesting!Init => TorrentTypes /\ TaskTypes
<1> SUFFICES ASSUME Ingesting!Init PROVE TorrentTypes /\ TaskTypes
  OBVIOUS
<1>1. TorrentTypes
  BY IngestingAssumption, AtRest
  DEF Ingesting!BoundsAssumption, Ingesting!Init, TorrentTypes, Ingesting!Amount
<1>2. TaskTypes
  <2> HIDE DEF Ingesting!Resting, Ingesting!Answered, Ingesting!NoSnapshot
  <2> QED BY IngestingAssumption, AtRest DEF Ingesting!BoundsAssumption, Ingesting!Init, TaskTypes
<1> QED BY <1>1, <1>2

\* What becomes of the session, the files and the tables of one torrent.
LEMMA TorrentTypesStep == ASSUME TorrentTypes, TaskTypes, [Ingesting!Next]_ingestVars PROVE TorrentTypes'
<1> USE DEF TorrentTypes
<1>1. CASE UNCHANGED ingestVars
  BY <1>1 DEF ingestVars
<1>2. ASSUME NEW t \in Torrents, Ingesting!Download(t) PROVE TorrentTypes'
  BY <1>2 DEF Ingesting!Download, Ingesting!Amount
<1>3. ASSUME NEW t \in Torrents, Ingesting!Finish(t) \/ Ingesting!Pause(t) \/ Ingesting!Resume(t) PROVE TorrentTypes'
  BY <1>3 DEF Ingesting!Finish, Ingesting!Pause, Ingesting!Resume, Ingesting!Snapshots, Ingesting!SessionState
<1>4. ASSUME NEW t \in Torrents, Ingesting!Add(t) PROVE TorrentTypes'
  <2>1. adds' \in [Torrents -> 0..MaxAdds]
    BY <1>4, IngestingAssumption DEF Ingesting!BoundsAssumption, Ingesting!Add
  <2>2. session' \in Ingesting!Snapshots
    BY <1>4 DEF Ingesting!Add, Ingesting!Snapshots, Ingesting!SessionState
  <2> QED BY <1>4, <2>1, <2>2 DEF Ingesting!Add
<1>5. ASSUME NEW t \in Torrents, NEW withFiles \in BOOLEAN, Ingesting!Delete(t, withFiles) PROVE TorrentTypes'
  BY <1>5 DEF Ingesting!Delete, Ingesting!Snapshots, Ingesting!SessionState, Ingesting!Amount
<1>6. ASSUME NEW t \in Torrents, Ingesting!Take(t) PROVE TorrentTypes'
  BY <1>6 DEF Ingesting!Take
<1>7. ASSUME NEW t \in Torrents, Ingesting!ScanFile(t) \/ Ingesting!SkipFile(t) PROVE TorrentTypes'
  BY <1>7 DEF Ingesting!ScanFile, Ingesting!SkipFile, Ingesting!Amount
<1>8. CASE Ingesting!MarkDone
  BY <1>8 DEF Ingesting!MarkDone
<1>9. CASE Ingesting!Commit \/ Ingesting!List \/ Ingesting!Rest \/ Ingesting!Tick \/ Ingesting!ScanFails \/ Ingesting!DbFails \/ Ingesting!Restart
  BY <1>9
  DEF Ingesting!Commit, Ingesting!List, Ingesting!Rest, Ingesting!Tick, Ingesting!ScanFails,
      Ingesting!DbFails, Ingesting!Restart
<1>10. ASSUME NEW h \in Handlers, Ingesting!HandlerCommits(h) \/ Ingesting!CutRequest(h) PROVE TorrentTypes'
  BY <1>10 DEF Ingesting!HandlerCommits, Ingesting!CutRequest
<1> QED BY <1>1, <1>2, <1>3, <1>4, <1>5, <1>6, <1>7, <1>8, <1>9, <1>10
        DEF Ingesting!Next, Ingesting!ReconcilerStep, Ingesting!AddRequest, Ingesting!AddByPoll, Ingesting!DeleteRequest

\* What becomes of the projection and of those who rebuild it.
LEMMA TaskTypesStep == ASSUME TorrentTypes, TaskTypes, TorrentTypes', [Ingesting!Next]_ingestVars PROVE TaskTypes'
<1> USE DEF TaskTypes
<1> DEFINE Others == UNCHANGED <<projection, reconciler, faults>>
<1>0. session \in Ingesting!Snapshots /\ session' \in Ingesting!Snapshots
  BY DEF TorrentTypes
<1>1. CASE UNCHANGED ingestVars
  BY <1>1 DEF ingestVars
<1>2. ASSUME NEW t \in Torrents, Ingesting!Download(t) \/ Ingesting!Finish(t) \/ Ingesting!Pause(t) \/ Ingesting!Resume(t) \/ Ingesting!AddByPoll(t) PROVE TaskTypes'
  BY <1>2
  DEF Ingesting!Download, Ingesting!Finish, Ingesting!Pause, Ingesting!Resume, Ingesting!AddByPoll,
      Ingesting!Add
<1>3. ASSUME NEW h \in Handlers, Ingesting!Await(h), Others PROVE TaskTypes'
  <2>1. [at |-> "commit", snap |-> session'] \in Requesting
    BY <1>0 DEF Requesting
  <2> QED BY <1>3, <2>1 DEF Ingesting!Await
<1>4. ASSUME NEW h \in Handlers, NEW t \in Torrents,
             Ingesting!AddRequest(h, t) \/ \E withFiles \in BOOLEAN : Ingesting!DeleteRequest(h, t, withFiles)
      PROVE  TaskTypes'
  BY <1>3, <1>4 DEF Ingesting!AddRequest, Ingesting!DeleteRequest, Ingesting!Add, Ingesting!Delete
<1>5. ASSUME NEW h \in Handlers, Ingesting!HandlerCommits(h) PROVE TaskTypes'
  <2>1. handler[h].snap \in Ingesting!Snapshots
    BY DEF Requesting
  <2> HIDE DEF Ingesting!Answered
  <2> QED BY <1>5, <2>1, AtRest DEF Ingesting!HandlerCommits, Ingesting!Projected
<1>6. ASSUME NEW h \in Handlers, Ingesting!CutRequest(h) PROVE TaskTypes'
  BY <1>6, IngestingAssumption, AtRest DEF Ingesting!BoundsAssumption, Ingesting!CutRequest, Ingesting!Fault
<1>7. CASE Ingesting!Tick
  <2>1. [reconciler EXCEPT !.at = "commit", !.snap = session] \in Reconcilers
    BY <1>0 DEF Reconcilers
  <2> QED BY <1>7, <2>1 DEF Ingesting!Tick
<1>8. CASE Ingesting!Commit
  <2>1. reconciler.snap \in Ingesting!Snapshots
    BY DEF Reconcilers
  <2> QED BY <1>8, <2>1, AtRest DEF Ingesting!Commit, Ingesting!Projected
<1>9. CASE Ingesting!List
  <2>1. [Ingesting!Resting EXCEPT !.at = "next", !.todo = {t \in Torrents : session[t] = "finished"}] \in Reconcilers
    BY AtRest DEF Reconcilers
  <2> QED BY <1>9, <2>1 DEF Ingesting!List
<1>10. ASSUME NEW t \in Torrents, Ingesting!Take(t) PROVE TaskTypes'
  <2>1. Ingesting!OnDisk \subseteq Torrents
    BY DEF Ingesting!OnDisk
  <2> HIDE DEF Ingesting!OnDisk
  <2>2. /\ [reconciler EXCEPT !.todo = @ \ {t}] \in Reconcilers
        /\ [reconciler EXCEPT !.at = "scan", !.torrent = {t}, !.todo = @ \ {t}, !.left = Ingesting!OnDisk] \in Reconcilers
    BY <2>1 DEF Reconcilers
  <2> QED BY <1>10, <2>2 DEF Ingesting!Take
<1>11. ASSUME NEW t \in Torrents, Ingesting!ScanFile(t) \/ Ingesting!SkipFile(t) PROVE TaskTypes'
  <2>1. [reconciler EXCEPT !.left = @ \ {t}] \in Reconcilers
    BY DEF Reconcilers
  <2> QED BY <1>11, <2>1, IngestingAssumption
          DEF Ingesting!BoundsAssumption, Ingesting!ScanFile, Ingesting!SkipFile, Ingesting!Fault
<1>12. CASE Ingesting!MarkDone \/ Ingesting!ScanFails
  <2>1. [reconciler EXCEPT !.at = "next", !.torrent = {}, !.left = {}] \in Reconcilers
    BY DEF Reconcilers
  <2> QED BY <1>12, <2>1, IngestingAssumption
          DEF Ingesting!BoundsAssumption, Ingesting!MarkDone, Ingesting!ScanFails, Ingesting!Fault
<1>13. CASE Ingesting!Rest
  BY <1>13, AtRest DEF Ingesting!Rest
<1>14. CASE Ingesting!DbFails \/ Ingesting!Restart
  <2> HIDE DEF Ingesting!Answered, Ingesting!Resting
  <2> QED BY <1>14, IngestingAssumption, AtRest
          DEF Ingesting!BoundsAssumption, Ingesting!DbFails, Ingesting!Restart, Ingesting!Fault
<1> QED BY <1>1, <1>2, <1>4, <1>5, <1>6, <1>7, <1>8, <1>9, <1>10, <1>11, <1>12, <1>13, <1>14
        DEF Ingesting!Next, Ingesting!ReconcilerStep

-----------------------------------------------------------------------------
(* The torrents: what counts as done *)

Taken(t) == t \in reconciler.todo \cup reconciler.torrent
Over(t) == session[t] \in {"finished", "absent"}

\* A torrent that was never added has left no trace that could be taken for an entry.
Unknown(t) == session[t] = "absent" /\ ingest[t] # "done" /\ ~Taken(t)

\* A torrent that was added once is taken up when its download is over, and is over for
\* good then: its files stay whole while it is in the session.  A scan for its sake has
\* its files still before it, or has recorded them, unless it could not read them.
Entered(t) == row[t] = "full" \/ t \in missed
Entering(t) == /\ session[t] = "finished" => files[t] = "full"
               /\ ingest[t] = "done" \/ Taken(t) => Over(t)
               /\ t \in reconciler.torrent \ reconciler.left /\ session[t] = "finished" => Entered(t)
               /\ ingest[t] = "done" /\ session[t] = "finished" => Entered(t)

EntryInv == \A t \in Torrents : /\ adds[t] = 0 => Unknown(t)
                                /\ adds[t] <= 1 => Entering(t)

LEMMA EntryInit == Ingesting!Init => EntryInv
<1> SUFFICES ASSUME Ingesting!Init, NEW t \in Torrents PROVE Unknown(t) /\ Entering(t)
  BY DEF EntryInv
<1>1. reconciler.todo = {} /\ reconciler.torrent = {}
  BY AtRest DEF Ingesting!Init
<1>2. session[t] = "absent" /\ ingest[t] = "none"
  BY DEF Ingesting!Init, Ingesting!NoSnapshot
<1> QED BY <1>1, <1>2 DEF Unknown, Entering, Taken

\* What a step leaves of a torrent it does not touch.
LEMMA EntryKept ==
  ASSUME NEW t \in Torrents, EntryInv,
         session'[t] = session[t], files'[t] = files[t],
         Entered(t) => Entered(t)',
         ingest'[t] = ingest[t] \/ ingest'[t] # "done", adds'[t] = adds[t],
         Taken(t)' => Taken(t),
         t \in reconciler'.torrent \ reconciler'.left => t \in reconciler.torrent \ reconciler.left
  PROVE  /\ adds'[t] = 0 => Unknown(t)'
         /\ adds'[t] <= 1 => Entering(t)'
BY DEF EntryInv, Unknown, Entering, Entered, Over

\* A step of the engine or of a request, seen by the torrent it is about.
LEMMA SessionStep ==
  ASSUME TorrentTypes, EntryInv, NEW t \in Torrents, UNCHANGED <<row, missed, ingest, reconciler>>,
         \/ Ingesting!Download(t) \/ Ingesting!Finish(t) \/ Ingesting!Pause(t) \/ Ingesting!Resume(t) \/ Ingesting!Add(t)
         \/ \E withFiles \in BOOLEAN : Ingesting!Delete(t, withFiles)
  PROVE  EntryInv'
<1>1. ASSUME NEW u \in Torrents \ {t}
      PROVE  /\ adds'[u] = 0 => Unknown(u)'
             /\ adds'[u] <= 1 => Entering(u)'
  <2>1. session'[u] = session[u] /\ files'[u] = files[u] /\ adds'[u] = adds[u]
    BY
    DEF Ingesting!Download, Ingesting!Finish, Ingesting!Pause, Ingesting!Resume, Ingesting!Add,
        Ingesting!Delete, TorrentTypes, Ingesting!Snapshots
  <2> QED BY <2>1, EntryKept DEF Taken, Entered
<1>2. /\ adds'[t] = 0 => Unknown(t)'
      /\ adds'[t] <= 1 => Entering(t)'
  <2>1. adds[t] \in Nat /\ (adds[t] = 0 => Unknown(t)) /\ (adds[t] <= 1 => Entering(t))
    BY IngestingAssumption DEF Ingesting!BoundsAssumption, TorrentTypes, EntryInv
  <2>2. Taken(t)' <=> Taken(t)
    BY DEF Taken
  <2>3. CASE Ingesting!Download(t)
    <3>1. session'[t] = "live" /\ session[t] = "live" /\ adds' = adds
      BY <2>3 DEF Ingesting!Download
    <3> QED BY <2>1, <2>2, <3>1 DEF Unknown, Entering, Entered, Over, Taken
  <2>4. CASE Ingesting!Finish(t) \/ Ingesting!Pause(t) \/ Ingesting!Resume(t)
    <3>1. /\ session[t] \in {"live", "paused"} /\ session'[t] \in {"live", "paused", "finished"}
          /\ session'[t] = "finished" => files[t] = "full"
          /\ adds' = adds /\ files' = files
      BY <2>4 DEF Ingesting!Finish, Ingesting!Pause, Ingesting!Resume, TorrentTypes, Ingesting!Snapshots
    <3>2. adds[t] <= 1 => ingest[t] # "done" /\ ~Taken(t)
      BY <2>1, <3>1 DEF Entering, Entered, Over
    <3>3. adds[t] # 0
      BY <2>1, <3>1 DEF Unknown
    <3> QED BY <2>1, <2>2, <3>1, <3>2, <3>3 DEF Entering, Entered, Over, Taken
  <2>5. CASE Ingesting!Add(t)
    <3>1. adds'[t] = adds[t] + 1 /\ session'[t] = "live" /\ files' = files
      BY <2>5 DEF Ingesting!Add, TorrentTypes, Ingesting!Snapshots
    <3>2. adds'[t] <= 1 => ingest[t] # "done" /\ ~Taken(t)
      BY <2>1, <3>1 DEF Unknown
    <3> QED BY <2>1, <2>2, <3>1, <3>2 DEF Entering, Entered, Over, Taken
  <2>6. CASE \E withFiles \in BOOLEAN : Ingesting!Delete(t, withFiles)
    <3>1. session[t] # "absent" /\ session'[t] = "absent" /\ adds' = adds
      BY <2>6 DEF Ingesting!Delete, TorrentTypes, Ingesting!Snapshots
    <3> QED BY <2>1, <2>2, <3>1 DEF Unknown, Entering, Entered, Over, Taken
  <2> QED BY <2>3, <2>4, <2>5, <2>6
<1> QED BY <1>1, <1>2 DEF EntryInv

\* The reconciler stops: nothing is taken any more.
LEMMA NothingTaken ==
  ASSUME EntryInv, UNCHANGED <<session, files, row, missed, ingest, adds>>,
         reconciler'.todo \subseteq reconciler.todo, reconciler'.torrent = {}
  PROVE  EntryInv'
<1>1. ASSUME NEW t \in Torrents
      PROVE  /\ adds'[t] = 0 => Unknown(t)'
             /\ adds'[t] <= 1 => Entering(t)'
  <2>1. Taken(t)' => Taken(t)
    BY DEF Taken
  <2> QED BY <2>1, EntryKept DEF Entered
<1> QED BY <1>1 DEF EntryInv

LEMMA TakeStep == ASSUME TorrentTypes, TaskTypes, EntryInv, NEW t \in Torrents, Ingesting!Take(t) PROVE EntryInv'
<1>1. UNCHANGED <<session, files, row, missed, adds>> /\ t \in reconciler.todo
  BY DEF Ingesting!Take
<1>2. CASE Ingesting!Done(t) /\ reconciler' = [reconciler EXCEPT !.todo = @ \ {t}] /\ UNCHANGED ingest
  <2>1. reconciler'.todo \subseteq reconciler.todo /\ reconciler'.torrent = reconciler.torrent
        /\ reconciler'.left = reconciler.left
    BY <1>2 DEF TaskTypes, Reconcilers
  <2>2. ASSUME NEW u \in Torrents
        PROVE  /\ adds'[u] = 0 => Unknown(u)'
               /\ adds'[u] <= 1 => Entering(u)'
    <3>1. Taken(u)' => Taken(u)
      BY <2>1 DEF Taken
    <3> QED BY <1>1, <1>2, <2>1, <3>1, EntryKept DEF Entered
  <2> QED BY <2>2 DEF EntryInv
<1>3. CASE /\ ingest' = [ingest EXCEPT ![t] = "pending"]
           /\ reconciler' = [reconciler EXCEPT !.at = "scan", !.torrent = {t}, !.todo = @ \ {t}, !.left = Ingesting!OnDisk]
  <2>1. reconciler'.torrent = {t} /\ reconciler'.todo \subseteq reconciler.todo /\ reconciler'.left = Ingesting!OnDisk
    BY <1>3 DEF TaskTypes, Reconcilers
  <2>2. ASSUME NEW u \in Torrents
        PROVE  /\ adds'[u] = 0 => Unknown(u)'
               /\ adds'[u] <= 1 => Entering(u)'
    <3>1. Taken(u)' => Taken(u)
      BY <1>1, <2>1 DEF Taken
    <3>2. ingest'[u] = ingest[u] \/ ingest'[u] # "done"
      BY <1>3 DEF TorrentTypes
    <3>3. CASE u # t
      BY <1>1, <2>1, <3>1, <3>2, <3>3, EntryKept DEF Entered
    <3>4. CASE u = t
      <4>1. (adds[t] = 0 => Unknown(t)) /\ (adds[t] <= 1 => Entering(t))
        BY DEF EntryInv
      <4>2. ingest'[t] # "done"
        BY <1>3 DEF TorrentTypes
      <4>3. session[t] = "finished" /\ adds[t] <= 1 => t \in reconciler'.left
        BY <2>1, <4>1 DEF Entering, Ingesting!OnDisk
      <4> QED BY <1>1, <3>1, <3>4, <4>1, <4>2, <4>3 DEF Unknown, Entering, Entered, Over
    <3> QED BY <3>3, <3>4
  <2> QED BY <2>2 DEF EntryInv
<1> QED BY <1>2, <1>3 DEF Ingesting!Take

LEMMA ScanFileStep == ASSUME TorrentTypes, TaskTypes, EntryInv, NEW t \in Torrents,
                             Ingesting!ScanFile(t) \/ Ingesting!SkipFile(t)
                      PROVE  EntryInv'
<1>1. /\ UNCHANGED <<session, files, ingest, adds>>
      /\ reconciler'.todo = reconciler.todo /\ reconciler'.torrent = reconciler.torrent
      /\ reconciler'.left = reconciler.left \ {t}
  BY DEF Ingesting!ScanFile, Ingesting!SkipFile, TaskTypes, Reconcilers
<1>2. /\ \A u \in Torrents \ {t} : row'[u] = row[u] /\ (u \in missed => u \in missed')
      /\ files[t] = "full" => Entered(t)'
  BY DEF Ingesting!ScanFile, Ingesting!SkipFile, TorrentTypes, Entered
<1>3. ASSUME NEW u \in Torrents
      PROVE  /\ adds'[u] = 0 => Unknown(u)'
             /\ adds'[u] <= 1 => Entering(u)'
  <2>1. Taken(u)' <=> Taken(u)
    BY <1>1 DEF Taken
  <2>2. CASE u # t
    BY <1>1, <1>2, <2>1, <2>2, EntryKept DEF Entered
  <2>3. CASE u = t
    <3>1. (adds[t] = 0 => Unknown(t)) /\ (adds[t] <= 1 => Entering(t))
      BY DEF EntryInv
    <3>2. adds[t] <= 1 /\ session[t] = "finished" => Entered(t)'
      BY <1>2, <3>1 DEF Entering
    <3> QED BY <1>1, <2>1, <2>3, <3>1, <3>2 DEF Unknown, Entering, Over
  <2> QED BY <2>2, <2>3
<1> QED BY <1>3 DEF EntryInv

LEMMA MarkDoneStep == ASSUME TorrentTypes, TaskTypes, EntryInv, Ingesting!MarkDone PROVE EntryInv'
<1>1. /\ UNCHANGED <<session, files, row, missed, adds>> /\ reconciler.left = {}
      /\ \A t \in Torrents : ingest'[t] = IF t \in reconciler.torrent THEN "done" ELSE ingest[t]
      /\ reconciler'.todo = reconciler.todo /\ reconciler'.torrent = {}
  BY DEF Ingesting!MarkDone, Ingesting!ScanOver, TaskTypes, Reconcilers
<1>2. ASSUME NEW t \in Torrents
      PROVE  /\ adds'[t] = 0 => Unknown(t)'
             /\ adds'[t] <= 1 => Entering(t)'
  <2>1. Taken(t)' => Taken(t)
    BY <1>1 DEF Taken
  <2>2. CASE t \notin reconciler.torrent
    BY <1>1, <2>1, <2>2, EntryKept DEF Entered
  <2>3. CASE t \in reconciler.torrent
    BY <1>1, <2>1, <2>3 DEF EntryInv, Unknown, Entering, Entered, Over, Taken
  <2> QED BY <2>2, <2>3
<1> QED BY <1>2 DEF EntryInv

LEMMA ListStep == ASSUME TaskTypes, EntryInv, Ingesting!List PROVE EntryInv'
<1>1. /\ UNCHANGED <<session, files, row, missed, ingest, adds>>
      /\ reconciler'.todo = {t \in Torrents : session[t] = "finished"} /\ reconciler'.torrent = {}
  BY AtRest DEF Ingesting!List, Ingesting!Resting
<1> QED BY <1>1 DEF EntryInv, Unknown, Entering, Entered, Over, Taken

LEMMA EntryStep == TorrentTypes /\ TaskTypes /\ EntryInv /\ [Ingesting!Next]_ingestVars => EntryInv'
<1> SUFFICES ASSUME TorrentTypes, TaskTypes, EntryInv, [Ingesting!Next]_ingestVars PROVE EntryInv'
  OBVIOUS
<1>1. CASE UNCHANGED ingestVars
  BY <1>1 DEF ingestVars, EntryInv, Unknown, Entering, Entered, Over, Taken
<1>2. ASSUME NEW t \in Torrents,
             \/ Ingesting!Download(t) \/ Ingesting!Finish(t) \/ Ingesting!Pause(t) \/ Ingesting!Resume(t) \/ Ingesting!AddByPoll(t)
             \/ \E h \in Handlers : \/ Ingesting!AddRequest(h, t)
                                    \/ \E withFiles \in BOOLEAN : Ingesting!DeleteRequest(h, t, withFiles)
      PROVE  EntryInv'
  <2>1. UNCHANGED <<row, missed, ingest, reconciler>>
    BY <1>2
    DEF Ingesting!Download, Ingesting!Finish, Ingesting!Pause, Ingesting!Resume,
        Ingesting!AddByPoll, Ingesting!AddRequest, Ingesting!DeleteRequest, Ingesting!Add,
        Ingesting!Delete
  <2>2. \/ Ingesting!Download(t) \/ Ingesting!Finish(t) \/ Ingesting!Pause(t) \/ Ingesting!Resume(t) \/ Ingesting!Add(t)
        \/ \E withFiles \in BOOLEAN : Ingesting!Delete(t, withFiles)
    BY <1>2 DEF Ingesting!AddByPoll, Ingesting!AddRequest, Ingesting!DeleteRequest
  <2> QED BY <2>1, <2>2, SessionStep
<1>3. ASSUME NEW h \in Handlers, Ingesting!HandlerCommits(h) \/ Ingesting!CutRequest(h) PROVE EntryInv'
  BY <1>3 DEF Ingesting!HandlerCommits, Ingesting!CutRequest, EntryInv, Unknown, Entering, Entered, Over, Taken
<1>4. CASE Ingesting!Tick
  <2>1. /\ reconciler'.todo = reconciler.todo /\ reconciler'.torrent = reconciler.torrent
        /\ reconciler'.left = reconciler.left /\ UNCHANGED <<session, files, row, missed, ingest, adds>>
    BY <1>4 DEF Ingesting!Tick, TaskTypes, Reconcilers
  <2> QED BY <2>1 DEF EntryInv, Unknown, Entering, Entered, Over, Taken
<1>5. CASE Ingesting!Commit \/ Ingesting!Rest \/ Ingesting!ScanFails \/ Ingesting!DbFails \/ Ingesting!Restart
  <2>1. UNCHANGED <<session, files, row, missed, ingest, adds>>
    BY <1>5 DEF Ingesting!Commit, Ingesting!Rest, Ingesting!ScanFails, Ingesting!DbFails, Ingesting!Restart
  <2>2. reconciler'.todo \subseteq reconciler.todo /\ reconciler'.torrent = {}
    <3>1. CASE Ingesting!ScanFails
      BY <3>1 DEF Ingesting!ScanFails, TaskTypes, Reconcilers
    <3>2. CASE Ingesting!Commit \/ Ingesting!Rest \/ Ingesting!DbFails \/ Ingesting!Restart
      <4>1. reconciler' \in {Ingesting!Resting, [Ingesting!Resting EXCEPT !.at = "list"]}
        BY <3>2 DEF Ingesting!Commit, Ingesting!Rest, Ingesting!DbFails, Ingesting!Restart
      <4> HIDE DEF Ingesting!Resting
      <4> QED BY <4>1, AtRest
    <3> QED BY <1>5, <3>1, <3>2
  <2> QED BY <2>1, <2>2, NothingTaken
<1> QED BY <1>1, <1>2, <1>3, <1>4, <1>5, TakeStep, ScanFileStep, MarkDoneStep, ListStep
        DEF Ingesting!Next, Ingesting!ReconcilerStep

-----------------------------------------------------------------------------
(* What both keep *)

\* A step of the whole is one of each part, or leaves it alone.
LEMMA PartsStep == [Next]_allVars => [Polling!Next]_pollVars /\ [Ingesting!Next]_ingestVars
BY DEF Next, Polls, Ingests, allVars

\* The inductive invariant of the polls: types, and what a claim is worth.
THEOREM PollInvariant == Spec => []PollInv
<1>1. Init => PollInv
  BY PollInit DEF Init
<1>2. PollInv /\ [Next]_allVars => PollInv'
  BY PollStep, PartsStep
<1> QED
  BY <1>1, <1>2, PTL DEF Spec

\* The inductive invariant of the torrents: types, and what becomes of those that were
\* added once.
THEOREM IngestInvariant == Spec => [](TorrentTypes /\ TaskTypes /\ EntryInv)
<1>1. Init => TorrentTypes /\ TaskTypes /\ EntryInv
  BY TypeInit, EntryInit DEF Init
<1>2. TorrentTypes /\ TaskTypes /\ EntryInv /\ [Next]_allVars => (TorrentTypes /\ TaskTypes /\ EntryInv)'
  BY TorrentTypesStep, TaskTypesStep, EntryStep, PartsStep
<1> QED
  BY <1>1, <1>2, PTL DEF Spec

\* Every variable of the polls and of the torrents keeps its type.
THEOREM TypeCorrect == Spec => []TypesOK
<1>1. PollInv /\ TorrentTypes /\ TaskTypes => TypesOK
  BY TypesAre DEF PollInv, TypesOK
<1> QED
  BY <1>1, PollInvariant, IngestInvariant, PTL

\* However polls overlap and are cut off, they add no release twice while the
\* subscription lives its first life: INSERT OR IGNORE is a claim.
THEOREM NoReleaseAddedTwice == Spec => []AddedOnce
<1>1. PollInv => AddedOnce
  BY DEF PollInv, AddedOnce, Polling!AddedOnce
<1> QED
  BY <1>1, PollInvariant, PTL

\* An entry with an info hash is of a release that was added, also when its id
\* was used by an earlier subscription whose poll goes on.
THEOREM EntriesTellTheTruth == Spec => []LinkedWasAdded
<1>1. PollInv => LinkedWasAdded
  BY DEF PollInv, LinkedWasAdded, Polling!LinkedWasAdded
<1> QED
  BY <1>1, PollInvariant, PTL

\* Every end of a poll but a fault releases or records its claims.
THEOREM ClaimsAreWorkedOn == Spec => []ClaimIsWorkedOn
<1>1. PollInv => ClaimIsWorkedOn
  BY DEF PollInv, ClaimIsWorkedOn, Polling!ClaimIsWorkedOn
<1> QED
  BY <1>1, PollInvariant, PTL

\* A torrent that was added once and is done is in the library as a whole: the
\* reconciler marks it only after a scan that met its finished files, however
\* requests, scans and their failures interleave.  What that scan, or a later one,
\* could not read is the exception.
THEOREM DoneAreWhole == Spec => []DoneIsWhole
<1>1. EntryInv => DoneIsWhole
  BY DEF EntryInv, Entering, Entered, DoneIsWhole, Ingesting!DoneIsWhole
<1> QED
  BY <1>1, IngestInvariant, PTL
=============================================================================
