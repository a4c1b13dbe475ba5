-------------------------- MODULE Outbound_proofs --------------------------
(***************************************************************************)
(* What the clients keep side by side: the interval of the match client,   *)
(* the pace of the metadata client and the age of its answers, and the     *)
(* files of the image cache, for any number of callers and requests.       *)
(***************************************************************************)
EXTENDS Outbound, Sequences, FiniteSetTheorems, TLAPS

-----------------------------------------------------------------------------
(* The match client *)

Steps == {"away", "queue", "sleep", "sent"}

ClockOK == last \in 0..Match!Never /\ gap \in 0..Match!Never
HolderOK == lock \in Scans \cup {"free"}
CallsOK == matching \in [Scans -> [at : Steps, sleep : 0..Interval]]

\* Who sleeps holds the lock, and will not wake before the interval is over.
SleeperHolds == \A c \in Scans : matching[c].at = "sleep" => /\ lock = c
                                                             /\ last + matching[c].sleep >= Interval

SpacedInv == ClockOK /\ HolderOK /\ CallsOK /\ SleeperHolds /\ Match!MatchesAreSpaced

LEMMA SpacedInit == Match!Init => SpacedInv
BY MatchAssumption
DEF Match!IntervalAssumption, Match!Init, SpacedInv, ClockOK, HolderOK, CallsOK, SleeperHolds,
    Match!MatchesAreSpaced, Match!Never, Match!Away, Steps

\* Every step keeps the invariant.
LEMMA SpacedStep == ASSUME SpacedInv, [Match!Next]_matchVars
                    PROVE  SpacedInv'
<1> USE DEF SpacedInv, ClockOK, HolderOK, CallsOK, SleeperHolds, Match!MatchesAreSpaced, Match!Never
<1>0. Interval \in Nat \ {0} /\ "free" \notin Scans
  BY MatchAssumption DEF Match!IntervalAssumption, Match!CallersAssumption
<1>1. ASSUME NEW c \in Scans, Match!Post(c)
      PROVE  SpacedInv'
  BY <1>1, <1>0 DEF Match!Post, Steps
<1>2. ASSUME NEW c \in Scans, Match!Throttle(c)
      PROVE  SpacedInv'
  <2>1. Match!Remaining \in 0..Interval /\ last + Match!Remaining >= Interval
    BY <1>0 DEF Match!Remaining
  <2>2. /\ matching[c].at = "queue" /\ lock = "free" /\ lock' = c
        /\ matching' = [matching EXCEPT ![c] = [at |-> "sleep", sleep |-> Match!Remaining]]
        /\ UNCHANGED <<last, gap>>
    BY <1>2 DEF Match!Throttle, Match!Locked
  <2> HIDE DEF Match!Remaining
  <2>3. CallsOK'
    BY <2>1, <2>2 DEF Steps
  <2>4. ASSUME NEW d \in Scans, matching'[d].at = "sleep"
        PROVE  lock' = d /\ last' + matching'[d].sleep >= Interval
    <3>1. d = c
      BY <2>2, <2>4, <1>0
    <3>2. QED BY <3>1, <2>1, <2>2
  <2>5. QED BY <2>2, <2>3, <2>4
<1>3. ASSUME NEW c \in Scans, Match!Send(c)
      PROVE  SpacedInv'
  <2>1. /\ matching[c].at = "sleep" /\ matching[c].sleep = 0 /\ lock = c /\ last >= Interval
        /\ matching' = [matching EXCEPT ![c].at = "sent"]
        /\ last' = 0 /\ lock' = "free"
        /\ gap' = IF last < gap THEN last ELSE gap
    BY <1>3, <1>0 DEF Match!Send, Match!Unlocked
  <2>2. CallsOK'
    BY <2>1 DEF Steps
  <2>3. \A d \in Scans : matching'[d].at # "sleep"
    BY <2>1
  <2>4. QED BY <2>1, <2>2, <2>3, <1>0
<1>4. ASSUME NEW c \in Scans, Match!Answer(c) \/ Match!Drop(c)
      PROVE  SpacedInv'
  <2>1. /\ matching' = [matching EXCEPT ![c] = Match!Away]
        /\ lock' \in {lock, Match!Unlocked(c)}
        /\ matching[c].at = "sent" => lock' = lock \/ lock' = Match!Unlocked(c)
        /\ UNCHANGED <<last, gap>>
    BY <1>4 DEF Match!Answer, Match!Drop
  <2>2. CallsOK'
    BY <2>1, <1>0 DEF Steps, Match!Away
  <2>3. ASSUME NEW d \in Scans, matching'[d].at = "sleep"
        PROVE  lock' = d /\ last' + matching'[d].sleep >= Interval
    <3>1. d # c /\ matching'[d] = matching[d]
      BY <2>1, <2>3 DEF Match!Away
    <3>2. QED BY <3>1, <2>1, <2>3 DEF Match!Unlocked
  <2>4. HolderOK'
    BY <2>1 DEF Match!Unlocked
  <2>5. QED BY <2>1, <2>2, <2>3, <2>4
<1>5. CASE Match!Tick
  <2>1. /\ last' = IF last < Match!Never THEN last + 1 ELSE last
        /\ matching' = [c \in Scans |-> [matching[c] EXCEPT !.sleep = IF @ > 0 THEN @ - 1 ELSE 0]]
        /\ UNCHANGED <<lock, gap>>
    BY <1>5 DEF Match!Tick
  <2>2. CallsOK'
    BY <2>1, <1>0 DEF Steps
  <2>3. ASSUME NEW d \in Scans, matching'[d].at = "sleep"
        PROVE  lock' = d /\ last' + matching'[d].sleep >= Interval
    <3>1. matching[d].at = "sleep" /\ matching'[d].sleep = IF matching[d].sleep > 0 THEN matching[d].sleep - 1 ELSE 0
      BY <2>1, <2>3
    <3>2. matching[d].sleep \in 0..Interval
      OBVIOUS
    <3>3. QED BY <3>1, <3>2, <2>1, <1>0
  <2>4. QED BY <2>1, <2>2, <2>3, <1>0
<1>6. CASE UNCHANGED matchVars
  BY <1>6 DEF matchVars
<1>7. QED
  BY <1>1, <1>2, <1>3, <1>4, <1>5, <1>6 DEF Match!Next

\* However many scans ask the match service at once, and whoever of them is dropped
\* while it waits, two requests are never closer than the interval (client.rs, throttle).
THEOREM OutboundSpaced == Spec => []MatchesAreSpaced
<1>1. Init => SpacedInv
  BY SpacedInit DEF Init
<1>2. SpacedInv /\ [Next]_allVars => SpacedInv'
  <2>1. [Next]_allVars => [Match!Next]_matchVars
    BY DEF Next, allVars
  <2>2. QED BY <2>1, SpacedStep
<1>3. SpacedInv => MatchesAreSpaced
  BY DEF SpacedInv, MatchesAreSpaced
<1>4. QED BY <1>1, <1>2, <1>3, PTL DEF Spec

-----------------------------------------------------------------------------
(* The metadata client: its pace *)

\* A full bucket, and what the requests of the last w ticks have cost.
Full == Cost * Burst
Spent(w) == Cost * taken[w]

\* What was spent and what is left never exceed a full bucket and what came in since.
BucketOK == bucket \in 0..Full
TakenOK == taken \in [1..Window -> Nat]
Budget == \A w \in 1..Window : Spent(w) + bucket <= Full + w - 1

PaceInv == BucketOK /\ TakenOK /\ Budget

LEMMA BucketSizes == Cost \in Nat \ {0} /\ Window \in Nat \ {0} /\ Full \in Nat
<1>1. Cost \in Nat \ {0} /\ Window \in Nat \ {0} /\ Burst \in Nat
  BY MetadataAssumption DEF Metadata!BucketAssumption
<1>2. Cost * Burst \in Nat
  BY <1>1
<1>3. QED BY <1>1, <1>2 DEF Full

\* A request more costs a token more.
LEMMA OneMore == ASSUME NEW c \in Nat, NEW n \in Nat
                 PROVE  c * n \in Nat /\ c * (n + 1) = c * n + c
OBVIOUS

LEMMA PaceInit == ASSUME Metadata!Init
                  PROVE  PaceInv
<1>1. bucket = Full /\ taken = [w \in 1..Window |-> 0]
  BY DEF Metadata!Init, Full
<1>2. \A w \in 1..Window : Spent(w) = 0
  BY <1>1, BucketSizes DEF Spent
<1>3. QED BY <1>1, <1>2, BucketSizes DEF PaceInv, BucketOK, TakenOK, Budget

\* A token taken moves from the bucket to what was spent; a tick puts no more into the
\* bucket than it allows to every window.
LEMMA PaceStep == ASSUME PaceInv, [Metadata!Next]_metadataVars
                  PROVE  PaceInv'
<1>1. Cost \in Nat \ {0} /\ Window \in Nat \ {0} /\ Full \in Nat
  BY BucketSizes
<1>2. bucket \in 0..Full /\ taken \in [1..Window -> Nat]
  BY DEF PaceInv, BucketOK, TakenOK
<1>3. ASSUME NEW w \in 1..Window
      PROVE  Spent(w) \in Nat /\ Spent(w) + bucket <= Full + w - 1
  <2>1. taken[w] \in Nat
    BY <1>2
  <2>2. QED BY <1>1, <2>1, OneMore DEF Spent, PaceInv, Budget
<1>4. CASE UNCHANGED <<bucket, taken>>
  BY <1>4 DEF PaceInv, BucketOK, TakenOK, Budget, Spent
<1>5. ASSUME NEW c \in Tools, Metadata!Acquire(c)
      PROVE  PaceInv'
  <2>1. bucket >= Cost /\ bucket' = bucket - Cost /\ taken' = [w \in 1..Window |-> taken[w] + 1]
    BY <1>5 DEF Metadata!Acquire
  <2>2. bucket' \in 0..Full
    BY <1>1, <1>2, <2>1
  <2>3. taken' \in [1..Window -> Nat]
    BY <1>2, <2>1
  <2>4. ASSUME NEW w \in 1..Window
        PROVE  Spent(w)' + bucket' <= Full + w - 1
    <3>1. taken'[w] = taken[w] + 1 /\ taken[w] \in Nat
      BY <1>2, <2>1
    <3>2. Spent(w)' = Spent(w) + Cost
      BY <3>1, <1>1, OneMore DEF Spent
    <3>3. QED BY <1>1, <1>2, <1>3, <2>1, <3>2
  <2>5. QED BY <2>2, <2>3, <2>4 DEF PaceInv, BucketOK, TakenOK, Budget, Full
<1>6. CASE Metadata!Tick
  <2>1. bucket' = (IF bucket < Full THEN bucket + 1 ELSE bucket)
        /\ taken' = [w \in 1..Window |-> IF w = 1 THEN 0 ELSE taken[w - 1]]
    BY <1>6 DEF Metadata!Tick, Metadata!Refilled, Full
  <2>2. bucket' \in 0..Full
    BY <1>1, <1>2, <2>1
  <2>3. taken' \in [1..Window -> Nat]
    BY <1>1, <1>2, <2>1
  <2>4. ASSUME NEW w \in 1..Window
        PROVE  Spent(w)' + bucket' <= Full + w - 1
    <3>1. CASE w = 1
      <4>1. Spent(w)' = 0
        BY <2>1, <3>1, <1>1 DEF Spent
      <4>2. bucket' \in Nat /\ bucket' <= Full
        BY <2>2, <1>1
      <4>3. bucket' <= Full + w - 1
        BY <4>2, <3>1, <1>1
      <4>4. QED BY <4>1, <4>2, <4>3
    <3>2. CASE w # 1
      <4>1. w - 1 \in 1..Window /\ Spent(w)' = Spent(w - 1)
        BY <2>1, <3>2, <1>1 DEF Spent
      <4>2. Spent(w - 1) \in Nat /\ Spent(w - 1) + bucket <= Full + (w - 1) - 1
        BY <1>3, <4>1
      <4>3. bucket' \in Nat /\ bucket' <= bucket + 1 /\ bucket \in Nat
        BY <1>1, <1>2, <2>1
      <4>4. Spent(w)' \in Nat /\ Spent(w)' + bucket <= Full + w - 2
        BY <4>1, <4>2, <4>3, <1>1
      <4>5. QED BY <1>1, <4>3, <4>4
    <3>3. QED BY <3>1, <3>2
  <2>5. QED BY <2>2, <2>3, <2>4 DEF PaceInv, BucketOK, TakenOK, Budget, Full
<1>7. UNCHANGED <<bucket, taken>> \/ (\E c \in Tools : Metadata!Acquire(c)) \/ Metadata!Tick
  BY
  DEF Metadata!Next, metadataVars, Metadata!Call, Metadata!GetCached, Metadata!Look, Metadata!Serve,
      Metadata!Receive, Metadata!Fail, Metadata!Proceed, Metadata!Change
<1>8. QED BY <1>4, <1>5, <1>6, <1>7

LEMMA PaceHolds == ASSUME PaceInv
                   PROVE  Metadata!PaceKept
<1>1. SUFFICES ASSUME NEW w \in 1..Window
               PROVE  Spent(w) <= Full + w - 1
  BY DEF Metadata!PaceKept, Spent, Full
<1>2. Spent(w) \in Nat
  BY BucketSizes, OneMore DEF Spent, PaceInv, TakenOK
<1>3. QED BY <1>2, BucketSizes DEF PaceInv, BucketOK, Budget

LEMMA MetadataSteps == [Next]_allVars => [Metadata!Next]_metadataVars
BY DEF Next, allVars

\* However many tools ask a metadata service at once and give up half-way, in any w ticks
\* it sees no more than a burst and a request for every token that came in (throttle.rs).
THEOREM OutboundPaced == Spec => []PaceKept
<1>1. Init => PaceInv
  BY PaceInit DEF Init
<1>2. PaceInv /\ [Next]_allVars => PaceInv'
  BY MetadataSteps, PaceStep
<1>3. PaceInv => PaceKept
  BY PaceHolds DEF PaceKept
<1>4. QED BY <1>1, <1>2, <1>3, PTL DEF Spec

-----------------------------------------------------------------------------
(* The metadata client: the age of its answers *)

AskerPlaces == {"away", "look", "acquire", "sent", "heard", "told"}
Longest == Metadata!Larger(SearchTtl, DetailTtl)

AskersOK == call \in [Tools -> [at : AskerPlaces, rest : Seq(Metadata!Keys), waited : 0..Timeout, age : Metadata!Ages]]
EntriesOK == entry \in [Metadata!Keys -> [since : 0..Longest, age : Metadata!Ages, kept : BOOLEAN]]
AskingSomething == \A c \in Tools : call[c].at # "away" => call[c].rest # <<>>

\* What the cache would still give out is hardly older than its place there, what a
\* request has heard is no older than the request, and what a tool was told no older
\* than its time to live and a slow request.
KeptRecent == \A k \in Metadata!Keys : entry[k].kept /\ entry[k].since < Longest => entry[k].age <= entry[k].since + Timeout
HeardRecent == \A c \in Tools : call[c].at = "heard" => call[c].age <= call[c].waited

CallInv == AskersOK /\ AskingSomething /\ HeardRecent /\ Metadata!AnswersAreRecent
CacheInv == EntriesOK /\ KeptRecent
AgeInv == CallInv /\ CacheInv

LEMMA Times == /\ Timeout \in Nat /\ Longest \in Nat \ {0} /\ Metadata!Oldest = Longest + Timeout + 1
               /\ \A k \in Metadata!Keys : Metadata!Ttl(k) \in Nat \ {0} /\ Metadata!Ttl(k) <= Longest
BY MetadataAssumption
DEF Metadata!TtlAssumption, Metadata!ClientAssumption, Longest, Metadata!Larger, Metadata!Oldest,
    Metadata!Ttl

\* A tool asks for something, and for keys.
LEMMA CallsAreKeys == Metadata!Calls \subseteq Seq(Metadata!Keys) \ {<<>>}
<1>1. ASSUME NEW keys, keys \subseteq Metadata!Keys
      PROVE  Metadata!One(keys) \cup Metadata!Two(keys) \subseteq Seq(Metadata!Keys) \ {<<>>}
  <2>1. ASSUME NEW k \in keys
        PROVE  <<k>> \in Seq(Metadata!Keys) \ {<<>>}
    BY <1>1
  <2>2. ASSUME NEW ks \in keys \X keys
        PROVE  ks \in Seq(Metadata!Keys) \ {<<>>}
    <3>1. PICK a \in keys, b \in keys : ks = <<a, b>>
      BY <2>2
    <3>2. <<a, b>> \in Seq(Metadata!Keys) \ {<<>>}
      BY <1>1
    <3>3. QED BY <3>1, <3>2
  <2>3. QED BY <2>1, <2>2 DEF Metadata!One, Metadata!Two
<1>2. Searches \subseteq Metadata!Keys /\ Details \subseteq Metadata!Keys
  BY DEF Metadata!Keys
<1>3. QED BY <1>1, <1>2
          DEF Metadata!Calls, Metadata!SearchTmdb, Metadata!GetTmdbDetail, Metadata!GetTmdbSeason,
              Metadata!SearchBangumi, Metadata!GetBangumiSubject

\* A caller that asks has a key.
LEMMA KeyOK == ASSUME AskersOK, AskingSomething, NEW c \in Tools, call[c].at # "away"
               PROVE  Metadata!Key(c) \in Metadata!Keys
BY DEF AskersOK, AskingSomething, Metadata!Key

LEMMA AgeInit == ASSUME Metadata!Init
                 PROVE  AgeInv
<1>1. /\ \A c \in Tools : call[c] = [at |-> "away", rest |-> <<>>, waited |-> 0, age |-> -1]
      /\ \A k \in Metadata!Keys : entry[k] = [since |-> 0, age |-> -1, kept |-> FALSE]
  BY DEF Metadata!Init, Metadata!Away, Metadata!Absent, Metadata!Current
<1>2. AskersOK
  BY Times DEF Metadata!Init, Metadata!Away, AskersOK, AskerPlaces, Metadata!Ages, Metadata!Current
<1>3. EntriesOK
  BY Times DEF Metadata!Init, Metadata!Absent, EntriesOK, Metadata!Ages, Metadata!Current
<1>4. QED BY <1>1, <1>2, <1>3
          DEF AgeInv, CallInv, CacheInv, AskingSomething, KeptRecent, HeardRecent,
              Metadata!AnswersAreRecent

CallRecords == [at : AskerPlaces, rest : Seq(Metadata!Keys), waited : 0..Timeout, age : Metadata!Ages]

LEMMA ToldRecord ==
  ASSUME NEW q \in CallRecords, NEW a \in Metadata!Ages
  PROVE  LET r == [q EXCEPT !.at = "told", !.age = a, !.waited = 0]
         IN  r \in CallRecords /\ r.at = "told" /\ r.rest = q.rest /\ r.age = a
<1>1. 0 \in 0..Timeout /\ "told" \in AskerPlaces
  BY Times DEF AskerPlaces
<1>2. QED BY <1>1 DEF CallRecords

LEMMA HeardRecord ==
  ASSUME NEW q \in CallRecords
  PROVE  LET r == [q EXCEPT !.at = "heard", !.age = Metadata!Current]
         IN  r \in CallRecords /\ r.at = "heard" /\ r.rest = q.rest /\ r.age = Metadata!Current /\ r.waited = q.waited
<1>1. Metadata!Current \in Metadata!Ages /\ "heard" \in AskerPlaces
  BY DEF AskerPlaces, Metadata!Ages
<1>2. QED BY <1>1 DEF CallRecords

\* A caller goes on to r, and the others stay as they are.
LEMMA OneCaller ==
  ASSUME CallInv, NEW c \in Tools, NEW r \in CallRecords,
         call' = [call EXCEPT ![c] = r],
         r.at # "away" => r.rest # <<>>,
         r.at = "heard" => r.age <= r.waited,
         r.at = "told" => r.age <= Metadata!Ttl(r.rest[1]) + Timeout
  PROVE  CallInv'
<1>1. call \in [Tools -> CallRecords]
  BY DEF CallInv, AskersOK, CallRecords
<1>2. call' \in [Tools -> CallRecords] /\ call'[c] = r
  BY <1>1
<1>3. \A d \in Tools \ {c} : call'[d] = call[d]
  BY <1>1
<1>4. AskersOK'
  BY <1>2 DEF AskersOK, CallRecords
<1>5. AskingSomething' /\ HeardRecent'
  BY <1>2, <1>3 DEF CallInv, AskingSomething, HeardRecent
<1>6. Metadata!AnswersAreRecent'
  BY <1>2, <1>3 DEF CallInv, Metadata!AnswersAreRecent, Metadata!Key
<1>7. QED BY <1>4, <1>5, <1>6 DEF CallInv

\* An entry of the cache is gone, or is e now.
LEMMA Recently == /\ Metadata!Absent \in [since : 0..Longest, age : Metadata!Ages, kept : BOOLEAN]
                  /\ ~Metadata!Absent.kept
BY Times DEF Metadata!Absent, Metadata!Ages, Metadata!Current

LEMMA LookStep == ASSUME AgeInv, NEW c \in Tools, Metadata!Look(c)
                  PROVE  AgeInv'
<1>1. call[c].at = "look" /\ call[c] \in CallRecords /\ call[c].rest # <<>> /\ Metadata!Key(c) \in Metadata!Keys
  BY KeyOK DEF Metadata!Look, AgeInv, CallInv, AskersOK, CallRecords, AskingSomething
<1>2. EntriesOK /\ KeptRecent /\ CallInv
  BY DEF AgeInv, CacheInv
<1>3. CASE Metadata!Fresh(Metadata!Key(c))
  <2>1. /\ call' = [call EXCEPT ![c] = [call[c] EXCEPT !.at = "told", !.age = entry[Metadata!Key(c)].age, !.waited = 0]]
        /\ entry' = entry
    BY <1>3 DEF Metadata!Look, Metadata!Told, Metadata!Used
  <2>2. entry[Metadata!Key(c)].age <= Metadata!Ttl(Metadata!Key(c)) + Timeout /\ entry[Metadata!Key(c)].age \in Metadata!Ages
    <3>1. ASSUME NEW k \in Metadata!Keys, Metadata!Fresh(k)
          PROVE  entry[k].age <= Metadata!Ttl(k) + Timeout /\ entry[k].age \in Metadata!Ages
      <4>1. entry[k].since \in 0..Longest /\ entry[k].age \in Metadata!Ages
        BY <1>2 DEF EntriesOK
      <4>2. Metadata!Ttl(k) \in Nat /\ Metadata!Ttl(k) <= Longest /\ Timeout \in Nat /\ Longest \in Nat
        BY Times
      <4>3. entry[k].since < Metadata!Ttl(k)
        BY <3>1 DEF Metadata!Fresh
      <4>4. entry[k].since < Longest
        BY <4>1, <4>2, <4>3
      <4>5. entry[k].age <= entry[k].since + Timeout
        BY <4>4, <3>1, <1>2 DEF Metadata!Fresh, KeptRecent
      <4>6. entry[k].age \in Int
        BY <4>1, Times DEF Metadata!Ages, Metadata!Current
      <4>7. QED BY <4>1, <4>2, <4>3, <4>5, <4>6
    <3>2. QED BY <3>1, <1>1, <1>3
  <2> DEFINE r == [call[c] EXCEPT !.at = "told", !.age = entry[Metadata!Key(c)].age, !.waited = 0]
  <2>3. r \in CallRecords /\ r.at = "told" /\ r.rest = call[c].rest /\ r.age = entry[Metadata!Key(c)].age
    BY <1>1, <2>2, ToldRecord
  <2>4. call' = [call EXCEPT ![c] = r]
    BY <2>1
  <2> HIDE DEF r
  <2>5. CallInv'
    BY <1>1, <1>2, <2>2, <2>3, <2>4, OneCaller DEF Metadata!Key
  <2>6. CacheInv'
    BY <2>1, <1>2 DEF CacheInv, EntriesOK, KeptRecent
  <2>7. QED BY <2>5, <2>6 DEF AgeInv
<1>4. CASE ~Metadata!Fresh(Metadata!Key(c))
  <2>1. /\ call' = [call EXCEPT ![c] = [call[c] EXCEPT !.at = "acquire"]]
        /\ entry' = [entry EXCEPT ![Metadata!Key(c)] = Metadata!Absent]
    BY <1>4 DEF Metadata!Look, Metadata!Goes
  <2> DEFINE r == [call[c] EXCEPT !.at = "acquire"]
  <2>3. r \in CallRecords /\ r.at = "acquire" /\ r.rest = call[c].rest
    BY <1>1 DEF CallRecords, AskerPlaces
  <2>4. call' = [call EXCEPT ![c] = r]
    BY <2>1
  <2> HIDE DEF r
  <2>5. CallInv'
    BY <1>1, <1>2, <2>3, <2>4, OneCaller
  <2>6. CacheInv'
    BY <2>1, <1>2, <1>1, Recently DEF CacheInv, EntriesOK, KeptRecent
  <2>7. QED BY <2>5, <2>6 DEF AgeInv
<1>5. QED BY <1>3, <1>4

LEMMA ReceiveStep == ASSUME AgeInv, NEW c \in Tools, Metadata!Receive(c)
                     PROVE  AgeInv'
<1>1. /\ call[c].at = "heard" /\ call[c] \in CallRecords /\ call[c].rest # <<>> /\ Metadata!Key(c) \in Metadata!Keys
      /\ call[c].age <= call[c].waited
  BY KeyOK DEF Metadata!Receive, AgeInv, CallInv, AskersOK, CallRecords, AskingSomething, HeardRecent
<1>2. EntriesOK /\ KeptRecent /\ CallInv
  BY DEF AgeInv, CacheInv
<1>3. call[c].age \in Int /\ call[c].age <= Timeout /\ call[c].age \in Metadata!Ages
  BY <1>1, Times DEF CallRecords, Metadata!Ages, Metadata!Current
<1>4. call' = [call EXCEPT ![c] = [call[c] EXCEPT !.at = "told", !.age = call[c].age, !.waited = 0]]
  BY DEF Metadata!Receive, Metadata!Told
<1>5. CallInv'
  <2> DEFINE r == [call[c] EXCEPT !.at = "told", !.age = call[c].age, !.waited = 0]
  <2>1. r \in CallRecords /\ r.at = "told" /\ r.rest = call[c].rest /\ r.age = call[c].age
    BY <1>1, <1>3, ToldRecord
  <2>2. call' = [call EXCEPT ![c] = r]
    BY <1>4
  <2> HIDE DEF r
  <2>3. r.age <= Metadata!Ttl(r.rest[1]) + Timeout
    BY <1>1, <1>3, <2>1, Times DEF Metadata!Key
  <2>4. QED BY <1>1, <1>2, <2>1, <2>2, <2>3, OneCaller
<1>6. PICK left : entry' = [k \in Metadata!Keys |-> IF k = Metadata!Key(c) THEN [since |-> 0, age |-> call[c].age, kept |-> TRUE]
                                                    ELSE IF k \in left THEN entry[k] ELSE Metadata!Absent]
  BY DEF Metadata!Receive
<1>7. CacheInv'
  <2>1. EntriesOK'
    BY <1>2, <1>3, <1>6, Recently, Times DEF EntriesOK
  <2>2. ASSUME NEW k \in Metadata!Keys, entry'[k].kept, entry'[k].since < Longest
        PROVE  entry'[k].age <= entry'[k].since + Timeout
    <3>1. CASE k = Metadata!Key(c)
      BY <3>1, <1>3, <1>6, Times
    <3>2. CASE k # Metadata!Key(c) /\ entry'[k] = entry[k]
      BY <3>2, <2>2, <1>2 DEF KeptRecent
    <3>3. CASE k # Metadata!Key(c) /\ entry'[k] = Metadata!Absent
      BY <3>3, <2>2, Recently
    <3>4. QED BY <3>1, <3>2, <3>3, <1>6
  <2>3. QED BY <2>1, <2>2 DEF CacheInv, KeptRecent
<1>8. QED BY <1>5, <1>7 DEF AgeInv

\* Steps that touch neither cache nor what a caller was told.
LEMMA PlainStep == ASSUME AgeInv, NEW c \in Tools,
                          Metadata!Call(c) \/ Metadata!Acquire(c) \/ Metadata!Serve(c) \/ Metadata!Proceed(c) \/ Metadata!Fail(c)
                   PROVE  AgeInv'
<1>1. call[c] \in CallRecords /\ (call[c].at # "away" => call[c].rest # <<>>)
  BY DEF AgeInv, CallInv, AskersOK, CallRecords, AskingSomething
<1>2. CallInv /\ CacheInv
  BY DEF AgeInv
<1>3. entry' = entry
  BY DEF Metadata!Call, Metadata!Acquire, Metadata!Serve, Metadata!Proceed, Metadata!Fail
<1>4. CacheInv'
  BY <1>2, <1>3 DEF CacheInv, EntriesOK, KeptRecent
<1>5. Metadata!Away \in CallRecords /\ Metadata!Away.at = "away"
  BY Times DEF Metadata!Away, CallRecords, AskerPlaces, Metadata!Ages, Metadata!Current
<1>6. ASSUME NEW r \in CallRecords, call' = [call EXCEPT ![c] = r],
             r.at \in {"away", "look", "acquire", "sent", "heard"},
             r.at # "away" => r.rest # <<>>, r.at = "heard" => r.age <= r.waited
      PROVE  AgeInv'
  BY <1>2, <1>4, <1>6, OneCaller DEF AgeInv
<1>7. CASE Metadata!Call(c)
  <2>1. PICK rest \in Metadata!Calls : call' = [call EXCEPT ![c] = [call[c] EXCEPT !.at = "look", !.rest = rest]]
    BY <1>7 DEF Metadata!Call
  <2> DEFINE r == [call[c] EXCEPT !.at = "look", !.rest = rest]
  <2>2. rest \in Seq(Metadata!Keys) /\ rest # <<>>
    BY CallsAreKeys
  <2>3. r \in CallRecords /\ r.at = "look" /\ r.rest # <<>>
    BY <2>2, <1>1 DEF CallRecords, AskerPlaces
  <2>4. call' = [call EXCEPT ![c] = r]
    BY <2>1
  <2> HIDE DEF r
  <2>5. QED BY <2>3, <2>4, <1>6
<1>8. CASE Metadata!Acquire(c)
  <2> DEFINE r == [call[c] EXCEPT !.at = "sent"]
  <2>1. r \in CallRecords /\ r.at = "sent" /\ r.rest # <<>>
    BY <1>8, <1>1 DEF Metadata!Acquire, CallRecords, AskerPlaces
  <2>2. call' = [call EXCEPT ![c] = r]
    BY <1>8 DEF Metadata!Acquire, Metadata!Goes
  <2> HIDE DEF r
  <2>3. QED BY <2>1, <2>2, <1>6
<1>9. CASE Metadata!Serve(c)
  <2> DEFINE r == [call[c] EXCEPT !.at = "heard", !.age = Metadata!Current]
  <2>1. r \in CallRecords /\ r.at = "heard" /\ r.rest # <<>> /\ r.age = -1 /\ r.waited \in Nat
    <3>1. call[c].at = "sent" /\ call[c].waited \in Nat
      BY <1>9, <1>1, Times DEF Metadata!Serve, CallRecords
    <3>2. r \in CallRecords /\ r.at = "heard" /\ r.rest = call[c].rest /\ r.age = Metadata!Current /\ r.waited = call[c].waited
      BY <1>1, HeardRecord
    <3>3. QED BY <3>1, <3>2, <1>1 DEF Metadata!Current
  <2>2. call' = [call EXCEPT ![c] = r]
    BY <1>9 DEF Metadata!Serve
  <2> HIDE DEF r
  <2>3. r.age <= r.waited
    BY <2>1
  <2>4. QED BY <2>1, <2>2, <2>3, <1>6
<1>10. CASE Metadata!Fail(c)
  BY <1>10, <1>5, <1>6 DEF Metadata!Fail
<1>11. CASE Metadata!Proceed(c)
  <2>1. CASE Len(call[c].rest) = 1
    <3>1. call' = [call EXCEPT ![c] = Metadata!Away]
      BY <1>11, <2>1 DEF Metadata!Proceed
    <3>2. QED BY <3>1, <1>5, <1>6
  <2>2. CASE Len(call[c].rest) # 1
    <3> DEFINE r == [Metadata!Away EXCEPT !.at = "look", !.rest = Tail(call[c].rest)]
    <3>1. call[c].rest \in Seq(Metadata!Keys) /\ call[c].rest # <<>>
      BY <1>11, <1>1 DEF Metadata!Proceed, CallRecords
    <3>2. Tail(call[c].rest) \in Seq(Metadata!Keys) /\ Tail(call[c].rest) # <<>>
      <4>1. Len(call[c].rest) \in Nat \ {0, 1}
        BY <3>1, <2>2
      <4>2. Tail(call[c].rest) \in Seq(Metadata!Keys) /\ Len(Tail(call[c].rest)) = Len(call[c].rest) - 1
        BY <3>1, <4>1
      <4>3. Len(Tail(call[c].rest)) # 0
        BY <4>1, <4>2
      <4>4. Tail(call[c].rest) # <<>>
        <5>1. Len(<<>>) = 0
          OBVIOUS
        <5>2. QED BY <5>1, <4>3, Zenon
      <4>5. QED BY <4>2, <4>4
    <3>3. r \in CallRecords /\ r.at = "look" /\ r.rest # <<>>
      BY <3>2, <1>5 DEF CallRecords, AskerPlaces, Metadata!Away
    <3>4. call' = [call EXCEPT ![c] = r]
      BY <1>11, <2>2 DEF Metadata!Proceed
    <3> HIDE DEF r
    <3>5. QED BY <3>3, <3>4, <1>6
  <2>3. QED BY <2>1, <2>2
<1>12. QED BY <1>7, <1>8, <1>9, <1>10, <1>11

EntryRecords == [since : 0..Longest, age : Metadata!Ages, kept : BOOLEAN]

\* A change makes what says otherwise zero ticks old, and nothing older.
LEMMA ChangedAge == ASSUME NEW a \in Metadata!Ages
                    PROVE  /\ Metadata!Larger(a, 0) \in Metadata!Ages
                           /\ \A n \in Nat : a <= n => Metadata!Larger(a, 0) <= n
BY Times DEF Metadata!Ages, Metadata!Current, Metadata!Larger

\* A tick makes an age one tick older, or leaves it.
LEMMA OlderAge == ASSUME NEW a \in Metadata!Ages
                  PROVE  /\ Metadata!Older(a) \in Metadata!Ages
                         /\ \A n \in Nat : a <= n => Metadata!Older(a) <= n + 1
BY Times DEF Metadata!Ages, Metadata!Current, Metadata!Older

LEMMA ChangeStep == ASSUME AgeInv, NEW k \in Metadata!Keys, Metadata!Change(k)
                    PROVE  AgeInv'
<1>1. call \in [Tools -> CallRecords] /\ entry \in [Metadata!Keys -> EntryRecords]
  BY DEF AgeInv, CallInv, AskersOK, CallRecords, CacheInv, EntriesOK, EntryRecords
<1>2. entry' = [entry EXCEPT ![k] = [entry[k] EXCEPT !.age = IF entry[k].kept THEN Metadata!Larger(entry[k].age, 0) ELSE entry[k].age]]
  BY DEF Metadata!Change
<1>3. call' = [c \in Tools |-> IF call[c].at = "heard" /\ Metadata!Key(c) = k
                               THEN [call[c] EXCEPT !.age = Metadata!Larger(call[c].age, 0)] ELSE call[c]]
  BY DEF Metadata!Change
<1>4. ASSUME NEW c \in Tools
      PROVE  /\ call'[c] \in CallRecords
             /\ call'[c].at = call[c].at /\ call'[c].rest = call[c].rest /\ call'[c].waited = call[c].waited
             /\ call[c].at # "heard" => call'[c].age = call[c].age
             /\ call[c].at = "heard" => call'[c].age <= call'[c].waited
  <2>1. call[c] \in CallRecords /\ Metadata!Larger(call[c].age, 0) \in Metadata!Ages
    BY <1>1, ChangedAge DEF CallRecords
  <2>2. call[c].waited \in Nat
    BY <2>1, Times DEF CallRecords
  <2>3. call[c].at = "heard" => call[c].age <= call[c].waited /\ Metadata!Larger(call[c].age, 0) <= call[c].waited
    <3>1. call[c].age \in Metadata!Ages
      BY <2>1 DEF CallRecords
    <3>2. QED BY <2>2, <3>1, ChangedAge DEF AgeInv, CallInv, HeardRecent
  <2>4. CASE call'[c] = call[c]
    BY <2>1, <2>3, <2>4
  <2>5. CASE call[c].at = "heard" /\ call'[c] = [call[c] EXCEPT !.age = Metadata!Larger(call[c].age, 0)]
    BY <2>1, <2>3, <2>5 DEF CallRecords
  <2>6. QED BY <1>3, <2>4, <2>5
<1>5. CallInv'
  <2>1. AskersOK'
    BY <1>3, <1>4 DEF AskersOK, CallRecords
  <2>2. AskingSomething' /\ HeardRecent'
    BY <1>4 DEF AgeInv, CallInv, AskingSomething, HeardRecent
  <2>3. Metadata!AnswersAreRecent'
    BY <1>4 DEF AgeInv, CallInv, Metadata!AnswersAreRecent, Metadata!Key
  <2>4. QED BY <2>1, <2>2, <2>3 DEF CallInv
<1>6. ASSUME NEW j \in Metadata!Keys
      PROVE  /\ entry'[j] \in EntryRecords
             /\ entry'[j].kept = entry[j].kept /\ entry'[j].since = entry[j].since
             /\ \A n \in Nat : entry[j].age <= n => entry'[j].age <= n
  <2>1. entry[j] \in EntryRecords /\ entry[j].age \in Metadata!Ages
    BY <1>1 DEF EntryRecords
  <2>2. CASE entry'[j] = entry[j]
    BY <2>1, <2>2
  <2>3. CASE entry'[j] = [entry[j] EXCEPT !.age = Metadata!Larger(entry[j].age, 0)]
    BY <2>1, <2>3, ChangedAge DEF EntryRecords
  <2>4. CASE entry'[j] = [entry[j] EXCEPT !.age = entry[j].age]
    BY <2>1, <2>4 DEF EntryRecords
  <2>5. QED BY <1>1, <1>2, <2>2, <2>3, <2>4
<1>7. CacheInv'
  <2>1. EntriesOK'
    BY <1>1, <1>2, <1>6 DEF EntriesOK, EntryRecords
  <2>2. ASSUME NEW j \in Metadata!Keys, entry'[j].kept, entry'[j].since < Longest
        PROVE  entry'[j].age <= entry'[j].since + Timeout
    <3>1. entry[j].age <= entry[j].since + Timeout
      BY <1>6, <2>2 DEF AgeInv, CacheInv, KeptRecent
    <3>2. entry[j].since + Timeout \in Nat
      BY <1>1, Times DEF EntryRecords
    <3>3. QED BY <3>1, <3>2, <1>6
  <2>3. QED BY <2>1, <2>2 DEF CacheInv, KeptRecent
<1>8. QED BY <1>5, <1>7 DEF AgeInv

LEMMA TickStep == ASSUME AgeInv, Metadata!Tick
                  PROVE  AgeInv'
<1>1. call \in [Tools -> CallRecords] /\ entry \in [Metadata!Keys -> EntryRecords]
  BY DEF AgeInv, CallInv, AskersOK, CallRecords, CacheInv, EntriesOK, EntryRecords
<1>2. call' = [c \in Tools |-> IF call[c].at \in {"sent", "heard"}
                               THEN [call[c] EXCEPT !.waited = @ + 1, !.age = Metadata!Older(@)] ELSE call[c]]
  BY DEF Metadata!Tick
<1>3. ASSUME NEW c \in Tools
      PROVE  /\ call'[c] \in CallRecords
             /\ call'[c].at = call[c].at /\ call'[c].rest = call[c].rest /\ call'[c].at # "told"
             /\ call'[c].at = "heard" => call'[c].age <= call'[c].waited
  <2>1. call[c] \in CallRecords /\ call[c].waited \in 0..Timeout /\ call[c].age \in Metadata!Ages /\ Metadata!Older(call[c].age) \in Metadata!Ages
    BY <1>1, OlderAge DEF CallRecords
  <2>2. CASE call[c].at \in {"away", "acquire"}
    BY <1>2, <2>1, <2>2
  <2>3. CASE call[c].at \in {"sent", "heard"} /\ call[c].waited < Timeout
    <3>1. call'[c] = [call[c] EXCEPT !.waited = call[c].waited + 1, !.age = Metadata!Older(call[c].age)]
      BY <1>2, <2>3
    <3>2. call[c].waited + 1 \in 0..Timeout
      BY <2>1, <2>3, Times
    <3>3. call[c].at = "heard" => Metadata!Older(call[c].age) <= call[c].waited + 1
      BY <2>1, OlderAge, Times DEF AgeInv, CallInv, HeardRecent
    <3>4. QED BY <2>1, <2>3, <3>1, <3>2, <3>3 DEF CallRecords
  <2>4. QED BY <2>2, <2>3 DEF Metadata!Tick
<1>4. CallInv'
  <2>1. AskersOK'
    BY <1>2, <1>3 DEF AskersOK, CallRecords
  <2>2. AskingSomething' /\ HeardRecent'
    BY <1>3 DEF AgeInv, CallInv, AskingSomething, HeardRecent
  <2>3. Metadata!AnswersAreRecent'
    BY <1>3 DEF Metadata!AnswersAreRecent
  <2>4. QED BY <2>1, <2>2, <2>3 DEF CallInv
<1>5. entry' = [k \in Metadata!Keys |-> Metadata!Later(entry[k])]
  BY DEF Metadata!Tick
<1>6. ASSUME NEW k \in Metadata!Keys
      PROVE  /\ entry'[k] \in EntryRecords
             /\ entry'[k].kept = entry[k].kept /\ entry'[k].age = Metadata!Older(entry[k].age)
             /\ entry'[k].kept /\ entry'[k].since < Longest => entry'[k].since = entry[k].since + 1
  <2>1. entry[k] \in EntryRecords /\ entry[k].since \in 0..Longest /\ Metadata!Older(entry[k].age) \in Metadata!Ages
    BY <1>1, OlderAge DEF EntryRecords
  <2>2. entry'[k] = [entry[k] EXCEPT !.age = Metadata!Older(entry[k].age),
                       !.since = IF entry[k].kept /\ entry[k].since < Longest THEN entry[k].since + 1 ELSE entry[k].since]
    BY <1>5 DEF Metadata!Later, Longest
  <2>3. CASE entry[k].kept /\ entry[k].since < Longest
    <3>1. entry'[k] = [entry[k] EXCEPT !.age = Metadata!Older(entry[k].age), !.since = entry[k].since + 1]
      BY <2>2, <2>3
    <3>2. entry[k].since + 1 \in 0..Longest
      BY <2>1, <2>3, Times
    <3>3. QED BY <2>1, <3>1, <3>2 DEF EntryRecords
  <2>4. CASE ~(entry[k].kept /\ entry[k].since < Longest)
    <3>1. entry'[k] = [entry[k] EXCEPT !.age = Metadata!Older(entry[k].age), !.since = entry[k].since]
      BY <2>2, <2>4
    <3>2. QED BY <2>1, <2>4, <3>1 DEF EntryRecords
  <2>5. QED BY <2>3, <2>4
<1>7. CacheInv'
  <2>1. EntriesOK'
    BY <1>5, <1>6 DEF EntriesOK, EntryRecords
  <2>2. ASSUME NEW k \in Metadata!Keys, entry'[k].kept, entry'[k].since < Longest
        PROVE  entry'[k].age <= entry'[k].since + Timeout
    <3>1. entry[k].since \in Nat /\ entry'[k].since = entry[k].since + 1 /\ entry[k].age \in Metadata!Ages
      BY <1>1, <1>6, <2>2 DEF EntryRecords
    <3>2. entry[k].since < Longest
      BY <3>1, <2>2, Times
    <3>3. entry[k].age <= entry[k].since + Timeout
      BY <3>2, <1>6, <2>2 DEF AgeInv, CacheInv, KeptRecent
    <3>4. Metadata!Older(entry[k].age) <= (entry[k].since + Timeout) + 1
      BY <3>1, <3>3, OlderAge, Times
    <3>5. QED BY <3>1, <3>4, <1>6, Times
  <2>3. QED BY <2>1, <2>2 DEF CacheInv, KeptRecent
<1>8. QED BY <1>4, <1>7 DEF AgeInv

\* Every step keeps the invariant.
LEMMA AgeStep == ASSUME AgeInv, [Metadata!Next]_metadataVars
                 PROVE  AgeInv'
<1>1. CASE UNCHANGED metadataVars
  BY <1>1
  DEF metadataVars, AgeInv, CallInv, AskersOK, AskingSomething, HeardRecent,
      Metadata!AnswersAreRecent, Metadata!Key, CacheInv,
              EntriesOK, KeptRecent
<1>2. ASSUME NEW c \in Tools, Metadata!Call(c) \/ Metadata!GetCached(c) \/ Metadata!Proceed(c)
      PROVE  AgeInv'
  BY <1>2, LookStep, ReceiveStep, PlainStep DEF Metadata!GetCached
<1>3. QED BY <1>1, <1>2, ChangeStep, TickStep DEF Metadata!Next

\* What a tool is told is never older than its time to live and a slow request, whoever
\* has put it into the cache in what order (cache.rs).
THEOREM OutboundRecent == Spec => []AnswersAreRecent
<1>1. Init => AgeInv
  BY AgeInit DEF Init
<1>2. AgeInv /\ [Next]_allVars => AgeInv'
  BY MetadataSteps, AgeStep
<1>3. AgeInv => AnswersAreRecent
  BY DEF AgeInv, CallInv, AnswersAreRecent
<1>4. QED BY <1>1, <1>2, <1>3, PTL DEF Spec

-----------------------------------------------------------------------------
(* The image cache *)

Places == {"away", "find", "fetch", "create", "write 1", "write 2", "rename", "scale", "decode",
           "scale 1", "scale 2", "serve"}
Downloading == {"write 1", "write 2"}
Drawing == {"scale 1", "scale 2"}

Requesters == [at : Places, node : {0} \cup Image!Nodes, scale : BOOLEAN, left : BOOLEAN]

NodeOK == node \in [Image!Names -> {0} \cup Image!Nodes]
HalfOK == half \in [Image!Nodes -> SUBSET {1, 2}]
ReqOK == /\ req \in [Viewers -> Requesters]
         /\ \A r \in Viewers : req[r].node # 0 <=> req[r].at \in Downloading \cup Drawing
FlagsOK == shared \in BOOLEAN /\ cut \in BOOLEAN /\ broken \in BOOLEAN

\* Two names never stand for one node.
NamesApart == \A m, n \in Image!Names : m # n /\ node[m] # 0 => node[m] # node[n]

\* Who draws has the scaled image open, who downloads never has.
HandlesOK == \A r \in Viewers : /\ req[r].at \in Drawing => req[r].node = node["scaled"]
                                /\ req[r].at \in Downloading => req[r].node # node["scaled"]

\* Who goes on without a client is in a call, and a download without one was cut off.
LeftOK == \A r \in Viewers :
            req[r].left = TRUE => /\ req[r].at \in Image!FileCalls \cup Image!Blocking
                                  /\ (req[r].at \in Image!FileCalls => cut)

\* What a node lacks somebody is about to write.
Coming(i, first, second) ==
  /\ 1 \in half[i] \/ \E r \in Viewers : req[r].node = i /\ req[r].at = first
  /\ 2 \in half[i] \/ \E r \in Viewers : req[r].node = i /\ req[r].at \in {first, second}

DownloadsEnd == ~cut => \A n \in {"temporary", "original"} :
                          node[n] # 0 => Coming(node[n], "write 1", "write 2")
DrawingEnds == ~broken /\ node["scaled"] # 0 => Coming(node["scaled"], "scale 1", "scale 2")

\* A download that is alone has the temporary file for itself.
OneAtATime == \A q, r \in Viewers : req[q].at \in Image!Writes /\ req[r].at \in Image!Writes => q = r
OwnFile == \A r \in Viewers :
             /\ req[r].at \in Downloading => req[r].node = node["temporary"]
             /\ req[r].at = "write 2" => 1 \in half[node["temporary"]]
             /\ req[r].at = "rename" => node["temporary"] # 0 /\ half[node["temporary"]] = {1, 2}
OriginalWhole == node["original"] # 0 => half[node["original"]] = {1, 2}
Alone == ~shared => OneAtATime /\ OwnFile /\ OriginalWhole

ImageTypes == NodeOK /\ HalfOK /\ ReqOK /\ FlagsOK
ImageInv == /\ ImageTypes /\ NamesApart /\ HandlesOK /\ LeftOK
            /\ DownloadsEnd /\ DrawingEnds /\ Alone

LEMMA SameCardinality == /\ \A S : Image!Cardinality(S) = Cardinality(S)
                         /\ IsFiniteSet(Viewers)
<1>1. \A S : Image!Cardinality(S) = Cardinality(S)
  BY Zenon DEF Image!Cardinality, Cardinality
<1>2. IsFiniteSet(Viewers)
  BY ImageAssumption, Zenon DEF Image!RequestsAssumption, Image!IsFiniteSet, IsFiniteSet
<1> QED BY <1>1, <1>2

\* There is always a node to spare: each name and each request takes one at most.
LEMMA NodeToSpare == ASSUME NodeOK, ReqOK, NEW n \in Image!Names, node[n] = 0
                     PROVE  /\ Image!Unused # {}
                            /\ 0 \notin Image!Nodes
<1> DEFINE Named == {node[m] : m \in Image!Names}
           Held == {req[r].node : r \in Viewers}
           held == [r \in Viewers |-> req[r].node]
           few == Cardinality(Image!Names) + Cardinality(Viewers)
<1>1. IsFiniteSet(Image!Names) /\ IsFiniteSet(Viewers)
  <2>1. IsFiniteSet({"temporary"} \cup {"original"} \cup {"scaled"})
    BY FS_Singleton, FS_Union
  <2>2. Image!Names = {"temporary"} \cup {"original"} \cup {"scaled"}
    BY DEF Image!Names
  <2> QED BY <2>1, <2>2, SameCardinality
<1>2. IsFiniteSet(Named) /\ Cardinality(Named) <= Cardinality(Image!Names)
  <2>1. node \in Surjection(Image!Names, Named)
    BY DEF Surjection, NodeOK
  <2> QED BY <2>1, <1>1, FS_Surjection
<1>3. IsFiniteSet(Held) /\ Cardinality(Held) <= Cardinality(Viewers)
  <2>1. held \in Surjection(Viewers, Held)
    BY DEF Surjection
  <2> QED BY <2>1, <1>1, FS_Surjection
<1>4. few \in Nat /\ Image!Nodes = 1..few
  BY <1>1, FS_CardinalityType, SameCardinality DEF Image!Nodes
<1>5. IsFiniteSet(Named \cup Held) /\ Cardinality(Named \cup Held) <= few
  <2>1. Cardinality(Named \cap Held) \in Nat /\ Cardinality(Named) \in Nat /\ Cardinality(Held) \in Nat
    <3>1. IsFiniteSet(Named \cap Held)
      BY <1>2, FS_Intersection
    <3> QED BY <3>1, <1>2, <1>3, FS_CardinalityType
  <2>2. Cardinality(Image!Names) \in Nat /\ Cardinality(Viewers) \in Nat
    BY <1>1, FS_CardinalityType
  <2> HIDE DEF Named, Held
  <2> QED BY <2>1, <2>2, <1>2, <1>3, FS_Union
<1>6. 0 \in Named
  OBVIOUS
<1>7. IsFiniteSet(0..few) /\ Cardinality(0..few) = few + 1
  BY <1>4, FS_Interval
<1>8. ASSUME Image!Nodes \subseteq Named \cup Held PROVE FALSE
  <2>1. 0..few \subseteq Named \cup Held
    <3>1. 0..few = {0} \cup Image!Nodes
      <4> HIDE DEF few
      <4> QED BY <1>4
    <3> HIDE DEF Named, Held, few
    <3> QED BY <3>1, <1>6, <1>8
  <2>2. Cardinality(0..few) <= Cardinality(Named \cup Held)
    <3> HIDE DEF Named, Held, few
    <3> QED BY <2>1, <1>5, FS_Subset
  <2>3. Cardinality(Named \cup Held) \in Nat
    BY <1>5, FS_CardinalityType
  <2> HIDE DEF Named, Held, few
  <2> QED BY <2>2, <2>3, <1>4, <1>5, <1>7
<1>9. Image!Unused = Image!Nodes \ (Named \cup Held)
  BY DEF Image!Unused
<1> QED BY <1>4, <1>8, <1>9

\* A file that is created is empty, and a new one is nobody else's.
LEMMA CreatedFile ==
  ASSUME NodeOK, ReqOK, NamesApart, NEW r \in Viewers, NEW n \in Image!Names, NEW place,
         Image!Created(r, n, place)
  PROVE  \E i \in Image!Nodes : /\ i # 0
                                /\ node' = [node EXCEPT ![n] = i]
                                /\ half' = [half EXCEPT ![i] = {}]
                                /\ Image!Moves(r, place, i)
                                /\ \A m \in Image!Names : m # n => node[m] # i
                                /\ node[n] = 0 => \A q \in Viewers : req[q].node # i
                                /\ node[n] # 0 => i = node[n]
<1> DEFINE i == IF node[n] # 0 THEN node[n] ELSE CHOOSE u \in Image!Unused : TRUE
<1>1. /\ node' = [node EXCEPT ![n] = i] /\ half' = [half EXCEPT ![i] = {}] /\ Image!Moves(r, place, i)
  BY DEF Image!Created, Image!Exists
<1>2. CASE node[n] # 0
  <2>1. i = node[n] /\ i \in Image!Nodes
    BY <1>2 DEF NodeOK
  <2> HIDE DEF i
  <2> QED BY <1>1, <1>2, <2>1 DEF NamesApart
<1>3. CASE node[n] = 0
  <2>1. i \in Image!Unused /\ 0 \notin Image!Nodes
    BY <1>3, NodeToSpare
  <2>2. i \in Image!Nodes /\ i # 0 /\ \A m \in Image!Names : node[m] # i
    <3> HIDE DEF i
    <3> QED BY <2>1 DEF Image!Unused
  <2>3. \A q \in Viewers : req[q].node # i
    <3> HIDE DEF i
    <3> QED BY <2>1 DEF Image!Unused
  <2> HIDE DEF i
  <2> QED BY <1>1, <1>3, <2>2, <2>3
<1> QED BY <1>2, <1>3

LEMMA AwayIs == /\ Image!Away \in Requesters
                /\ Image!Away.at = "away" /\ Image!Away.node = 0 /\ Image!Away.left = FALSE
BY DEF Image!Away, Requesters, Places

\* Whoever moves is the only one to, and goes on unless its client has left.
LEMMA Moved ==
  ASSUME ReqOK, NEW r \in Viewers, NEW place \in Places, NEW i \in {0} \cup Image!Nodes,
         Image!Moves(r, place, i)
  PROVE  /\ req' \in [Viewers -> Requesters]
         /\ \A q \in Viewers \ {r} : req'[q] = req[q]
         /\ \/ req[r].left = TRUE /\ place \notin Image!Blocking /\ req'[r] = Image!Away
            \/ /\ req[r].left = TRUE => place \in Image!Blocking
               /\ req'[r].at = place /\ req'[r].node = i /\ req'[r].left = req[r].left
<1> DEFINE x == [req[r] EXCEPT !.at = place, !.node = i]
<1>1. req[r] \in Requesters /\ req[r].left \in BOOLEAN
  BY DEF ReqOK, Requesters
<1>2. x \in Requesters /\ x.at = place /\ x.node = i /\ x.left = req[r].left
  BY <1>1 DEF Requesters
<1>3. req' = [req EXCEPT ![r] = IF req[r].left /\ place \notin Image!Blocking THEN Image!Away ELSE x]
  BY DEF Image!Moves
<1>4. req \in [Viewers -> Requesters] /\ Image!Away \in Requesters
  BY AwayIs DEF ReqOK
<1> HIDE DEF x
<1>5. CASE req[r].left = TRUE /\ place \notin Image!Blocking
  BY <1>3, <1>4, <1>5
<1>6. CASE ~(req[r].left = TRUE /\ place \notin Image!Blocking)
  <2>1. req' = [req EXCEPT ![r] = x]
    BY <1>1, <1>3, <1>6
  <2> QED BY <2>1, <1>1, <1>2, <1>4, <1>6
<1> QED BY <1>5, <1>6

LEMMA ImageInit == Image!Init => ImageInv
<1> SUFFICES ASSUME Image!Init PROVE ImageInv
  OBVIOUS
<1>1. \A n \in Image!Names : node[n] = 0
  BY DEF Image!Init
<1>2. \A r \in Viewers : req[r] = Image!Away
  BY DEF Image!Init
<1>3. ImageTypes
  <2>1. ReqOK
    <3>1. req \in [Viewers -> Requesters]
      BY AwayIs DEF Image!Init
    <3> QED BY <3>1, <1>2, AwayIs DEF ReqOK, Downloading, Drawing
  <2> QED BY <2>1 DEF Image!Init, ImageTypes, NodeOK, HalfOK, FlagsOK
<1>4. NamesApart
  BY <1>1 DEF NamesApart
<1>5. HandlesOK /\ LeftOK
  <2>1. HandlesOK
  BY <1>2, AwayIs DEF HandlesOK, LeftOK, Downloading, Drawing
  <2>2. LeftOK
  BY <1>2, AwayIs DEF LeftOK, Downloading, Drawing
  <2> QED BY <2>1, <2>2
<1>6. DownloadsEnd /\ DrawingEnds
  BY <1>1 DEF DownloadsEnd, DrawingEnds, Image!Names
<1>7. Alone
  BY <1>1, <1>2, AwayIs DEF Alone, OneAtATime, OwnFile, OriginalWhole, Image!Writes, Downloading, Image!Names
<1> QED BY <1>3, <1>4, <1>5, <1>6, <1>7 DEF ImageInv

\* A request that has no file open moves to a place where it has none, either.
LEMMA QuietStep ==
  ASSUME ImageInv, NEW r \in Viewers,
         req' \in [Viewers -> Requesters],
         \A q \in Viewers \ {r} : req'[q] = req[q],
         req'[r].at \notin Downloading \cup Drawing \cup {"rename"}, req'[r].node = 0,
         req'[r].left = TRUE => req'[r].at \in Image!Blocking,
         req[r].at \notin Downloading \cup Drawing,
         UNCHANGED <<node, half, shared, cut, broken>>
  PROVE  ImageInv'
<1> USE DEF ImageInv, ImageTypes
<1>1. NodeOK' /\ HalfOK' /\ FlagsOK' /\ NamesApart'
  BY DEF NodeOK, HalfOK, FlagsOK, NamesApart
<1>2. ReqOK'
  BY DEF ReqOK
<1>3. HandlesOK'
  BY DEF HandlesOK
<1>4. LeftOK'
  BY DEF LeftOK, Image!Blocking, Image!FileCalls
<1>5. DownloadsEnd' /\ DrawingEnds'
  <2>1. ASSUME NEW i, NEW f, NEW s, {f, s} \subseteq Downloading \cup Drawing, Coming(i, f, s)
        PROVE  Coming(i, f, s)'
    BY <2>1 DEF Coming
  <2>2. {"write 1", "write 2", "scale 1", "scale 2"} \subseteq Downloading \cup Drawing
    BY DEF Downloading, Drawing
  <2>3. DownloadsEnd'
    BY <2>1, <2>2 DEF DownloadsEnd
  <2>4. DrawingEnds'
    BY <2>1, <2>2 DEF DrawingEnds
  <2> QED BY <2>3, <2>4
<1>6. Alone'
  BY DEF Alone, OneAtATime, OwnFile, OriginalWhole, Image!Writes, Downloading, Drawing
<1> QED BY <1>1, <1>2, <1>3, <1>4, <1>5, <1>6

LEMMA CreateStep == ASSUME ImageInv, NEW r \in Viewers, Image!Create(r)
                    PROVE  ImageInv'
<1> USE DEF ImageInv, ImageTypes
<1>1. PICK i \in Image!Nodes : /\ i # 0
                               /\ node' = [node EXCEPT !["temporary"] = i]
                               /\ half' = [half EXCEPT ![i] = {}]
                               /\ Image!Moves(r, "write 1", i)
                               /\ \A m \in Image!Names : m # "temporary" => node[m] # i
                               /\ node["temporary"] = 0 => \A q \in Viewers : req[q].node # i
                               /\ node["temporary"] # 0 => i = node["temporary"]
  <2>1. Image!Created(r, "temporary", "write 1") /\ "temporary" \in Image!Names
    BY DEF Image!Create, Image!Target, Image!Names
  <2> QED BY <2>1, CreatedFile
<1>2. /\ req[r].at = "create" /\ UNCHANGED <<cut, broken>>
      /\ shared' = (shared \/ \E q \in Viewers \ {r} : req[q].at \in Image!Writes)
  BY DEF Image!Create
<1>3. "write 1" \in Places /\ "write 1" \notin Image!Blocking
  BY DEF Places, Image!Blocking
<1>4. /\ req' \in [Viewers -> Requesters]
      /\ \A q \in Viewers \ {r} : req'[q] = req[q]
      /\ \/ req[r].left = TRUE /\ req'[r] = Image!Away
         \/ req[r].left # TRUE /\ req'[r].at = "write 1" /\ req'[r].node = i /\ req'[r].left = req[r].left
  <2>1. PICK place : place = "write 1"
    OBVIOUS
  <2>2. ReqOK /\ place \in Places /\ place \notin Image!Blocking
        /\ i \in {0} \cup Image!Nodes /\ Image!Moves(r, place, i)
    BY <1>1, <1>3, <2>1
  <2> HIDE DEF ImageInv
  <2>3. /\ req' \in [Viewers -> Requesters]
        /\ \A q \in Viewers \ {r} : req'[q] = req[q]
        /\ \/ req[r].left = TRUE /\ req'[r] = Image!Away
           \/ req[r].left # TRUE /\ req'[r].at = place /\ req'[r].node = i /\ req'[r].left = req[r].left
    BY <2>2, Moved
  <2> QED BY <2>1, <2>3
<1>5. /\ \A m \in Image!Names : node'[m] = IF m = "temporary" THEN i ELSE node[m]
      /\ \A j \in Image!Nodes : half'[j] = IF j = i THEN {} ELSE half[j]
  BY <1>1 DEF NodeOK, HalfOK
<1>6. NodeOK' /\ HalfOK' /\ FlagsOK'
  BY <1>1, <1>2 DEF NodeOK, HalfOK, FlagsOK, Image!Names
<1>7. NamesApart'
  <2>1. ASSUME NEW m \in Image!Names, NEW n \in Image!Names, m # n, node'[m] # 0
        PROVE  node'[m] # node'[n]
    <3>1. CASE m = "temporary"
      BY <1>1, <1>5, <2>1, <3>1
    <3>2. CASE n = "temporary"
      BY <1>1, <1>5, <2>1, <3>2
    <3>3. CASE m # "temporary" /\ n # "temporary"
      <4>1. node'[m] = node[m] /\ node'[n] = node[n]
        BY <1>5, <3>3
      <4> QED BY <2>1, <4>1 DEF NamesApart
    <3> QED BY <3>1, <3>2, <3>3
  <2> QED BY <2>1 DEF NamesApart
<1>8. CASE req[r].left = TRUE
  <2>1. cut /\ req'[r] = Image!Away
    BY <1>2, <1>4, <1>8 DEF LeftOK, Image!FileCalls
  <2>2. req'[r].at = "away" /\ req'[r].node = 0 /\ req'[r].left = FALSE
    BY <2>1, AwayIs
  <2>3. ReqOK'
    BY <1>2, <1>4, <2>2 DEF ReqOK, Downloading, Drawing
  <2>4. HandlesOK'
    BY <1>1, <1>4, <1>5, <2>2 DEF HandlesOK, Downloading, Drawing, Image!Names
  <2>5. LeftOK'
    BY <1>2, <1>4, <2>2 DEF LeftOK
  <2>6. DownloadsEnd'
    BY <1>2, <2>1 DEF DownloadsEnd
  <2>7. DrawingEnds'
    BY <1>1, <1>2, <1>4, <1>5, <2>2 DEF DrawingEnds, Coming, NodeOK, Image!Names
  <2>8. Alone'
    <3> SUFFICES ASSUME ~shared' PROVE OneAtATime' /\ OwnFile' /\ OriginalWhole'
      BY DEF Alone
    <3>1. ~shared /\ \A q \in Viewers : req'[q].at \notin Image!Writes
      BY <1>2, <1>4, <2>2 DEF Image!Writes
    <3>2. OneAtATime' /\ OwnFile'
      BY <3>1 DEF OneAtATime, OwnFile, Image!Writes, Downloading
    <3>3. OriginalWhole'
      BY <3>1, <1>1, <1>5 DEF Alone, OriginalWhole, NodeOK, Image!Names
    <3> QED BY <3>2, <3>3
  <2> QED BY <1>6, <1>7, <2>3, <2>4, <2>5, <2>6, <2>7, <2>8
<1>9. CASE req[r].left # TRUE
  <2>1. req'[r].at = "write 1" /\ req'[r].node = i /\ req'[r].left # TRUE
    BY <1>4, <1>9
  <2>3. ReqOK'
    BY <1>1, <1>4, <2>1 DEF ReqOK, Downloading, Drawing
  <2>4. HandlesOK'
    <3>1. node'["scaled"] = node["scaled"] /\ node["scaled"] # i
      BY <1>1, <1>5 DEF Image!Names
    <3>2. HandlesOK
      OBVIOUS
    <3>3. req'[r].at \notin Drawing
      BY <2>1 DEF Drawing
    <3> HIDE DEF ImageInv
    <3> QED BY <1>4, <2>1, <3>1, <3>2, <3>3 DEF HandlesOK
  <2>5. LeftOK'
    BY <1>2, <1>4, <2>1 DEF LeftOK
  <2>6. DownloadsEnd'
    <3>1. Coming(i, "write 1", "write 2")'
      BY <2>1 DEF Coming
    <3>2. ASSUME NEW j \in Image!Nodes, j # i, Coming(j, "write 1", "write 2")
          PROVE  Coming(j, "write 1", "write 2")'
      BY <1>2, <1>4, <1>5, <3>2 DEF Coming
    <3>3. node'["temporary"] = i /\ node'["original"] = node["original"] /\ node["original"] \in {0} \cup Image!Nodes
      BY <1>5 DEF NodeOK, Image!Names
    <3>4. node["original"] # i
      BY <1>1 DEF Image!Names
    <3> QED BY <1>2, <3>1, <3>2, <3>3, <3>4 DEF DownloadsEnd
  <2>7. DrawingEnds'
    BY <1>1, <1>2, <1>4, <1>5, <2>1 DEF DrawingEnds, Coming, NodeOK, Image!Names
  <2>8. Alone'
    <3> SUFFICES ASSUME ~shared' PROVE OneAtATime' /\ OwnFile' /\ OriginalWhole'
      BY DEF Alone
    <3>1. ~shared /\ \A q \in Viewers \ {r} : req'[q].at \notin Image!Writes
      BY <1>2, <1>4
    <3>2. OneAtATime'
      BY <3>1 DEF OneAtATime
    <3>3. OwnFile'
      BY <3>1, <1>1, <2>1 DEF OwnFile, Image!Writes, Downloading, NodeOK, Image!Names
    <3>4. OriginalWhole'
      BY <3>1, <1>1, <1>5 DEF Alone, OriginalWhole, NodeOK, Image!Names
    <3> QED BY <3>2, <3>3, <3>4
  <2> QED BY <1>6, <1>7, <2>3, <2>4, <2>5, <2>6, <2>7, <2>8
<1> QED BY <1>8, <1>9

\* A half is written to the node in hand; the writer goes on or, if its client has
\* left, is gone.
LEMMA WriteStep ==
  ASSUME ImageInv, NEW r \in Viewers, req[r].at \in Downloading,
         Image!WriteFirst(r) \/ Image!WriteLast(r)
  PROVE  ImageInv'
<1> USE DEF ImageInv, ImageTypes
<1> DEFINE i == req[r].node
           n == IF req[r].at = "write 1" THEN 1 ELSE 2
           place == IF req[r].at = "write 1" THEN "write 2" ELSE "rename"
           on == IF req[r].at = "write 1" THEN i ELSE 0
<1>1. /\ half' = [half EXCEPT ![i] = @ \cup {n}] /\ Image!Moves(r, place, on)
      /\ UNCHANGED <<node, shared, cut, broken>>
  BY DEF Image!WriteFirst, Image!WriteLast, Image!Wrote, Image!Flushed, Image!HandleDropped
<1>2. i \in Image!Nodes /\ i # 0 /\ n \in {1, 2} /\ i # node["scaled"]
  BY DEF ReqOK, Requesters, HandlesOK
<1>3. place \in Places /\ on \in {0} \cup Image!Nodes /\ place \notin Image!Blocking
  BY <1>2 DEF Places, Image!Blocking
<1>4. /\ req' \in [Viewers -> Requesters]
      /\ \A q \in Viewers \ {r} : req'[q] = req[q]
      /\ \/ req[r].left = TRUE /\ req'[r] = Image!Away
         \/ req[r].left # TRUE /\ req'[r].at = place /\ req'[r].node = on /\ req'[r].left = req[r].left
  <2> HIDE DEF place, on, i, n
  <2> QED BY <1>1, <1>3, Moved
<1>5. \A j \in Image!Nodes : half'[j] = IF j = i THEN half[j] \cup {n} ELSE half[j]
  BY <1>1, <1>2 DEF HalfOK
<1>6. NodeOK' /\ HalfOK' /\ FlagsOK' /\ NamesApart'
  BY <1>1, <1>2 DEF NodeOK, HalfOK, FlagsOK, NamesApart
<1>7. CASE req[r].left = TRUE
  <2>1. cut /\ req'[r] = Image!Away
    BY <1>4, <1>7 DEF LeftOK, Image!FileCalls, Downloading
  <2>2. req'[r].at = "away" /\ req'[r].node = 0 /\ req'[r].left = FALSE
    BY <2>1, AwayIs
  <2> HIDE DEF i, n, place, on
  <2>3. ReqOK'
    BY <1>4, <2>2 DEF ReqOK, Downloading, Drawing
  <2>4. HandlesOK' /\ LeftOK'
    BY <1>1, <1>4, <2>2 DEF HandlesOK, LeftOK, Downloading, Drawing
  <2>5. DownloadsEnd'
    BY <1>1, <2>1 DEF DownloadsEnd
  <2>6. DrawingEnds'
    BY <1>1, <1>2, <1>4, <1>5 DEF DrawingEnds, Coming, NodeOK, Image!Names, Downloading
  <2>7. Alone'
    <3> SUFFICES ASSUME ~shared' PROVE OneAtATime' /\ OwnFile' /\ OriginalWhole'
      BY DEF Alone
    <3>1. ~shared /\ OneAtATime /\ OwnFile /\ OriginalWhole
      BY <1>1 DEF Alone
    <3>2. \A q \in Viewers \ {r} : req[q].at \notin Image!Writes
      BY <3>1 DEF OneAtATime, Downloading, Image!Writes
    <3>3. \A q \in Viewers : req'[q].at \notin Downloading \cup Image!Writes
      BY <1>4, <2>2, <3>2 DEF Downloading, Image!Writes
    <3>4. OneAtATime' /\ OwnFile'
      BY <3>3 DEF OneAtATime, OwnFile, Image!Writes, Downloading
    <3>5. OriginalWhole'
      BY <3>1, <1>1, <1>2, <1>5 DEF OriginalWhole, NodeOK, Image!Names
    <3> QED BY <3>4, <3>5
  <2> QED BY <1>6, <2>3, <2>4, <2>5, <2>6, <2>7
<1>8. CASE req[r].left # TRUE
  <2>1. req'[r].at = place /\ req'[r].node = on /\ req'[r].left # TRUE
    BY <1>4, <1>8
  <2>2. ReqOK'
    BY <1>2, <1>4, <2>1 DEF ReqOK, Downloading, Drawing
  <2>3. HandlesOK' /\ LeftOK'
    BY <1>1, <1>2, <1>4, <2>1 DEF HandlesOK, LeftOK, Downloading, Drawing
  <2>4. DownloadsEnd'
    <3>1. ASSUME NEW j \in Image!Nodes, Coming(j, "write 1", "write 2")
          PROVE  Coming(j, "write 1", "write 2")'
      BY <1>2, <1>4, <1>5, <2>1, <3>1 DEF Coming, Downloading
    <3>2. node["temporary"] \in {0} \cup Image!Nodes /\ node["original"] \in {0} \cup Image!Nodes
      BY DEF NodeOK, Image!Names
    <3> QED BY <1>1, <3>1, <3>2 DEF DownloadsEnd
  <2>5. DrawingEnds'
    <3> HIDE DEF i, n, place, on
    <3> QED BY <1>1, <1>2, <1>4, <1>5 DEF DrawingEnds, Coming, NodeOK, Image!Names, Downloading
  <2>6. Alone'
    <3> SUFFICES ASSUME ~shared' PROVE OneAtATime' /\ OwnFile' /\ OriginalWhole'
      BY DEF Alone
    <3>1. ~shared /\ OneAtATime /\ OwnFile /\ OriginalWhole
      BY <1>1 DEF Alone
    <3>2. OneAtATime'
      BY <3>1, <1>4, <2>1 DEF OneAtATime, Image!Writes, Downloading
    <3>3. \A q \in Viewers \ {r} : req[q].at \notin Image!Writes
      BY <3>1 DEF OneAtATime, Image!Writes, Downloading
    <3>4. OwnFile'
      <4>1. i = node["temporary"] /\ node'["temporary"] = i
        BY <3>1, <1>1 DEF OwnFile
      <4>2. \A q \in Viewers \ {r} : req'[q].at \notin Image!Writes
        BY <3>3, <1>4
      <4>3. CASE req[r].at = "write 1"
        BY <4>1, <4>2, <4>3, <1>5, <1>2, <2>1 DEF OwnFile, Image!Writes, Downloading
      <4>4. CASE req[r].at = "write 2"
        <5>1. 1 \in half[i] /\ half[i] \subseteq {1, 2}
          BY <3>1, <4>1, <4>4, <1>2 DEF OwnFile, HalfOK
        <5>2. half'[i] = {1, 2} /\ req'[r].at = "rename"
          BY <5>1, <1>5, <1>2, <2>1, <4>4
        <5> QED BY <5>2, <4>1, <4>2, <1>2 DEF OwnFile, Image!Writes, Downloading
      <4> QED BY <4>3, <4>4 DEF Downloading
    <3>5. OriginalWhole'
      BY <3>1, <1>1, <1>2, <1>5 DEF OriginalWhole, NodeOK, Image!Names
    <3> QED BY <3>2, <3>4, <3>5
  <2> QED BY <1>6, <2>2, <2>3, <2>4, <2>5, <2>6
<1> QED BY <1>7, <1>8

LEMMA RenameStep == ASSUME ImageInv, NEW r \in Viewers, Image!Rename(r)
                    PROVE  ImageInv'
<1> USE DEF ImageInv, ImageTypes
<1> DEFINE t == node["temporary"]
<1>1. req[r].at = "rename" /\ UNCHANGED <<half, shared, cut, broken>>
  BY DEF Image!Rename
<1>2. CASE t = 0
  <2>1. req' = [req EXCEPT ![r] = Image!Away] /\ UNCHANGED node
    BY <1>2 DEF Image!Rename, Image!Target, Image!Exists
  <2>2. req' \in [Viewers -> Requesters] /\ req'[r] = Image!Away /\ \A q \in Viewers \ {r} : req'[q] = req[q]
    BY <2>1, AwayIs DEF ReqOK
  <2> QED BY <1>1, <2>1, <2>2, AwayIs, QuietStep DEF Downloading, Drawing
<1>3. CASE t # 0
  <2> DEFINE place == Image!AfterOriginal(r)
  <2>1. node' = [node EXCEPT !["temporary"] = 0, !["original"] = t] /\ Image!Moves(r, place, 0)
    BY <1>3 DEF Image!Rename, Image!Target, Image!Exists, Image!Goes
  <2>2. place \in {"scale", "serve"}
    BY DEF Image!AfterOriginal
  <2>3. place \in Places
    BY <2>2 DEF Places
  <2>4. /\ req' \in [Viewers -> Requesters]
        /\ \A q \in Viewers \ {r} : req'[q] = req[q]
        /\ \/ req[r].left = TRUE /\ place \notin Image!Blocking /\ req'[r] = Image!Away
           \/ /\ req[r].left = TRUE => place \in Image!Blocking
              /\ req'[r].at = place /\ req'[r].node = 0 /\ req'[r].left = req[r].left
    <3>1. 0 \in {0} \cup Image!Nodes
      OBVIOUS
    <3> HIDE DEF place
    <3> QED BY <2>1, <2>3, <3>1, Moved
  <2>5. /\ req'[r].at \in {"away", "scale", "serve"} /\ req'[r].node = 0
        /\ req'[r].left # TRUE
    <3>1. "scale" \notin Image!Blocking /\ "serve" \notin Image!Blocking
      BY DEF Image!Blocking
    <3> HIDE DEF place
    <3> QED BY <2>2, <2>4, <3>1, AwayIs
  <2> HIDE DEF place
  <2>6. \A m \in Image!Names : node'[m] = IF m = "temporary" THEN 0 ELSE IF m = "original" THEN t ELSE node[m]
    BY <2>1 DEF NodeOK
  <2>7. t \in Image!Nodes /\ \A m \in Image!Names : m # "temporary" => node[m] # t
    BY <1>3 DEF NodeOK, NamesApart, Image!Names
  <2>8. NodeOK' /\ HalfOK' /\ FlagsOK'
    BY <1>1, <2>1, <2>7 DEF NodeOK, HalfOK, FlagsOK, Image!Names
  <2>9. NamesApart'
    <3>1. ASSUME NEW m \in Image!Names, NEW n \in Image!Names, m # n, node'[m] # 0
          PROVE  node'[m] # node'[n]
      <4> HIDE DEF t
      <4>1. CASE m = "original"
        BY <1>3, <2>6, <2>7, <3>1, <4>1
      <4>2. CASE n = "original"
        BY <1>3, <2>6, <2>7, <3>1, <4>2
      <4>3. CASE m # "original" /\ n # "original"
        <5>1. node'[m] = node[m] /\ node'[n] \in {0, node[n]}
          BY <2>6, <3>1, <4>3
        <5> QED BY <3>1, <5>1 DEF NamesApart
      <4> QED BY <4>1, <4>2, <4>3
    <3> QED BY <3>1 DEF NamesApart
  <2>10. ReqOK'
    BY <2>4, <2>5 DEF ReqOK, Downloading, Drawing
  <2>11. HandlesOK' /\ LeftOK'
    BY <1>1, <2>4, <2>5, <2>6 DEF HandlesOK, LeftOK, Downloading, Drawing, Image!Names
  <2>12. DownloadsEnd'
    <3>1. ASSUME Coming(t, "write 1", "write 2") PROVE \A i : i = t => Coming(i, "write 1", "write 2")'
      BY <1>1, <2>4, <3>1 DEF Coming
    <3>2. node'["temporary"] = 0 /\ node'["original"] = t
      BY <2>6 DEF Image!Names
    <3>3. ~cut' => Coming(t, "write 1", "write 2")
      BY <1>1, <1>3 DEF DownloadsEnd
    <3> HIDE DEF t
    <3> QED BY <3>1, <3>2, <3>3 DEF DownloadsEnd
  <2>13. DrawingEnds'
    BY <1>1, <2>4, <2>6 DEF DrawingEnds, Coming, Image!Names
  <2>14. Alone'
    <3> SUFFICES ASSUME ~shared' PROVE OneAtATime' /\ OwnFile' /\ OriginalWhole'
      BY DEF Alone
    <3>1. ~shared /\ OneAtATime /\ OwnFile /\ OriginalWhole
      BY <1>1 DEF Alone
    <3>2. \A q \in Viewers : req'[q].at \notin Image!Writes
      BY <3>1, <1>1, <2>4, <2>5 DEF OneAtATime, Image!Writes
    <3>3. OneAtATime' /\ OwnFile'
      BY <3>2 DEF OneAtATime, OwnFile, Image!Writes, Downloading
    <3>4. OriginalWhole'
      BY <3>1, <1>1, <2>6 DEF OriginalWhole, OwnFile, Image!Names
    <3> QED BY <3>3, <3>4
  <2> QED BY <2>8, <2>9, <2>10, <2>11, <2>12, <2>13, <2>14
<1> QED BY <1>2, <1>3

\* The scaled image is drawn into a file of its own.
LEMMA DecodeStep == ASSUME ImageInv, NEW r \in Viewers, Image!Created(r, "scaled", "scale 1"),
                           req[r].at = "decode", UNCHANGED <<shared, cut, broken>>
                    PROVE  ImageInv'
<1> USE DEF ImageInv, ImageTypes
<1>1. PICK i \in Image!Nodes : /\ i # 0
                               /\ node' = [node EXCEPT !["scaled"] = i]
                               /\ half' = [half EXCEPT ![i] = {}]
                               /\ Image!Moves(r, "scale 1", i)
                               /\ \A m \in Image!Names : m # "scaled" => node[m] # i
                               /\ node["scaled"] = 0 => \A q \in Viewers : req[q].node # i
                               /\ node["scaled"] # 0 => i = node["scaled"]
  <2>1. "scaled" \in Image!Names
    BY DEF Image!Names
  <2> QED BY <2>1, CreatedFile
<1>2. "scale 1" \in Places /\ "scale 1" \in Image!Blocking
  BY DEF Places, Image!Blocking
<1>3. /\ req' \in [Viewers -> Requesters]
      /\ \A q \in Viewers \ {r} : req'[q] = req[q]
      /\ req'[r].at = "scale 1" /\ req'[r].node = i /\ req'[r].left = req[r].left
  <2>1. ReqOK /\ "scale 1" \in Places /\ i \in {0} \cup Image!Nodes
    BY <1>2
  <2> QED BY <1>1, <1>2, <2>1, Moved
<1>4. /\ \A m \in Image!Names : node'[m] = IF m = "scaled" THEN i ELSE node[m]
      /\ \A j \in Image!Nodes : half'[j] = IF j = i THEN {} ELSE half[j]
  BY <1>1 DEF NodeOK, HalfOK
<1>5. NodeOK' /\ HalfOK' /\ FlagsOK'
  BY <1>1 DEF NodeOK, HalfOK, FlagsOK, Image!Names
<1>6. NamesApart'
  <2>1. ASSUME NEW m \in Image!Names, NEW n \in Image!Names, m # n, node'[m] # 0
        PROVE  node'[m] # node'[n]
    <3>1. CASE m = "scaled"
      BY <1>1, <1>4, <2>1, <3>1
    <3>2. CASE n = "scaled"
      BY <1>1, <1>4, <2>1, <3>2
    <3>3. CASE m # "scaled" /\ n # "scaled"
      <4>1. node'[m] = node[m] /\ node'[n] = node[n]
        BY <1>4, <3>3
      <4> QED BY <2>1, <4>1 DEF NamesApart
    <3> QED BY <3>1, <3>2, <3>3
  <2> QED BY <2>1 DEF NamesApart
<1>7. ReqOK'
  BY <1>1, <1>3 DEF ReqOK, Downloading, Drawing
<1>8. \A q \in Viewers : req[q].at \in Downloading => req[q].node # i
  BY <1>1 DEF HandlesOK
<1>9. HandlesOK'
  <2>1. node'["scaled"] = i
    BY <1>4 DEF Image!Names
  <2>2. ASSUME NEW q \in Viewers, q # r, req[q].at \in Drawing PROVE req[q].node = i
    <3>1. req[q].node = node["scaled"] /\ req[q].node # 0
      BY <2>2 DEF HandlesOK, ReqOK
    <3> QED BY <3>1, <1>1
  <2> QED BY <1>3, <1>8, <2>1, <2>2 DEF HandlesOK, Downloading, Drawing
<1>10. LeftOK'
  BY <1>2, <1>3 DEF LeftOK, Image!Blocking, Image!FileCalls
<1>11. DownloadsEnd'
  <2>1. ASSUME NEW j \in Image!Nodes, j # i, Coming(j, "write 1", "write 2")
        PROVE  Coming(j, "write 1", "write 2")'
    BY <1>3, <1>4, <2>1 DEF Coming
  <2>2. ASSUME NEW n \in {"temporary", "original"}
        PROVE  node'[n] = node[n] /\ node[n] \in {0} \cup Image!Nodes /\ node[n] # i
    BY <1>1, <1>4 DEF NodeOK, Image!Names
  <2> QED BY <2>1, <2>2 DEF DownloadsEnd
<1>12. DrawingEnds'
  BY <1>3, <1>4 DEF DrawingEnds, Coming, Image!Names
<1>13. Alone'
  <2> SUFFICES ASSUME ~shared' PROVE OneAtATime' /\ OwnFile' /\ OriginalWhole'
    BY DEF Alone
  <2>1. ~shared /\ OneAtATime /\ OwnFile /\ OriginalWhole
    BY DEF Alone
  <2>2. OneAtATime'
    BY <2>1, <1>3 DEF OneAtATime, Image!Writes
  <2>3. node'["temporary"] = node["temporary"] /\ node["temporary"] # i /\ node["temporary"] \in {0} \cup Image!Nodes
    BY <1>1, <1>4 DEF NodeOK, Image!Names
  <2>4. node["temporary"] # 0 => half'[node["temporary"]] = half[node["temporary"]]
    BY <1>4, <2>3
  <2>5. ASSUME NEW q \in Viewers, req[q].at \in Downloading PROVE node["temporary"] # 0
    BY <2>1, <2>5 DEF OwnFile, ReqOK
  <2>6. OwnFile'
    BY <2>1, <2>3, <2>4, <2>5, <1>3 DEF OwnFile, Downloading
  <2>7. OriginalWhole'
    BY <2>1, <1>1, <1>4 DEF OriginalWhole, NodeOK, Image!Names
  <2> QED BY <2>2, <2>6, <2>7
<1> QED BY <1>5, <1>6, <1>7, <1>9, <1>10, <1>11, <1>12, <1>13

\* Drawing goes on without its client, and ends early only if it fails.
LEMMA DrawStep ==
  ASSUME ImageInv, NEW r \in Viewers, Image!Draw(r) \/ Image!DrawFails(r)
  PROVE  ImageInv'
<1> USE DEF ImageInv, ImageTypes
<1>1. PICK i \in Image!Nodes : i = req[r].node /\ req[r].at \in Drawing /\ i = node["scaled"] /\ i # 0
  <2>1. req[r].at \in Drawing /\ req[r].node \in {0} \cup Image!Nodes
    BY DEF Image!Draw, Image!DrawFails, Drawing, ReqOK, Requesters
  <2> QED BY <2>1 DEF HandlesOK, ReqOK
<1>2. UNCHANGED <<node, shared, cut>>
  BY DEF Image!Draw, Image!DrawFails
<1>3. /\ req' \in [Viewers -> Requesters]
      /\ \A q \in Viewers \ {r} : req'[q] = req[q]
      /\ \/ req[r].at = "scale 1" /\ req'[r].at = "scale 2" /\ req'[r].node = i
         \/ req'[r].at \in {"serve", "away"} /\ req'[r].node = 0 /\ req'[r].left # TRUE
  <2>1. ReqOK /\ i \in {0} \cup Image!Nodes /\ 0 \in {0} \cup Image!Nodes
    BY <1>1
  <2>2. "scale 2" \in Places /\ "serve" \in Places /\ "scale 2" \in Image!Blocking /\ "serve" \notin Image!Blocking
    BY DEF Places, Image!Blocking
  <2>3. CASE Image!Moves(r, "scale 2", i) /\ req[r].at = "scale 1"
    <3> QED BY <2>1, <2>2, <2>3, Moved
  <2>4. CASE Image!Moves(r, "serve", 0)
    <3>1. /\ req' \in [Viewers -> Requesters]
          /\ \A q \in Viewers \ {r} : req'[q] = req[q]
          /\ \/ req[r].left = TRUE /\ req'[r] = Image!Away
             \/ req[r].left # TRUE /\ req'[r].at = "serve" /\ req'[r].node = 0 /\ req'[r].left = req[r].left
      BY <2>1, <2>2, <2>4, Moved
    <3> QED BY <3>1, AwayIs
  <2> QED BY <1>1, <2>3, <2>4 DEF Image!Draw, Image!DrawFails, Image!Goes
<1>4. /\ half' \in [Image!Nodes -> SUBSET {1, 2}]
      /\ \A j \in Image!Nodes : half[j] \subseteq half'[j] /\ (j # i => half'[j] = half[j])
      /\ \/ broken' = TRUE
         \/ /\ broken' = broken
            /\ req[r].at = "scale 1" => 1 \in half'[i] /\ req'[r].at = "scale 2" /\ req'[r].node = i
            /\ req[r].at = "scale 2" => 2 \in half'[i]
  <2>1. CASE Image!DrawFails(r)
    BY <1>1, <2>1 DEF Image!DrawFails, HalfOK
  <2>2. CASE Image!Draw(r) /\ req[r].at = "scale 1"
    <3>1. half' = [half EXCEPT ![i] = @ \cup {1}] /\ broken' = broken /\ Image!Moves(r, "scale 2", i)
      BY <1>1, <2>2 DEF Image!Draw, Image!Wrote
    <3>2. "scale 2" \in Places /\ "scale 2" \in Image!Blocking /\ ReqOK /\ i \in {0} \cup Image!Nodes
      BY <1>1 DEF Places, Image!Blocking
    <3>3. req'[r].at = "scale 2" /\ req'[r].node = i
      <4> QED BY <3>1, <3>2, Moved
    <3> QED BY <1>1, <2>2, <3>1, <3>3 DEF HalfOK
  <2>3. CASE Image!Draw(r) /\ req[r].at = "scale 2"
    <3>1. half' = [half EXCEPT ![i] = @ \cup {2}] /\ broken' = broken
      BY <1>1, <2>3 DEF Image!Draw, Image!Wrote
    <3> QED BY <1>1, <2>3, <3>1 DEF HalfOK
  <2> QED BY <1>1, <2>1, <2>2, <2>3 DEF Drawing
<1>5. NodeOK' /\ HalfOK' /\ FlagsOK' /\ NamesApart'
  BY <1>2, <1>4 DEF NodeOK, HalfOK, FlagsOK, NamesApart
<1>6. ReqOK'
  BY <1>1, <1>3 DEF ReqOK, Downloading, Drawing
<1>7. HandlesOK'
  BY <1>1, <1>2, <1>3 DEF HandlesOK, Downloading, Drawing
<1>8. LeftOK'
  BY <1>2, <1>3 DEF LeftOK, Image!Blocking, Image!FileCalls
<1>9. DownloadsEnd'
  <2>1. ASSUME NEW j \in Image!Nodes, Coming(j, "write 1", "write 2")
        PROVE  Coming(j, "write 1", "write 2")'
    BY <1>1, <1>3, <1>4, <2>1 DEF Coming, Drawing
  <2>2. node["temporary"] \in {0} \cup Image!Nodes /\ node["original"] \in {0} \cup Image!Nodes
    BY DEF NodeOK, Image!Names
  <2> QED BY <1>2, <2>1, <2>2 DEF DownloadsEnd
<1>10. DrawingEnds'
  <2>1. CASE broken' = TRUE
    BY <2>1 DEF DrawingEnds
  <2>2. CASE broken' # TRUE
    <3>1. broken' = broken /\ (req[r].at = "scale 1" => 1 \in half'[i] /\ req'[r].at = "scale 2" /\ req'[r].node = i)
                           /\ (req[r].at = "scale 2" => 2 \in half'[i])
      BY <1>4, <2>2
    <3>2. Coming(i, "scale 1", "scale 2") => Coming(i, "scale 1", "scale 2")'
      BY <1>1, <1>3, <1>4, <3>1 DEF Coming, Drawing
    <3> QED BY <1>1, <1>2, <3>1, <3>2 DEF DrawingEnds
  <2> QED BY <2>1, <2>2
<1>11. Alone'
  <2> SUFFICES ASSUME ~shared' PROVE OneAtATime' /\ OwnFile' /\ OriginalWhole'
    BY DEF Alone
  <2>1. ~shared /\ OneAtATime /\ OwnFile /\ OriginalWhole
    BY <1>2 DEF Alone
  <2>2. OneAtATime'
    BY <2>1, <1>3 DEF OneAtATime, Image!Writes
  <2>3. \A n \in {"temporary", "original"} : node[n] # 0 => half'[node[n]] = half[node[n]]
    BY <1>1, <1>4 DEF NodeOK, NamesApart, Image!Names
  <2>4. ASSUME NEW q \in Viewers, req[q].at \in Downloading PROVE node["temporary"] # 0
    BY <2>1, <2>4 DEF OwnFile, ReqOK
  <2>5. OwnFile'
    BY <2>1, <2>3, <2>4, <1>2, <1>3 DEF OwnFile, Downloading
  <2>6. OriginalWhole'
    BY <2>1, <2>3, <1>2 DEF OriginalWhole
  <2> QED BY <2>2, <2>5, <2>6
<1> QED BY <1>5, <1>6, <1>7, <1>8, <1>9, <1>10, <1>11

LEMMA LeaveStep == ASSUME ImageInv, NEW r \in Viewers, Image!Leave(r)
                   PROVE  ImageInv'
<1> USE DEF ImageInv, ImageTypes
<1>1. /\ UNCHANGED <<node, half, shared, broken>>
      /\ cut' = (cut \/ req[r].at \in Image!FileCalls)
      /\ \/ req[r].at \in Image!RunsOn /\ req' = [req EXCEPT ![r].left = TRUE]
         \/ req[r].at \notin Image!Blocking \cap Image!RunsOn /\ req' = [req EXCEPT ![r] = Image!Away]
  BY DEF Image!Leave
<1>2. Image!RunsOn = Image!FileCalls \cup Image!Blocking
  BY DEF Image!RunsOn
<1>3. /\ req' \in [Viewers -> Requesters]
      /\ \A q \in Viewers \ {r} : req'[q] = req[q]
      /\ \/ /\ req[r].at \in Image!FileCalls \cup Image!Blocking
            /\ req'[r].at = req[r].at /\ req'[r].node = req[r].node
         \/ req[r].at \notin Image!Blocking /\ req'[r].at = "away" /\ req'[r].node = 0 /\ req'[r].left # TRUE
  <2>1. CASE req[r].at \in Image!RunsOn /\ req' = [req EXCEPT ![r].left = TRUE]
    <3> DEFINE x == [req[r] EXCEPT !.left = TRUE]
    <3>1. x \in Requesters /\ x.at = req[r].at /\ x.node = req[r].node
      BY DEF ReqOK, Requesters
    <3>2. req' = [req EXCEPT ![r] = x]
      BY <2>1
    <3> HIDE DEF x
    <3> QED BY <1>2, <2>1, <3>1, <3>2 DEF ReqOK
  <2>2. CASE req[r].at \notin Image!Blocking \cap Image!RunsOn /\ req' = [req EXCEPT ![r] = Image!Away]
    BY <1>2, <2>2, AwayIs DEF ReqOK
  <2> QED BY <1>1, <2>1, <2>2
<1>4. Downloading \subseteq Image!FileCalls /\ Drawing \subseteq Image!Blocking
  BY DEF Downloading, Drawing, Image!FileCalls, Image!Blocking
<1>5. NodeOK' /\ HalfOK' /\ FlagsOK' /\ NamesApart'
  BY <1>1 DEF NodeOK, HalfOK, FlagsOK, NamesApart
<1>6. ReqOK'
  BY <1>3 DEF ReqOK, Downloading, Drawing
<1>7. HandlesOK'
  BY <1>1, <1>3 DEF HandlesOK, Downloading, Drawing
<1>8. LeftOK'
  BY <1>1, <1>3 DEF LeftOK
<1>9. DownloadsEnd'
  <2> SUFFICES ASSUME ~cut' PROVE \A n \in {"temporary", "original"} :
                                    node'[n] # 0 => Coming(node[n], "write 1", "write 2")'
    BY <1>1 DEF DownloadsEnd
  <2>1. ~cut /\ req[r].at \notin Image!FileCalls
    BY <1>1
  <2>2. ASSUME NEW j, Coming(j, "write 1", "write 2")
        PROVE  Coming(j, "write 1", "write 2")'
    BY <1>1, <1>3, <1>4, <2>1, <2>2 DEF Coming, Downloading
  <2> QED BY <1>1, <2>1, <2>2 DEF DownloadsEnd
<1>10. DrawingEnds'
  <2>1. ASSUME NEW j, Coming(j, "scale 1", "scale 2")
        PROVE  Coming(j, "scale 1", "scale 2")'
    BY <1>1, <1>3, <1>4, <2>1 DEF Coming, Drawing
  <2> QED BY <1>1, <2>1 DEF DrawingEnds
<1>11. Alone'
  BY <1>1, <1>3 DEF Alone, OneAtATime, OwnFile, OriginalWhole, Image!Writes, Downloading
<1> QED BY <1>5, <1>6, <1>7, <1>8, <1>9, <1>10, <1>11

\* A download that cannot be written ends, and half a file may stay for good.
LEMMA WriteFailsStep == ASSUME ImageInv, NEW r \in Viewers, Image!WriteFails(r)
                        PROVE  ImageInv'
<1> USE DEF ImageInv, ImageTypes
<1>1. /\ req[r].at \in Downloading /\ cut' = TRUE
      /\ UNCHANGED <<node, half, shared, broken>>
      /\ req' \in [Viewers -> Requesters]
      /\ \A q \in Viewers \ {r} : req'[q] = req[q]
      /\ req'[r].at = "away" /\ req'[r].node = 0 /\ req'[r].left # TRUE
  <2>1. /\ req[r].at \in Downloading /\ cut' = TRUE /\ UNCHANGED <<node, half, shared, broken>>
        /\ req' = [req EXCEPT ![r] = Image!Away]
    BY DEF Image!WriteFails, Downloading
  <2>2. req \in [Viewers -> Requesters]
    BY DEF ReqOK
  <2>3. /\ req'[r] = Image!Away /\ req' \in [Viewers -> Requesters]
        /\ \A q \in Viewers \ {r} : req'[q] = req[q]
    BY <2>1, <2>2, AwayIs
  <2> HIDE DEF ImageInv, ImageTypes
  <2> QED BY <2>1, <2>3, AwayIs
<1>2. NodeOK' /\ HalfOK' /\ FlagsOK' /\ NamesApart'
  BY <1>1 DEF NodeOK, HalfOK, FlagsOK, NamesApart
<1>3. ReqOK' /\ HandlesOK' /\ LeftOK'
  BY <1>1 DEF ReqOK, HandlesOK, LeftOK, Downloading, Drawing
<1>4. DownloadsEnd'
  BY <1>1 DEF DownloadsEnd
<1>5. DrawingEnds'
  <2>1. ASSUME NEW j, Coming(j, "scale 1", "scale 2")
        PROVE  Coming(j, "scale 1", "scale 2")'
    BY <1>1, <2>1 DEF Coming, Downloading
  <2> QED BY <1>1, <2>1 DEF DrawingEnds
<1>6. Alone'
  <2> SUFFICES ASSUME ~shared PROVE OneAtATime' /\ OwnFile' /\ OriginalWhole'
    BY <1>1 DEF Alone
  <2>1. OneAtATime /\ OwnFile /\ OriginalWhole
    BY DEF Alone
  <2>2. OneAtATime'
    BY <1>1, <2>1 DEF OneAtATime, Image!Writes
  <2>3. OwnFile' /\ OriginalWhole'
    BY <1>1, <2>1 DEF OwnFile, OriginalWhole, Downloading
  <2> QED BY <2>2, <2>3
<1> QED BY <1>2, <1>3, <1>4, <1>5, <1>6

LEMMA RestartStep == ASSUME ImageInv, Image!Restart
                     PROVE  ImageInv'
<1> USE DEF ImageInv, ImageTypes
<1>1. /\ req' = [r \in Viewers |-> Image!Away]
      /\ cut' = (cut \/ \E r \in Viewers : req[r].at \in Image!Writes)
      /\ broken' = (broken \/ \E r \in Viewers : req[r].at \in Drawing)
      /\ UNCHANGED <<node, half, shared>>
  BY DEF Image!Restart, Drawing
<1>2. /\ req' \in [Viewers -> Requesters]
      /\ \A r \in Viewers : req'[r].at = "away" /\ req'[r].node = 0 /\ req'[r].left # TRUE
  BY <1>1, AwayIs
<1>3. NodeOK' /\ HalfOK' /\ FlagsOK' /\ NamesApart'
  BY <1>1 DEF NodeOK, HalfOK, FlagsOK, NamesApart
<1>4. ReqOK' /\ HandlesOK' /\ LeftOK'
  BY <1>2 DEF ReqOK, HandlesOK, LeftOK, Downloading, Drawing
<1>5. DownloadsEnd'
  <2> SUFFICES ASSUME ~cut' PROVE \A n \in {"temporary", "original"} :
                                    node'[n] # 0 => Coming(node[n], "write 1", "write 2")'
    BY <1>1 DEF DownloadsEnd
  <2>1. ~cut /\ \A r \in Viewers : req[r].at \notin Image!Writes
    BY <1>1
  <2>2. ASSUME NEW j, Coming(j, "write 1", "write 2")
        PROVE  Coming(j, "write 1", "write 2")'
    BY <1>1, <2>1, <2>2 DEF Coming, Image!Writes
  <2> QED BY <1>1, <2>1, <2>2 DEF DownloadsEnd
<1>6. DrawingEnds'
  <2> SUFFICES ASSUME ~broken', node'["scaled"] # 0 PROVE Coming(node["scaled"], "scale 1", "scale 2")'
    BY <1>1 DEF DrawingEnds
  <2>1. ~broken /\ \A r \in Viewers : req[r].at \notin Drawing
    BY <1>1
  <2>2. ASSUME NEW j, Coming(j, "scale 1", "scale 2")
        PROVE  Coming(j, "scale 1", "scale 2")'
    BY <1>1, <2>1, <2>2 DEF Coming, Drawing
  <2> QED BY <1>1, <2>1, <2>2 DEF DrawingEnds
<1>7. Alone'
  BY <1>1, <1>2 DEF Alone, OneAtATime, OwnFile, OriginalWhole, Image!Writes, Downloading
<1> QED BY <1>3, <1>4, <1>5, <1>6, <1>7

LEMMA ImageStep == ASSUME ImageInv, [Image!Next]_imageVars
                   PROVE  ImageInv'
<1>1. CASE UNCHANGED imageVars
  BY <1>1 DEF imageVars, ImageInv, ImageTypes, NodeOK, HalfOK, ReqOK, FlagsOK, NamesApart, HandlesOK,
     LeftOK, DownloadsEnd, DrawingEnds, Coming, Alone, OneAtATime, OwnFile, OriginalWhole
<1>2. CASE Image!Restart
  BY <1>2, RestartStep
<1>3. ASSUME NEW r \in Viewers,
             \/ Image!Ask(r) \/ Image!Find(r) \/ Image!Fetch(r) \/ Image!Redirect(r)
             \/ Image!Scale(r) \/ Image!Serve(r) \/ Image!Decode(r)
      PROVE  ImageInv'
  <2> USE DEF ImageInv, ImageTypes
  <2> DEFINE Quiet == {"away", "find", "fetch", "create", "scale", "serve", "decode"}
  <2>1. Quiet \subseteq Places /\ Quiet \cap (Downloading \cup Drawing \cup {"rename"}) = {}
    BY DEF Places, Downloading, Drawing
  <2>2. CASE Image!Ask(r)
    <3>1. PICK b \in BOOLEAN : req' = [req EXCEPT ![r] = [Image!Away EXCEPT !.at = "find", !.scale = b]]
      BY <2>2 DEF Image!Ask
    <3> DEFINE x == [Image!Away EXCEPT !.at = "find", !.scale = b]
    <3>2. x \in Requesters /\ x.at = "find" /\ x.node = 0 /\ x.left = FALSE
      BY DEF Image!Away, Requesters, Places
    <3>3. req' = [req EXCEPT ![r] = x] /\ req[r].at = "away" /\ UNCHANGED <<node, half, shared, cut, broken>>
      BY <2>2, <3>1 DEF Image!Ask
    <3> HIDE DEF x
    <3>4. /\ req' \in [Viewers -> Requesters] /\ \A q \in Viewers \ {r} : req'[q] = req[q]
          /\ req'[r].at = "find" /\ req'[r].node = 0 /\ req'[r].left # TRUE
      BY <3>2, <3>3 DEF ReqOK
    <3> QED BY <2>1, <3>3, <3>4, QuietStep
  <2>3. ASSUME NEW p \in Quiet, Image!Moves(r, p, 0), req[r].at \in Quiet,
               UNCHANGED <<node, half, shared, cut, broken>>
        PROVE  ImageInv'
    <3>1. /\ req' \in [Viewers -> Requesters]
          /\ \A q \in Viewers \ {r} : req'[q] = req[q]
          /\ \/ req[r].left = TRUE /\ p \notin Image!Blocking /\ req'[r] = Image!Away
             \/ /\ req[r].left = TRUE => p \in Image!Blocking
                /\ req'[r].at = p /\ req'[r].node = 0 /\ req'[r].left = req[r].left
      <4>1. 0 \in {0} \cup Image!Nodes /\ p \in Places
        BY <2>1
      <4> QED BY <2>3, <4>1, Moved
    <3>2. req'[r].at \in Quiet /\ req'[r].node = 0 /\ (req'[r].left = TRUE => req'[r].at \in Image!Blocking)
      BY <2>3, <3>1, AwayIs
    <3> HIDE DEF Quiet
    <3> QED BY <2>1, <2>3, <3>1, <3>2, QuietStep
  <2>4. CASE Image!Redirect(r)
    <3>1. /\ req' = [req EXCEPT ![r] = Image!Away] /\ req[r].at \in Quiet
          /\ UNCHANGED <<node, half, shared, cut, broken>>
      BY <2>4 DEF Image!Redirect
    <3>2. /\ req' \in [Viewers -> Requesters] /\ \A q \in Viewers \ {r} : req'[q] = req[q]
          /\ req'[r].at = "away" /\ req'[r].node = 0 /\ req'[r].left # TRUE
      BY <3>1, AwayIs DEF ReqOK
    <3> QED BY <2>1, <3>1, <3>2, QuietStep
  <2>5. CASE Image!Serve(r)
    <3>1. /\ req' = [req EXCEPT ![r] = Image!Away] /\ req[r].at \in Quiet
          /\ UNCHANGED <<node, half, shared, cut, broken>>
      BY <2>5 DEF Image!Serve
    <3>2. /\ req' \in [Viewers -> Requesters] /\ \A q \in Viewers \ {r} : req'[q] = req[q]
          /\ req'[r].at = "away" /\ req'[r].node = 0 /\ req'[r].left # TRUE
      BY <3>1, AwayIs DEF ReqOK
    <3> QED BY <2>1, <3>1, <3>2, QuietStep
  <2>6. CASE Image!Find(r) \/ Image!Fetch(r) \/ Image!Scale(r)
    <3>1. /\ \E p \in Quiet : Image!Moves(r, p, 0)
          /\ req[r].at \in Quiet /\ UNCHANGED <<node, half, shared, cut, broken>>
      BY <2>6 DEF Image!Find, Image!Fetch, Image!Scale, Image!Goes, Image!AfterOriginal
    <3> QED BY <2>3, <3>1
  <2>7. CASE Image!Decode(r)
    <3>1. \/ Image!Created(r, "scaled", "scale 1")
          \/ Image!Moves(r, "serve", 0) /\ UNCHANGED <<node, half>>
      BY <2>7 DEF Image!Decode, Image!Goes
    <3>2. req[r].at = "decode" /\ UNCHANGED <<shared, cut, broken>>
      BY <2>7 DEF Image!Decode
    <3>3. CASE Image!Created(r, "scaled", "scale 1")
      BY <3>2, <3>3, DecodeStep
    <3>4. CASE Image!Moves(r, "serve", 0) /\ UNCHANGED <<node, half>>
      BY <2>3, <3>2, <3>4
    <3> QED BY <3>1, <3>3, <3>4
  <2> QED BY <1>3, <2>2, <2>4, <2>5, <2>6, <2>7
<1>4. ASSUME NEW r \in Viewers, Image!Create(r) \/ Image!WriteFirst(r) \/ Image!WriteLast(r) \/ Image!Rename(r)
      PROVE  ImageInv'
  <2>1. CASE Image!WriteFirst(r) \/ Image!WriteLast(r)
    <3>1. req[r].at \in Downloading
      BY <2>1 DEF Image!WriteFirst, Image!WriteLast, Downloading
    <3> QED BY <2>1, <3>1, WriteStep
  <2> QED BY <1>4, <2>1, CreateStep, RenameStep
<1>5. ASSUME NEW r \in Viewers, Image!Draw(r) \/ Image!DrawFails(r) \/ Image!Leave(r) \/ Image!WriteFails(r)
      PROVE  ImageInv'
  BY <1>5, DrawStep, LeaveStep, WriteFailsStep
<1> QED BY <1>1, <1>2, <1>3, <1>4, <1>5 DEF Image!Next

LEMMA ImageAlways == Spec => []ImageInv
<1>1. Init => ImageInv
  BY ImageInit DEF Init
<1>2. ImageInv /\ [Next]_allVars => ImageInv'
  <2>1. [Next]_allVars => [Image!Next]_imageVars
    BY DEF Next, allVars
  <2> QED BY <2>1, ImageStep
<1> QED BY <1>1, <1>2, PTL DEF Spec

\* Whatever is cut off when, downloads that are never two at a time leave nothing but whole
\* images under the name that is served (images.rs, the rename).
THEOREM OutboundWhole == Spec => []LoneDownloadIsWhole
<1>1. ImageInv => LoneDownloadIsWhole
  BY DEF LoneDownloadIsWhole, Image!LoneDownloadIsWhole, Image!Exists, Image!IsWhole, Image!Halves,
     ImageInv, Alone, OriginalWhole
<1> QED BY <1>1, ImageAlways, PTL

\* Half an image is being written, unless a download was cut off or writing failed; no
\* client does that by leaving while the image is drawn (images.rs, spawn_blocking).
THEOREM OutboundHalves == Spec => []HalfFilesAreBeingWritten
<1>1. ImageInv => HalfFilesAreBeingWritten
  <2> SUFFICES ASSUME ImageInv PROVE Image!HalfFilesAreBeingWritten
    BY DEF HalfFilesAreBeingWritten
  <2> USE DEF ImageInv, ImageTypes
  <2>1. node \in [Image!Names -> {0} \cup Image!Nodes] /\ Image!Names = {"temporary", "original", "scaled"}
    BY DEF NodeOK, Image!Names
  <2>2. ASSUME NEW i \in Image!Nodes, NEW f, NEW s, half[i] # {1, 2}, Coming(i, f, s)
        PROVE  \E r \in Viewers : req[r].node = i /\ req[r].at \in {f, s}
    BY <2>2 DEF Coming, HalfOK
  <2>3. ASSUME ~cut, node["original"] # 0, half[node["original"]] # {1, 2}
        PROVE  \E r \in Viewers : req[r].node # 0 /\ req[r].node = node["original"]
    BY <2>1, <2>2, <2>3 DEF DownloadsEnd
  <2>4. ASSUME ~broken, node["scaled"] # 0, half[node["scaled"]] # {1, 2}
        PROVE  \E r \in Viewers : /\ req[r].node # 0 /\ req[r].node = node["scaled"]
                                  /\ req[r].at \in {"scale 1", "scale 2"}
    <3>1. Coming(node["scaled"], "scale 1", "scale 2") /\ node["scaled"] \in Image!Nodes
      BY <2>1, <2>4 DEF DrawingEnds
    <3>2. PICK r \in Viewers : req[r].node = node["scaled"] /\ req[r].at \in {"scale 1", "scale 2"}
      BY <2>4, <3>1 DEF Coming, HalfOK
    <3> QED BY <2>4, <3>2
  <2> QED BY <2>3, <2>4
          DEF Image!HalfFilesAreBeingWritten, Image!Exists, Image!IsWhole, Image!Halves, Image!Has
<1> QED BY <1>1, ImageAlways, PTL
-----------------------------------------------------------------------------
(* The types of the three *)

RestOK == call \in [Tools -> [at : AskerPlaces, rest : {<<>>} \cup Metadata!Calls,
                              waited : 0..Timeout, age : Metadata!Ages]]
SecretOK == secret \in BOOLEAN

\* A tool's next question is one that some tool asks.
LEMMA NextQuestion ==
  ASSUME NEW ks \in Metadata!Calls, Len(ks) # 1
  PROVE  Tail(ks) \in Metadata!Calls
<1>1. PICK keys \in {Searches, Details} : ks \in Metadata!One(keys) \cup Metadata!Two(keys)
  BY DEF Metadata!Calls, Metadata!SearchTmdb, Metadata!GetTmdbDetail, Metadata!GetTmdbSeason,
         Metadata!SearchBangumi, Metadata!GetBangumiSubject
<1>2. ks \notin Metadata!One(keys)
  <2> SUFFICES ASSUME NEW k \in keys, ks = <<k>> PROVE FALSE
    BY DEF Metadata!One
  <2> QED OBVIOUS
<1>3. PICK a \in keys, b \in keys : ks = <<a, b>>
  BY <1>1, <1>2 DEF Metadata!Two
<1>4. Tail(ks) = <<b>>
  BY <1>3
<1> QED BY <1>4
        DEF Metadata!Calls, Metadata!One, Metadata!SearchTmdb, Metadata!GetTmdbDetail,
            Metadata!GetTmdbSeason, Metadata!SearchBangumi, Metadata!GetBangumiSubject

\* As AskersOK holds, only what a tool asks is to be followed.
LEMMA RestStep == ASSUME AskersOK, AskersOK', RestOK, [Metadata!Next]_metadataVars PROVE RestOK'
<1> SUFFICES ASSUME NEW c \in Tools PROVE call'[c].rest \in {<<>>} \cup Metadata!Calls
  BY DEF AskersOK, RestOK
<1>0. call[c].rest \in {<<>>} \cup Metadata!Calls
  BY DEF RestOK
<1>1. CASE \E d \in Tools : Metadata!Call(d)
  BY <1>0, <1>1 DEF Metadata!Call, AskersOK
<1>2. CASE \E d \in Tools : Metadata!Proceed(d)
  <2>1. PICK d \in Tools : Metadata!Proceed(d)
    BY <1>2
  <2>2. CASE d # c
    <3>1. call'[c] = call[c]
      BY <2>1, <2>2 DEF Metadata!Proceed, AskersOK
    <3> QED BY <1>0, <3>1
  <2>3. CASE d = c
    <3>1. call'[c] = IF Len(call[c].rest) = 1 THEN Metadata!Away
                     ELSE [Metadata!Away EXCEPT !.at = "look", !.rest = Tail(call[c].rest)]
      BY <2>1, <2>3 DEF Metadata!Proceed, AskersOK
    <3>2. CASE Len(call[c].rest) = 1
      BY <3>1, <3>2 DEF Metadata!Away
    <3>3. CASE Len(call[c].rest) # 1
      <4>1. call'[c].rest = Tail(call[c].rest)
        BY <3>1, <3>3 DEF Metadata!Away
      <4>2. CASE call[c].rest = <<>>
        BY <4>1, <4>2
      <4>3. CASE call[c].rest \in Metadata!Calls
        BY <3>3, <4>1, <4>3, NextQuestion
      <4> QED BY <1>0, <4>2, <4>3
    <3> QED BY <3>2, <3>3
  <2> QED BY <2>2, <2>3
<1>3. CASE (\E d \in Tools : Metadata!GetCached(d)) \/ (\E k \in Metadata!Keys : Metadata!Change(k))
           \/ Metadata!Tick \/ UNCHANGED metadataVars
  <2>1. \A d \in Tools : call[d] \in [at : AskerPlaces, rest : Seq(Metadata!Keys),
                                     waited : 0..Timeout, age : Metadata!Ages]
    BY DEF AskersOK
  <2> SUFFICES call'[c].rest \in {call[c].rest, <<>>}
    BY <1>0
  <2>2. CASE \E d \in Tools : Metadata!Look(d) \/ Metadata!Acquire(d) \/ Metadata!Serve(d) \/ Metadata!Receive(d)
    <3>1. PICK d \in Tools : Metadata!Look(d) \/ Metadata!Acquire(d) \/ Metadata!Serve(d) \/ Metadata!Receive(d)
      BY <2>2
    <3>2. PICK q : q.rest = call[d].rest /\ call' = [call EXCEPT ![d] = q]
      <4>1. CASE \E a : Metadata!Told(d, a)
        <5>1. PICK a : call' = [call EXCEPT ![d] = [call[d] EXCEPT !.at = "told", !.age = a, !.waited = 0]]
          BY <4>1 DEF Metadata!Told
        <5>2. [call[d] EXCEPT !.at = "told", !.age = a, !.waited = 0].rest = call[d].rest
          BY <2>1
        <5> QED BY <5>1, <5>2
      <4>2. CASE \E p : Metadata!Goes(d, p)
        <5>1. PICK p : call' = [call EXCEPT ![d] = [call[d] EXCEPT !.at = p]]
          BY <4>2 DEF Metadata!Goes
        <5>2. [call[d] EXCEPT !.at = p].rest = call[d].rest
          BY <2>1
        <5> QED BY <5>1, <5>2
      <4>3. CASE Metadata!Serve(d)
        <5>1. call' = [call EXCEPT ![d] = [call[d] EXCEPT !.at = "heard", !.age = Metadata!Current]]
          BY <4>3 DEF Metadata!Serve
        <5>2. [call[d] EXCEPT !.at = "heard", !.age = Metadata!Current].rest = call[d].rest
          BY <2>1
        <5> QED BY <5>1, <5>2
      <4> QED BY <3>1, <4>1, <4>2, <4>3 DEF Metadata!Look, Metadata!Acquire, Metadata!Receive
    <3>3. call'[c].rest = call[c].rest
      BY <3>2 DEF AskersOK
    <3> QED BY <3>3
  <2>3. CASE \E d \in Tools : Metadata!Fail(d)
    BY <2>3 DEF Metadata!Fail, Metadata!Away, AskersOK
  <2>4. CASE Metadata!Tick
    BY <2>1, <2>4 DEF Metadata!Tick
  <2>5. CASE \E k \in Metadata!Keys : Metadata!Change(k)
    BY <2>1, <2>5 DEF Metadata!Change
  <2>6. CASE UNCHANGED metadataVars
    BY <2>6 DEF metadataVars
  <2> QED BY <1>3, <2>2, <2>3, <2>4, <2>5, <2>6 DEF Metadata!GetCached
<1> QED BY <1>1, <1>2, <1>3 DEF Metadata!Next

\* Every variable of the three clients keeps its type, for any tools, scans, viewers, keys,
\* times and rates.
THEOREM TypeCorrect == Spec => []TypesOK
<1> DEFINE Inv == SpacedInv /\ SecretOK /\ PaceInv /\ AgeInv /\ RestOK
<1>1. Init => Inv
  <2>1. Init => RestOK
    BY Times DEF Init, Metadata!Init, RestOK, Metadata!Away, AskerPlaces, Metadata!Ages
  <2>2. Init => SecretOK
    BY DEF Init, Match!Init, Match!FirstGood, SecretOK
  <2> QED BY <2>1, <2>2, SpacedInit, PaceInit, AgeInit DEF Init
<1>2. Inv /\ [Next]_allVars => Inv'
  <2> SUFFICES ASSUME Inv, [Next]_allVars PROVE Inv'
    OBVIOUS
  <2>1. [Match!Next]_matchVars
    BY DEF Next, allVars
  <2>2. SecretOK'
    BY <2>1 DEF SecretOK, Match!Next, Match!Post, Match!Throttle, Match!Send, Match!Answer,
                Match!Drop, Match!Tick, matchVars
  <2>3. AgeInv'
    BY MetadataSteps, AgeStep
  <2>4. RestOK'
    BY <2>3, MetadataSteps, RestStep DEF AgeInv, CallInv
  <2> QED BY <2>1, <2>2, <2>3, <2>4, MetadataSteps, SpacedStep, PaceStep
<1>3. Inv => Metadata!TypeOK /\ Match!TypeOK
  <2>1. Inv => Metadata!TypeOK
    BY DEF AgeInv, CallInv, CacheInv, EntriesOK, PaceInv, BucketOK, TakenOK, RestOK, AskerPlaces,
           Longest, Full, Metadata!TypeOK
  <2>2. Inv => Match!TypeOK
    BY DEF SpacedInv, ClockOK, HolderOK, CallsOK, SecretOK, Steps, Match!TypeOK
  <2> QED BY <2>1, <2>2
<1>4. ImageInv => Image!TypeOK
  BY DEF ImageInv, ImageTypes, NodeOK, HalfOK, ReqOK, FlagsOK, Requesters, Places, Downloading, Drawing,
         Image!TypeOK, Image!Places, Image!FileCalls, Image!Blocking, Image!Open, Image!Halves
<1> QED BY <1>1, <1>2, <1>3, <1>4, ImageAlways, PTL DEF Spec, TypesOK
=============================================================================
