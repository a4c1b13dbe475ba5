--------------------------- MODULE MetadataClient ---------------------------
(***************************************************************************)
(* The client of one metadata service, TMDB or Bangumi (nipa-providers):   *)
(* the cache of its answers (cache.rs), the token bucket that paces its    *)
(* requests (throttle.rs), and the calls that the agent's tools make of    *)
(* it, several at a time (tools.rs, tmdb.rs, bangumi.rs).                  *)
(*                                                                         *)
(* Time is in ticks, and a token takes Cost of them.  What the service     *)
(* answers changes now and then; an answer is known by its age, the ticks  *)
(* since the service has said otherwise.                                   *)
(***************************************************************************)
EXTENDS Integers, Sequences, FiniteSets

CONSTANTS Callers,   \* tools that are run at the same time
          Searches,  \* keys of searches: method and arguments
          Details,   \* keys of details, seasons and episode lists
          SearchTtl, DetailTtl,
          Burst,     \* capacity of the bucket, in tokens
          Cost,      \* ticks in which a token comes in
          Timeout,   \* REQUEST_TIMEOUT
          Room,      \* MAX_ENTRIES
          Window     \* ticks over which the pace is looked at

\* Assumed wherever the module is used.
TtlAssumption == SearchTtl \in Nat \ {0} /\ DetailTtl \in Nat \ {0}
BucketAssumption == Burst \in Nat \ {0} /\ Cost \in Nat \ {0} /\ Window \in Nat \ {0}
ClientAssumption == Timeout \in Nat /\ Room \in Nat \ {0}

Keys == Searches \cup Details
Ttl(k) == IF k \in Searches THEN SearchTtl ELSE DetailTtl

VARIABLES entry,   \* the cache
          bucket,  \* what is in the bucket, Cost to a token
          call,    \* what the callers do
          taken    \* tokens taken in the last w ticks, this one included

vars == <<entry, bucket, call, taken>>

Larger(a, b) == IF a >= b THEN a ELSE b
Oldest == Larger(SearchTtl, DetailTtl) + Timeout + 1   \* older ages are not told apart
Current == -1                                          \* the service says so still
Ages == {Current} \cup 0..Oldest

Absent == [since |-> 0, age |-> Current, kept |-> FALSE]
Away == [at |-> "away", rest |-> <<>>, waited |-> 0, age |-> Current]

\* What the tools ask for, one after the other.
One(keys) == {<<k>> : k \in keys}
Two(keys) == {ks \in keys \X keys : ks[1] # ks[2]}

SearchTmdb == One(Searches) \cup Two(Searches)         \* series, films or both
GetTmdbDetail == One(Details)
GetTmdbSeason == One(Details)
SearchBangumi == One(Searches)
GetBangumiSubject == One(Details) \cup Two(Details)    \* without its episodes or with them

Calls == SearchTmdb \cup GetTmdbDetail \cup GetTmdbSeason \cup SearchBangumi \cup GetBangumiSubject

TypeOK == /\ entry \in [Keys -> [since : 0..Larger(SearchTtl, DetailTtl), age : Ages, kept : BOOLEAN]]
          /\ bucket \in 0..Cost * Burst
          /\ call \in [Callers -> [at : {"away", "look", "acquire", "sent", "heard", "told"},
                                   rest : {<<>>} \cup Calls, waited : 0..Timeout, age : Ages]]
          /\ taken \in [1..Window -> Nat]

\* A new client: its bucket is full.
Init == /\ entry = [k \in Keys |-> Absent]
        /\ bucket = Cost * Burst
        /\ call = [c \in Callers |-> Away]
        /\ taken = [w \in 1..Window |-> 0]

-----------------------------------------------------------------------------
Key(c) == call[c].rest[1]
Goes(c, place) == call' = [call EXCEPT ![c].at = place]

\* Caller c has an answer of that age in hand.
Told(c, age) == call' = [call EXCEPT ![c].at = "told", ![c].age = age, ![c].waited = 0]

Call(c) == /\ call[c].at = "away"
           /\ \E rest \in Calls : call' = [call EXCEPT ![c].at = "look", ![c].rest = rest]
           /\ UNCHANGED <<entry, bucket, taken>>

Fresh(k) == entry[k].kept /\ entry[k].since < Ttl(k)

\* (mutant) an entry that is used is kept for longer
Renewed(k) == [entry EXCEPT ![k].since = 0]

Used(k) == entry

\* TtlCache::get: an entry that has expired is removed.
Look(c) == /\ call[c].at = "look"
           /\ IF Fresh(Key(c))
              THEN Told(c, entry[Key(c)].age) /\ entry' = Used(Key(c))
              ELSE Goes(c, "acquire") /\ entry' = [entry EXCEPT ![Key(c)] = Absent]
           /\ UNCHANGED <<bucket, taken>>

\* Throttle::acquire: a caller sleeps until there is a token; they are not queued.
Acquire(c) == /\ call[c].at = "acquire"
              /\ bucket >= Cost
              /\ bucket' = bucket - Cost
              /\ taken' = [w \in 1..Window |-> taken[w] + 1]
              /\ Goes(c, "sent")
              /\ UNCHANGED entry

\* The service makes its answer.
Serve(c) == /\ call[c].at = "sent"
            /\ call' = [call EXCEPT ![c].at = "heard", ![c].age = Current]
            /\ UNCHANGED <<entry, bucket, taken>>

Kept == {k \in Keys : entry[k].kept}
Live == {k \in Kept : Fresh(k)}

\* TtlCache::put: what is left when k needs room, first of what has not expired,
\* then without the entry that was put there first.
LeftFor(k) ==
  IF k \in Kept \/ Cardinality(Kept) < Room THEN {Kept}
  ELSE IF Cardinality(Live) < Room THEN {Live}
  ELSE {Live \ {o} : o \in {l \in Live : \A m \in Live : entry[m].since <= entry[l].since}}

\* put, and the value for the tool.
Receive(c) == /\ call[c].at = "heard"
              /\ \E left \in LeftFor(Key(c)) :
                   entry' = [k \in Keys |-> IF k = Key(c) THEN [since |-> 0, age |-> call[c].age, kept |-> TRUE]
                                            ELSE IF k \in left THEN entry[k] ELSE Absent]
              /\ Told(c, call[c].age)
              /\ UNCHANGED <<bucket, taken>>

\* The tool goes on to its next question, or is done.
Proceed(c) == /\ call[c].at = "told"
              /\ call' = [call EXCEPT ![c] =
                            IF Len(@.rest) = 1 THEN Away
                            ELSE [Away EXCEPT !.at = "look", !.rest = Tail(call[c].rest)]]
              /\ UNCHANGED <<entry, bucket, taken>>

\* read_json meets an error of the service or what it cannot read, the network fails,
\* the answer comes too late, or the agent is cancelled: the tool ends.
Fail(c) == /\ call[c].at \in {"acquire", "sent", "heard"}
           /\ call' = [call EXCEPT ![c] = Away]
           /\ UNCHANGED <<entry, bucket, taken>>

\* The service changes what it says of a key.
Change(k) == /\ entry' = [entry EXCEPT ![k].age = IF entry[k].kept THEN Larger(@, 0) ELSE @]
             /\ call' = [c \in Callers |-> IF call[c].at = "heard" /\ Key(c) = k
                                           THEN [call[c] EXCEPT !.age = Larger(@, 0)] ELSE call[c]]
             /\ UNCHANGED <<bucket, taken>>

\* (mutant) the bucket holds any number of tokens for a while
Unlimited == bucket + 1

\* What has come in, up to the capacity.
Refilled == IF bucket < Cost * Burst THEN bucket + 1 ELSE bucket

Older(age) == IF age = Current \/ age = Oldest THEN age ELSE age + 1
Later(e) == [e EXCEPT !.age = Older(@), !.since = IF e.kept /\ @ < Larger(SearchTtl, DetailTtl) THEN @ + 1 ELSE @]

\* A request takes no longer than its timeout; all other steps take no time.
Tick == /\ \A c \in Callers : \/ call[c].at \in {"away", "acquire"}
                              \/ call[c].at \in {"sent", "heard"} /\ call[c].waited < Timeout
        /\ bucket' = Refilled
        /\ entry' = [k \in Keys |-> Later(entry[k])]
        /\ call' = [c \in Callers |-> IF call[c].at \in {"sent", "heard"}
                                      THEN [call[c] EXCEPT !.waited = @ + 1, !.age = Older(@)] ELSE call[c]]
        /\ taken' = [w \in 1..Window |-> IF w = 1 THEN 0 ELSE taken[w - 1]]

\* get_cached, and the methods of the Bangumi client, which do the same.
GetCached(c) == Look(c) \/ Acquire(c) \/ Serve(c) \/ Receive(c) \/ Fail(c)

Next == \/ \E c \in Callers : Call(c) \/ GetCached(c) \/ Proceed(c)
        \/ \E k \in Keys : Change(k)
        \/ Tick

Spec == Init /\ [][Next]_vars

-----------------------------------------------------------------------------
(* Properties *)

\* An answer is never older than its time to live and a slow request, whoever has
\* put it into the cache in what order: a caller that was slow may put an older
\* answer over a newer one, but not a much older one.
AnswersAreRecent ==
  \A c \in Callers : call[c].at = "told" => call[c].age <= Ttl(Key(c)) + Timeout

\* However many callers miss at once and leave half-way, in any w ticks the service
\* sees no more than a burst and a request for every Cost ticks.
PaceKept == \A w \in 1..Window : Cost * taken[w] <= Cost * Burst + w - 1
=============================================================================
