---------------------------- MODULE MatchClient ----------------------------
(***************************************************************************)
(* The client of the dandanplay service (nipa-match/src/client.rs): its    *)
(* callers wait for one another under a lock to keep an interval between   *)
(* their requests, and may be dropped while they do.  The credentials come *)
(* from one of several servers, once, at start (secret.rs).  Time is in    *)
(* ticks.                                                                  *)
(***************************************************************************)
EXTENDS Integers, Sequences

CONSTANTS Callers,   \* scans that ask at the same time
          Servers,   \* SECRET_SERVERS
          Interval   \* min_interval

\* Assumed wherever the module is used; an interval of zero switches the pace off.
IntervalAssumption == Interval \in Nat \ {0} /\ Servers \in Nat
CallersAssumption == "free" \notin Callers

VARIABLES secret,  \* have the credentials been had?
          last,    \* ticks since last_request was set
          lock,    \* who holds its mutex
          call,    \* what the callers do
          gap      \* the shortest time there was between two requests

vars == <<secret, last, lock, call, gap>>

Never == Interval + 1      \* no request yet, or so long ago that it does not matter
Away == [at |-> "away", sleep |-> 0]

TypeOK == /\ secret \in BOOLEAN
          /\ last \in 0..Never /\ gap \in 0..Never
          /\ lock \in Callers \cup {"free"}
          /\ call \in [Callers -> [at : {"away", "queue", "sleep", "sent"}, sleep : 0..Interval]]

\* fetch_app_secret: the servers are tried one after the other until one of them
\* has a secret that can be decoded.
FirstGood(answers) == \E n \in DOMAIN answers : answers[n]

Init == /\ \E answers \in [1..Servers -> BOOLEAN] : secret = FirstGood(answers)
        /\ last = Never /\ gap = Never
        /\ lock = "free"
        /\ call = [c \in Callers |-> Away]

\* match_file, or match_batch with its next 32 files: nothing is sent without
\* credentials.
Post(c) == /\ call[c].at = "away"
           /\ secret
           /\ call' = [call EXCEPT ![c].at = "queue"]
           /\ UNCHANGED <<secret, last, lock, gap>>

\* What is missing of the interval.
Remaining == IF last >= Interval THEN 0 ELSE Interval - last

\* (mutant) the lock is not held over the sleep
LockedNot(c) == lock

Locked(c) == c

\* throttle: the time to sleep is settled once, under the lock.
Throttle(c) == /\ call[c].at = "queue"
               /\ lock = "free"
               /\ lock' = Locked(c)
               /\ call' = [call EXCEPT ![c] = [at |-> "sleep", sleep |-> Remaining]]
               /\ UNCHANGED <<secret, last, gap>>

Unlocked(c) == IF lock = c THEN "free" ELSE lock

\* Awake: the time is noted, the lock given back and the request sent.
Send(c) == /\ call[c].at = "sleep" /\ call[c].sleep = 0
           /\ gap' = IF last < gap THEN last ELSE gap
           /\ last' = 0
           /\ lock' = Unlocked(c)
           /\ call' = [call EXCEPT ![c].at = "sent"]
           /\ UNCHANGED secret

\* The answer, whatever it is.
Answer(c) == /\ call[c].at = "sent"
             /\ call' = [call EXCEPT ![c] = Away]
             /\ UNCHANGED <<secret, last, lock, gap>>

\* The scan of caller c is dropped, and the lock given back.
Drop(c) == /\ call[c].at # "away"
           /\ call' = [call EXCEPT ![c] = Away]
           /\ lock' = Unlocked(c)
           /\ UNCHANGED <<secret, last, gap>>

\* Sleepers may oversleep.
Tick == /\ last' = IF last < Never THEN last + 1 ELSE last
        /\ call' = [c \in Callers |-> [call[c] EXCEPT !.sleep = IF @ > 0 THEN @ - 1 ELSE 0]]
        /\ UNCHANGED <<secret, lock, gap>>

Next == \/ \E c \in Callers : Post(c) \/ Throttle(c) \/ Send(c) \/ Answer(c) \/ Drop(c)
        \/ Tick

Spec == Init /\ [][Next]_vars

-----------------------------------------------------------------------------
(* Properties *)

\* Two requests are never closer than the interval, whoever waits and whoever is
\* dropped meanwhile.
MatchesAreSpaced == gap >= Interval
=============================================================================
