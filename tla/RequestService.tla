--------------------------- MODULE RequestService ---------------------------
(***************************************************************************)
(* What the scrape service promises of requests (nipa-server/src/scrape.rs *)
(* and the tools that requeue): a request is open until it is served, one  *)
(* is served at a time and none twice, a row shows what became of its      *)
(* newest step, and a file enters the library only while its task is       *)
(* served.  A fault may lose any requests; it marks their tasks and        *)
(* changes nothing else.  Who holds an open request is left to ScrapeQueue.*)
(***************************************************************************)
EXTENDS Naturals

CONSTANTS Tasks, Trials, MaxRequests

VARIABLES row, ingested, made, lost, confirmed,
          open,    \* requests that wait
          serving  \* the one that is served, if any

promised == <<row, ingested, made, lost, confirmed, open, serving>>

Init == /\ row = [t \in Tasks |-> [state |-> "absent", confidence |-> "none", by |-> 0]]
        /\ made = 0
        /\ ingested = {} /\ lost = {} /\ confirmed = {}
        /\ open = {} /\ serving = {}

\* A task is created or requeued; a trial cannot be requeued.
Ask(t) == /\ row[t].state = "absent" \/ t \notin Trials
          /\ made < MaxRequests
          /\ made' = made + 1
          /\ open' = open \cup {[task |-> t, id |-> made + 1]}
          /\ row' = [row EXCEPT ![t].state = "queued"]
          /\ lost' = lost \ {t}
          /\ confirmed' = confirmed \ {t}
          /\ UNCHANGED <<ingested, serving>>

Serve(r) == /\ serving = {}
            /\ serving' = {r}
            /\ open' = open \ {r}
            /\ row' = [row EXCEPT ![r.task].state = "running"]
            /\ UNCHANGED <<ingested, made, lost, confirmed>>

Enter(r) == /\ r.task \notin Trials
            /\ ingested' = ingested \cup {r.task}
            /\ UNCHANGED <<row, made, lost, confirmed, open, serving>>

\* How a row may come out: what is not sure is reviewed, and without a configured model
\* the old confidence stays.
Outcomes(old) == {<<"done", "high">>, <<"needs_review", "medium">>, <<"needs_review", "low">>,
                  <<"failed", "none">>, <<"failed", old>>}

Decide(r) == /\ serving' = {}
             /\ \E o \in Outcomes(row[r.task].confidence) :
                  row' = [row EXCEPT ![r.task] = [state |-> o[1], confidence |-> o[2], by |-> r.id]]
             /\ UNCHANGED <<ingested, made, lost, confirmed, open>>

Confirm(t) == /\ row[t].state = "needs_review"
              /\ row' = [row EXCEPT ![t].state = "done"]
              /\ confirmed' = confirmed \cup {t}
              /\ UNCHANGED <<ingested, made, lost, open, serving>>

Lose(S) == /\ open' = open \ S
           /\ serving' = serving \ S
           /\ lost' = lost \cup {r.task : r \in S}
           /\ UNCHANGED <<row, ingested, made, confirmed>>

Next == \/ \E t \in Tasks : Ask(t) \/ Confirm(t)
        \/ \E r \in open : Serve(r)
        \/ \E r \in serving : Enter(r) \/ Decide(r)
        \/ \E S \in SUBSET (open \cup serving) : Lose(S)

Spec == Init /\ [][Next]_promised
=============================================================================
