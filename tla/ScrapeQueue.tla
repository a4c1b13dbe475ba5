---------------------------- MODULE ScrapeQueue ----------------------------
(***************************************************************************)
(* The scrape service (nipa-server/src/scrape.rs): rows of scrape_tasks in *)
(* the database, a bounded channel of requests that lives in memory, one   *)
(* worker that takes them in order, and the callers that create, requeue   *)
(* and confirm tasks: the library scan (scan.rs), the trial endpoint       *)
(* (api.rs) and the steward's tools (steward/tools.rs).                    *)
(*                                                                         *)
(* A caller first writes the row and then sends the request: two steps, as *)
(* the send waits for room in the channel.  The worker writes the row when *)
(* it starts, runs the agent, merges a confident result into the items and *)
(* writes the verdict.  Any statement may fail and the process may restart *)
(* between any two steps; what such a fault strands is kept in lost.       *)
(***************************************************************************)
EXTENDS Naturals, Sequences

CONSTANTS Tasks,        \* ids of scrape_tasks rows
          Trials,       \* those of the trial endpoint: no file and no evidence
          Callers,      \* scans and requests that may be in flight
          Capacity,     \* room in the channel (256 in the code)
          MaxRequests   \* bound on the requests ever made

ASSUME TrialsAssumption == Trials \subseteq Tasks
ASSUME BoundsAssumption == Capacity \in Nat \ {0} /\ MaxRequests \in Nat

VARIABLES row,       \* scrape_tasks: state, confidence, and the request that decided it
          ingested,  \* tasks whose file has been merged into the items
          queue,     \* the channel
          caller,    \* what each caller has stored and not yet sent
          worker,    \* the worker's place in run_one
          cancelled, \* the service's cancellation token
          made,      \* requests made so far
          sent,      \* newest request of each task that entered the channel
          lost,      \* tasks that a fault or the end of the process took a request of
          confirmed  \* tasks the user has confirmed since they were last requeued

vars == <<row, ingested, queue, caller, worker, cancelled, made, sent, lost, confirmed>>

Settled == {"done", "needs_review", "failed"}
Confidence == {"high", "medium", "low"}
Verdicts == Confidence \cup {"failed"}

Request == [task : Tasks, id : 1..MaxRequests]
Unused == [state |-> "absent", confidence |-> "none", by |-> 0]

TypeOK == /\ row \in [Tasks -> [state : Settled \cup {"absent", "queued", "running"},
                                confidence : Confidence \cup {"none"}, by : 0..MaxRequests]]
          /\ ingested \subseteq Tasks \ Trials
          /\ queue \in Seq(Request) /\ Len(queue) <= Capacity
          /\ caller \in [Callers -> Request \cup {<<>>}]
          /\ worker.at \in {"idle", "start", "agent", "merge", "write", "stopped"}
          /\ worker.req \in Request \cup {<<>>} /\ worker.verdict \in Verdicts \cup {"none"}
          /\ cancelled \in BOOLEAN
          /\ made \in 0..MaxRequests
          /\ sent \in [Tasks -> 0..MaxRequests]
          /\ lost \subseteq Tasks
          /\ confirmed \subseteq Tasks

Resting == [at |-> "idle", req |-> <<>>, verdict |-> "none"]

Init == /\ row = [t \in Tasks |-> Unused]
        /\ ingested = {}
        /\ queue = <<>>
        /\ caller = [c \in Callers |-> <<>>]
        /\ worker = Resting
        /\ cancelled = FALSE
        /\ made = 0
        /\ sent = [t \in Tasks |-> 0]
        /\ lost = {}
        /\ confirmed = {}

-----------------------------------------------------------------------------
(* Callers *)

\* The caller makes the next request, for a row it has just written.
MakeRequest(c, t) == /\ caller[c] = <<>>
                     /\ made < MaxRequests
                     /\ made' = made + 1
                     /\ caller' = [caller EXCEPT ![c] = [task |-> t, id |-> made + 1]]

\* A scan or a trial inserts a queued row.
Create(c, t) == /\ row[t].state = "absent"
                /\ MakeRequest(c, t)
                /\ row' = [row EXCEPT ![t].state = "queued"]
                /\ UNCHANGED <<ingested, queue, worker, cancelled, sent, lost, confirmed>>

\* requeue_scrape: any row with evidence goes back to queued, whatever its
\* state, and keeps its old confidence.
Requeue(c, t) == /\ row[t].state # "absent"
                 /\ t \notin Trials
                 /\ MakeRequest(c, t)
                 /\ row' = [row EXCEPT ![t].state = "queued"]
                 /\ lost' = lost \ {t}
                 /\ confirmed' = confirmed \ {t}
                 /\ UNCHANGED <<ingested, queue, worker, cancelled, sent>>

\* enqueue: waits for room in the channel.
Send(c) == /\ caller[c] # <<>>
           /\ worker.at # "stopped"
           /\ Len(queue) < Capacity
           /\ queue' = Append(queue, caller[c])
           /\ sent' = [sent EXCEPT ![caller[c].task] = caller[c].id]
           /\ caller' = [caller EXCEPT ![c] = <<>>]
           /\ UNCHANGED <<row, ingested, worker, cancelled, made, lost, confirmed>>

\* The caller is dropped before it sends: a connection closed during a chat.
Dropped(c) == /\ caller[c] # <<>>
              /\ lost' = lost \cup {caller[c].task}
              /\ caller' = [caller EXCEPT ![c] = <<>>]
              /\ UNCHANGED <<row, ingested, queue, worker, cancelled, made, sent, confirmed>>

\* The send finds the worker gone; the row stays queued.
Refused(c) == worker.at = "stopped" /\ Dropped(c)

AwaitsReview(t) == row[t].state = "needs_review"

\* confirm_pending: only the state of the row is turned.
Confirm(t) == /\ AwaitsReview(t)
              /\ row' = [row EXCEPT ![t].state = "done"]
              /\ confirmed' = confirmed \cup {t}
              /\ UNCHANGED <<ingested, queue, caller, worker, cancelled, made, sent, lost>>

-----------------------------------------------------------------------------
(* The worker *)

task == worker.req.task

\* (mutant) the newest request is taken first
TakeNewest == /\ worker' = [at |-> "start", req |-> queue[Len(queue)], verdict |-> "none"]
              /\ queue' = SubSeq(queue, 1, Len(queue) - 1)

\* (mutant) the request that is taken stays in the channel
TakeAndKeep == /\ worker' = [at |-> "start", req |-> Head(queue), verdict |-> "none"]
               /\ queue' = queue

\* (mutant) the worker drains the channel and serves the first of what was in it
TakeAndDrain == /\ worker' = [at |-> "start", req |-> Head(queue), verdict |-> "none"]
                /\ queue' = <<>>

TakeOldest == /\ worker' = [at |-> "start", req |-> Head(queue), verdict |-> "none"]
              /\ queue' = Tail(queue)

\* The select of the loop is not biased: after the token is cancelled a waiting
\* request may still be taken.
Take == /\ worker.at = "idle"
        /\ queue # <<>>
        /\ TakeOldest
        /\ UNCHANGED <<row, ingested, caller, cancelled, made, sent, lost, confirmed>>

Start == /\ worker.at = "start"
         /\ row' = [row EXCEPT ![task].state = "running"]
         /\ worker' = [worker EXCEPT !.at = "agent"]
         /\ UNCHANGED <<ingested, queue, caller, cancelled, made, sent, lost, confirmed>>

\* The agent cannot be built from the configuration: only the state is written.
Misconfigured == /\ worker.at = "agent"
                 /\ row' = [row EXCEPT ![task].state = "failed", ![task].by = worker.req.id]
                 /\ worker' = Resting
                 /\ UNCHANGED <<ingested, queue, caller, cancelled, made, sent, lost, confirmed>>

\* The agent answers.  A cancelled agent aborts, which counts as a failure.
Answer(v) == /\ worker.at = "agent"
             /\ cancelled => v = "failed"
             /\ worker' = [worker EXCEPT !.verdict = v,
                                         !.at = IF v = "high" THEN "merge" ELSE "write"]
             /\ UNCHANGED <<row, ingested, queue, caller, cancelled, made, sent, lost, confirmed>>

\* ingest_result: a trial has no file to link.
Merged == {task} \ Trials

\* A failed merge is only logged.
Merge == /\ worker.at = "merge"
         /\ ingested' \in {ingested, ingested \cup Merged}
         /\ worker' = [worker EXCEPT !.at = "write"]
         /\ UNCHANGED <<row, queue, caller, cancelled, made, sent, lost, confirmed>>

\* (mutant) the gate lets the medium results through
LooseGate(v) == IF v \in {"high", "medium"} THEN "done"
                ELSE IF v = "low" THEN "needs_review" ELSE "failed"

\* (mutant) a failed run leaves the row as the start left it
GateForSuccess(v) == IF v = "high" THEN "done"
                     ELSE IF v \in Confidence THEN "needs_review" ELSE "running"

\* The confidence gate.
Gate(v) == IF v = "high" THEN "done"
           ELSE IF v \in Confidence THEN "needs_review" ELSE "failed"

\* The verdict is written whatever the row holds by now.
Write == /\ worker.at = "write"
         /\ row' = [row EXCEPT ![task] =
                      [state |-> Gate(worker.verdict), by |-> worker.req.id,
                       confidence |-> IF worker.verdict \in Confidence THEN worker.verdict ELSE "none"]]
         /\ worker' = Resting
         /\ UNCHANGED <<ingested, queue, caller, cancelled, made, sent, lost, confirmed>>

\* A statement of run_one fails: the row stays as it is, the error is logged and
\* the loop goes on.
DbFails == /\ worker.at \in {"start", "agent", "merge", "write"}
           /\ worker' = Resting
           /\ lost' = lost \cup {task}
           /\ UNCHANGED <<row, ingested, queue, caller, cancelled, made, sent, confirmed>>

-----------------------------------------------------------------------------
(* The process *)

Shutdown == /\ ~cancelled
            /\ cancelled' = TRUE
            /\ UNCHANGED <<row, ingested, queue, caller, worker, made, sent, lost, confirmed>>

\* Requests that vanish with the channel.
Stranded == {queue[i].task : i \in DOMAIN queue}

\* The idle worker sees the token and drops the channel.
Stop == /\ worker.at = "idle"
        /\ cancelled
        /\ worker' = [Resting EXCEPT !.at = "stopped"]
        /\ queue' = <<>>
        /\ lost' = lost \cup Stranded
        /\ UNCHANGED <<row, ingested, caller, cancelled, made, sent, confirmed>>

\* A request for t exists somewhere: stored, in the channel or being served.
InFlight(t) == \/ \E c \in Callers : caller[c] # <<>> /\ caller[c].task = t
               \/ \E i \in DOMAIN queue : queue[i].task = t
               \/ worker.req # <<>> /\ worker.req.task = t

\* The process ends, by a crash or after a shutdown, and starts again: the
\* database is what it was, nothing requests the rows that were under way again.
Restart == /\ lost' = lost \cup {t \in Tasks : InFlight(t)}
           /\ queue' = <<>>
           /\ caller' = [c \in Callers |-> <<>>]
           /\ worker' = Resting
           /\ cancelled' = FALSE
           /\ UNCHANGED <<row, ingested, made, sent, confirmed>>

CallerStep == \E c \in Callers, t \in Tasks : Create(c, t) \/ Requeue(c, t)

WorkerStep == \/ Take
              \/ Start
              \/ Misconfigured
              \/ \E v \in Verdicts : Answer(v)
              \/ Merge
              \/ Write
              \/ Stop

Next == \/ CallerStep
        \/ \E c \in Callers : Send(c) \/ Refused(c) \/ Dropped(c)
        \/ \E t \in Tasks : Confirm(t)
        \/ WorkerStep
        \/ DbFails
        \/ Shutdown
        \/ Restart

\* The worker is a task of the runtime and the agent's rounds are bounded, so it
\* goes on; the channel serves waiting senders in order, so a sender that
\* finds room again and again is served.  Nothing makes a fault happen.
Spec == /\ Init
        /\ [][Next]_vars
        /\ WF_vars(WorkerStep)
        /\ \A c \in Callers : SF_vars(Send(c)) /\ WF_vars(Refused(c))

-----------------------------------------------------------------------------
(* Properties *)

\* No row waits for nothing: a row that shows queued has a request that will
\* move it on, and one that shows running is what the worker is on, unless a
\* fault took the request away.
UnderwayHasRequest ==
  \A t \in Tasks \ lost :
    /\ row[t].state = "queued" => InFlight(t)
    /\ row[t].state = "running" => worker.req # <<>> /\ worker.req.task = t /\ worker.at # "start"

\* When nothing is under way for a row any more, it shows the verdict on the
\* request that was sent last, however often it was requeued while it ran.
LastRequestDecides ==
  \A t \in Tasks \ lost : row[t].state # "absent" /\ ~InFlight(t) => row[t].by = sent[t]

\* "high -> done, medium / low -> needs_review": a result the model was not sure
\* of is done only if the user confirmed it.
DoubtIsReviewed ==
  \A t \in Tasks : row[t].state = "done" => row[t].confidence = "high" \/ t \in confirmed

\* A request is open until the worker starts on it, and served until it is decided.
Waiting == {caller[c] : c \in {d \in Callers : caller[d] # <<>>}}
             \cup {queue[i] : i \in DOMAIN queue}
             \cup (IF worker.at = "start" THEN {worker.req} ELSE {})
InService == IF worker.at \in {"agent", "merge", "write"} THEN {worker.req} ELSE {}

Promised == INSTANCE RequestService WITH open <- Waiting, serving <- InService

\* However senders wait, drop out and are refused, and wherever the process ends, every
\* request is served once at most, one at a time, or is lost: no request is in two hands.
RequestsAreServedOnce == Promised!Spec

\* Every request is decided in the end unless a fault took it away.
EveryRequestDecided ==
  \A t \in Tasks : row[t].state = "queued" ~> (row[t].state \in Settled \/ t \in lost)
=============================================================================
