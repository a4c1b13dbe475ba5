------------------------- MODULE ScrapeQueue_proofs -------------------------
(***************************************************************************)
(* Rows and requests agree (ScrapeQueue), for any tasks, callers, room in  *)
(* the channel and order of faults.                                        *)
(***************************************************************************)
EXTENDS ScrapeQueue, TLAPS

States == Settled \cup {"absent", "queued", "running"}
Rows == [state : States, confidence : Confidence \cup {"none"}, by : 0..MaxRequests]
Working == {"start", "agent", "merge", "write"}
Workers == [at : {"idle", "stopped"} \cup Working, req : Request \cup {<<>>},
            verdict : Verdicts \cup {"none"}]

RowInv == row \in [Tasks -> Rows] /\ ingested \subseteq Tasks \ Trials
QueueInv == queue \in Seq(Request) /\ Len(queue) <= Capacity
CallerInv == caller \in [Callers -> Request \cup {<<>>}] /\ made \in 0..MaxRequests
NotesInv == /\ cancelled \in BOOLEAN /\ sent \in [Tasks -> 0..MaxRequests]
            /\ lost \subseteq Tasks /\ confirmed \subseteq Tasks

\* The worker has a request in hand exactly while it works on it, and a verdict when
\* it has come to write it.
HandInv == /\ worker \in Workers
           /\ worker.at \in Working <=> worker.req # <<>>
           /\ worker.at \in {"merge", "write"} => worker.verdict \in Verdicts

TypeInv == RowInv /\ QueueInv /\ CallerInv /\ NotesInv /\ HandInv

LEMMA RequestIsSome == ASSUME NEW r \in Request PROVE r # <<>>
<1>1. DOMAIN r = {"task", "id"}
  BY DEF Request
<1>2. DOMAIN <<>> = {}
  OBVIOUS
<1> QED BY <1>1, <1>2

LEMMA TypeImplies == TypeInv => TypeOK
BY DEF TypeInv, TypeOK, RowInv, QueueInv, CallerInv, NotesInv, HandInv, Rows, States, Workers, Working

LEMMA TypeInit == Init => TypeInv
<1> SUFFICES ASSUME Init PROVE TypeInv
  OBVIOUS
<1>1. Capacity \in Nat /\ MaxRequests \in Nat
  BY BoundsAssumption
<1>2. Unused \in Rows
  BY <1>1 DEF Unused, Rows, States
<1>3. Resting \in Workers /\ Resting.at = "idle" /\ Resting.req = <<>>
  BY DEF Resting, Workers
<1>4. QueueInv
  BY <1>1 DEF Init, QueueInv
<1> HIDE DEF Unused, Resting
<1>5. HandInv
  BY <1>3 DEF Init, HandInv, Working
<1>6. RowInv
  BY <1>2 DEF Init, RowInv
<1>7. CallerInv
  BY <1>1 DEF Init, CallerInv
<1>8. NotesInv
  <2>1. 0 \in 0..MaxRequests
    BY <1>1
  <2> QED BY <2>1, Zenon DEF Init, NotesInv
<1> QED BY <1>4, <1>5, <1>6, <1>7, <1>8 DEF TypeInv

\* The worker's request, while it works, is for a task.
LEMMA HandIsRequest ==
  ASSUME TypeInv, worker.at \in Working
  PROVE  worker.req \in Request /\ task \in Tasks /\ worker.req.id \in 1..MaxRequests
<1>1. worker.req \in Request
  BY DEF TypeInv, HandInv, Workers
<1> QED BY <1>1 DEF Request, task

\* A worker that rests, or has a request and goes on with it, is in order.
LEMMA RestingHand == worker' = Resting => HandInv'
<1>1. Resting \in Workers /\ Resting.at = "idle" /\ Resting.req = <<>>
  BY DEF Resting, Workers
<1> HIDE DEF Resting
<1> QED BY <1>1 DEF HandInv, Working

\* The state of a row, and the request that decided it, may be set.
LEMMA RowSet ==
  ASSUME RowInv, NEW t \in Tasks, NEW s \in States, NEW by \in 0..MaxRequests
  PROVE  /\ [row EXCEPT ![t].state = s] \in [Tasks -> Rows]
         /\ [row EXCEPT ![t].state = s, ![t].by = by] \in [Tasks -> Rows]
<1>1. row[t] \in Rows
  BY DEF RowInv
<1>2. [row[t] EXCEPT !.state = s] \in Rows /\ [row[t] EXCEPT !.state = s, !.by = by] \in Rows
  BY <1>1 DEF Rows
<1> QED BY <1>2 DEF RowInv

LEMMA TypeStep == ASSUME TypeInv, [Next]_vars PROVE TypeInv'
<1> USE DEF TypeInv
<1>1. ASSUME NEW c \in Callers, NEW t \in Tasks, Create(c, t) \/ Requeue(c, t)
      PROVE  TypeInv'
  <2>1. RowInv'
    <3>1. 0 \in 0..MaxRequests /\ "queued" \in States
      BY BoundsAssumption DEF States
    <3>2. [row EXCEPT ![t].state = "queued"] \in [Tasks -> Rows]
      BY <3>1, RowSet
    <3> QED BY <1>1, <3>2 DEF Create, Requeue, RowInv
  <2>3. QueueInv' /\ NotesInv' /\ HandInv'
    BY <1>1 DEF Create, Requeue, QueueInv, NotesInv, HandInv
  <2>2. CallerInv'
    <3>1. made + 1 \in 1..MaxRequests
      BY <1>1, BoundsAssumption DEF Create, Requeue, MakeRequest, CallerInv
    <3>2. [task |-> t, id |-> made + 1] \in Request
      BY <3>1 DEF Request
    <3> QED BY <1>1, <3>1, <3>2 DEF Create, Requeue, MakeRequest, CallerInv
  <2> QED BY <2>1, <2>2, <2>3
<1>2. ASSUME NEW c \in Callers, Send(c) PROVE TypeInv'
  <2>1. caller[c] \in Request
    BY <1>2 DEF Send, CallerInv
  <2>2. caller[c].task \in Tasks /\ caller[c].id \in 0..MaxRequests
    BY <2>1 DEF Request
  <2>3. QueueInv'
    BY <1>2, <2>1, BoundsAssumption DEF Send, QueueInv
  <2> QED BY <1>2, <2>2, <2>3 DEF Send, RowInv, CallerInv, NotesInv, HandInv
<1>3. ASSUME NEW c \in Callers, Dropped(c) PROVE TypeInv'
  <2>1. caller[c].task \in Tasks
    BY <1>3 DEF Dropped, CallerInv, Request
  <2> QED BY <1>3, <2>1 DEF Dropped, RowInv, QueueInv, CallerInv, NotesInv, HandInv
<1>4. ASSUME NEW t \in Tasks, Confirm(t) PROVE TypeInv'
  BY <1>4 DEF Confirm, RowInv, QueueInv, CallerInv, NotesInv, HandInv, Rows, States, Settled
<1>5. CASE Take
  <2>1. Head(queue) \in Request /\ Tail(queue) \in Seq(Request) /\ Len(Tail(queue)) <= Capacity
    BY <1>5, BoundsAssumption DEF Take, QueueInv
  <2>2. Head(queue) # <<>>
    BY <2>1, RequestIsSome
  <2>3. HandInv'
    BY <1>5, <2>1, <2>2 DEF Take, TakeOldest, HandInv, Workers, Working
  <2> QED BY <1>5, <2>1, <2>3 DEF Take, TakeOldest, RowInv, QueueInv, CallerInv, NotesInv
<1>6. CASE Start
  <2>1. task \in Tasks /\ worker.at \in Working
    BY <1>6, HandIsRequest DEF Start, Working
  <2>2. HandInv'
    BY <1>6 DEF Start, HandInv, Workers, Working
  <2> QED BY <1>6, <2>1, <2>2 DEF Start, RowInv, QueueInv, CallerInv, NotesInv, Rows, States
<1>7. CASE Misconfigured
  <2>1. task \in Tasks /\ worker.req.id \in 1..MaxRequests
    BY <1>7, HandIsRequest DEF Misconfigured, Working
  <2>2. HandInv'
    BY <1>7, RestingHand DEF Misconfigured
  <2>3. RowInv'
    <3>1. worker.req.id \in 0..MaxRequests /\ "failed" \in States
      BY <2>1, BoundsAssumption DEF States, Settled
    <3>2. [row EXCEPT ![task].state = "failed", ![task].by = worker.req.id] \in [Tasks -> Rows]
      BY <2>1, <3>1, RowSet
    <3> QED BY <1>7, <3>2 DEF Misconfigured, RowInv
  <2> QED BY <1>7, <2>2, <2>3 DEF Misconfigured, QueueInv, CallerInv, NotesInv
<1>8. ASSUME NEW v \in Verdicts, Answer(v) PROVE TypeInv'
  <2>1. HandInv'
    BY <1>8 DEF Answer, HandInv, Workers, Working
  <2> QED BY <1>8, <2>1 DEF Answer, RowInv, QueueInv, CallerInv, NotesInv
<1>9. CASE Merge
  <2>1. task \in Tasks
    BY <1>9, HandIsRequest DEF Merge, Working
  <2>2. HandInv'
    BY <1>9 DEF Merge, HandInv, Workers, Working
  <2> QED BY <1>9, <2>1, <2>2 DEF Merge, Merged, RowInv, QueueInv, CallerInv, NotesInv
<1>10. CASE Write
  <2> DEFINE verdict == [state |-> Gate(worker.verdict), by |-> worker.req.id,
                         confidence |-> IF worker.verdict \in Confidence THEN worker.verdict ELSE "none"]
  <2>1. task \in Tasks /\ worker.req.id \in 1..MaxRequests
    BY <1>10, HandIsRequest DEF Write, Working
  <2>2. verdict \in Rows
    BY <2>1, BoundsAssumption DEF Rows, States, Settled, Gate
  <2>3. row' = [row EXCEPT ![task] = verdict]
    BY <1>10 DEF Write
  <2> HIDE DEF verdict
  <2>4. HandInv'
    BY <1>10, RestingHand DEF Write
  <2> QED BY <1>10, <2>1, <2>2, <2>3, <2>4 DEF Write, RowInv, QueueInv, CallerInv, NotesInv
<1>11. CASE DbFails
  <2>1. task \in Tasks
    BY <1>11, HandIsRequest DEF DbFails, Working
  <2>2. HandInv'
    BY <1>11, RestingHand DEF DbFails
  <2> QED BY <1>11, <2>1, <2>2 DEF DbFails, RowInv, QueueInv, CallerInv, NotesInv
<1>12. CASE Shutdown
  BY <1>12 DEF Shutdown, RowInv, QueueInv, CallerInv, NotesInv, HandInv
<1>13. CASE Stop
  <2>1. Stranded \subseteq Tasks
    <3>1. \A i \in DOMAIN queue : queue[i] \in Request
      BY DEF QueueInv
    <3> QED BY <3>1 DEF Stranded, Request
  <2>2. HandInv'
    BY <1>13 DEF Stop, Resting, HandInv, Workers, Working
  <2>3. QueueInv'
    BY <1>13, BoundsAssumption DEF Stop, QueueInv
  <2> QED BY <1>13, <2>1, <2>2, <2>3 DEF Stop, RowInv, CallerInv, NotesInv
<1>14. CASE Restart
  <2>1. HandInv'
    BY <1>14, RestingHand DEF Restart
  <2>2. QueueInv'
    BY <1>14, BoundsAssumption DEF Restart, QueueInv
  <2> QED BY <1>14, <2>1, <2>2 DEF Restart, RowInv, CallerInv, NotesInv
<1>15. CASE UNCHANGED vars
  BY <1>15 DEF vars, RowInv, QueueInv, CallerInv, NotesInv, HandInv
<1> QED BY <1>1, <1>2, <1>3, <1>4, <1>5, <1>6, <1>7, <1>8, <1>9, <1>10, <1>11, <1>12, <1>13, <1>14, <1>15
        DEF Next, CallerStep, WorkerStep, Refused

\* Every variable keeps its type, for any tasks, callers and room in the channel.
THEOREM TypeCorrect == Spec => []TypeOK
BY TypeInit, TypeStep, TypeImplies, PTL DEF Spec

-----------------------------------------------------------------------------
(* No row waits for nothing *)

Agrees(t) == /\ row[t].state = "queued" => InFlight(t)
             /\ row[t].state = "running" => /\ worker.req # <<>> /\ worker.req.task = t
                                            /\ worker.at # "start"

\* A request that is passed on is still there.
LEMMA SendPassesOn ==
  ASSUME TypeInv, NEW c \in Callers, Send(c), NEW t
  PROVE  InFlight(t) => InFlight(t)'
<1>1. /\ queue' = Append(queue, caller[c])
      /\ caller' = [caller EXCEPT ![c] = <<>>]
      /\ worker' = worker
      /\ caller[c] \in Request /\ queue \in Seq(Request)
  BY DEF Send, TypeInv, CallerInv, QueueInv
<1>2. /\ DOMAIN queue' = 1..Len(queue) + 1 /\ Len(queue) \in Nat
      /\ queue'[Len(queue) + 1] = caller[c]
      /\ \A i \in DOMAIN queue : queue'[i] = queue[i] /\ i \in DOMAIN queue'
  BY <1>1
<1>3. ASSUME NEW d \in Callers, caller[d] # <<>>, caller[d].task = t PROVE InFlight(t)'
  <2>1. CASE d = c
    BY <1>2, <1>3, <2>1 DEF InFlight
  <2>2. CASE d # c
    <3>1. caller'[d] = caller[d]
      BY <1>1, <2>2 DEF TypeInv, CallerInv
    <3> QED BY <1>3, <3>1 DEF InFlight
  <2> QED BY <2>1, <2>2
<1>4. ASSUME NEW i \in DOMAIN queue, queue[i].task = t PROVE InFlight(t)'
  BY <1>2, <1>4 DEF InFlight
<1>5. ASSUME worker.req # <<>>, worker.req.task = t PROVE InFlight(t)'
  BY <1>1, <1>5 DEF InFlight
<1> QED BY <1>3, <1>4, <1>5 DEF InFlight

LEMMA TakePassesOn ==
  ASSUME TypeInv, Take, NEW t
  PROVE  InFlight(t) => InFlight(t)'
<1>1. /\ queue # <<>> /\ queue \in Seq(Request)
      /\ worker'.req = Head(queue) /\ queue' = Tail(queue) /\ caller' = caller
      /\ worker.req = <<>>
  BY DEF Take, TakeOldest, TypeInv, QueueInv, HandInv, Working
<1>2. Head(queue) # <<>>
  BY <1>1, RequestIsSome
<1>3. ASSUME NEW i \in DOMAIN queue, queue[i].task = t PROVE InFlight(t)'
  <2>1. CASE i = 1
    BY <1>1, <1>2, <1>3, <2>1 DEF InFlight
  <2>2. CASE i # 1
    <3>1. i - 1 \in DOMAIN queue' /\ queue'[i - 1] = queue[i]
      BY <1>1, <2>2
    <3> QED BY <1>3, <3>1 DEF InFlight
  <2> QED BY <2>1, <2>2
<1> QED BY <1>1, <1>3 DEF InFlight

\* What does not touch the requests loses none.
LEMMA SameRequests ==
  ASSUME UNCHANGED <<queue, caller>>, worker'.req = worker.req, NEW t
  PROVE  InFlight(t)' <=> InFlight(t)
BY DEF InFlight

LEMMA UnderwayStep ==
  ASSUME TypeInv, UnderwayHasRequest, [Next]_vars
  PROVE  UnderwayHasRequest'
<1>0. \A t \in Tasks : t \notin lost => Agrees(t)
  BY DEF UnderwayHasRequest, Agrees
<1> SUFFICES ASSUME NEW t \in Tasks, t \notin lost' PROVE Agrees(t)'
  BY DEF UnderwayHasRequest, Agrees
<1>1. ASSUME NEW c \in Callers, NEW u \in Tasks, Create(c, u) \/ Requeue(c, u)
      PROVE  Agrees(t)'
  <2>1. /\ row' = [row EXCEPT ![u].state = "queued"] /\ caller[c] = <<>>
        /\ caller' = [caller EXCEPT ![c] = [task |-> u, id |-> made + 1]]
        /\ made + 1 \in 1..MaxRequests
        /\ UNCHANGED <<queue, worker>>
    BY <1>1, BoundsAssumption DEF Create, Requeue, MakeRequest, TypeInv, CallerInv
  <2>2. [task |-> u, id |-> made + 1] \in Request
    BY <2>1 DEF Request
  <2>3. caller'[c].task = u /\ caller'[c] # <<>>
    BY <2>1, <2>2, RequestIsSome DEF TypeInv, CallerInv
  <2>4. CASE t = u
    <3>1. row'[t].state = "queued"
      BY <2>1, <2>4 DEF TypeInv, RowInv, Rows
    <3> QED BY <2>3, <2>4, <3>1 DEF Agrees, InFlight
  <2>5. CASE t # u
    <3>1. row'[t] = row[t]
      BY <2>1, <2>5 DEF TypeInv, RowInv
    <3>2. t \notin lost
      BY <1>1, <2>5 DEF Create, Requeue
    <3>3. \A d \in Callers : d # c => caller'[d] = caller[d]
      BY <2>1 DEF TypeInv, CallerInv
    <3>4. InFlight(t) => InFlight(t)'
      BY <2>1, <3>3 DEF InFlight
    <3> QED BY <1>0, <2>1, <3>1, <3>2, <3>4 DEF Agrees
  <2> QED BY <2>4, <2>5
<1>2. ASSUME NEW c \in Callers, Send(c) PROVE Agrees(t)'
  BY <1>0, <1>2, SendPassesOn DEF Agrees, Send
<1>3. ASSUME NEW c \in Callers, Dropped(c) PROVE Agrees(t)'
  <2>1. t # caller[c].task /\ t \notin lost /\ UNCHANGED <<row, queue, worker>>
    BY <1>3 DEF Dropped
  <2>2. \A d \in Callers : d # c => caller'[d] = caller[d]
    BY <1>3 DEF Dropped, TypeInv, CallerInv
  <2>3. InFlight(t) => InFlight(t)'
    BY <2>1, <2>2 DEF InFlight
  <2> QED BY <1>0, <2>1, <2>3 DEF Agrees
<1>4. ASSUME NEW u \in Tasks, Confirm(u) PROVE Agrees(t)'
  <2>1. CASE t = u
    <3>1. row'[t].state = "done"
      BY <1>4, <2>1 DEF Confirm, TypeInv, RowInv, Rows
    <3> QED BY <3>1 DEF Agrees
  <2>2. CASE t # u
    <3>1. row'[t] = row[t]
      BY <1>4, <2>2 DEF Confirm, TypeInv, RowInv
    <3> QED BY <1>0, <1>4, <3>1, SameRequests DEF Confirm, Agrees
  <2> QED BY <2>1, <2>2
<1>5. CASE Take
  <2>1. worker.req = <<>> /\ row' = row /\ lost' = lost
    BY <1>5 DEF Take, TypeInv, HandInv, Working
  <2> QED BY <1>0, <1>5, <2>1, TakePassesOn DEF Agrees
<1>6. CASE Start
  <2>1. /\ worker.req # <<>> /\ worker'.req = worker.req /\ worker'.at = "agent"
        /\ task \in Tasks /\ row' = [row EXCEPT ![task].state = "running"]
    BY <1>6, HandIsRequest DEF Start, TypeInv, HandInv, Workers, Working
  <2>2. CASE t = task
    <3>1. row'[t].state = "running"
      BY <2>1, <2>2 DEF TypeInv, RowInv, Rows
    <3> QED BY <2>1, <2>2, <3>1 DEF Agrees, task
  <2>3. CASE t # task
    <3>1. row'[t] = row[t]
      BY <2>1, <2>3 DEF TypeInv, RowInv
    <3> QED BY <1>0, <1>6, <2>1, <2>3, <3>1, SameRequests DEF Start, Agrees, task
  <2> QED BY <2>2, <2>3
<1>7. CASE Misconfigured \/ Write
  <2>1. worker.at \in {"agent", "write"} /\ worker' = Resting /\ UNCHANGED <<queue, caller, lost>>
    BY <1>7 DEF Misconfigured, Write
  <2>2. task \in Tasks /\ worker'.req = <<>>
    BY <2>1, HandIsRequest DEF Resting, Working
  <2>3. CASE t = task
    <3>1. row'[t].state \in Settled
      BY <1>7, <2>2, <2>3 DEF Misconfigured, Write, Gate, Settled, TypeInv, RowInv, Rows
    <3> QED BY <3>1 DEF Agrees, Settled
  <2>4. CASE t # task
    <3>1. row'[t] = row[t]
      BY <1>7, <2>4 DEF Misconfigured, Write, TypeInv, RowInv
    <3>2. InFlight(t) => InFlight(t)'
      BY <2>1, <2>4 DEF InFlight, task
    <3> QED BY <1>0, <2>1, <2>4, <3>1, <3>2 DEF Agrees, task
  <2> QED BY <2>3, <2>4
<1>8. CASE Merge \/ \E v \in Verdicts : Answer(v)
  <2>1. /\ UNCHANGED <<row, queue, caller, lost>> /\ worker'.req = worker.req
        /\ worker'.at # "start"
    BY <1>8 DEF Merge, Answer, TypeInv, HandInv, Workers
  <2> QED BY <1>0, <2>1, SameRequests DEF Agrees
<1>9. CASE DbFails
  <2>1. t # task /\ t \notin lost /\ UNCHANGED <<row, queue, caller>>
    BY <1>9 DEF DbFails
  <2>2. InFlight(t) => InFlight(t)'
    BY <2>1 DEF InFlight, task
  <2> QED BY <1>0, <2>1, <2>2 DEF Agrees, task
<1>10. CASE Shutdown
  BY <1>0, <1>10, SameRequests DEF Shutdown, Agrees
<1>11. CASE Stop
  <2>1. worker.req = <<>> /\ t \notin lost /\ t \notin Stranded /\ UNCHANGED <<row, caller>>
    BY <1>11 DEF Stop, TypeInv, HandInv, Working
  <2>2. InFlight(t) => InFlight(t)'
    BY <2>1 DEF InFlight, Stranded
  <2> QED BY <1>0, <2>1, <2>2 DEF Agrees
<1>12. CASE Restart
  <2>1. ~InFlight(t) /\ t \notin lost /\ row' = row
    BY <1>12 DEF Restart
  <2>2. row[t].state \notin {"queued", "running"}
    BY <1>0, <2>1 DEF Agrees, InFlight
  <2> QED BY <2>1, <2>2 DEF Agrees
<1>13. CASE UNCHANGED vars
  <2>1. UNCHANGED <<row, queue, caller, worker, lost>>
    BY <1>13 DEF vars
  <2> QED BY <1>0, <2>1, SameRequests DEF Agrees
<1> QED BY <1>1, <1>2, <1>3, <1>4, <1>5, <1>6, <1>7, <1>8, <1>9, <1>10, <1>11, <1>12, <1>13
        DEF Next, CallerStep, WorkerStep, Refused

LEMMA UnderwayInit == Init => UnderwayHasRequest
<1> SUFFICES ASSUME Init, NEW t \in Tasks PROVE row[t].state = "absent"
  BY DEF UnderwayHasRequest
<1> QED BY DEF Init, Unused

\* However callers, the worker and the end of the process interleave, a row that shows
\* queued has a request in flight and one that shows running is what the worker is on,
\* unless a fault took its request (scrape.rs, enqueue and run_one).
THEOREM Underway == Spec => []UnderwayHasRequest
BY TypeInit, TypeStep, UnderwayInit, UnderwayStep, PTL DEF Spec

-----------------------------------------------------------------------------
(* The last request decides *)

\* Request i is the last one of its task in the channel.
LastOf(i) == \A k \in DOMAIN queue : k > i => queue[k].task # queue[i].task

\* The requests of a task are served in the order in which they were sent: the newest is
\* the last of its task in the channel or, if there is none, the one the worker is on.
QueueOrder == \A i \in DOMAIN queue : LastOf(i) => queue[i].id = sent[queue[i].task]
HandOrder == worker.req # <<>> /\ (\A i \in DOMAIN queue : queue[i].task # task)
             => worker.req.id = sent[task]

OrderInv == QueueOrder /\ HandOrder

\* What changes neither the channel nor what was sent, and leaves the worker its request.
LEMMA SameOrder ==
  ASSUME OrderInv, UNCHANGED <<queue, sent>>, worker'.req \in {worker.req, <<>>}
  PROVE  OrderInv'
BY DEF OrderInv, QueueOrder, HandOrder, LastOf, task

LEMMA OrderStep == ASSUME TypeInv, OrderInv, [Next]_vars PROVE OrderInv'
<1>1. ASSUME NEW c \in Callers, Send(c) PROVE OrderInv'
  <2> DEFINE r == caller[c]
             n == Len(queue)
  <2>1. /\ queue' = Append(queue, r) /\ sent' = [sent EXCEPT ![r.task] = r.id]
        /\ worker' = worker /\ r \in Request /\ queue \in Seq(Request)
    BY <1>1 DEF Send, TypeInv, CallerInv, QueueInv
  <2>2. r.task \in Tasks
    BY <2>1 DEF Request
  <2>3. /\ sent'[r.task] = r.id
        /\ \A t \in Tasks : t # r.task => sent'[t] = sent[t]
    BY <2>1, <2>2 DEF TypeInv, NotesInv
  <2>4. /\ n \in Nat /\ DOMAIN queue = 1..n /\ DOMAIN queue' = 1..n + 1 /\ queue'[n + 1] = r
        /\ \A i \in 1..n : queue'[i] = queue[i] /\ queue[i] \in Request
    BY <2>1
  <2> HIDE DEF r, n
  <2>5. QueueOrder'
    <3> SUFFICES ASSUME NEW i \in 1..n + 1, LastOf(i)' PROVE queue'[i].id = sent'[queue'[i].task]
      BY <2>4 DEF QueueOrder
    <3>1. CASE i = n + 1
      BY <2>3, <2>4, <3>1
    <3>2. CASE i # n + 1
      <4>1. i \in 1..n /\ queue[i].task # r.task
        BY <2>4, <3>2 DEF LastOf
      <4>2. LastOf(i)
        BY <2>4, <4>1 DEF LastOf
      <4>3. queue[i].task \in Tasks
        BY <2>4, <4>1 DEF Request
      <4> QED BY <2>3, <2>4, <4>1, <4>2, <4>3 DEF OrderInv, QueueOrder
    <3> QED BY <3>1, <3>2
  <2>6. HandOrder'
    <3> SUFFICES ASSUME worker.req # <<>>, \A i \in 1..n + 1 : queue'[i].task # task
                 PROVE  worker.req.id = sent'[task]
      BY <2>1, <2>4 DEF HandOrder, task
    <3>1. task # r.task /\ \A i \in 1..n : queue[i].task # task
      BY <2>4
    <3>2. task \in Tasks
      BY HandIsRequest DEF TypeInv, HandInv
    <3> QED BY <2>3, <2>4, <3>1, <3>2 DEF OrderInv, HandOrder
  <2> QED BY <2>5, <2>6 DEF OrderInv
<1>2. CASE Take
  <2> DEFINE n == Len(queue)
  <2>1. /\ queue # <<>> /\ queue \in Seq(Request) /\ worker'.req = queue[1] /\ queue' = Tail(queue)
        /\ sent' = sent
    BY <1>2 DEF Take, TakeOldest, TypeInv, QueueInv
  <2>2. /\ n \in Nat \ {0} /\ DOMAIN queue = 1..n /\ DOMAIN queue' = 1..n - 1
        /\ \A i \in 1..n - 1 : queue'[i] = queue[i + 1]
    BY <2>1
  <2> HIDE DEF n
  <2>3. QueueOrder'
    <3> SUFFICES ASSUME NEW i \in 1..n - 1, LastOf(i)' PROVE queue'[i].id = sent[queue'[i].task]
      BY <2>1, <2>2 DEF QueueOrder
    <3>1. LastOf(i + 1)
      <4> SUFFICES ASSUME NEW k \in 1..n, k > i + 1 PROVE queue[k].task # queue[i + 1].task
        BY <2>2 DEF LastOf
      <4>1. k - 1 \in 1..n - 1 /\ k - 1 > i /\ queue'[k - 1] = queue[k]
        BY <2>2
      <4> QED BY <2>2, <4>1 DEF LastOf
    <3> QED BY <2>2, <3>1 DEF OrderInv, QueueOrder
  <2>4. HandOrder'
    <3> SUFFICES ASSUME \A i \in 1..n - 1 : queue'[i].task # queue[1].task
                 PROVE  queue[1].id = sent[queue[1].task]
      BY <2>1, <2>2 DEF HandOrder, task
    <3>1. LastOf(1)
      <4> SUFFICES ASSUME NEW k \in 1..n, k > 1 PROVE queue[k].task # queue[1].task
        BY <2>2 DEF LastOf
      <4>1. k - 1 \in 1..n - 1 /\ queue'[k - 1] = queue[k]
        BY <2>2
      <4> QED BY <4>1
    <3> QED BY <2>2, <3>1 DEF OrderInv, QueueOrder
  <2> QED BY <2>3, <2>4 DEF OrderInv
<1>3. CASE Stop \/ Restart
  <2>1. queue' = <<>> /\ worker'.req = <<>>
    BY <1>3 DEF Stop, Restart, Resting
  <2> QED BY <2>1 DEF OrderInv, QueueOrder, HandOrder
<1>4. CASE CallerStep \/ \E c \in Callers : Dropped(c)
  BY <1>4, SameOrder DEF CallerStep, Create, Requeue, Dropped
<1>5. CASE (\E t \in Tasks : Confirm(t)) \/ Shutdown
  BY <1>5, SameOrder DEF Confirm, Shutdown
<1>6. CASE Start \/ Merge \/ \E v \in Verdicts : Answer(v)
  <2>1. UNCHANGED <<queue, sent>> /\ worker'.req = worker.req
    BY <1>6 DEF Start, Merge, Answer, TypeInv, HandInv, Workers
  <2> QED BY <2>1, SameOrder
<1>7. CASE Misconfigured \/ Write \/ DbFails
  <2>1. UNCHANGED <<queue, sent>> /\ worker'.req = <<>>
    BY <1>7 DEF Misconfigured, Write, DbFails, Resting
  <2> QED BY <2>1, SameOrder
<1>8. CASE UNCHANGED vars
  BY <1>8, SameOrder DEF vars
<1> QED BY <1>1, <1>2, <1>3, <1>4, <1>5, <1>6, <1>7, <1>8 DEF Next, WorkerStep, Refused

Decided(t) == row[t].state # "absent" /\ ~InFlight(t) => row[t].by = sent[t]

LEMMA DecidedStep ==
  ASSUME TypeInv, OrderInv, LastRequestDecides, [Next]_vars
  PROVE  LastRequestDecides'
<1>0. \A t \in Tasks : t \notin lost => Decided(t)
  BY DEF LastRequestDecides, Decided
<1> SUFFICES ASSUME NEW t \in Tasks, t \notin lost', ~InFlight(t)' PROVE Decided(t)'
  BY DEF LastRequestDecides, Decided
<1>1. ASSUME NEW c \in Callers, NEW u \in Tasks, Create(c, u) \/ Requeue(c, u)
      PROVE  Decided(t)'
  <2>1. /\ row' = [row EXCEPT ![u].state = "queued"] /\ caller[c] = <<>>
        /\ caller' = [caller EXCEPT ![c] = [task |-> u, id |-> made + 1]]
        /\ made + 1 \in 1..MaxRequests
        /\ UNCHANGED <<queue, worker, sent>>
    BY <1>1, BoundsAssumption DEF Create, Requeue, MakeRequest, TypeInv, CallerInv
  <2>2. [task |-> u, id |-> made + 1] \in Request
    BY <2>1 DEF Request
  <2>3. caller'[c].task = u /\ caller'[c] # <<>>
    BY <2>1, <2>2, RequestIsSome DEF TypeInv, CallerInv
  <2>4. t # u
    BY <2>3 DEF InFlight
  <2>5. row'[t] = row[t]
    BY <2>1, <2>4 DEF TypeInv, RowInv
  <2>6. t \notin lost
    BY <1>1, <2>4 DEF Create, Requeue
  <2>7. \A d \in Callers : d # c => caller'[d] = caller[d]
    BY <2>1 DEF TypeInv, CallerInv
  <2>8. ~InFlight(t)
    BY <2>1, <2>7 DEF InFlight
  <2> QED BY <1>0, <2>1, <2>5, <2>6, <2>8 DEF Decided
<1>2. ASSUME NEW c \in Callers, Send(c) PROVE Decided(t)'
  <2>1. ~InFlight(t)
    BY <1>2, SendPassesOn
  <2>2. caller[c] # <<>> /\ caller[c].task # t
    BY <1>2, <2>1 DEF Send, InFlight
  <2>3. sent'[t] = sent[t] /\ UNCHANGED <<row, lost>>
    BY <1>2, <2>2 DEF Send, TypeInv, NotesInv
  <2> QED BY <1>0, <2>1, <2>3 DEF Decided
<1>3. ASSUME NEW c \in Callers, Dropped(c) PROVE Decided(t)'
  <2>1. t # caller[c].task /\ t \notin lost /\ UNCHANGED <<row, queue, worker, sent>>
    BY <1>3 DEF Dropped
  <2>2. \A d \in Callers : d # c => caller'[d] = caller[d]
    BY <1>3 DEF Dropped, TypeInv, CallerInv
  <2>3. ~InFlight(t)
    BY <2>1, <2>2 DEF InFlight
  <2> QED BY <1>0, <2>1, <2>3 DEF Decided
<1>4. ASSUME NEW u \in Tasks, Confirm(u) PROVE Decided(t)'
  <2>1. row[u] \in Rows /\ row[u].state = "needs_review"
    BY <1>4 DEF Confirm, AwaitsReview, TypeInv, RowInv
  <2>2. row'[t].by = row[t].by /\ (row'[t].state = "absent" <=> row[t].state = "absent")
    BY <1>4, <2>1 DEF Confirm, TypeInv, RowInv, Rows
  <2> QED BY <1>0, <1>4, <2>2, SameRequests DEF Confirm, Decided
<1>5. CASE Take
  BY <1>0, <1>5, TakePassesOn DEF Take, Decided
<1>6. CASE Start
  <2>1. /\ worker.req # <<>> /\ worker'.req = worker.req
        /\ task \in Tasks /\ row' = [row EXCEPT ![task].state = "running"]
    BY <1>6, HandIsRequest DEF Start, TypeInv, HandInv, Workers, Working
  <2>2. t # task
    BY <2>1 DEF InFlight, task
  <2>3. row'[t] = row[t]
    BY <2>1, <2>2 DEF TypeInv, RowInv
  <2> QED BY <1>0, <1>6, <2>1, <2>3, SameRequests DEF Start, Decided
<1>7. CASE Misconfigured \/ Write
  <2>1. worker.at \in {"agent", "write"} /\ worker' = Resting /\ UNCHANGED <<queue, caller, lost, sent>>
    BY <1>7 DEF Misconfigured, Write
  <2>2. task \in Tasks /\ worker'.req = <<>> /\ worker.req # <<>>
    BY <2>1, HandIsRequest DEF Resting, Working, TypeInv, HandInv
  <2>3. CASE t = task
    <3>1. row'[t].by = worker.req.id
      BY <1>7, <2>2, <2>3 DEF Misconfigured, Write, TypeInv, RowInv, Rows
    <3>2. \A i \in DOMAIN queue : queue[i].task # task
      BY <2>1, <2>3 DEF InFlight
    <3> QED BY <2>1, <2>2, <2>3, <3>1, <3>2 DEF OrderInv, HandOrder, Decided
  <2>4. CASE t # task
    <3>1. row'[t] = row[t]
      BY <1>7, <2>4 DEF Misconfigured, Write, TypeInv, RowInv
    <3>2. ~InFlight(t)
      BY <2>1, <2>4 DEF InFlight, task
    <3> QED BY <1>0, <2>1, <3>1, <3>2 DEF Decided
  <2> QED BY <2>3, <2>4
<1>8. CASE Merge \/ \E v \in Verdicts : Answer(v)
  <2>1. UNCHANGED <<row, queue, caller, lost, sent>> /\ worker'.req = worker.req
    BY <1>8 DEF Merge, Answer, TypeInv, HandInv, Workers
  <2> QED BY <1>0, <2>1, SameRequests DEF Decided
<1>9. CASE DbFails
  <2>1. t # task /\ t \notin lost /\ UNCHANGED <<row, queue, caller, sent>>
    BY <1>9 DEF DbFails
  <2>2. ~InFlight(t)
    BY <2>1 DEF InFlight, task
  <2> QED BY <1>0, <2>1, <2>2 DEF Decided
<1>10. CASE Shutdown
  BY <1>0, <1>10, SameRequests DEF Shutdown, Decided
<1>11. CASE Stop
  <2>1. worker.req = <<>> /\ t \notin lost /\ t \notin Stranded /\ UNCHANGED <<row, caller, sent>>
    BY <1>11 DEF Stop, TypeInv, HandInv, Working
  <2>2. ~InFlight(t)
    BY <2>1 DEF InFlight, Stranded
  <2> QED BY <1>0, <2>1, <2>2 DEF Decided
<1>12. CASE Restart
  <2>1. ~InFlight(t) /\ t \notin lost /\ UNCHANGED <<row, sent>>
    BY <1>12 DEF Restart
  <2> QED BY <1>0, <2>1 DEF Decided
<1>13. CASE UNCHANGED vars
  <2>1. UNCHANGED <<row, queue, caller, worker, lost, sent>>
    BY <1>13 DEF vars
  <2> QED BY <1>0, <2>1, SameRequests DEF Decided
<1> QED BY <1>1, <1>2, <1>3, <1>4, <1>5, <1>6, <1>7, <1>8, <1>9, <1>10, <1>11, <1>12, <1>13
        DEF Next, CallerStep, WorkerStep, Refused

LEMMA DecidedInit == Init => OrderInv /\ LastRequestDecides
<1> SUFFICES ASSUME Init PROVE OrderInv /\ LastRequestDecides
  OBVIOUS
<1>1. OrderInv
  BY DEF Init, OrderInv, QueueOrder, HandOrder, Resting
<1>2. ASSUME NEW t \in Tasks PROVE row[t].state = "absent"
  BY DEF Init, Unused
<1> QED BY <1>1, <1>2 DEF LastRequestDecides

\* However often a task is requeued while it runs or waits, once nothing is under way for
\* it the row shows the verdict on the request sent last (the channel is in order and
\* the worker takes one at a time), unless a fault took a request.
THEOREM LastDecides == Spec => []LastRequestDecides
BY TypeInit, TypeStep, DecidedInit, OrderStep, DecidedStep, PTL DEF Spec

-----------------------------------------------------------------------------
(* Doubt is reviewed *)

Reviewed(t) == row[t].state = "done" => row[t].confidence = "high" \/ t \in confirmed

LEMMA ReviewStep ==
  ASSUME TypeInv, DoubtIsReviewed, [Next]_vars
  PROVE  DoubtIsReviewed'
<1>0. \A t \in Tasks : Reviewed(t) /\ row[t] \in Rows
  BY DEF DoubtIsReviewed, Reviewed, TypeInv, RowInv
<1> SUFFICES ASSUME NEW t \in Tasks PROVE Reviewed(t)'
  BY DEF DoubtIsReviewed, Reviewed
<1>1. ASSUME NEW c \in Callers, NEW u \in Tasks, Create(c, u) \/ Requeue(c, u)
      PROVE  Reviewed(t)'
  <2>1. row' = [row EXCEPT ![u].state = "queued"] /\ (t \in confirmed /\ t # u => t \in confirmed')
    BY <1>1 DEF Create, Requeue
  <2>2. CASE t = u
    <3>1. row'[t].state = "queued"
      BY <1>0, <2>1, <2>2 DEF TypeInv, RowInv, Rows
    <3> QED BY <3>1 DEF Reviewed
  <2>3. CASE t # u
    <3>1. row'[t] = row[t]
      BY <2>1, <2>3 DEF TypeInv, RowInv
    <3> QED BY <1>0, <2>1, <2>3, <3>1 DEF Reviewed
  <2> QED BY <2>2, <2>3
<1>2. ASSUME NEW u \in Tasks, Confirm(u) PROVE Reviewed(t)'
  <2>1. row' = [row EXCEPT ![u].state = "done"] /\ confirmed' = confirmed \cup {u}
    BY <1>2 DEF Confirm
  <2>2. CASE t = u
    BY <2>1, <2>2 DEF Reviewed
  <2>3. CASE t # u
    <3>1. row'[t] = row[t]
      BY <2>1, <2>3 DEF TypeInv, RowInv
    <3> QED BY <1>0, <2>1, <3>1 DEF Reviewed
  <2> QED BY <2>2, <2>3
<1>3. CASE Start \/ Misconfigured
  <2>1. task \in Tasks /\ confirmed' = confirmed
    BY <1>3, HandIsRequest DEF Start, Misconfigured, Working
  <2>2. CASE t = task
    <3>1. row'[t].state \in {"running", "failed"}
      BY <1>3, <1>0, <2>1, <2>2 DEF Start, Misconfigured, TypeInv, RowInv, Rows
    <3> QED BY <3>1 DEF Reviewed
  <2>3. CASE t # task
    <3>1. row'[t] = row[t]
      BY <1>3, <2>3 DEF Start, Misconfigured, TypeInv, RowInv
    <3> QED BY <1>0, <2>1, <3>1 DEF Reviewed
  <2> QED BY <2>2, <2>3
<1>4. CASE Write
  <2> DEFINE v == worker.verdict
             verdict == [state |-> Gate(v), by |-> worker.req.id,
                         confidence |-> IF v \in Confidence THEN v ELSE "none"]
  <2>1. task \in Tasks /\ confirmed' = confirmed /\ row' = [row EXCEPT ![task] = verdict]
    BY <1>4, HandIsRequest DEF Write, Working
  <2>2. verdict.state = "done" => verdict.confidence = "high"
    BY DEF Gate, Confidence
  <2> HIDE DEF verdict
  <2>3. CASE t = task
    <3>1. row'[t] = verdict
      BY <2>1, <2>3 DEF TypeInv, RowInv
    <3> QED BY <2>2, <3>1 DEF Reviewed
  <2>4. CASE t # task
    <3>1. row'[t] = row[t]
      BY <2>1, <2>4 DEF TypeInv, RowInv
    <3> QED BY <1>0, <2>1, <3>1 DEF Reviewed
  <2> QED BY <2>3, <2>4
<1>5. CASE UNCHANGED <<row, confirmed>>
  BY <1>0, <1>5 DEF Reviewed
<1>6. \/ CallerStep \/ (\E u \in Tasks : Confirm(u)) \/ Start \/ Misconfigured \/ Write
      \/ UNCHANGED <<row, confirmed>>
  BY DEF Next, WorkerStep, Send, Refused, Dropped, Take, Answer, Merge, DbFails, Shutdown, Stop,
         Restart, vars
<1> QED BY <1>1, <1>2, <1>3, <1>4, <1>5, <1>6 DEF CallerStep

LEMMA ReviewInit == Init => DoubtIsReviewed
<1> SUFFICES ASSUME Init, NEW t \in Tasks PROVE row[t].state = "absent"
  BY DEF DoubtIsReviewed
<1> QED BY DEF Init, Unused

\* The confidence gate: a result the model was not sure of is done only if the user
\* confirmed it since it was last requeued, in any order of requeues, runs and faults.
THEOREM DoubtReviewed == Spec => []DoubtIsReviewed
BY TypeInit, TypeStep, ReviewInit, ReviewStep, PTL DEF Spec
-----------------------------------------------------------------------------
(* Every request is served once *)

Holds(c) == caller[c] # <<>>

\* No request is in two places: with two callers, twice in the channel, or there and with
\* a caller or the worker.
CallersApart == /\ \A c \in Callers : Holds(c) => caller[c].id <= made
                /\ \A c, d \in Callers : Holds(c) /\ Holds(d) /\ caller[c].id = caller[d].id => c = d
QueueApart == /\ \A i \in DOMAIN queue : queue[i].id <= made
              /\ \A i, j \in DOMAIN queue : queue[i].id = queue[j].id => i = j
              /\ \A i \in DOMAIN queue, c \in Callers : Holds(c) => caller[c].id # queue[i].id
HandApart == worker.req # <<>> =>
               /\ worker.req.id <= made
               /\ \A c \in Callers : Holds(c) => caller[c].id # worker.req.id
               /\ \A i \in DOMAIN queue : queue[i].id # worker.req.id

ApartInv == CallersApart /\ QueueApart /\ HandApart

\* Callers that drop what they hold, an emptied channel and an idle worker keep requests
\* apart.
LEMMA StaysApart ==
  ASSUME ApartInv, made' = made, queue' \in {queue, <<>>}, worker'.req \in {worker.req, <<>>},
         \A c \in Callers : caller'[c] \in {caller[c], <<>>}
  PROVE  ApartInv'
BY DEF ApartInv, CallersApart, QueueApart, HandApart, Holds

LEMMA ApartStep == ASSUME TypeInv, ApartInv, [Next]_vars PROVE ApartInv'
<1>1. ASSUME NEW c \in Callers, NEW u \in Tasks, MakeRequest(c, u), UNCHANGED <<queue, worker>>
      PROVE  ApartInv'
  <2>1. /\ made \in Nat /\ made' = made + 1
        /\ caller'[c].id = made + 1
        /\ \A d \in Callers : d # c => caller'[d] = caller[d]
    BY <1>1, BoundsAssumption DEF MakeRequest, TypeInv, CallerInv
  <2>2. /\ \A d \in Callers : Holds(d) => caller[d].id \in Nat
        /\ \A i \in DOMAIN queue : queue[i].id \in Nat
        /\ worker.req # <<>> => worker.req.id \in Nat
    <3>1. \A q \in Request : q.id \in Nat
      BY BoundsAssumption DEF Request
    <3> QED BY <3>1 DEF TypeInv, CallerInv, QueueInv, HandInv, Workers, Holds
  <2>3. CallersApart'
    BY <2>1, <2>2 DEF ApartInv, CallersApart, Holds
  <2>4. QueueApart'
    BY <1>1, <2>1, <2>2 DEF ApartInv, QueueApart, Holds
  <2>5. HandApart'
    BY <1>1, <2>1, <2>2 DEF ApartInv, HandApart, Holds
  <2> QED BY <2>3, <2>4, <2>5 DEF ApartInv
<1>2. ASSUME NEW c \in Callers, Send(c) PROVE ApartInv'
  <2> DEFINE r == caller[c]
             n == Len(queue)
  <2>1. /\ queue' = Append(queue, r) /\ worker' = worker /\ made' = made
        /\ Holds(c) /\ queue \in Seq(Request) /\ caller'[c] = <<>>
        /\ \A d \in Callers : d # c => caller'[d] = caller[d]
    BY <1>2 DEF Send, TypeInv, CallerInv, QueueInv, Holds
  <2>2. /\ n \in Nat /\ DOMAIN queue = 1..n /\ DOMAIN queue' = 1..n + 1 /\ queue'[n + 1] = r
        /\ \A i \in 1..n : queue'[i] = queue[i]
    BY <2>1
  <2> HIDE DEF n
  <2>3. CallersApart'
    BY <2>1 DEF ApartInv, CallersApart, Holds
  <2>4. QueueApart'
    <3>1. \A i \in 1..n + 1 : i \in 1..n \/ i = n + 1
      BY <2>2
    <3> QED BY <2>1, <2>2, <3>1 DEF ApartInv, CallersApart, QueueApart, Holds
  <2>5. HandApart'
    <3>1. \A i \in 1..n + 1 : i \in 1..n \/ i = n + 1
      BY <2>2
    <3> QED BY <2>1, <2>2, <3>1 DEF ApartInv, HandApart, Holds
  <2> QED BY <2>3, <2>4, <2>5 DEF ApartInv
<1>3. CASE Take
  <2> DEFINE n == Len(queue)
  <2>1. /\ queue # <<>> /\ queue \in Seq(Request) /\ worker'.req = queue[1] /\ queue' = Tail(queue)
        /\ UNCHANGED <<caller, made>>
    BY <1>3 DEF Take, TakeOldest, TypeInv, QueueInv
  <2>2. /\ n \in Nat \ {0} /\ DOMAIN queue = 1..n /\ DOMAIN queue' = 1..n - 1
        /\ \A i \in 1..n - 1 : queue'[i] = queue[i + 1] /\ i + 1 \in 1..n /\ i + 1 # 1
        /\ \A i, j \in 1..n - 1 : i + 1 = j + 1 => i = j
        /\ 1 \in 1..n
    BY <2>1
  <2> HIDE DEF n
  <2> QED BY <2>1, <2>2 DEF ApartInv, CallersApart, QueueApart, HandApart, Holds
<1>4. ASSUME NEW c \in Callers, Dropped(c) PROVE ApartInv'
  <2>1. \A d \in Callers : caller'[d] \in {caller[d], <<>>}
    BY <1>4 DEF Dropped, TypeInv, CallerInv
  <2> QED BY <1>4, <2>1, StaysApart DEF Dropped
<1>5. CASE Misconfigured \/ Write \/ DbFails \/ Stop \/ Restart
  <2>1. worker'.req = <<>> /\ queue' \in {queue, <<>>} /\ made' = made
    BY <1>5 DEF Misconfigured, Write, DbFails, Stop, Restart, Resting
  <2>2. \A d \in Callers : caller'[d] \in {caller[d], <<>>}
    BY <1>5 DEF Misconfigured, Write, DbFails, Stop, Restart
  <2> QED BY <2>1, <2>2, StaysApart
<1>6. CASE Start \/ Merge \/ \E v \in Verdicts : Answer(v)
  <2>1. UNCHANGED <<queue, caller, made>> /\ worker'.req = worker.req
    BY <1>6 DEF Start, Merge, Answer, TypeInv, HandInv, Workers
  <2> QED BY <2>1, StaysApart
<1>7. CASE UNCHANGED <<queue, caller, worker, made>>
  BY <1>7, StaysApart
<1>8. \/ \E c \in Callers, t \in Tasks : MakeRequest(c, t) /\ UNCHANGED <<queue, worker>>
      \/ \E c \in Callers : Send(c) \/ Dropped(c)
      \/ Take \/ Misconfigured \/ Write \/ DbFails \/ Stop \/ Restart
      \/ Start \/ Merge \/ (\E v \in Verdicts : Answer(v))
      \/ UNCHANGED <<queue, caller, worker, made>>
  BY DEF Next, CallerStep, WorkerStep, Create, Requeue, Refused, Confirm, Shutdown, vars
<1> QED BY <1>1, <1>2, <1>3, <1>4, <1>5, <1>6, <1>7, <1>8

\* A request that is passed on was there before.
LEMMA SendBringsNothing ==
  ASSUME TypeInv, NEW c \in Callers, Send(c), NEW t
  PROVE  InFlight(t)' => InFlight(t)
<1> DEFINE n == Len(queue)
<1>1. /\ queue' = Append(queue, caller[c]) /\ queue \in Seq(Request) /\ worker' = worker
      /\ caller[c] # <<>>
      /\ \A d \in Callers : caller'[d] \in {caller[d], <<>>}
  BY DEF Send, TypeInv, CallerInv, QueueInv
<1>2. /\ DOMAIN queue' = 1..n + 1 /\ n \in Nat /\ DOMAIN queue = 1..n
      /\ queue'[n + 1] = caller[c]
      /\ \A i \in 1..n + 1 : i # n + 1 => i \in 1..n /\ queue'[i] = queue[i]
  BY <1>1
<1> HIDE DEF n
<1> QED BY <1>1, <1>2 DEF InFlight

LEMMA TakeBringsNothing ==
  ASSUME TypeInv, Take, NEW t
  PROVE  InFlight(t)' => InFlight(t)
<1> DEFINE n == Len(queue)
<1>1. /\ queue # <<>> /\ queue \in Seq(Request) /\ worker'.req = queue[1] /\ queue' = Tail(queue)
      /\ caller' = caller
  BY DEF Take, TakeOldest, TypeInv, QueueInv
<1>2. /\ n \in Nat \ {0} /\ DOMAIN queue = 1..n /\ DOMAIN queue' = 1..n - 1 /\ 1 \in 1..n
      /\ \A i \in 1..n - 1 : queue'[i] = queue[i + 1] /\ i + 1 \in 1..n
  BY <1>1
<1> HIDE DEF n
<1> QED BY <1>1, <1>2 DEF InFlight

\* A row that was never created has no requests and no history.
AbsentInv == \A t \in Tasks : row[t].state = "absent" => ~InFlight(t) /\ t \notin lost \cup confirmed

LEMMA AbsentStep == ASSUME TypeInv, AbsentInv, [Next]_vars PROVE AbsentInv'
<1> SUFFICES ASSUME NEW t \in Tasks, row'[t].state = "absent"
             PROVE  ~InFlight(t)' /\ t \notin lost' \cup confirmed'
  BY DEF AbsentInv
<1>1. \A u \in Tasks, s \in States \ {"absent"} : [row EXCEPT ![u].state = s][u].state # "absent"
  BY DEF TypeInv, RowInv, Rows
<1>2. \A u \in Tasks : row[u] \in Rows
  BY DEF TypeInv, RowInv
<1>3. ASSUME NEW c \in Callers, NEW u \in Tasks, Create(c, u) \/ Requeue(c, u)
      PROVE  ~InFlight(t)' /\ t \notin lost' \cup confirmed'
  <2>1. /\ row' = [row EXCEPT ![u].state = "queued"]
        /\ caller' = [caller EXCEPT ![c] = [task |-> u, id |-> made + 1]]
        /\ UNCHANGED <<queue, worker>> /\ lost' \subseteq lost /\ confirmed' \subseteq confirmed
    BY <1>3 DEF Create, Requeue, MakeRequest
  <2>2. t # u
    BY <1>1, <2>1 DEF States
  <2>3. row[t].state = "absent"
    BY <2>1, <2>2 DEF TypeInv, RowInv
  <2>4. \A d \in Callers : caller'[d] = caller[d] \/ (d = c /\ caller'[d].task = u)
    BY <2>1 DEF TypeInv, CallerInv
  <2>5. ~InFlight(t) => ~InFlight(t)'
    BY <2>1, <2>2, <2>4 DEF InFlight
  <2> QED BY <2>1, <2>3, <2>5 DEF AbsentInv
<1>4. CASE Take \/ \E c \in Callers : Send(c)
  <2>1. UNCHANGED <<row, lost, confirmed>>
    BY <1>4 DEF Take, Send
  <2>2. InFlight(t)' => InFlight(t)
    BY <1>4, SendBringsNothing, TakeBringsNothing
  <2> QED BY <2>1, <2>2 DEF AbsentInv
<1>5. ASSUME NEW c \in Callers, Dropped(c) PROVE ~InFlight(t)' /\ t \notin lost' \cup confirmed'
  <2>1. row' = row /\ confirmed' = confirmed /\ Holds(c)
    BY <1>5 DEF Dropped, Holds
  <2>2. ~InFlight(t) /\ t \notin lost \cup confirmed
    BY <2>1 DEF AbsentInv
  <2>3. lost' = lost \cup {caller[c].task} /\ caller[c].task # t
    BY <1>5, <2>1, <2>2 DEF Dropped, InFlight, Holds
  <2>4. \A d \in Callers : caller'[d] \in {caller[d], <<>>}
    BY <1>5 DEF Dropped, TypeInv, CallerInv
  <2>5. UNCHANGED <<queue, worker>>
    BY <1>5 DEF Dropped
  <2>6. ~InFlight(t)'
    BY <2>2, <2>4, <2>5 DEF InFlight
  <2> QED BY <2>1, <2>2, <2>3, <2>6
<1>6. ASSUME NEW u \in Tasks, Confirm(u) PROVE ~InFlight(t)' /\ t \notin lost' \cup confirmed'
  <2>1. /\ row' = [row EXCEPT ![u].state = "done"] /\ confirmed' = confirmed \cup {u}
        /\ lost' = lost
    BY <1>6 DEF Confirm
  <2>2. t # u
    BY <1>1, <2>1 DEF States, Settled
  <2>3. row[t].state = "absent"
    BY <2>1, <2>2 DEF TypeInv, RowInv
  <2>4. ~InFlight(t)'
    BY <1>6, <2>3, SameRequests DEF Confirm, AbsentInv
  <2> QED BY <2>1, <2>2, <2>3, <2>4 DEF AbsentInv
<1>7. CASE Start \/ Merge \/ \E v \in Verdicts : Answer(v)
  <2>1. worker'.req = worker.req /\ UNCHANGED <<queue, caller, lost, confirmed>>
    BY <1>7 DEF Start, Merge, Answer, TypeInv, HandInv, Workers
  <2>2. row[t].state = "absent"
    <3>1. CASE Start
      <4>1. task \in Tasks /\ row' = [row EXCEPT ![task].state = "running"]
        BY <3>1, HandIsRequest DEF Start, Working
      <4>2. t # task
        BY <1>1, <4>1 DEF States
      <4> QED BY <4>1, <4>2 DEF TypeInv, RowInv
    <3>2. CASE Merge \/ \E v \in Verdicts : Answer(v)
      BY <3>2 DEF Merge, Answer
    <3> QED BY <1>7, <3>1, <3>2
  <2> QED BY <2>1, <2>2, SameRequests DEF AbsentInv
<1>8. CASE Misconfigured \/ Write \/ DbFails
  <2>1. task \in Tasks /\ worker.req # <<>>
    BY <1>8, HandIsRequest, RequestIsSome DEF Misconfigured, Write, DbFails, Working
  <2>2. row[t].state = "absent"
    <3>1. CASE t = task
      BY <1>2, <1>8, <2>1, <3>1 DEF Misconfigured, Write, DbFails, Gate, TypeInv, RowInv, Rows
    <3>2. CASE t # task
      BY <1>8, <3>2 DEF Misconfigured, Write, DbFails, TypeInv, RowInv
    <3> QED BY <3>1, <3>2
  <2>3. ~InFlight(t) /\ t \notin lost \cup confirmed
    BY <2>2 DEF AbsentInv
  <2>4. t # task
    BY <2>1, <2>3 DEF InFlight, task
  <2>5. /\ UNCHANGED <<queue, caller, confirmed>> /\ worker'.req = <<>> /\ lost' \subseteq lost \cup {task}
    BY <1>8 DEF Misconfigured, Write, DbFails, Resting
  <2>6. ~InFlight(t)'
    BY <2>3, <2>5 DEF InFlight
  <2> QED BY <2>3, <2>4, <2>5, <2>6
<1>9. CASE Stop \/ Restart
  <2>1. row' = row /\ confirmed' = confirmed
    BY <1>9 DEF Stop, Restart
  <2>2. ~InFlight(t) /\ t \notin lost \cup confirmed
    BY <2>1 DEF AbsentInv
  <2>3. t \notin lost'
    BY <1>9, <2>2 DEF Stop, Restart, Stranded, InFlight
  <2>4. queue' = <<>> /\ worker'.req = <<>> /\ \A d \in Callers : caller'[d] \in {caller[d], <<>>}
    BY <1>9 DEF Stop, Restart, Resting
  <2>5. ~InFlight(t)'
    BY <2>2, <2>4 DEF InFlight
  <2> QED BY <2>1, <2>2, <2>3, <2>5
<1>10. CASE Shutdown \/ UNCHANGED vars
  <2>1. UNCHANGED <<row, queue, caller, worker, lost, confirmed>>
    BY <1>10 DEF Shutdown, vars
  <2> QED BY <2>1, SameRequests DEF AbsentInv
<1> QED BY <1>3, <1>4, <1>5, <1>6, <1>7, <1>8, <1>9, <1>10 DEF Next, CallerStep, WorkerStep, Refused

LEMMA AbsentInit == Init => AbsentInv
<1> SUFFICES ASSUME Init, NEW t \in Tasks PROVE ~InFlight(t) /\ t \notin lost \cup confirmed
  BY DEF AbsentInv
<1> QED BY DEF Init, InFlight, Resting

LEMMA ApartInit == Init => ApartInv
BY DEF Init, ApartInv, CallersApart, QueueApart, HandApart, Holds, Resting

\* What waits and what is served, element by element.
LEMMA WaitingIs ==
  ASSUME NEW r
  PROVE  r \in Waiting <=> \/ \E c \in Callers : Holds(c) /\ caller[c] = r
                           \/ \E i \in DOMAIN queue : queue[i] = r
                           \/ worker.at = "start" /\ worker.req = r
BY DEF Waiting, Holds

LEMMA WaitingWillBe ==
  ASSUME NEW r
  PROVE  r \in Waiting' <=> \/ \E c \in Callers : caller'[c] # <<>> /\ caller'[c] = r
                            \/ \E i \in DOMAIN queue' : queue'[i] = r
                            \/ worker'.at = "start" /\ worker'.req = r
BY DEF Waiting

\* The request in hand waits nowhere else, and one with a caller is with him alone.
LEMMA HandAlone ==
  ASSUME HandApart, worker.req # <<>>
  PROVE  /\ \A c \in Callers : Holds(c) => caller[c] # worker.req
         /\ \A i \in DOMAIN queue : queue[i] # worker.req
BY DEF HandApart

LEMMA CallerAlone ==
  ASSUME ApartInv, TypeInv, NEW c \in Callers, Holds(c)
  PROVE  /\ \A d \in Callers : Holds(d) /\ d # c => caller[d] # caller[c]
         /\ \A i \in DOMAIN queue : queue[i] # caller[c]
         /\ worker.at \in Working => worker.req # caller[c]
BY DEF ApartInv, CallersApart, QueueApart, HandApart, TypeInv, HandInv

\* A create or a requeue asks.
LEMMA AskStep ==
  ASSUME TypeInv, AbsentInv, NEW c \in Callers, NEW t \in Tasks, Create(c, t) \/ Requeue(c, t)
  PROVE  Promised!Ask(t)
<1> DEFINE r == [task |-> t, id |-> made + 1]
<1>1. /\ caller[c] = <<>> /\ made < MaxRequests /\ made' = made + 1
      /\ row' = [row EXCEPT ![t].state = "queued"]
      /\ caller' = [caller EXCEPT ![c] = r]
      /\ UNCHANGED <<queue, worker, ingested>>
      /\ row[t].state = "absent" \/ t \notin Trials
  BY DEF Create, Requeue, MakeRequest
<1>2. lost' = lost \ {t} /\ confirmed' = confirmed \ {t}
  BY DEF Create, Requeue, AbsentInv
<1>3. /\ caller'[c] = r /\ \A d \in Callers : d # c => caller'[d] = caller[d]
      /\ r # <<>>
  <2>1. r \in Request
    BY <1>1, BoundsAssumption DEF Request, TypeInv, CallerInv
  <2> QED BY <1>1, <2>1, RequestIsSome DEF TypeInv, CallerInv
<1> HIDE DEF r
<1>4. ASSUME NEW q PROVE q \in Waiting' <=> q \in Waiting \cup {r}
  BY <1>1, <1>3, WaitingIs, WaitingWillBe DEF Holds
<1>5. Waiting' = Waiting \cup {r}
  BY <1>4
<1>6. InService' = InService
  BY <1>1 DEF InService
<1> QED BY <1>1, <1>2, <1>5, <1>6 DEF Promised!Ask, r

\* A request that is passed on, to the channel or to the worker, goes on waiting.
LEMMA PassStep ==
  ASSUME TypeInv, (\E c \in Callers : Send(c)) \/ Take
  PROVE  UNCHANGED Promised!promised
<1> DEFINE n == Len(queue)
<1> SUFFICES Waiting' = Waiting /\ InService' = InService
  BY DEF Send, Take, Promised!promised
<1>1. ASSUME NEW c \in Callers, Send(c) PROVE Waiting' = Waiting /\ InService' = InService
  <2>1. /\ queue' = Append(queue, caller[c]) /\ queue \in Seq(Request) /\ worker' = worker
        /\ Holds(c) /\ caller'[c] = <<>>
        /\ \A d \in Callers : d # c => caller'[d] = caller[d]
    BY <1>1 DEF Send, TypeInv, CallerInv, QueueInv, Holds
  <2>2. /\ DOMAIN queue' = 1..n + 1 /\ n \in Nat /\ DOMAIN queue = 1..n
        /\ queue'[n + 1] = caller[c] /\ n + 1 \in 1..n + 1
        /\ \A i \in 1..n + 1 : i # n + 1 => i \in 1..n /\ queue'[i] = queue[i]
        /\ \A i \in 1..n : i \in 1..n + 1 /\ queue'[i] = queue[i]
    BY <2>1
  <2> HIDE DEF n
  <2>3. ASSUME NEW q PROVE q \in Waiting' <=> q \in Waiting
    BY <2>1, <2>2, WaitingIs, WaitingWillBe DEF Holds
  <2> QED BY <2>1, <2>3 DEF InService
<1>2. CASE Take
  <2>1. /\ queue # <<>> /\ queue \in Seq(Request) /\ worker'.req = queue[1] /\ queue' = Tail(queue)
        /\ caller' = caller /\ worker'.at = "start" /\ worker.at = "idle"
    BY <1>2 DEF Take, TakeOldest, TypeInv, QueueInv
  <2>2. /\ n \in Nat \ {0} /\ DOMAIN queue = 1..n /\ DOMAIN queue' = 1..n - 1 /\ 1 \in 1..n
        /\ \A i \in 1..n - 1 : queue'[i] = queue[i + 1] /\ i + 1 \in 1..n
        /\ \A i \in 1..n : i # 1 => i - 1 \in 1..n - 1 /\ queue'[i - 1] = queue[i]
    BY <2>1
  <2> HIDE DEF n
  <2>3. ASSUME NEW q, q \in Waiting' PROVE q \in Waiting
    BY <2>1, <2>2, <2>3, WaitingIs, WaitingWillBe DEF Holds
  <2>4. ASSUME NEW i \in 1..n PROVE queue[i] \in Waiting'
    <3>1. CASE i = 1
      BY <2>1, <3>1, WaitingWillBe
    <3>2. CASE i # 1
      BY <2>2, <3>2, WaitingWillBe
    <3> QED BY <3>1, <3>2
  <2>5. ASSUME NEW q, q \in Waiting PROVE q \in Waiting'
    BY <2>1, <2>2, <2>4, <2>5, WaitingIs, WaitingWillBe DEF Holds
  <2>6. \A q : q \in Waiting' <=> q \in Waiting
    BY <2>3, <2>5
  <2>7. Waiting' = Waiting
    BY <2>6
  <2>8. InService' = InService
    BY <2>1 DEF InService
  <2> QED BY <2>7, <2>8
<1> QED BY <1>1, <1>2

\* The start serves the request in hand.
LEMMA ServeStep ==
  ASSUME TypeInv, ApartInv, Start
  PROVE  worker.req \in Waiting /\ Promised!Serve(worker.req)
<1>1. /\ worker.at = "start" /\ worker.req # <<>> /\ worker'.at = "agent" /\ worker'.req = worker.req
      /\ row' = [row EXCEPT ![task].state = "running"]
      /\ UNCHANGED <<queue, caller, ingested, made, lost, confirmed>>
  BY HandIsRequest, RequestIsSome DEF Start, TypeInv, HandInv, Workers, Working
<1>2. ASSUME NEW q PROVE q \in Waiting' <=> q \in Waiting \ {worker.req}
  BY <1>1, WaitingIs, WaitingWillBe, HandAlone DEF Holds, ApartInv
<1>3. Waiting' = Waiting \ {worker.req}
  BY <1>2
<1>4. InService = {} /\ InService' = {worker.req}
  BY <1>1 DEF InService
<1>5. worker.req \in Waiting
  BY <1>1, WaitingIs
<1> QED BY <1>1, <1>3, <1>4, <1>5 DEF Promised!Serve, task

\* While the worker is past the start nothing waits with it.
LEMMA WaitingElsewhere ==
  ASSUME UNCHANGED <<queue, caller>>, worker.at # "start", worker'.at # "start"
  PROVE  Waiting' = Waiting
<1>1. ASSUME NEW q PROVE q \in Waiting' <=> q \in Waiting
  BY WaitingIs, WaitingWillBe DEF Holds
<1> QED BY <1>1

\* A merge enters the file, unless it fails or the task is a trial.
LEMMA EnterStep ==
  ASSUME TypeInv, Merge
  PROVE  UNCHANGED Promised!promised \/ \E r \in InService : Promised!Enter(r)
<1>1. /\ worker.at = "merge" /\ worker'.at = "write" /\ worker'.req = worker.req
      /\ ingested' \in {ingested, ingested \cup Merged}
      /\ UNCHANGED <<row, queue, caller, made, lost, confirmed>>
  BY DEF Merge, TypeInv, HandInv, Workers
<1>2. Waiting' = Waiting
  BY <1>1, WaitingElsewhere
<1>3. InService' = InService /\ InService = {worker.req}
  BY <1>1 DEF InService
<1>4. CASE ingested' = ingested
  BY <1>1, <1>2, <1>3, <1>4 DEF Promised!promised
<1>5. CASE ingested' # ingested
  <2>1. task \notin Trials /\ ingested' = ingested \cup {task}
    BY <1>1, <1>5 DEF Merged
  <2>2. Promised!Enter(worker.req)
    BY <1>1, <1>2, <1>3, <2>1 DEF Promised!Enter, task
  <2> QED BY <1>3, <2>2
<1> QED BY <1>4, <1>5

LEMMA FailedRow ==
  ASSUME NEW r \in Rows, NEW n
  PROVE  [r EXCEPT !.state = "failed", !.by = n]
           = [state |-> "failed", confidence |-> r.confidence, by |-> n]
<1> DEFINE x == [r EXCEPT !.state = "failed", !.by = n]
           y == [state |-> "failed", confidence |-> r.confidence, by |-> n]
<1>1. DOMAIN x = {"state", "confidence", "by"} /\ DOMAIN y = {"state", "confidence", "by"}
  BY DEF Rows
<1>2. x.state = y.state /\ x.confidence = y.confidence /\ x.by = y.by
  BY DEF Rows
<1>3. x = [k \in {"state", "confidence", "by"} |-> x[k]]
  BY DEF Rows
<1> QED BY <1>1, <1>2, <1>3

\* The verdict, or the failure for want of a model, decides.
LEMMA DecideStep ==
  ASSUME TypeInv, Write \/ Misconfigured
  PROVE  \E r \in InService : Promised!Decide(r)
<1>1. /\ worker.at \in {"agent", "write"} /\ worker'.at = "idle"
      /\ UNCHANGED <<queue, caller, ingested, made, lost, confirmed>>
  BY DEF Write, Misconfigured, Resting
<1>2. Waiting' = Waiting
  BY <1>1, WaitingElsewhere
<1>3. InService = {worker.req} /\ InService' = {}
  BY <1>1 DEF InService
<1>4. task \in Tasks /\ row \in [Tasks -> Rows] /\ row[task] \in Rows
  BY <1>1, HandIsRequest DEF Working, TypeInv, RowInv
<1> DEFINE became(o) == [row EXCEPT ![task] = [state |-> o[1], confidence |-> o[2], by |-> worker.req.id]]
<1>5. \E o \in Promised!Outcomes(row[task].confidence) : row' = became(o)
  <2>1. CASE Write
    <3> DEFINE v == worker.verdict
               c == IF v \in Confidence THEN v ELSE "none"
               o == <<Gate(v), c>>
    <3>1. row' = became(o)
      BY <2>1 DEF Write
    <3>2. v \in Verdicts
      BY <2>1 DEF Write, TypeInv, HandInv
    <3>3. o \in Promised!Outcomes(row[task].confidence)
      BY <3>2 DEF Gate, Verdicts, Confidence, Promised!Outcomes
    <3> QED BY <3>1, <3>3
  <2>2. CASE Misconfigured
    <3> DEFINE o == <<"failed", row[task].confidence>>
               x == [state |-> "failed", confidence |-> row[task].confidence, by |-> worker.req.id]
    <3>1. row' = became(o)
      <4>1. [row[task] EXCEPT !.state = "failed", !.by = worker.req.id] = x
        BY <1>4, FailedRow
      <4>2. row' = [row EXCEPT ![task] = [row[task] EXCEPT !.state = "failed", !.by = worker.req.id]]
        BY <1>4, <2>2 DEF Misconfigured
      <4> QED BY <4>1, <4>2
    <3>2. o \in Promised!Outcomes(row[task].confidence)
      BY DEF Promised!Outcomes
    <3> QED BY <3>1, <3>2
  <2> QED BY <2>1, <2>2
<1>6. Promised!Decide(worker.req)
  BY <1>1, <1>2, <1>3, <1>5 DEF Promised!Decide, task
<1> QED BY <1>3, <1>6

\* What a dropped caller, a failed statement, the end of the worker and that of the
\* process take with them is lost, and nothing else is.
LEMMA LoseStep ==
  ASSUME TypeInv, ApartInv, (\E c \in Callers : Dropped(c)) \/ DbFails \/ Stop \/ Restart
  PROVE  \E S \in SUBSET (Waiting \cup InService) : Promised!Lose(S)
<1>0. UNCHANGED <<row, ingested, made, confirmed>>
  BY DEF Dropped, DbFails, Stop, Restart
<1>1. ASSUME NEW c \in Callers, Dropped(c)
      PROVE  \E S \in SUBSET (Waiting \cup InService) : Promised!Lose(S)
  <2>1. /\ Holds(c) /\ caller'[c] = <<>> /\ \A d \in Callers : d # c => caller'[d] = caller[d]
        /\ UNCHANGED <<queue, worker>> /\ lost' = lost \cup {caller[c].task}
    BY <1>1 DEF Dropped, Holds, TypeInv, CallerInv
  <2>2. ASSUME NEW q PROVE q \in Waiting' <=> q \in Waiting \ {caller[c]}
    BY <2>1, WaitingIs, WaitingWillBe, CallerAlone DEF Holds, Working
  <2>3. Waiting' = Waiting \ {caller[c]}
    BY <2>2
  <2>4. InService' = InService \ {caller[c]}
    BY <2>1, CallerAlone DEF InService, Working
  <2>5. caller[c] \in Waiting /\ lost' = lost \cup {r.task : r \in {caller[c]}}
    BY <2>1, WaitingIs
  <2>6. Promised!Lose({caller[c]})
    BY <1>0, <2>3, <2>4, <2>5 DEF Promised!Lose
  <2> QED BY <2>5, <2>6
<1>2. CASE DbFails
  <2>1. /\ worker.at \in Working /\ worker.req # <<>> /\ worker'.at = "idle"
        /\ UNCHANGED <<queue, caller>> /\ lost' = lost \cup {worker.req.task}
    BY <1>2, HandIsRequest, RequestIsSome DEF DbFails, Resting, Working, task
  <2>2. ASSUME NEW q PROVE q \in Waiting' <=> q \in Waiting \ {worker.req}
    BY <2>1, WaitingIs, WaitingWillBe, HandAlone DEF Holds, ApartInv
  <2>3. Waiting' = Waiting \ {worker.req}
    BY <2>2
  <2>4. InService' = InService \ {worker.req} /\ worker.req \in Waiting \cup InService
    BY <2>1, WaitingIs DEF InService, Working
  <2>5. lost' = lost \cup {r.task : r \in {worker.req}}
    BY <2>1
  <2>6. Promised!Lose({worker.req})
    BY <1>0, <2>3, <2>4, <2>5 DEF Promised!Lose
  <2> QED BY <2>4, <2>6
<1>3. CASE Stop
  <2> DEFINE S == {queue[i] : i \in DOMAIN queue}
  <2>1. /\ worker.at = "idle" /\ worker'.at = "stopped" /\ queue' = <<>> /\ caller' = caller
        /\ lost' = lost \cup Stranded
    BY <1>3 DEF Stop, Resting
  <2>2. ASSUME NEW q PROVE q \in Waiting' <=> q \in Waiting \ S
    <3>1. \A c \in Callers : Holds(c) => caller[c] \notin S
      BY CallerAlone
    <3> QED BY <2>1, <3>1, WaitingIs, WaitingWillBe DEF Holds
  <2>3. Waiting' = Waiting \ S
    BY <2>2
  <2>4. InService = {} /\ InService' = {}
    BY <2>1 DEF InService
  <2>5. Stranded = {r.task : r \in S}
    BY DEF Stranded
  <2>6. S \subseteq Waiting
    BY WaitingIs
  <2>7. Promised!Lose(S)
    BY <1>0, <2>1, <2>3, <2>4, <2>5 DEF Promised!Lose
  <2> QED BY <2>6, <2>7
<1>4. CASE Restart
  <2> DEFINE S == Waiting \cup InService
  <2>1. /\ worker'.at = "idle" /\ queue' = <<>> /\ caller' = [c \in Callers |-> <<>>]
        /\ lost' = lost \cup {t \in Tasks : InFlight(t)}
    BY <1>4 DEF Restart, Resting
  <2>2. Waiting' = {} /\ InService' = {}
    BY <2>1, WaitingWillBe DEF InService
  <2>3. ASSUME NEW q
        PROVE  q \in S <=> \/ \E c \in Callers : Holds(c) /\ caller[c] = q
                           \/ \E i \in DOMAIN queue : queue[i] = q
                           \/ worker.req # <<>> /\ worker.req = q
    BY WaitingIs, RequestIsSome, HandIsRequest DEF InService, TypeInv, HandInv, Working
  <2>4. \A q \in S : q \in Request
    BY <2>3 DEF TypeInv, CallerInv, QueueInv, HandInv, Workers, Holds
  <2> HIDE DEF S
  <2>5. \A t \in Tasks : InFlight(t) <=> \E q \in S : q.task = t
    BY <2>3 DEF InFlight, Holds
  <2>6. \A q \in S : q.task \in Tasks
    BY <2>4 DEF Request
  <2>7. lost' = lost \cup {r.task : r \in S}
    BY <2>1, <2>5, <2>6
  <2>8. Promised!Lose(S)
    BY <1>0, <2>2, <2>7 DEF Promised!Lose, S
  <2> QED BY <2>8 DEF S
<1> QED BY <1>1, <1>2, <1>3, <1>4

LEMMA PromisedStep ==
  ASSUME TypeInv, ApartInv, AbsentInv, [Next]_vars
  PROVE  [Promised!Next]_Promised!promised
<1>1. CASE CallerStep
  BY <1>1, AskStep DEF CallerStep, Promised!Next
<1>2. CASE Take \/ \E c \in Callers : Send(c)
  BY <1>2, PassStep
<1>3. ASSUME NEW t \in Tasks, Confirm(t) PROVE Promised!Next
  <2>1. Waiting' = Waiting /\ InService' = InService
    BY <1>3 DEF Confirm, Waiting, InService
  <2>2. Promised!Confirm(t)
    BY <1>3, <2>1 DEF Confirm, AwaitsReview, Promised!Confirm
  <2> QED BY <2>2 DEF Promised!Next
<1>4. CASE Start
  BY <1>4, ServeStep DEF Promised!Next
<1>5. CASE Merge
  BY <1>5, EnterStep DEF Promised!Next
<1>6. CASE Write \/ Misconfigured
  BY <1>6, DecideStep DEF Promised!Next
<1>7. CASE (\E c \in Callers : Dropped(c)) \/ DbFails \/ Stop \/ Restart
  BY <1>7, LoseStep DEF Promised!Next
<1>8. ASSUME NEW v \in Verdicts, Answer(v) PROVE UNCHANGED Promised!promised
  <2>1. /\ worker.at = "agent" /\ worker'.at \in {"merge", "write"} /\ worker'.req = worker.req
        /\ UNCHANGED <<row, ingested, made, lost, confirmed, queue, caller>>
    BY <1>8 DEF Answer, TypeInv, HandInv, Workers
  <2>2. Waiting' = Waiting
    BY <2>1, WaitingElsewhere
  <2>3. InService' = InService
    BY <2>1 DEF InService
  <2> QED BY <2>1, <2>2, <2>3 DEF Promised!promised
<1>9. CASE Shutdown \/ UNCHANGED vars
  BY <1>9 DEF Shutdown, vars, Promised!promised, Waiting, InService
<1> QED BY <1>1, <1>2, <1>3, <1>4, <1>5, <1>6, <1>7, <1>8, <1>9 DEF Next, WorkerStep, Refused

LEMMA PromisedInit == Init => Promised!Init
<1> SUFFICES ASSUME Init PROVE Promised!Init
  OBVIOUS
<1>1. Waiting = {} /\ InService = {}
  BY DEF Init, Waiting, InService, Resting
<1> QED BY <1>1 DEF Init, Unused, Promised!Init

\* Every request is served once at most, one at a time, or is lost, whoever holds it when
\* callers drop out, statements fail and the process ends (scrape.rs, enqueue, run_one and
\* the loop of the worker).
THEOREM ServedOnce == Spec => RequestsAreServedOnce
<1>1. Init => TypeInv /\ ApartInv /\ AbsentInv
  BY TypeInit, ApartInit, AbsentInit
<1>2. (TypeInv /\ ApartInv /\ AbsentInv) /\ [Next]_vars => (TypeInv /\ ApartInv /\ AbsentInv)'
  BY TypeStep, ApartStep, AbsentStep
<1> QED BY <1>1, <1>2, PromisedInit, PromisedStep, PTL DEF Spec, RequestsAreServedOnce, Promised!Spec
=============================================================================
