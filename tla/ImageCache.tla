----------------------------- MODULE ImageCache -----------------------------
(***************************************************************************)
(* The cache of one image (nipa-server/src/images.rs): the first request   *)
(* downloads it into a temporary file and renames it, a request for a      *)
(* width scales it into a file beside it; whatever exists is served.       *)
(* Requests share the names of these files, and nothing but the file       *)
(* system orders them.                                                     *)
(*                                                                         *)
(* A file is a node with the halves that have been written to it; a writer *)
(* keeps its node when the name goes.  A request whose client leaves is    *)
(* dropped at an await; what it has handed to the blocking pool goes on.   *)
(***************************************************************************)
EXTENDS Naturals, FiniteSets

CONSTANTS Requests

\* There is a node to spare for each name and request, however many there are.
RequestsAssumption == IsFiniteSet(Requests)

VARIABLES node,    \* the node that each name stands for, 0 for none
          half,    \* the halves written to each node
          req,     \* the requests
          shared,  \* have two downloads been under way at once?
          cut,     \* has a download been dropped, or could not be written?
          broken   \* has scaling failed, or the process ended?

vars == <<node, half, req, shared, cut, broken>>

Names == {"temporary", "original", "scaled"}
Nodes == 1..Cardinality(Names) + Cardinality(Requests)
Halves == {1, 2}

Away == [at |-> "away", node |-> 0, scale |-> FALSE, left |-> FALSE]

\* A closure on the blocking pool, which nobody can cancel.
Blocking == {"decode", "scale 1", "scale 2"}
\* Steps that are one call on the blocking pool each: once begun they end.
FileCalls == {"create", "write 1", "write 2", "rename"}
\* The places at which a request has a file open.
Open == {"write 1", "write 2", "scale 1", "scale 2"}

Places == {"away", "find", "fetch", "scale", "serve"} \cup FileCalls \cup Blocking

TypeOK == /\ node \in [Names -> {0} \cup Nodes]
          /\ half \in [Nodes -> SUBSET Halves]
          /\ req \in [Requests -> [at : Places, node : {0} \cup Nodes, scale : BOOLEAN, left : BOOLEAN]]
          /\ \A r \in Requests : req[r].node # 0 <=> req[r].at \in Open
          /\ shared \in BOOLEAN /\ cut \in BOOLEAN /\ broken \in BOOLEAN

Init == /\ node = [n \in Names |-> 0]
        /\ half = [i \in Nodes |-> {}]
        /\ req = [r \in Requests |-> Away]
        /\ shared = FALSE /\ cut = FALSE /\ broken = FALSE

-----------------------------------------------------------------------------
(* Files *)

Exists(name) == node[name] # 0
IsWhole(i) == half[i] = Halves

Unused == Nodes \ ({node[n] : n \in Names} \cup {req[r].node : r \in Requests})

\* On to a place with a node in hand.  If the client has left, only a closure
\* goes on.
Moves(r, place, i) ==
  req' = [req EXCEPT ![r] = IF @.left /\ place \notin Blocking
                            THEN Away
                            ELSE [@ EXCEPT !.at = place, !.node = i]]

Goes(r, place) == Moves(r, place, 0)

\* File::create: an existing file is emptied for everyone who has it.
Created(r, name, place) ==
  \E i \in IF Exists(name) THEN {node[name]} ELSE {CHOOSE u \in Unused : TRUE} :
    /\ node' = [node EXCEPT ![name] = i]
    /\ half' = [half EXCEPT ![i] = {}]
    /\ Moves(r, place, i)

Wrote(r, n) == half' = [half EXCEPT ![req[r].node] = @ \cup {n}]

-----------------------------------------------------------------------------
(* A request *)

Ask(r) == /\ req[r].at = "away"
          /\ \E scale \in BOOLEAN : req' = [req EXCEPT ![r] = [Away EXCEPT !.at = "find", !.scale = scale]]
          /\ UNCHANGED <<node, half, shared, cut, broken>>

AfterOriginal(r) == IF req[r].scale THEN "scale" ELSE "serve"

Find(r) == /\ req[r].at = "find"
           /\ Goes(r, IF Exists("original") THEN AfterOriginal(r) ELSE "fetch")
           /\ UNCHANGED <<node, half, shared, cut, broken>>

\* The whole response is read before a file is created.
Fetch(r) == /\ req[r].at = "fetch"
            /\ Goes(r, "create")
            /\ UNCHANGED <<node, half, shared, cut, broken>>

\* (mutant) no temporary file
Direct == "original"

Target == "temporary"

Writes == {"write 1", "write 2", "rename"}

Create(r) == /\ req[r].at = "create"
             /\ Created(r, Target, "write 1")
             /\ shared' = (shared \/ \E q \in Requests \ {r} : req[q].at \in Writes)
             /\ UNCHANGED <<cut, broken>>

WriteFirst(r) == /\ req[r].at = "write 1"
                 /\ Wrote(r, 1)
                 /\ Moves(r, "write 2", req[r].node)
                 /\ UNCHANGED <<node, shared, cut, broken>>

\* (mutant) the handle is dropped before the last write has ended
Unflushed == 1

Flushed == 2

HandleDropped(r) == 0

WriteLast(r) == /\ req[r].at = "write 2"
                /\ Wrote(r, Flushed)
                /\ Moves(r, "rename", HandleDropped(r))
                /\ UNCHANGED <<node, shared, cut, broken>>

\* Whatever has the temporary name by now becomes the original.  If another
\* request has taken it the client is sent to the source.
Rename(r) == /\ req[r].at = "rename"
             /\ IF Exists(Target)
                THEN /\ node' = [node EXCEPT ![Target] = 0, !["original"] = node[Target]]
                     /\ Goes(r, AfterOriginal(r))
                ELSE /\ req' = [req EXCEPT ![r] = Away]
                     /\ UNCHANGED node
             /\ UNCHANGED <<half, shared, cut, broken>>

\* An error on the way: the client is sent to the source.
Redirect(r) == /\ req[r].at \in {"fetch", "create"}
               /\ req' = [req EXCEPT ![r] = Away]
               /\ UNCHANGED <<node, half, shared, cut, broken>>

\* The disk is full while the download is written: the client is sent to the
\* source, and what has been written stays under whatever name it has by now.
WriteFails(r) == /\ req[r].at \in {"write 1", "write 2"}
                 /\ req' = [req EXCEPT ![r] = Away]
                 /\ cut' = TRUE
                 /\ UNCHANGED <<node, half, shared, broken>>

\* A scaled file that exists is served.
Scale(r) == /\ req[r].at = "scale"
            /\ Goes(r, IF Exists("scaled") THEN "serve" ELSE "decode")
            /\ UNCHANGED <<node, half, shared, cut, broken>>

\* Of half an original nothing is made, not even an empty file.
Decode(r) == /\ req[r].at = "decode"
             /\ IF IsWhole(node["original"])
                THEN Created(r, "scaled", "scale 1")
                ELSE Goes(r, "serve") /\ UNCHANGED <<node, half>>
             /\ UNCHANGED <<shared, cut, broken>>

Draw(r) == /\ \/ req[r].at = "scale 1" /\ Wrote(r, 1) /\ Moves(r, "scale 2", req[r].node)
              \/ req[r].at = "scale 2" /\ Wrote(r, 2) /\ Goes(r, "serve")
           /\ UNCHANGED <<node, shared, cut, broken>>

\* The disk is full: what has been written stays.
DrawFails(r) == /\ req[r].at \in {"scale 1", "scale 2"}
                /\ Goes(r, "serve")
                /\ broken' = TRUE
                /\ UNCHANGED <<node, half, shared, cut>>

Serve(r) == /\ req[r].at = "serve"
            /\ req' = [req EXCEPT ![r] = Away]
            /\ UNCHANGED <<node, half, shared, cut, broken>>

\* (mutant) scaling ends with its request
InlineScaling == FileCalls

RunsOn == FileCalls \cup Blocking

\* The client leaves and the request is dropped where it waits; a call it has
\* handed to the blocking pool is made all the same.
Leave(r) == /\ req[r].at # "away" /\ ~req[r].left
            /\ \/ req[r].at \in RunsOn /\ req' = [req EXCEPT ![r].left = TRUE]
               \/ req[r].at \notin Blocking \cap RunsOn /\ req' = [req EXCEPT ![r] = Away]
            /\ cut' = (cut \/ req[r].at \in FileCalls)
            /\ UNCHANGED <<node, half, shared, broken>>

\* The process ends and starts again.
Restart == /\ req' = [r \in Requests |-> Away]
           /\ cut' = (cut \/ \E r \in Requests : req[r].at \in Writes)
           /\ broken' = (broken \/ \E r \in Requests : req[r].at \in {"scale 1", "scale 2"})
           /\ UNCHANGED <<node, half, shared>>

Next == \/ Restart
        \/ \E r \in Requests : \/ Ask(r) \/ Find(r) \/ Fetch(r) \/ Create(r) \/ WriteFirst(r)
                               \/ WriteLast(r) \/ WriteFails(r) \/ Rename(r) \/ Redirect(r)
                               \/ Scale(r) \/ Decode(r) \/ Draw(r) \/ DrawFails(r) \/ Serve(r)
                               \/ Leave(r)

Spec == Init /\ [][Next]_vars

-----------------------------------------------------------------------------
(* Properties *)

Has(r, name) == req[r].node # 0 /\ req[r].node = node[name]

\* Downloads that are never two at a time keep a whole original whatever is cut
\* off when: the rename publishes complete files only.
LoneDownloadIsWhole == ~shared /\ Exists("original") => IsWhole(node["original"])

\* Half an original, which overlapping downloads can leave under its name, is
\* still being written, unless a download was cut off or could not be written: then it
\* stays.  So is half a scaled image, unless drawing once failed or the process ended:
\* a client that leaves does no harm.
HalfFilesAreBeingWritten ==
  /\ ~cut /\ Exists("original") /\ ~IsWhole(node["original"]) =>
       \E r \in Requests : Has(r, "original")
  /\ ~broken /\ Exists("scaled") /\ ~IsWhole(node["scaled"]) =>
       \E r \in Requests : Has(r, "scaled") /\ req[r].at \in {"scale 1", "scale 2"}
=============================================================================
