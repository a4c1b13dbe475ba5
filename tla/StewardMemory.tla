--------------------------- MODULE StewardMemory ---------------------------
(***************************************************************************)
(* The steward's layered memory of one chat session                        *)
(* (nipa-server/src/steward/mod.rs).  A chat request inserts the user's    *)
(* message, reads the rolling summary and the window of messages that are  *)
(* still in context, lets the model answer, inserts the tool rows and the  *)
(* reply, and then may compact: the oldest half of the window is folded    *)
(* into the summary and leaves the window.  Every database statement is an *)
(* await point, so the requests of one session interleave between them.    *)
(*                                                                         *)
(* A message is its row id (the ids of a session grow, rows are never      *)
(* deleted), and a summary is the set of messages whose content went into  *)
(* it: what the model writes about them is not modelled.                   *)
(***************************************************************************)
EXTENDS Naturals, FiniteSets

CONSTANTS Chats,        \* requests that may be in flight on the session
          MaxMessages   \* bound on the rows of the session

ASSUME MaxMessagesAssumption == MaxMessages \in Nat

VARIABLES last,     \* id of the newest row of chat_messages
          window,   \* the rows with in_context = 1
          summary,  \* chat_sessions.summary
          chat,     \* what each request in flight holds in its locals
          stale     \* has a summary ever replaced one its author had not read?

vars == <<last, window, summary, chat, stale>>

Messages == 1..last

Idle == [at |-> "idle", mine |-> 0, recalled |-> {}, prompt |-> {}, rows |-> {}]

\* The user's message is stored as row id; nothing is read yet.
Asking(id) == [at |-> "recall", mine |-> id, recalled |-> {}, prompt |-> {}, rows |-> {}]

\* mine: the row of the user's message.  recalled: the summary last read.
\* prompt: the messages the model sees.  rows: the half to be compacted.
ChatState == [at : {"idle", "recall", "prompt", "turn", "compact", "merge", "digest"},
              mine : Nat, recalled : SUBSET Nat, prompt : SUBSET Nat, rows : SUBSET Nat]

TypeOK == /\ last \in Nat
          /\ window \subseteq Messages
          /\ summary \subseteq Messages
          /\ chat \in [Chats -> ChatState]
          /\ stale \in BOOLEAN

Init == /\ last = 0
        /\ window = {}
        /\ summary = {}
        /\ chat = [c \in Chats |-> Idle]
        /\ stale = FALSE

\* INSERT INTO chat_messages: the new row takes the next id and is in context.
Insert == /\ last < MaxMessages
          /\ last' = last + 1
          /\ window' = window \cup {last + 1}

\* The request stores the user's message before anything is read.
Ask(c) == /\ chat[c].at = "idle"
          /\ Insert
          /\ chat' = [chat EXCEPT ![c] = Asking(last + 1)]
          /\ UNCHANGED <<summary, stale>>

\* assemble_context: the summary of the earlier conversation is read first ...
Recall(c) == /\ chat[c].at = "recall"
             /\ chat' = [chat EXCEPT ![c].at = "prompt", ![c].recalled = summary]
             /\ UNCHANGED <<last, window, summary, stale>>

\* (mutant) the layer of the earlier conversation is left out
ContextWithoutSummary(c) == window

\* The conversation layers of the prompt: the summary, then the window.
Context(c) == chat[c].recalled \cup window

\* ... and the window by a second statement; the prompt is made of the two.
Assemble(c) == /\ chat[c].at = "prompt"
               /\ chat' = [chat EXCEPT ![c].at = "turn", ![c].prompt = Context(c)]
               /\ UNCHANGED <<last, window, summary, stale>>

\* A tool interaction of the finished turn is stored as a row of its own.
StoreTool(c) == /\ chat[c].at = "turn"
                /\ Insert
                /\ UNCHANGED <<summary, chat, stale>>

\* The reply, or the apology for a failed turn, ends the turn.
StoreReply(c) == /\ chat[c].at = "turn"
                 /\ Insert
                 /\ chat' = [chat EXCEPT ![c].at = "compact", ![c].prompt = {}, ![c].recalled = {}]
                 /\ UNCHANGED <<summary, stale>>

\* The oldest half of the window, rounded down.
OldestHalf(h) == /\ h \subseteq window
                 /\ h # {}
                 /\ \A m \in h, n \in window \ h : m < n
                 /\ Cardinality(h) = Cardinality(window) \div 2

\* maybe_compact reads the window; whether it is over the budget depends on the
\* length of the messages, so any window of two rows or more may be.
PickOldest(c) == /\ chat[c].at = "compact"
                 /\ \E h \in SUBSET window : /\ OldestHalf(h)
                                             /\ chat' = [chat EXCEPT ![c].at = "merge", ![c].rows = h]
                 /\ UNCHANGED <<last, window, summary, stale>>

\* The previous summary, to be merged with, is read after the window.
ReadPrevious(c) == /\ chat[c].at = "merge"
                   /\ chat' = [chat EXCEPT ![c].at = "digest", ![c].recalled = summary]
                   /\ UNCHANGED <<last, window, summary, stale>>

\* (mutant) the bound is the first row kept, not the last row compacted
UpToNext(h) == {m \in Messages : \E n \in h : m <= n + 1}

\* (mutant) WHERE id = last_id
LastOf(h) == {m \in h : \A n \in h : n <= m}

\* WHERE id <= last_id
UpTo(h) == {m \in Messages : \E n \in h : m <= n}

\* The model's digest arrives: one transaction replaces the summary and takes
\* every row up to the last compacted one out of context.
CommitDigest(c) == /\ chat[c].at = "digest"
                   /\ summary' = chat[c].recalled \cup chat[c].rows
                   /\ window' = window \ UpTo(chat[c].rows)
                   /\ stale' = (stale \/ chat[c].recalled # summary)
                   /\ chat' = [chat EXCEPT ![c] = Idle]
                   /\ UNCHANGED last

\* The request ends without a compaction (under budget, a failed or empty
\* digest), or is dropped at any await by an error or a closed connection.
Finish(c) == /\ chat[c].at # "idle"
             /\ chat' = [chat EXCEPT ![c] = Idle]
             /\ UNCHANGED <<last, window, summary, stale>>

Next == \E c \in Chats : \/ Ask(c)
                         \/ Recall(c)
                         \/ Assemble(c)
                         \/ StoreTool(c)
                         \/ StoreReply(c)
                         \/ PickOldest(c)
                         \/ ReadPrevious(c)
                         \/ CommitDigest(c)
                         \/ Finish(c)

Spec == Init /\ [][Next]_vars

-----------------------------------------------------------------------------
(* Properties *)

\* Every message of the session can still reach the model: it is in the window
\* or went into the summary (compaction "folds the oldest half into summary").
NothingForgotten == Messages \subseteq window \cup summary

\* A message is forgotten only when some compaction overwrote a summary that
\* another request had committed after it read the one it merged with.
ForgottenOnlyByStaleDigest == stale \/ NothingForgotten

\* However compactions of one session interleave, what is out of context is
\* older than everything in context: the prompt never has a hole in its window.
WindowIsNewest == \A m \in Messages \ window, n \in window : m < n

\* The prompt of a turn holds the session up to the message the user has just
\* sent, but for what was compacted between its two reads: that is in neither
\* part of it, and is in the summary of the next prompt.
PromptMissesTheJustCompacted ==
  \A c \in Chats : ~stale /\ chat[c].at = "turn"
                   => 1..chat[c].mine \ chat[c].prompt \subseteq summary \ chat[c].recalled

\* Compaction never returns a row to the context, and a row leaves it only
\* together with a new summary that covers it.
RowsLeaveIntoSummary ==
  [][/\ window \ window' \subseteq summary'
     /\ window' \cap Messages \subseteq window]_vars
=============================================================================
