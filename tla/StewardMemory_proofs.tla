------------------------ MODULE StewardMemory_proofs ------------------------
(***************************************************************************)
(* Proofs about StewardMemory, for any number of requests and messages.    *)
(* The inductive invariant adds to the properties what a request may rely  *)
(* on between two statements: the rows it has picked are still the oldest  *)
(* part of the window, whatever other requests have done since.            *)
(***************************************************************************)
EXTENDS StewardMemory, TLAPS

\* What a request read is about rows that exist.
LocalsOK == \A c \in Chats : /\ chat[c].rows \subseteq Messages
                             /\ chat[c].recalled \subseteq Messages
                             /\ chat[c].mine <= last

\* No row still in the window is older than a picked row and not picked itself.
RowsAreOldest == \A c \in Chats : \A m \in window, n \in chat[c].rows : m <= n => m \in chat[c].rows

IInv == /\ TypeOK
        /\ LocalsOK
        /\ RowsAreOldest
        /\ WindowIsNewest
        /\ ForgottenOnlyByStaleDigest

\* Before the first message the invariant holds.
LEMMA InitIInv == Init => IInv
<1> SUFFICES ASSUME Init
             PROVE  IInv
  OBVIOUS
<1>1. Messages = {}
  BY DEF Init, Messages
<1>2. chat \in [Chats -> ChatState]
  BY DEF Init, Idle, ChatState
<1>3. TypeOK
  BY <1>1, <1>2 DEF Init, TypeOK
<1>4. \A c \in Chats : chat[c].rows = {} /\ chat[c].recalled = {} /\ chat[c].mine = 0
  BY DEF Init, Idle
<1>5. LocalsOK /\ RowsAreOldest
  BY <1>4 DEF Init, LocalsOK, RowsAreOldest
<1>6. WindowIsNewest /\ ForgottenOnlyByStaleDigest
  BY <1>1 DEF Init, WindowIsNewest, ForgottenOnlyByStaleDigest, NothingForgotten
<1> QED
  BY <1>3, <1>5, <1>6 DEF IInv

\* What inserting a row does to the messages.
LEMMA InsertGrows ==
  ASSUME TypeOK, Insert
  PROVE  /\ last' = last + 1
         /\ Messages' = Messages \cup {last + 1}
         /\ window' = window \cup {last + 1}
         /\ \A m \in Messages : m < last + 1
  BY DEF TypeOK, Insert, Messages

\* Storing a row keeps the invariant when no request changes what it picked.
LEMMA InsertIInv ==
  ASSUME IInv, Insert, UNCHANGED <<summary, stale>>,
         chat' \in [Chats -> ChatState],
         \A c \in Chats : /\ chat'[c].rows = chat[c].rows \/ chat'[c].rows = {}
                          /\ chat'[c].recalled = chat[c].recalled \/ chat'[c].recalled = {}
                          /\ chat'[c].mine = chat[c].mine \/ chat'[c].mine = last + 1
  PROVE  IInv'
<1>1. /\ last' = last + 1
      /\ Messages' = Messages \cup {last + 1}
      /\ window' = window \cup {last + 1}
      /\ \A m \in Messages : m < last + 1
  BY InsertGrows DEF IInv
<1>2. TypeOK'
  BY <1>1 DEF IInv, TypeOK
<1>3. LocalsOK'
  <2> SUFFICES ASSUME NEW c \in Chats
               PROVE  /\ chat'[c].rows \subseteq Messages'
                      /\ chat'[c].recalled \subseteq Messages'
                      /\ chat'[c].mine <= last'
    BY DEF LocalsOK
  <2> QED
    BY <1>1 DEF IInv, LocalsOK, TypeOK, ChatState
<1>4. RowsAreOldest'
  <2> SUFFICES ASSUME NEW c \in Chats, NEW m \in window', NEW n \in chat'[c].rows, m <= n
               PROVE  m \in chat'[c].rows
    BY DEF RowsAreOldest
  <2>1. n \in chat[c].rows /\ chat'[c].rows = chat[c].rows
    OBVIOUS
  <2>2. n \in Messages /\ n < last + 1
    BY <2>1, <1>1 DEF IInv, LocalsOK
  <2>3. m \in window
    BY <1>1, <2>2 DEF IInv, TypeOK, Messages
  <2> QED
    BY <2>1, <2>3 DEF IInv, RowsAreOldest
<1>5. WindowIsNewest'
  BY <1>1 DEF IInv, WindowIsNewest, TypeOK
<1>6. ForgottenOnlyByStaleDigest'
  BY <1>1 DEF IInv, ForgottenOnlyByStaleDigest, NothingForgotten
<1> QED
  BY <1>2, <1>3, <1>4, <1>5, <1>6 DEF IInv

\* A step that only changes a request's locals keeps the rest.
LEMMA LocalIInv ==
  ASSUME IInv, UNCHANGED <<last, window, summary, stale>>, chat' \in [Chats -> ChatState], LocalsOK', RowsAreOldest'
  PROVE  IInv'
  BY DEF IInv, TypeOK, WindowIsNewest, ForgottenOnlyByStaleDigest, NothingForgotten, Messages

\* Committing a digest: what leaves the window is in the rows the digest covers,
\* and what was covered before still is unless the summary was read too early.
LEMMA CommitIInv ==
  ASSUME IInv, NEW c \in Chats, CommitDigest(c)
  PROVE  IInv'
<1>1. /\ Messages' = Messages
      /\ summary' = chat[c].recalled \cup chat[c].rows
      /\ window' = window \ UpTo(chat[c].rows)
      /\ stale' = (stale \/ chat[c].recalled # summary)
      /\ chat' = [chat EXCEPT ![c] = Idle]
      /\ last' = last
  BY DEF CommitDigest, Messages
<1>2. TypeOK'
  BY <1>1 DEF IInv, TypeOK, LocalsOK, Idle, ChatState
<1>3. LocalsOK'
  BY <1>1 DEF IInv, TypeOK, LocalsOK, Idle, ChatState
<1>4. RowsAreOldest'
  BY <1>1 DEF IInv, TypeOK, RowsAreOldest, Idle, ChatState
<1>5. WindowIsNewest'
  <2> SUFFICES ASSUME NEW m \in Messages \ window', NEW n \in window'
               PROVE  m < n
    BY <1>1 DEF WindowIsNewest
  <2>1. n \in window /\ n \in Messages /\ n \notin UpTo(chat[c].rows)
    BY <1>1 DEF IInv, TypeOK
  <2>2. CASE m \in window
    <3>1. PICK r \in chat[c].rows : m <= r
      BY <1>1, <2>2 DEF UpTo
    <3>2. r \in Messages /\ ~(n <= r)
      BY <2>1 DEF UpTo, IInv, LocalsOK
    <3> QED
      BY <3>1, <3>2, <2>1 DEF Messages, IInv, TypeOK
  <2>3. CASE m \notin window
    BY <2>1, <2>3 DEF IInv, WindowIsNewest
  <2> QED
    BY <2>2, <2>3
<1>6. ForgottenOnlyByStaleDigest'
  <2> SUFFICES ASSUME ~stale, chat[c].recalled = summary, NEW m \in Messages, m \notin window'
               PROVE  m \in summary'
    BY <1>1 DEF ForgottenOnlyByStaleDigest, NothingForgotten
  <2>1. CASE m \in window
    <3>1. PICK r \in chat[c].rows : m <= r
      BY <1>1, <2>1 DEF UpTo
    <3> QED
      BY <3>1, <2>1, <1>1 DEF IInv, RowsAreOldest
  <2>2. CASE m \notin window
    BY <2>2, <1>1 DEF IInv, ForgottenOnlyByStaleDigest, NothingForgotten
  <2> QED
    BY <2>1, <2>2
<1> QED
  BY <1>2, <1>3, <1>4, <1>5, <1>6 DEF IInv

\* The sets a request can read are sets of numbers.
LEMMA ReadsAreNumbers ==
  ASSUME TypeOK
  PROVE  /\ window \in SUBSET Nat
         /\ summary \in SUBSET Nat
         /\ \A c \in Chats : chat[c] \in ChatState /\ chat[c].recalled \in SUBSET Nat
  BY DEF TypeOK, Messages, ChatState

\* The inductive step.
LEMMA NextIInv == IInv /\ [Next]_vars => IInv'
<1> SUFFICES ASSUME IInv, [Next]_vars
             PROVE  IInv'
  OBVIOUS
<1>1. ASSUME NEW c \in Chats, Ask(c)
      PROVE  IInv'
  <2>1. /\ chat' = [chat EXCEPT ![c] = Asking(last + 1)]
        /\ Insert
        /\ UNCHANGED <<summary, stale>>
    BY <1>1 DEF Ask
  <2>2. /\ Asking(last + 1) \in ChatState
        /\ Asking(last + 1).rows = {}
        /\ Asking(last + 1).recalled = {}
        /\ Asking(last + 1).mine = last + 1
    BY DEF Asking, IInv, TypeOK, ChatState
  <2>3. chat' \in [Chats -> ChatState]
    BY <2>1, <2>2 DEF IInv, TypeOK
  <2>4. \A d \in Chats : /\ chat'[d].rows = chat[d].rows \/ chat'[d].rows = {}
                         /\ chat'[d].recalled = chat[d].recalled \/ chat'[d].recalled = {}
                         /\ chat'[d].mine = chat[d].mine \/ chat'[d].mine = last + 1
    BY <2>1, <2>2 DEF IInv, TypeOK
  <2>5. Insert /\ UNCHANGED <<summary, stale>>
    BY <2>1
  <2> QED
    BY <2>3, <2>4, <2>5, InsertIInv
<1>2. ASSUME NEW c \in Chats, Recall(c)
      PROVE  IInv'
  <2>1. /\ chat' = [chat EXCEPT ![c].at = "prompt", ![c].recalled = summary]
        /\ UNCHANGED <<last, window, summary, stale>>
    BY <1>2 DEF Recall
  <2>2. chat' \in [Chats -> ChatState]
    BY <2>1, ReadsAreNumbers DEF IInv, TypeOK, ChatState
  <2>3. LocalsOK'
    BY <2>1 DEF IInv, TypeOK, ChatState, LocalsOK, Messages
  <2>4. RowsAreOldest'
    BY <2>1 DEF IInv, TypeOK, ChatState, RowsAreOldest
  <2> QED
    BY <2>1, <2>2, <2>3, <2>4, LocalIInv
<1>3. ASSUME NEW c \in Chats, Assemble(c)
      PROVE  IInv'
  <2>1. /\ chat' = [chat EXCEPT ![c].at = "turn", ![c].prompt = Context(c)]
        /\ UNCHANGED <<last, window, summary, stale>>
    BY <1>3 DEF Assemble
  <2>2. chat' \in [Chats -> ChatState]
    BY <2>1, ReadsAreNumbers DEF IInv, TypeOK, ChatState, Context
  <2>3. LocalsOK'
    BY <2>1 DEF IInv, TypeOK, ChatState, LocalsOK, Messages
  <2>4. RowsAreOldest'
    BY <2>1 DEF IInv, TypeOK, ChatState, RowsAreOldest
  <2> QED
    BY <2>1, <2>2, <2>3, <2>4, LocalIInv
<1>4. ASSUME NEW c \in Chats, StoreTool(c)
      PROVE  IInv'
  BY <1>4, InsertIInv DEF StoreTool, IInv, TypeOK
<1>5. ASSUME NEW c \in Chats, StoreReply(c)
      PROVE  IInv'
  BY <1>5, InsertIInv DEF StoreReply, IInv, TypeOK, ChatState
<1>6. ASSUME NEW c \in Chats, PickOldest(c)
      PROVE  IInv'
  <2>1. PICK h \in SUBSET window : /\ OldestHalf(h)
                                   /\ chat' = [chat EXCEPT ![c].at = "merge", ![c].rows = h]
    BY <1>6 DEF PickOldest
  <2>2. \A m \in window, n \in h : m <= n => m \in h
    BY <2>1 DEF OldestHalf, IInv, TypeOK, Messages
  <2>3. UNCHANGED <<last, window, summary, stale>>
    BY <1>6 DEF PickOldest
  <2>4. chat' \in [Chats -> ChatState]
    BY <2>1, ReadsAreNumbers DEF IInv, TypeOK, ChatState
  <2>5. LocalsOK'
    BY <2>1, <2>3 DEF IInv, TypeOK, ChatState, LocalsOK, Messages
  <2>6. RowsAreOldest'
    BY <2>1, <2>2, <2>3 DEF IInv, TypeOK, ChatState, RowsAreOldest
  <2> QED
    BY <2>3, <2>4, <2>5, <2>6, LocalIInv
<1>7. ASSUME NEW c \in Chats, ReadPrevious(c)
      PROVE  IInv'
  <2>1. /\ chat' = [chat EXCEPT ![c].at = "digest", ![c].recalled = summary]
        /\ UNCHANGED <<last, window, summary, stale>>
    BY <1>7 DEF ReadPrevious
  <2>2. chat' \in [Chats -> ChatState]
    BY <2>1, ReadsAreNumbers DEF IInv, TypeOK, ChatState
  <2>3. LocalsOK'
    BY <2>1 DEF IInv, TypeOK, ChatState, LocalsOK, Messages
  <2>4. RowsAreOldest'
    BY <2>1 DEF IInv, TypeOK, ChatState, RowsAreOldest
  <2> QED
    BY <2>1, <2>2, <2>3, <2>4, LocalIInv
<1>8. ASSUME NEW c \in Chats, CommitDigest(c)
      PROVE  IInv'
  BY <1>8, CommitIInv
<1>9. ASSUME NEW c \in Chats, Finish(c)
      PROVE  IInv'
  BY <1>9, LocalIInv DEF Finish, Idle, IInv, TypeOK, ChatState, LocalsOK, RowsAreOldest, Messages
<1>10. CASE UNCHANGED vars
  BY <1>10 DEF vars, IInv, TypeOK, LocalsOK, RowsAreOldest, WindowIsNewest, Messages,
               ForgottenOnlyByStaleDigest, NothingForgotten
<1> QED
  BY <1>1, <1>2, <1>3, <1>4, <1>5, <1>6, <1>7, <1>8, <1>9, <1>10 DEF Next

\* The inductive invariant holds in every reachable state.
THEOREM Inductive == Spec => []IInv
<1> QED
  BY InitIInv, NextIInv, PTL DEF Spec

\* Every reachable state of a session is well typed.
THEOREM TypeCorrect == Spec => []TypeOK
<1>1. IInv => TypeOK
  BY DEF IInv
<1> QED
  BY <1>1, Inductive, PTL

\* The window is always the newest part of the conversation, for any number of
\* requests compacting at once.
THEOREM WindowStaysNewest == Spec => []WindowIsNewest
<1>1. IInv => WindowIsNewest
  BY DEF IInv
<1> QED
  BY <1>1, Inductive, PTL

\* Messages are forgotten by a digest that replaces a summary its author had
\* not read, and by nothing else the steward does.
THEOREM OnlyStaleDigestsForget == Spec => []ForgottenOnlyByStaleDigest
<1>1. IInv => ForgottenOnlyByStaleDigest
  BY DEF IInv
<1> QED
  BY <1>1, Inductive, PTL

\* While no digest is stale, a summary only grows.
LEMMA SummaryGrows ==
  ASSUME IInv, [Next]_vars, ~stale'
  PROVE  ~stale /\ summary \subseteq summary'
<1>1. ASSUME NEW c \in Chats, CommitDigest(c)
      PROVE  ~stale /\ summary \subseteq summary'
  BY <1>1 DEF CommitDigest
<1>2. CASE ~\E c \in Chats : CommitDigest(c)
  <2>1. ASSUME NEW c \in Chats, Ask(c) \/ Recall(c) \/ Assemble(c) \/ StoreTool(c) \/ StoreReply(c)
        PROVE  UNCHANGED <<summary, stale>>
    BY <2>1 DEF Ask, Recall, Assemble, StoreTool, StoreReply
  <2>2. ASSUME NEW c \in Chats, PickOldest(c) \/ ReadPrevious(c) \/ Finish(c)
        PROVE  UNCHANGED <<summary, stale>>
    BY <2>2 DEF PickOldest, ReadPrevious, Finish
  <2>3. UNCHANGED <<summary, stale>>
    BY <1>2, <2>1, <2>2 DEF Next, vars
  <2> QED
    BY <2>3
<1> QED
  BY <1>1, <1>2

\* What a turn knows about its prompt.
TurnOK(c) == chat[c].at = "turn" => /\ chat[c].recalled \subseteq chat[c].prompt
                                    /\ 1..chat[c].mine \ chat[c].prompt \subseteq summary

PromptsOK == ~stale => \A c \in Chats : TurnOK(c)

\* A turn begins with the summary and the window of that moment, and what is in
\* neither is in the summary by now; afterwards summaries only grow.
LEMMA PromptsStep ==
  ASSUME IInv, PromptsOK, [Next]_vars
  PROVE  PromptsOK'
<1> SUFFICES ASSUME ~stale', NEW d \in Chats, chat'[d].at = "turn"
             PROVE  /\ chat'[d].recalled \subseteq chat'[d].prompt
                    /\ 1..chat'[d].mine \ chat'[d].prompt \subseteq summary'
  BY DEF PromptsOK, TurnOK
<1>1. ~stale /\ summary \subseteq summary'
  BY SummaryGrows
<1>2. CASE chat'[d] = chat[d]
  BY <1>1, <1>2 DEF PromptsOK, TurnOK
<1>3. CASE Assemble(d)
  <2>1. /\ chat'[d].prompt = chat[d].recalled \cup window
        /\ chat'[d].recalled = chat[d].recalled
        /\ chat'[d].mine = chat[d].mine
        /\ chat[d].mine <= last
    BY <1>3 DEF Assemble, Context, IInv, TypeOK, LocalsOK, ChatState
  <2>2. 1..chat[d].mine \subseteq Messages
    BY <2>1 DEF Messages, IInv, TypeOK, ChatState
  <2>3. Messages \subseteq window \cup summary
    BY <1>1 DEF IInv, ForgottenOnlyByStaleDigest, NothingForgotten
  <2> QED
    BY <1>1, <2>1, <2>2, <2>3
<1>4. chat'[d] = chat[d] \/ Assemble(d)
  <2>1. ASSUME NEW c \in Chats, c # d,
               \/ Ask(c) \/ Recall(c) \/ Assemble(c) \/ StoreReply(c)
               \/ PickOldest(c) \/ ReadPrevious(c) \/ CommitDigest(c) \/ Finish(c)
        PROVE  chat'[d] = chat[d]
    BY <2>1 DEF Ask, Recall, Assemble, StoreReply, PickOldest, ReadPrevious, CommitDigest, Finish, IInv, TypeOK
  <2>2. ~(Ask(d) \/ Recall(d) \/ StoreReply(d) \/ PickOldest(d) \/ ReadPrevious(d) \/ CommitDigest(d) \/ Finish(d))
    BY DEF Ask, Asking, Recall, StoreReply, PickOldest, ReadPrevious, CommitDigest, Finish, Idle, IInv, TypeOK, ChatState
  <2>3. ASSUME NEW c \in Chats, StoreTool(c)
        PROVE  chat'[d] = chat[d]
    BY <2>3 DEF StoreTool
  <2>4. CASE UNCHANGED vars
    BY <2>4 DEF vars
  <2> QED
    BY <2>1, <2>2, <2>3, <2>4 DEF Next
<1> QED
  BY <1>2, <1>3, <1>4

\* A prompt misses only what was compacted between the two reads it is made of.
THEOREM PromptsMissLittle == Spec => []PromptMissesTheJustCompacted
<1>1. Init => PromptsOK
  BY DEF Init, PromptsOK, TurnOK, Idle
<1>2. IInv /\ PromptsOK /\ [Next]_vars => PromptsOK'
  BY PromptsStep
<1>3. PromptsOK => PromptMissesTheJustCompacted
  BY DEF PromptsOK, TurnOK, PromptMissesTheJustCompacted
<1> QED
  BY <1>1, <1>2, <1>3, Inductive, PTL DEF Spec

\* A row leaves the context only together with a summary that covers it, and a row
\* that has left it never comes back.
THEOREM RowsLeaveOnlyIntoSummary == Spec => RowsLeaveIntoSummary
<1> DEFINE Covered == window \ window' \subseteq summary'
           Final == window' \cap Messages \subseteq window
<1>1. IInv /\ [Next]_vars => [Covered /\ Final]_vars
  <2> SUFFICES ASSUME IInv, Next
               PROVE  Covered /\ Final
    OBVIOUS
  <2>1. ASSUME NEW c \in Chats, CommitDigest(c)
        PROVE  Covered /\ Final
    BY <2>1 DEF CommitDigest, UpTo, IInv, RowsAreOldest
  <2>2. CASE UNCHANGED window
    BY <2>2
  <2>3. CASE Insert
    BY <2>3, InsertGrows DEF IInv, TypeOK, Messages
  <2> QED
    BY <2>1, <2>2, <2>3 DEF Next, Ask, Recall, Assemble, StoreTool, StoreReply, PickOldest, ReadPrevious, Finish
<1> QED
  BY <1>1, Inductive, PTL DEF Spec, RowsLeaveIntoSummary

\* The summary a lone request merges with is the one it replaces.
LEMMA LoneStep ==
  ASSUME IInv, NEW c \in Chats, Chats = {c}, [Next]_vars,
         ~stale, chat[c].at = "digest" => chat[c].recalled = summary
  PROVE  ~stale' /\ (chat'[c].at = "digest" => chat'[c].recalled = summary')
<1>1. CASE CommitDigest(c)
  BY <1>1 DEF CommitDigest, Idle, IInv, TypeOK
<1>2. CASE Ask(c) \/ Finish(c)
  BY <1>2 DEF Ask, Asking, Finish, Idle, IInv, TypeOK
<1>3. CASE StoreTool(c) \/ UNCHANGED vars
  BY <1>3 DEF StoreTool, vars
<1>4. CASE Recall(c) \/ Assemble(c) \/ StoreReply(c) \/ PickOldest(c) \/ ReadPrevious(c)
  BY <1>4 DEF Recall, Assemble, StoreReply, PickOldest, ReadPrevious, IInv, TypeOK, ChatState
<1> QED
  BY <1>1, <1>2, <1>3, <1>4 DEF Next

\* One request at a time forgets nothing: the defect takes two.
THEOREM LoneRequestForgetsNothing ==
  ASSUME NEW c \in Chats, Chats = {c}
  PROVE  Spec => []NothingForgotten
<1> DEFINE Fresh == ~stale /\ (chat[c].at = "digest" => chat[c].recalled = summary)
<1>1. Init => Fresh
  BY DEF Init, Idle
<1>2. IInv /\ Fresh /\ [Next]_vars => Fresh'
  BY LoneStep
<1>3. IInv /\ Fresh => NothingForgotten
  BY DEF IInv, ForgottenOnlyByStaleDigest
<1> HIDE DEF Fresh
<1> QED
  BY <1>1, <1>2, <1>3, Inductive, PTL DEF Spec
=============================================================================
