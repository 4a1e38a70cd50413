-------------------------- MODULE MessagingProofs --------------------------
(***************************************************************************)
(* Proofs about Messaging, for any number of conversations, messages, keys *)
(* and coroutines and any bounds.                                          *)
(***************************************************************************)
EXTENDS Messaging, TLAPS

Busy(t) == task[t].pc # "idle"

\* What a coroutine has in hand is typed, and a retry has been allowed.
WorkOK ==
    \A t \in Tasks : Busy(t) =>
        /\ task[t].msg \in used
        /\ task[t].conv \in Conversations
        /\ task[t].pc = "retrying" => task[t].num < MaxRetries

ConversationType ==
    [state : {"absent", "present", "deleted"},
     last : MessageIds \cup {None}, unread : BOOLEAN, dated : BOOLEAN]

RowsOK == \A m \in live : row[m].conv \in Conversations

TypeInv == TypeOK /\ WorkOK /\ RowsOK

LEMMA InitTypeInv == Init => TypeInv
<1> SUFFICES ASSUME Init PROVE TypeInv
  OBVIOUS
<1>1. TableTypes
  <2>1. /\ NewConversation \in ConversationType
        /\ EmptyConversation \in ConversationType
    BY DEF NewConversation, EmptyConversation, ConversationType
  <2>2. conversation \in [Conversations -> ConversationType]
    BY <2>1 DEF Init
  <2> QED
    BY <2>2, ConstantsAssumption
    DEF Init, TableTypes, Blank, Statuses, ConversationType
<1>2. TaskTypes /\ HistoryTypes
  BY ConstantsAssumption DEF Init, TaskTypes, HistoryTypes, Idle, Statuses
<1>3. WorkOK /\ RowsOK
  BY DEF Init, WorkOK, RowsOK, Busy, Idle
<1> QED
  BY <1>1, <1>2, <1>3 DEF TypeInv, TypeOK

LEMMA NextSequenceType ==
    ASSUME TypeInv, NEW c \in Conversations, NEW n \in NextSequence(c)
    PROVE  n \in Nat
  BY DEF TypeInv, TypeOK, TableTypes, NextSequence, SequencesOf

LEMMA StartSendType ==
    ASSUME TypeInv, NEW t \in Tasks, NEW c \in Conversations,
           NEW k \in Keys \cup {None}, StartSend(t, c, k)
    PROVE  TypeInv'
<1>1. PICK m \in MessageIds \ used, n \in NextSequence(c) :
        /\ used' = used \cup {m}
        /\ task' = [task EXCEPT ![t] =
            [pc |-> "inserting", conv |-> c, msg |-> m, key |-> k,
             inbound |-> FALSE, num |-> n]]
  BY DEF StartSend
<1>2. n \in Nat
  BY NextSequenceType
<1>3. TableTypes' /\ HistoryTypes'
  BY <1>1 DEF TypeInv, TypeOK, TableTypes, HistoryTypes, StartSend, rows
<1>4. TaskTypes'
  BY <1>1, <1>2, ConstantsAssumption
  DEF TypeInv, TypeOK, TaskTypes, StartSend, Hold
<1>5. WorkOK' /\ RowsOK'
  BY <1>1, <1>2
  DEF TypeInv, TypeOK, TaskTypes, WorkOK, RowsOK, Busy, StartSend, rows
<1> QED
  BY <1>3, <1>4, <1>5 DEF TypeInv, TypeOK

LEMMA ReuseKeyType ==
    ASSUME TypeInv, NEW t \in Tasks, NEW c \in Conversations,
           NEW m \in MessageIds, ReuseKey(t, c, m)
    PROVE  TypeInv'
<1>1. TableTypes' /\ HistoryTypes'
  <2>1. reuses' \in 0 .. MaxReuses
    BY ConstantsAssumption DEF TypeInv, TypeOK, HistoryTypes, ReuseKey
  <2> QED
    BY <2>1 DEF TypeInv, TypeOK, TableTypes, HistoryTypes, ReuseKey, rows
<1>2. TaskTypes'
  BY ConstantsAssumption
  DEF TypeInv, TypeOK, TableTypes, TaskTypes, ReuseKey, Hold
<1>3. WorkOK' /\ RowsOK'
  BY DEF TypeInv, TypeOK, TableTypes, TaskTypes, WorkOK, RowsOK, Busy,
         ReuseKey, rows
<1> QED
  BY <1>1, <1>2, <1>3 DEF TypeInv, TypeOK

LEMMA ReceiveInboundType ==
    ASSUME TypeInv, NEW t \in Tasks, NEW c \in Conversations,
           ReceiveInbound(t, c)
    PROVE  TypeInv'
<1>1. PICK m \in MessageIds \ used, n \in NextSequence(c) :
        /\ used' = used \cup {m}
        /\ task' = [task EXCEPT ![t] =
            [pc |-> "inserting", conv |-> c, msg |-> m, key |-> None,
             inbound |-> TRUE, num |-> n]]
        /\ conversation' = [conversation EXCEPT ![c] =
            IF c \in Telegram
            THEN [@ EXCEPT !.state = "present", !.last = m, !.unread = TRUE]
            ELSE [@ EXCEPT !.state = "present"]]
  BY DEF ReceiveInbound
<1>2. n \in Nat
  BY NextSequenceType
<1>3. TableTypes' /\ HistoryTypes'
  <2>1. conversation \in [Conversations -> ConversationType]
    BY DEF TypeInv, TypeOK, TableTypes, ConversationType
  <2>2. conversation' \in [Conversations -> ConversationType]
    <3>1. [conversation[c] EXCEPT !.state = "present", !.last = m, !.unread = TRUE]
            \in ConversationType
      BY <2>1 DEF ConversationType
    <3>2. [conversation[c] EXCEPT !.state = "present"] \in ConversationType
      BY <2>1 DEF ConversationType
    <3> QED
      BY <1>1, <2>1, <3>1, <3>2
  <2> QED
    BY <1>1, <2>2
    DEF TypeInv, TypeOK, TableTypes, HistoryTypes, ReceiveInbound, rows,
        ConversationType
<1>4. TaskTypes'
  BY <1>1, <1>2, ConstantsAssumption
  DEF TypeInv, TypeOK, TaskTypes, ReceiveInbound, Hold
<1>5. WorkOK' /\ RowsOK'
  BY <1>1, <1>2
  DEF TypeInv, TypeOK, TaskTypes, WorkOK, RowsOK, Busy, ReceiveInbound, rows
<1> QED
  BY <1>3, <1>4, <1>5 DEF TypeInv, TypeOK

LEMMA InsertMessageType ==
    ASSUME TypeInv, NEW t \in Tasks, InsertMessage(t)
    PROVE  TypeInv'
<1>1. task[t].msg \in used /\ task[t].conv \in Conversations
  BY DEF TypeInv, WorkOK, Busy, InsertMessage
<1>2. TableTypes'
  <2>1. row' \in [MessageIds ->
            [conv : Conversations \cup {None}, seq : Nat, inbound : BOOLEAN,
             key : Keys \cup {None}]]
    BY <1>1 DEF TypeInv, TypeOK, TableTypes, TaskTypes, InsertMessage
  <2>2. conversation' \in [Conversations -> ConversationType]
    <3>1. task[t].msg \in MessageIds /\ task[t].inbound \in BOOLEAN
      BY <1>1 DEF TypeInv, TypeOK, TableTypes, TaskTypes
    <3> DEFINE c == task[t].conv
               changed == [conversation[c] EXCEPT !.last = task[t].msg,
                                                  !.unread = task[t].inbound]
    <3>2. conversation \in [Conversations -> ConversationType]
      BY DEF TypeInv, TypeOK, TableTypes, ConversationType
    <3>3. conversation' = [conversation EXCEPT ![c] = changed]
      BY <1>1, <3>2 DEF InsertMessage, ConversationType
    <3>4. changed \in ConversationType
      <4>1. ASSUME NEW old \in ConversationType
            PROVE  [old EXCEPT !.last = task[t].msg, !.unread = task[t].inbound]
                        \in ConversationType
        BY <3>1 DEF ConversationType
      <4> QED
        BY <1>1, <3>2, <4>1
    <3> HIDE DEF changed
    <3> QED
      BY <3>2, <3>3, <3>4
  <2> QED
    BY <1>1, <2>1, <2>2
    DEF TypeInv, TypeOK, TableTypes, InsertMessage, ConversationType
<1>3. TaskTypes'
  BY <1>1 DEF TypeInv, TypeOK, TaskTypes, InsertMessage, Goto, Release
<1>4. HistoryTypes'
  BY <1>1
  DEF TypeInv, TypeOK, TableTypes, HistoryTypes, InsertMessage
<1>5. WorkOK'
  BY <1>1 DEF TypeInv, TypeOK, TaskTypes, WorkOK, Busy, InsertMessage, Goto
<1>6. RowsOK'
  BY <1>1 DEF TypeInv, TypeOK, TableTypes, RowsOK, InsertMessage
<1> QED
  BY <1>2, <1>3, <1>4, <1>5, <1>6 DEF TypeInv, TypeOK

LEMMA FinishType ==
    ASSUME TypeInv, NEW t \in Tasks, Finish(t), loop' = loop \/ Release(t),
           UNCHANGED <<live, row, used>>
    PROVE  TaskTypes' /\ WorkOK' /\ RowsOK'
<1>1. TaskTypes'
  BY DEF TypeInv, TypeOK, TaskTypes, Finish, Release, Idle
<1>2. WorkOK' /\ RowsOK'
  BY DEF TypeInv, TypeOK, TaskTypes, WorkOK, RowsOK, Busy, Finish, Idle
<1> QED
  BY <1>1, <1>2

LEMMA GotoType ==
    ASSUME TypeInv, NEW t \in Tasks, Busy(t),
           NEW pc \in {"sending", "accepted", "failing"}, Goto(t, pc),
           loop' = loop \/ Release(t), UNCHANGED <<live, row, used>>
    PROVE  TaskTypes' /\ WorkOK' /\ RowsOK'
<1>1. TaskTypes'
  BY DEF TypeInv, TypeOK, TaskTypes, Goto, Release
<1>2. WorkOK' /\ RowsOK'
  BY DEF TypeInv, TypeOK, TaskTypes, WorkOK, RowsOK, Busy, Goto
<1> QED
  BY <1>1, <1>2

\* What a coroutine does after its INSERT, and its end.
LEMMA ContinueType ==
    ASSUME TypeInv, NEW t \in Tasks, Continue(t) \/ ChannelAccepts(t)
    PROVE  TypeInv'
<1> USE DEF rows, history
<1>0. Busy(t) => task[t].msg \in MessageIds
  BY DEF TypeInv, TypeOK, TableTypes, WorkOK
<1>1. CASE InsertMessage(t)
  BY <1>1, InsertMessageType
<1>2. CASE InsertRejected(t)
  <2>1. TableTypes' /\ HistoryTypes'
    BY <1>2 DEF TypeInv, TypeOK, TableTypes, HistoryTypes, InsertRejected
  <2> QED
    BY <1>2, <2>1, FinishType DEF TypeInv, TypeOK, InsertRejected
<1>3. CASE EnqueueForAgent(t)
  <2>1. TableTypes' /\ HistoryTypes'
    BY <1>0, <1>3
    DEF TypeInv, TypeOK, TableTypes, HistoryTypes, EnqueueForAgent, Queued, Busy
  <2> QED
    BY <1>3, <2>1, FinishType DEF TypeInv, TypeOK, EnqueueForAgent
<1>4. CASE AnnouncementLost(t)
  <2>1. TableTypes' /\ HistoryTypes'
    BY <1>0, <1>4
    DEF TypeInv, TypeOK, TableTypes, HistoryTypes, AnnouncementLost, Busy
  <2> QED
    BY <1>4, <2>1, FinishType DEF TypeInv, TypeOK, AnnouncementLost
<1>5. CASE MarkPending(t)
  <2>1. TableTypes' /\ HistoryTypes'
    BY <1>0, <1>5
    DEF TypeInv, TypeOK, TableTypes, HistoryTypes, MarkPending, Statuses, Busy
  <2> QED
    BY <1>5, <2>1, GotoType DEF TypeInv, TypeOK, MarkPending, Busy
<1>6. CASE CommitRetry(t)
  <2>1. task[t].num \in Nat /\ task[t].num < MaxRetries
    BY <1>6 DEF TypeInv, TypeOK, TaskTypes, WorkOK, Busy, CommitRetry
  <2>2. task[t].num + 1 \in 0 .. MaxRetries
    BY <2>1, ConstantsAssumption
  <2>3. TableTypes' /\ HistoryTypes'
    BY <1>0, <1>6, <2>2
    DEF TypeInv, TypeOK, TableTypes, HistoryTypes, CommitRetry, Statuses, Busy
  <2> QED
    BY <1>6, <2>3, GotoType DEF TypeInv, TypeOK, CommitRetry, Busy
<1>7. CASE DispatchSucceeds(t)
  <2>1. TableTypes' /\ HistoryTypes'
    BY <1>0, <1>7
    DEF TypeInv, TypeOK, TableTypes, HistoryTypes, DispatchSucceeds, Delivered,
        Statuses, Busy
  <2> QED
    BY <1>7, <2>1, FinishType DEF TypeInv, TypeOK, DispatchSucceeds
<1>8. CASE DispatchFails(t)
  <2>1. TableTypes' /\ HistoryTypes'
    BY <1>0, <1>8
    DEF TypeInv, TypeOK, TableTypes, HistoryTypes, DispatchFails, Statuses
  <2> QED
    BY <1>8, <2>1, GotoType
    DEF TypeInv, TypeOK, DispatchFails, CallEnds, Busy
<1>9. CASE FinishFailed(t)
  <2>1. TableTypes' /\ HistoryTypes'
    BY <1>0, <1>9
    DEF TypeInv, TypeOK, TableTypes, HistoryTypes, FinishFailed, Refreshed, Busy
  <2> QED
    BY <1>9, <2>1, FinishType DEF TypeInv, TypeOK, FinishFailed
<1>10. CASE RowGone(t)
  <2>1. TableTypes' /\ HistoryTypes'
    BY <1>10 DEF TypeInv, TypeOK, TableTypes, HistoryTypes, RowGone
  <2> QED
    BY <1>10, <2>1, FinishType DEF TypeInv, TypeOK, RowGone
<1>11. CASE ConversationGone(t)
  <2>1. TableTypes' /\ HistoryTypes'
    BY <1>0, <1>11
    DEF TypeInv, TypeOK, TableTypes, HistoryTypes, ConversationGone, Statuses,
        Busy
  <2> QED
    BY <1>11, <2>1, FinishType DEF TypeInv, TypeOK, ConversationGone
<1>12. CASE ChannelAccepts(t)
  <2>1. TableTypes' /\ HistoryTypes'
    BY <1>0, <1>12
    DEF TypeInv, TypeOK, TableTypes, HistoryTypes, ChannelAccepts, Busy
  <2> QED
    BY <1>12, <2>1, GotoType DEF TypeInv, TypeOK, ChannelAccepts, Busy
<1> QED
  BY <1>1, <1>2, <1>3, <1>4, <1>5, <1>6, <1>7, <1>8, <1>9, <1>10, <1>11, <1>12
  DEF Continue

LEMMA StartRetryType ==
    ASSUME TypeInv, NEW t \in Tasks, NEW m \in MessageIds, StartRetry(t, m)
    PROVE  TypeInv'
<1> USE DEF rows, history
<1>1. TableTypes' /\ HistoryTypes'
  BY DEF TypeInv, TypeOK, TableTypes, HistoryTypes, StartRetry
<1>2. TaskTypes'
  <2>1. retries[m] \in Nat /\ row[m].key \in Keys \cup {None}
    BY ConstantsAssumption DEF TypeInv, TypeOK, TableTypes
  <2>2. row[m].conv \in Conversations
    BY DEF TypeInv, RowsOK, StartRetry, MayRetry
  <2> QED
    BY <2>1, <2>2, ConstantsAssumption
    DEF TypeInv, TypeOK, TaskTypes, StartRetry, Hold
<1>3. WorkOK' /\ RowsOK'
  BY DEF TypeInv, TypeOK, TableTypes, TaskTypes, WorkOK, RowsOK, Busy,
         StartRetry, MayRetry
<1> QED
  BY <1>1, <1>2, <1>3 DEF TypeInv, TypeOK

LEMMA EraseType ==
    ASSUME TypeInv, NEW S, Erase(S),
           conversation' \in [Conversations -> ConversationType]
    PROVE  TypeInv'
<1>1. TableTypes'
  BY ConstantsAssumption
  DEF TypeInv, TypeOK, TableTypes, Erase, Blank, Statuses, ConversationType
<1>2. HistoryTypes'
  BY DEF TypeInv, TypeOK, HistoryTypes, Erase
<1>3. TaskTypes' /\ WorkOK'
  BY DEF TypeInv, TypeOK, TaskTypes, WorkOK, Busy, Erase
<1>4. RowsOK'
  BY DEF TypeInv, TypeOK, TableTypes, RowsOK, Erase
<1> QED
  BY <1>1, <1>2, <1>3, <1>4 DEF TypeInv, TypeOK

LEMMA DeletionType ==
    ASSUME TypeInv,
           \/ \E m \in MessageIds : DeleteMessage(m)
           \/ \E c \in Conversations : DeleteConversation(c)
    PROVE  TypeInv'
<1>1. ASSUME NEW m \in MessageIds, DeleteMessage(m) PROVE TypeInv'
  <2>1. row[m].conv \in Conversations
    BY <1>1 DEF TypeInv, RowsOK, DeleteMessage
  <2> DEFINE c == row[m].conv
             rest == {n \in live \ {m} : row[n].conv = c}
  <2>2. ASSUME conversation' = [conversation EXCEPT
                ![c].last = None, ![c].dated = FALSE, ![c].unread = FALSE]
        PROVE  conversation' \in [Conversations -> ConversationType]
    BY <2>1, <2>2 DEF TypeInv, TypeOK, TableTypes, ConversationType
  <2>3. ASSUME NEW n \in Newest(rest),
               conversation' = [conversation EXCEPT
                ![c].last = n, ![c].dated = TRUE, ![c].unread = row[n].inbound]
        PROVE  conversation' \in [Conversations -> ConversationType]
    <3>1. n \in MessageIds /\ row[n].inbound \in BOOLEAN
      BY DEF TypeInv, TypeOK, TableTypes, Newest
    <3> QED
      BY <2>1, <2>3, <3>1 DEF TypeInv, TypeOK, TableTypes, ConversationType
  <2>4. conversation' \in [Conversations -> ConversationType]
    BY <1>1, <2>2, <2>3
    DEF DeleteMessage, TypeInv, TypeOK, TableTypes, ConversationType
  <2>5. Erase({m})
    BY <1>1 DEF DeleteMessage
  <2> QED
    BY <2>4, <2>5, EraseType
<1>2. ASSUME NEW c \in Conversations, DeleteConversation(c) PROVE TypeInv'
  <2>1. conversation' \in [Conversations -> ConversationType]
    BY <1>2
    DEF TypeInv, TypeOK, TableTypes, DeleteConversation, NewConversation,
        ConversationType
  <2> QED
    BY <1>2, <2>1, EraseType DEF DeleteConversation
<1> QED
  BY <1>1, <1>2

LEMMA SetUnreadType ==
    ASSUME TypeInv, NEW c \in Conversations, NEW u \in BOOLEAN, SetUnread(c, u)
    PROVE  TypeInv'
<1>1. conversation' \in [Conversations -> ConversationType]
  BY DEF TypeInv, TypeOK, TableTypes, SetUnread, ConversationType
<1> QED
  BY <1>1
  DEF TypeInv, TypeOK, TableTypes, TaskTypes, HistoryTypes, WorkOK, RowsOK,
      Busy, SetUnread, rows, history, ConversationType

LEMMA CrashType ==
    ASSUME TypeInv, NEW p \in Processes, Crash(p)
    PROVE  TypeInv'
<1>1. TableTypes'
  BY DEF TypeInv, TypeOK, TableTypes, Crash, rows
<1>2. HistoryTypes'
  <2>1. restarts' \in 0 .. MaxRestarts
    BY ConstantsAssumption DEF TypeInv, TypeOK, HistoryTypes, Crash
  <2>2. interrupted' \subseteq MessageIds
    BY DEF TypeInv, TypeOK, TableTypes, HistoryTypes, WorkOK, Busy, Crash
  <2> QED
    BY <2>1, <2>2 DEF TypeInv, TypeOK, HistoryTypes, Crash
<1>3. TaskTypes'
  BY DEF TypeInv, TypeOK, TaskTypes, Crash, Idle
<1>4. WorkOK' /\ RowsOK'
  BY DEF TypeInv, TypeOK, TaskTypes, WorkOK, RowsOK, Busy, Crash, Idle, rows
<1> QED
  BY <1>1, <1>2, <1>3, <1>4 DEF TypeInv, TypeOK

LEMMA NextTypeInv == TypeInv /\ [Next]_vars => TypeInv'
<1> SUFFICES ASSUME TypeInv, [Next]_vars PROVE TypeInv'
  OBVIOUS
<1>1. CASE UNCHANGED vars
  BY <1>1
  DEF TypeInv, TypeOK, TableTypes, TaskTypes, HistoryTypes, WorkOK, RowsOK,
      Busy, vars, rows, history
<1>2. CASE Next
  BY <1>2, StartSendType, ReuseKeyType, ReceiveInboundType, ContinueType,
     StartRetryType, DeletionType, SetUnreadType, CrashType
  DEF Next
<1> QED
  BY <1>1, <1>2

LEMMA TypeInvariant == Spec => []TypeInv
  BY InitTypeInv, NextTypeInv, PTL DEF Spec

\* The tables, the coroutines and the history stay typed; in particular a
\* retry count never passes MAX_RETRIES, for any number of processes.
THEOREM TypeCorrect == Spec => []TypeOK
<1>1. TypeInv => TypeOK
  BY DEF TypeInv
<1> QED
  BY <1>1, TypeInvariant, PTL

-----------------------------------------------------------------------------
(* One process: the INSERT that follows SELECT max(sequence) is alone *)

SingleProcess == \A p, q \in Processes : p = q

Holding(t) == task[t].pc \in {"inserting", "marking", "retrying"}

\* Whoever is between two steps that belong together holds its loop.
LoopInv == \A t \in Tasks : Holding(t) => loop[ProcessOf[t]] = t

\* The id of a row to be inserted belongs to nobody else, and its number is
\* beyond every number of the conversation.
InsertInv ==
    \A t \in Tasks : task[t].pc = "inserting" =>
        /\ task[t].msg \notin live
        /\ task[t].num \in Nat
        /\ \A m \in live : row[m].conv = task[t].conv => row[m].seq < task[t].num

SequenceInv == TypeInv /\ LoopInv /\ InsertInv /\ UniqueSequences

LEMMA LoopStep ==
    ASSUME TypeInv, LoopInv, [Next]_vars
    PROVE  LoopInv'
<1> USE DEF LoopInv, Holding
<1>0. ProcessOf \in [Tasks -> Processes] /\ None \notin Tasks
  BY ConstantsAssumption
<1>a. TaskTypes
  BY DEF TypeInv, TypeOK
<1>1. ASSUME NEW t \in Tasks, Hold(t), loop[ProcessOf[t]] = None,
             \A u \in Tasks \ {t} : task'[u] = task[u]
      PROVE  LoopInv'
  BY <1>0, <1>1, <1>a DEF Hold, TaskTypes
<1>2. ASSUME NEW t \in Tasks, ~Holding(t)',
             loop' = loop \/ (Release(t) /\ loop[ProcessOf[t]] \in {None, t}),
             \A u \in Tasks \ {t} : task'[u] = task[u]
      PROVE  LoopInv'
  BY <1>0, <1>2, <1>a DEF Release, TaskTypes
<1>3. ASSUME NEW t \in Tasks, NEW c \in Conversations,
             NEW k \in Keys \cup {None}, StartSend(t, c, k)
      PROVE  LoopInv'
  BY <1>1, <1>3, <1>a DEF StartSend, LoopFree, TaskTypes
<1>4. ASSUME NEW t \in Tasks, NEW c \in Conversations, NEW m \in MessageIds,
             ReuseKey(t, c, m)
      PROVE  LoopInv'
  BY <1>1, <1>4, <1>a DEF ReuseKey, LoopFree, TaskTypes
<1>5. ASSUME NEW t \in Tasks, NEW c \in Conversations, ReceiveInbound(t, c)
      PROVE  LoopInv'
  BY <1>1, <1>5, <1>a DEF ReceiveInbound, LoopFree, TaskTypes
<1>6. ASSUME NEW t \in Tasks, NEW m \in MessageIds, StartRetry(t, m)
      PROVE  LoopInv'
  BY <1>1, <1>6, <1>a DEF StartRetry, LoopFree, TaskTypes
<1>7. ASSUME NEW t \in Tasks, Continue(t) \/ ChannelAccepts(t)
      PROVE  LoopInv'
  <2> USE <1>a DEF TaskTypes, Idle
  <2>1. CASE InsertMessage(t)
    <3>1. CASE task[t].inbound
      BY <1>2, <2>1, <3>1 DEF InsertMessage, Goto, Release
    <3>2. CASE ~task[t].inbound
      BY <2>1, <3>2 DEF InsertMessage, Goto
    <3> QED
      BY <3>1, <3>2
  <2>2. CASE InsertRejected(t)
    BY <1>2, <2>2 DEF InsertRejected, Finish
  <2>3. CASE EnqueueForAgent(t) \/ AnnouncementLost(t)
    BY <1>2, <2>3 DEF EnqueueForAgent, AnnouncementLost, Finish
  <2>4. CASE MarkPending(t) \/ CommitRetry(t)
    BY <1>2, <2>4 DEF MarkPending, CommitRetry, Goto
  <2>5. CASE DispatchSucceeds(t) \/ FinishFailed(t)
    BY <1>2, <2>5 DEF DispatchSucceeds, FinishFailed, Finish
  <2>6. CASE DispatchFails(t) \/ ChannelAccepts(t)
    BY <1>2, <2>6 DEF DispatchFails, ChannelAccepts, Goto
  <2>7. CASE RowGone(t)
    BY <1>2, <2>7 DEF RowGone, Finish, Resumed
  <2>8. CASE ConversationGone(t)
    BY <1>2, <2>8 DEF ConversationGone, Finish
  <2> QED
    BY <1>7, <2>1, <2>2, <2>3, <2>4, <2>5, <2>6, <2>7, <2>8 DEF Continue
<1>8. ASSUME NEW p \in Processes, Crash(p)
      PROVE  LoopInv'
  BY <1>0, <1>8, <1>a DEF Crash, TaskTypes, Idle
<1>9. CASE \/ \E m \in MessageIds : DeleteMessage(m)
           \/ \E c \in Conversations : DeleteConversation(c)
           \/ \E c \in Conversations, u \in BOOLEAN : SetUnread(c, u)
           \/ UNCHANGED vars
  BY <1>9
  DEF DeleteMessage, DeleteConversation, Erase, SetUnread, vars, rows, history
<1> QED
  BY <1>3, <1>4, <1>5, <1>6, <1>7, <1>8, <1>9 DEF Next

LEMMA NextSequenceIsBeyond ==
    ASSUME NEW c \in Conversations, NEW n \in NextSequence(c)
    PROVE  \A m \in live : row[m].conv = c => row[m].seq < n
  BY DEF NextSequence, SequencesOf

\* While a coroutine is between SELECT and INSERT no other one starts,
\* inserts or holds the loop.
LEMMA AloneBetween ==
    ASSUME TypeInv, LoopInv, SingleProcess,
           NEW t \in Tasks, task[t].pc = "inserting", NEW u \in Tasks
    PROVE  /\ loop[ProcessOf[u]] = t
           /\ ~LoopFree(u)
           /\ Holding(u) => u = t
  BY ConstantsAssumption DEF LoopInv, Holding, SingleProcess, LoopFree

LEMMA InsertStep ==
    ASSUME SequenceInv, SingleProcess, [Next]_vars
    PROVE  InsertInv' /\ UniqueSequences'
<1> USE DEF rows, history
<1>a. TypeInv /\ LoopInv /\ InsertInv /\ UniqueSequences
  BY DEF SequenceInv
<1>b. TableTypes /\ TaskTypes /\ WorkOK
  BY <1>a DEF TypeInv, TypeOK
<1>0. ASSUME live' \subseteq live, \A m \in live' : row'[m] = row[m],
             \A t \in Tasks : task'[t].pc = "inserting" => task'[t] = task[t]
      PROVE  InsertInv' /\ UniqueSequences'
  BY <1>0, <1>a DEF InsertInv, UniqueSequences
<1>1. ASSUME NEW t \in Tasks, NEW c \in Conversations,
             \/ \E k \in Keys \cup {None} : StartSend(t, c, k)
             \/ ReceiveInbound(t, c)
      PROVE  InsertInv' /\ UniqueSequences'
  <2>0. PICK m \in MessageIds \ used, n \in NextSequence(c),
             k \in Keys \cup {None}, i \in BOOLEAN :
          task' = [task EXCEPT ![t] =
            [pc |-> "inserting", conv |-> c, msg |-> m, key |-> k,
             inbound |-> i, num |-> n]]
    <3>1. CASE \E k \in Keys \cup {None} : StartSend(t, c, k)
      BY <3>1 DEF StartSend
    <3>2. CASE ReceiveInbound(t, c)
      BY <3>2 DEF ReceiveInbound
    <3> QED
      BY <1>1, <3>1, <3>2
  <2>1. /\ \A u \in Tasks \ {t} : task'[u] = task[u]
        /\ task'[t].pc = "inserting" /\ task'[t].conv = c
        /\ task'[t].msg = m /\ task'[t].num = n
    BY <2>0, <1>b DEF TaskTypes
  <2>2. n \in Nat /\ \A q \in live : row[q].conv = c => row[q].seq < n
    BY <1>a, NextSequenceType, NextSequenceIsBeyond
  <2>3. UNCHANGED <<live, row>> /\ LoopFree(t)
    BY <1>1 DEF StartSend, ReceiveInbound
  <2>4. InsertInv'
    BY <2>1, <2>2, <2>3, <1>a, <1>b DEF InsertInv, TableTypes, TaskTypes
  <2> QED
    BY <1>a, <2>3, <2>4 DEF UniqueSequences
<1>2. ASSUME NEW t \in Tasks, InsertMessage(t)
      PROVE  InsertInv' /\ UniqueSequences'
  <2> DEFINE m == task[t].msg
             c == task[t].conv
  <2>1. /\ task[t].pc = "inserting" /\ live' = live \cup {m} /\ m \in MessageIds
        /\ m \notin live
        /\ row'[m].conv = c /\ row'[m].seq = task[t].num
        /\ \A q \in live : row'[q] = row[q]
    BY <1>2, <1>a, <1>b
    DEF InsertMessage, InsertInv, TableTypes, WorkOK, Busy
  <2>2. \A u \in Tasks : task'[u].pc # "inserting"
    BY <1>2, <2>1, <1>a, <1>b, AloneBetween
    DEF InsertMessage, Goto, Holding, TaskTypes
  <2>3. \A q \in live : row[q].conv = c =>
            row[q].seq < task[t].num /\ row[q].seq \in Nat
    BY <2>1, <1>a, <1>b DEF InsertInv, TableTypes
  <2>4. UniqueSequences'
    BY <2>1, <2>3, <1>a, <1>b DEF UniqueSequences, InsertInv, TableTypes
  <2> QED
    BY <2>2, <2>4 DEF InsertInv
<1>3. ASSUME NEW t \in Tasks, Continue(t) \/ ChannelAccepts(t), ~InsertMessage(t)
      PROVE  InsertInv' /\ UniqueSequences'
  <2> USE <1>0, <1>b DEF TaskTypes, Idle, Finish, Goto
  <2>1. CASE InsertRejected(t) \/ EnqueueForAgent(t) \/ AnnouncementLost(t)
    BY <2>1 DEF InsertRejected, EnqueueForAgent, AnnouncementLost
  <2>2. CASE MarkPending(t) \/ CommitRetry(t) \/ ChannelAccepts(t)
    BY <2>2 DEF MarkPending, CommitRetry, ChannelAccepts
  <2>3. CASE DispatchSucceeds(t) \/ DispatchFails(t) \/ FinishFailed(t)
    BY <2>3 DEF DispatchSucceeds, DispatchFails, FinishFailed
  <2>4. CASE RowGone(t) \/ ConversationGone(t)
    BY <2>4 DEF RowGone, ConversationGone
  <2> QED
    BY <1>3, <2>1, <2>2, <2>3, <2>4 DEF Continue
<1>4. ASSUME NEW t \in Tasks, NEW m \in MessageIds,
             StartRetry(t, m) \/ \E c \in Conversations : ReuseKey(t, c, m)
      PROVE  InsertInv' /\ UniqueSequences'
  BY <1>0, <1>4, <1>b DEF StartRetry, ReuseKey, TaskTypes
<1>5. CASE \/ \E m \in MessageIds : DeleteMessage(m)
           \/ \E c \in Conversations : DeleteConversation(c)
  <2>1. PICK S : Erase(S)
    BY <1>5 DEF DeleteMessage, DeleteConversation
  <2> QED
    BY <1>0, <2>1, <1>b DEF Erase, TableTypes
<1>6. CASE \/ \E c \in Conversations, u \in BOOLEAN : SetUnread(c, u)
           \/ \E p \in Processes : Crash(p)
           \/ UNCHANGED vars
  BY <1>0, <1>6, <1>b DEF SetUnread, Crash, Idle, TaskTypes, vars
<1> QED
  BY <1>1, <1>2, <1>3, <1>4, <1>5, <1>6 DEF Next

LEMMA SequenceInvariant ==
    ASSUME SingleProcess PROVE Spec => []SequenceInv
<1>1. Init => SequenceInv
  <2>1. Init => LoopInv /\ InsertInv /\ UniqueSequences
    BY DEF Init, LoopInv, InsertInv, UniqueSequences, Holding, Idle
  <2> QED
    BY <2>1, InitTypeInv DEF SequenceInv
<1>2. SequenceInv /\ [Next]_vars => SequenceInv'
  BY NextTypeInv, LoopStep, InsertStep DEF SequenceInv
<1> QED
  BY <1>1, <1>2, PTL DEF Spec

\* With one process, as the backend is deployed, no two messages of a
\* conversation share a conversation_sequence.
THEOREM SequencesAreUnique ==
    ASSUME SingleProcess PROVE Spec => []UniqueSequences
<1>1. SequenceInv => UniqueSequences
  BY DEF SequenceInv
<1> QED
  BY <1>1, SequenceInvariant, PTL

-----------------------------------------------------------------------------
(* The message tables implement the log *)

Members(c) == {m \in live : row[m].conv = c}

Before(m, n) == row[m].conv = row[n].conv /\ row[m].seq < row[n].seq

Older == {pair \in live \X live :
            /\ row[pair[1]].conv = row[pair[2]].conv
            /\ row[pair[1]].seq < row[pair[2]].seq}

\* Older and Before say the same.
LEMMA OlderIsBefore ==
    /\ \A pair \in Older : \E a, b \in live : pair = <<a, b>>
    /\ \A a, b : <<a, b>> \in Older <=> a \in live /\ b \in live /\ Before(a, b)
  BY DEF Older, Before

LEMMA LogInitially == Init => Log!LogInit
  BY DEF Init, Log!LogInit

LEMMA LogAppends ==
    ASSUME SequenceInv, NEW t \in Tasks, InsertMessage(t)
    PROVE  Log!LogNext
<1> DEFINE m == task[t].msg
           c == task[t].conv
<1>b. TableTypes /\ TaskTypes /\ WorkOK /\ RowsOK /\ InsertInv
  BY DEF SequenceInv, TypeInv, TypeOK
<1>1. /\ task[t].pc = "inserting" /\ live' = live \cup {m}
      /\ m \in MessageIds /\ m \notin live /\ c \in Conversations
      /\ row'[m].conv = c /\ row'[m].seq = task[t].num
      /\ \A q \in live : row'[q] = row[q]
  BY <1>b DEF InsertMessage, InsertInv, TableTypes, WorkOK, Busy
<1>2. \A q \in live : row[q].conv = c =>
          row[q].seq < task[t].num /\ row[q].seq \in Nat /\ task[t].num \in Nat
  BY <1>1, <1>b DEF InsertInv, TableTypes
<1>3. \A d \in Conversations : m \notin Members(d)
  BY <1>1 DEF Members
<1>4. [d \in Conversations |-> Members(d)]'
        = [[d \in Conversations |-> Members(d)] EXCEPT ![c] = @ \cup {m}]
  BY <1>1 DEF Members
<1>5. Older' = Older \cup (Members(c) \X {m})
  <2>1. \A a, b : <<a, b>> \in Older' <=>
            <<a, b>> \in Older \/ (a \in Members(c) /\ b = m)
    <3>1. ASSUME NEW a \in live', NEW b \in live'
          PROVE  Before(a, b)' <=>
                    \/ a \in live /\ b \in live /\ Before(a, b)
                    \/ a \in Members(c) /\ b = m
      <4>1. CASE a \in live /\ b \in live
        BY <1>1, <4>1 DEF Before, Members
      <4>2. CASE a \in live /\ b = m
        BY <1>1, <1>2, <4>2 DEF Before, Members
      <4>3. CASE a = m /\ b \in live
        BY <1>1, <1>2, <4>3 DEF Before, Members
      <4>4. CASE a = m /\ b = m
        <5>1. task[t].num \in Nat
          BY <1>1, <1>b DEF InsertInv
        <5> QED
          BY <1>1, <4>4, <5>1 DEF Before, Members
      <4> QED
        BY <1>1, <3>1, <4>1, <4>2, <4>3, <4>4
    <3>2. \A a, b : <<a, b>> \in Older' <=>
            a \in live' /\ b \in live' /\ Before(a, b)'
      BY DEF Older, Before
    <3>3. Members(c) \subseteq live'
      BY <1>1 DEF Members
    <3> QED
      BY <1>1, <3>1, <3>2, <3>3, OlderIsBefore
  <2> QED
    BY <2>1 DEF Older
<1>6. Log!Append(c, m)
  BY <1>1, <1>3, <1>4, <1>5 DEF Log!Append, Members, Older
<1> QED
  BY <1>1, <1>6 DEF Log!LogNext, Log!Append

LEMMA LogErases ==
    ASSUME TypeInv, NEW S, Erase(S)
    PROVE  /\ \A c \in Conversations : Members(c)' = Members(c) \ S
           /\ Older' = {pair \in Older : pair[1] \notin S /\ pair[2] \notin S}
<1>1. live' = live \ S /\ \A m \in live' : row'[m] = row[m]
  BY DEF Erase, TypeInv, TypeOK, TableTypes
<1>2. \A c \in Conversations : Members(c)' = Members(c) \ S
  BY <1>1 DEF Members
<1>3. \A a, b : <<a, b>> \in Older' <=>
        <<a, b>> \in Older /\ a \notin S /\ b \notin S
  BY <1>1 DEF Older
<1>4. Older' = {pair \in Older : pair[1] \notin S /\ pair[2] \notin S}
  BY <1>3 DEF Older
<1> QED
  BY <1>2, <1>4

LEMMA LogRemoves ==
    ASSUME TypeInv, NEW m \in MessageIds, DeleteMessage(m)
    PROVE  Log!LogNext
<1> DEFINE c == row[m].conv
<1>1. m \in live /\ c \in Conversations /\ Erase({m})
  BY DEF DeleteMessage, TypeInv, RowsOK
<1>2. [d \in Conversations |-> Members(d)]'
        = [[d \in Conversations |-> Members(d)] EXCEPT ![c] = @ \ {m}]
  <2>1. \A d \in Conversations : Members(d)' = Members(d) \ {m}
    BY <1>1, LogErases
  <2>2. \A d \in Conversations : d # c => Members(d) \ {m} = Members(d)
    BY DEF Members
  <2> QED
    BY <1>1, <2>1, <2>2
<1>3. Older' = {pair \in Older : pair[1] # m /\ pair[2] # m}
  BY <1>1, LogErases
<1>4. Log!Remove(c, m)
  BY <1>1, <1>2, <1>3 DEF Log!Remove, Members, Older
<1> QED
  BY <1>1, <1>4 DEF Log!LogNext, Log!Remove

LEMMA LogClears ==
    ASSUME TypeInv, NEW c \in Conversations, DeleteConversation(c)
    PROVE  Log!LogNext
<1>1. Erase(Members(c))
  BY DEF DeleteConversation, Members
<1>2. [d \in Conversations |-> Members(d)]'
        = [[d \in Conversations |-> Members(d)] EXCEPT ![c] = {}]
  <2>1. \A d \in Conversations : Members(d)' = Members(d) \ Members(c)
    BY <1>1, LogErases
  <2>2. \A d \in Conversations : d # c => Members(d) \ Members(c) = Members(d)
    BY DEF Members
  <2> QED
    BY <2>1, <2>2
<1>3. Older' = {pair \in Older :
                  pair[1] \notin Members(c) /\ pair[2] \notin Members(c)}
  BY <1>1, LogErases
<1>4. Log!Clear(c)
  BY <1>2, <1>3 DEF Log!Clear, Members, Older
<1> QED
  BY <1>4 DEF Log!LogNext, Log!Clear

LEMMA LogStep ==
    ASSUME SequenceInv, [Next]_vars
    PROVE  Log!LogNext \/ UNCHANGED Log!log
<1> USE DEF rows, history
<1>1. ASSUME UNCHANGED <<live, row>> PROVE UNCHANGED Log!log
  BY <1>1 DEF Log!log
<1>2. ASSUME NEW t \in Tasks, NEW c \in Conversations,
             \/ \E k \in Keys \cup {None} : StartSend(t, c, k)
             \/ \E m \in MessageIds : ReuseKey(t, c, m)
             \/ ReceiveInbound(t, c)
      PROVE  UNCHANGED <<live, row>>
  BY <1>2 DEF StartSend, ReuseKey, ReceiveInbound
<1>3. ASSUME NEW t \in Tasks, Continue(t) \/ ChannelAccepts(t), ~InsertMessage(t)
      PROVE  UNCHANGED <<live, row>>
  BY <1>3
  DEF Continue, ChannelAccepts, InsertRejected, EnqueueForAgent,
      AnnouncementLost, MarkPending, CommitRetry, DispatchSucceeds,
      DispatchFails, FinishFailed, RowGone, ConversationGone
<1>4. CASE \/ \E t \in Tasks, m \in MessageIds : StartRetry(t, m)
           \/ \E c \in Conversations, u \in BOOLEAN : SetUnread(c, u)
           \/ \E p \in Processes : Crash(p)
           \/ UNCHANGED vars
  BY <1>1, <1>4 DEF StartRetry, SetUnread, Crash, vars
<1> QED
  BY <1>1, <1>2, <1>3, <1>4, LogAppends, LogRemoves, LogClears
  DEF Next, SequenceInv

\* With one process the message tables implement ConversationLog: read in the
\* order of conversation_sequence, a conversation only ever grows at its end
\* and loses messages.
THEOREM TablesImplementLog ==
    ASSUME SingleProcess PROVE Spec => IsALog
<1>1. SequenceInv /\ [Next]_vars => [Log!LogNext]_Log!log
  BY LogStep
<1> QED
  BY <1>1, LogInitially, SequenceInvariant, PTL
  DEF Spec, IsALog, Log!LogSpec

-----------------------------------------------------------------------------
(* One API process: a message without a key has one dispatcher at a time *)

OneApi == \A p, q \in Api : p = q

Dispatches(t, m) ==
    task[t].msg = m /\ task[t].pc \in {"marking", "retrying", "sending", "accepted"}

\* The id of a row to be inserted is in nobody else's hands; without a key
\* its handler belongs to the API.
FreshInv ==
    \A t \in Tasks : task[t].pc = "inserting" =>
        /\ task[t].msg \notin live
        /\ \A u \in Tasks \ {t} : Busy(u) => task[u].msg # task[t].msg
        /\ task[t].key = None /\ ~task[t].inbound => Served(t)

\* Nothing is known of a row before it is inserted.
UnwrittenInv ==
    \A m \in MessageIds \ live :
        status[m] = "NULL" /\ retries[m] = 0 /\ calls[m] = 0 /\ accepted[m] = 0

\* The one dispatcher of m and what each stage of its work has written.
DispatchOK(m) ==
    /\ \A t \in Tasks : Dispatches(t, m) =>
        /\ Served(t)
        /\ \A u \in Tasks : Dispatches(u, m) => u = t
        /\ task[t].pc = "marking" => status[m] = "NULL"
        /\ task[t].pc = "retrying" =>
            status[m] = "FAILED" /\ task[t].num = retries[m]
        /\ task[t].pc \in {"sending", "accepted"} => status[m] = "PENDING"
        /\ task[t].pc = "sending" => accepted[m] < calls[m]
    /\ status[m] = "PENDING" =>
        m \in interrupted \/ \E t \in Tasks :
            task[t].msg = m /\ task[t].pc \in {"sending", "accepted"}
    /\ status[m] = "NULL" => calls[m] = 0 /\ retries[m] = 0
    /\ calls[m] <= 1 + retries[m]
    /\ accepted[m] <= calls[m]

DispatchInv == \A m \in live : Keyless(m) => DispatchOK(m)

WholeInv == TypeInv /\ LoopInv /\ FreshInv /\ UnwrittenInv /\ DispatchInv

LEMMA FreshStep ==
    ASSUME TypeInv, FreshInv, [Next]_vars
    PROVE  FreshInv'
<1> USE DEF rows, history, Busy, Served
<1>b. TableTypes /\ TaskTypes /\ WorkOK
  BY DEF TypeInv, TypeOK
<1>1. ASSUME NEW t \in Tasks, NEW c \in Conversations,
             \/ \E k \in Keys \cup {None} : StartSend(t, c, k)
             \/ ReceiveInbound(t, c)
      PROVE  FreshInv'
  <2>0. PICK m \in MessageIds \ used, n \in NextSequence(c),
             k \in Keys \cup {None}, i \in BOOLEAN :
          /\ task' = [task EXCEPT ![t] =
                [pc |-> "inserting", conv |-> c, msg |-> m, key |-> k,
                 inbound |-> i, num |-> n]]
          /\ k = None => Served(t)
    <3>1. CASE \E k \in Keys \cup {None} : StartSend(t, c, k)
      BY <3>1 DEF StartSend
    <3>2. CASE ReceiveInbound(t, c)
      BY <3>2 DEF ReceiveInbound
    <3> QED
      BY <1>1, <3>1, <3>2
  <2>1. /\ \A u \in Tasks \ {t} : task'[u] = task[u]
        /\ task'[t].pc = "inserting" /\ task'[t].msg = m
        /\ task'[t].key = None => Served(t)
    BY <2>0, <1>b DEF TaskTypes
  <2>2. UNCHANGED live /\ task[t].pc = "idle"
    BY <1>1 DEF StartSend, ReceiveInbound, LoopFree
  <2>3. m \notin live /\ \A u \in Tasks : Busy(u) => task[u].msg # m
    BY <2>0, <1>b DEF TableTypes, WorkOK
  <2> QED
    BY <2>1, <2>2, <2>3 DEF FreshInv
<1>2. ASSUME NEW t \in Tasks, NEW m \in MessageIds,
             StartRetry(t, m) \/ \E c \in Conversations : ReuseKey(t, c, m)
      PROVE  FreshInv'
  <2>1. /\ \A u \in Tasks \ {t} : task'[u] = task[u]
        /\ task'[t].pc # "inserting" /\ task'[t].msg = m
        /\ m \in live /\ UNCHANGED live
    BY <1>2, <1>b DEF StartRetry, MayRetry, ReuseKey, TaskTypes
  <2> QED
    BY <2>1 DEF FreshInv
<1>3. ASSUME NEW t \in Tasks, InsertMessage(t)
      PROVE  FreshInv'
  <2>1. /\ task[t].pc = "inserting"
        /\ live' = live \cup {task[t].msg}
        /\ \A u \in Tasks \ {t} : task'[u] = task[u]
        /\ task'[t].pc # "inserting" /\ task'[t].msg = task[t].msg
    BY <1>3, <1>b DEF InsertMessage, Goto, TaskTypes
  <2> QED
    BY <2>1 DEF FreshInv
<1>4. ASSUME NEW t \in Tasks, Continue(t) \/ ChannelAccepts(t), ~InsertMessage(t)
      PROVE  FreshInv'
  <2> USE <1>b DEF TaskTypes, Idle, Finish, Goto
  <2>0. ASSUME UNCHANGED live, Finish(t)
        PROVE  FreshInv'
    <3>1. task'[t].pc = "idle" /\ \A u \in Tasks \ {t} : task'[u] = task[u]
      BY <2>0
    <3> QED
      BY <2>0, <3>1 DEF FreshInv
  <2>9. ASSUME UNCHANGED live, Busy(t),
                NEW pc \in {"sending", "accepted", "failing"}, Goto(t, pc)
         PROVE  FreshInv'
    <3>1. /\ task'[t].pc = pc /\ task'[t].msg = task[t].msg
          /\ \A u \in Tasks \ {t} : task'[u] = task[u]
      BY <2>9
    <3> QED
      BY <2>9, <3>1 DEF FreshInv
  <2>1. CASE InsertRejected(t) \/ EnqueueForAgent(t) \/ AnnouncementLost(t)
    BY <2>0, <2>1 DEF InsertRejected, EnqueueForAgent, AnnouncementLost
  <2>2. CASE MarkPending(t) \/ CommitRetry(t) \/ ChannelAccepts(t)
    BY <2>9, <2>2 DEF MarkPending, CommitRetry, ChannelAccepts
  <2>3. CASE DispatchSucceeds(t) \/ FinishFailed(t)
    BY <2>0, <2>3 DEF DispatchSucceeds, FinishFailed
  <2>4. CASE DispatchFails(t)
    BY <2>9, <2>4 DEF DispatchFails, CallEnds
  <2>5. CASE RowGone(t) \/ ConversationGone(t)
    BY <2>0, <2>5 DEF RowGone, ConversationGone
  <2> QED
    BY <1>4, <2>1, <2>2, <2>3, <2>4, <2>5 DEF Continue
<1>5. CASE \/ \E m \in MessageIds : DeleteMessage(m)
           \/ \E c \in Conversations : DeleteConversation(c)
  BY <1>5 DEF DeleteMessage, DeleteConversation, Erase, FreshInv
<1>6. CASE \E p \in Processes : Crash(p)
  <2>1. UNCHANGED live /\
        \A t \in Tasks : task'[t] = task[t] \/ task'[t].pc = "idle"
    BY <1>6 DEF Crash, Idle
  <2> QED
    BY <2>1 DEF FreshInv
<1>7. CASE \/ \E c \in Conversations, u \in BOOLEAN : SetUnread(c, u)
           \/ UNCHANGED vars
  BY <1>7 DEF SetUnread, vars, FreshInv
<1> QED
  BY <1>1, <1>2, <1>3, <1>4, <1>5, <1>6, <1>7 DEF Next

LEMMA UnwrittenStep ==
    ASSUME TypeInv, UnwrittenInv, [Next]_vars
    PROVE  UnwrittenInv'
<1> USE DEF rows, history
<1>b. TableTypes /\ HistoryTypes
  BY DEF TypeInv, TypeOK
<1>0. ASSUME live \subseteq live', UNCHANGED <<status, retries, calls, accepted>>
      PROVE  UnwrittenInv'
  BY <1>0 DEF UnwrittenInv
<1>1. ASSUME NEW t \in Tasks, NEW c \in Conversations,
             \/ \E k \in Keys \cup {None} : StartSend(t, c, k)
             \/ \E m \in MessageIds : ReuseKey(t, c, m)
             \/ ReceiveInbound(t, c)
      PROVE  UnwrittenInv'
  BY <1>0, <1>1 DEF StartSend, ReuseKey, ReceiveInbound
<1>2. ASSUME NEW t \in Tasks, Continue(t) \/ ChannelAccepts(t)
      PROVE  UnwrittenInv'
  <2>1. CASE \/ InsertMessage(t) \/ InsertRejected(t) \/ EnqueueForAgent(t)
             \/ AnnouncementLost(t) \/ FinishFailed(t) \/ RowGone(t)
    BY <1>0, <2>1
    DEF InsertMessage, InsertRejected, EnqueueForAgent, AnnouncementLost,
        FinishFailed, RowGone
  <2>2. CASE MarkPending(t) \/ CommitRetry(t)
    BY <2>2, <1>b
    DEF MarkPending, CommitRetry, UnwrittenInv, TableTypes, HistoryTypes
  <2>3. CASE DispatchSucceeds(t) \/ DispatchFails(t) \/ ConversationGone(t)
    BY <2>3, <1>b
    DEF DispatchSucceeds, DispatchFails, ConversationGone, UnwrittenInv,
        TableTypes
  <2>4. CASE ChannelAccepts(t)
    BY <2>4, <1>b DEF ChannelAccepts, UnwrittenInv, HistoryTypes
  <2> QED
    BY <1>2, <2>1, <2>2, <2>3, <2>4 DEF Continue
<1>3. CASE \/ \E m \in MessageIds : DeleteMessage(m)
           \/ \E c \in Conversations : DeleteConversation(c)
  <2>1. PICK S : Erase(S)
    BY <1>3 DEF DeleteMessage, DeleteConversation
  <2>2. ASSUME NEW m \in MessageIds, m \notin live'
        PROVE  /\ status'[m] = "NULL" /\ retries'[m] = 0
               /\ calls'[m] = 0 /\ accepted'[m] = 0
    <3>1. CASE m \in S
      BY <2>1, <3>1 DEF Erase
    <3>2. CASE m \notin S
      BY <2>1, <2>2, <3>2 DEF Erase, UnwrittenInv
    <3> QED
      BY <3>1, <3>2
  <2> QED
    BY <2>2 DEF UnwrittenInv
<1>4. CASE \/ \E t \in Tasks, m \in MessageIds : StartRetry(t, m)
           \/ \E c \in Conversations, u \in BOOLEAN : SetUnread(c, u)
           \/ \E p \in Processes : Crash(p)
           \/ UNCHANGED vars
  BY <1>0, <1>4 DEF StartRetry, SetUnread, Crash, vars
<1> QED
  BY <1>1, <1>2, <1>3, <1>4 DEF Next

\* A step that writes nothing about m, gives it no new dispatcher and takes
\* one from it only by interrupting it.
LEMMA DispatchFrame ==
    ASSUME NEW m, DispatchOK(m),
           status'[m] = status[m], retries'[m] = retries[m],
           calls'[m] = calls[m], accepted'[m] = accepted[m],
           interrupted \subseteq interrupted',
           \A t \in Tasks : Dispatches(t, m)' => task'[t] = task[t],
           \A t \in Tasks : Dispatches(t, m) =>
                task'[t] = task[t] \/ m \in interrupted'
    PROVE  DispatchOK(m)'
<1> USE DEF DispatchOK, Dispatches, Served
<1>1. \A t \in Tasks : Dispatches(t, m)' => Dispatches(t, m)
  OBVIOUS
<1>2. status'[m] = "PENDING" =>
        m \in interrupted' \/ \E t \in Tasks :
            task'[t].msg = m /\ task'[t].pc \in {"sending", "accepted"}
  OBVIOUS
<1> QED
  BY <1>1, <1>2

LEMMA DispatchStep ==
    ASSUME WholeInv, OneApi, [Next]_vars
    PROVE  DispatchInv'
<1> USE DEF rows, history
<1>a. TypeInv /\ LoopInv /\ FreshInv /\ UnwrittenInv /\ DispatchInv
  BY DEF WholeInv
<1>b. TableTypes /\ TaskTypes /\ HistoryTypes /\ WorkOK
  BY <1>a DEF TypeInv, TypeOK
<1> SUFFICES ASSUME NEW m \in MessageIds, Keyless(m)'
             PROVE  DispatchOK(m)'
  <2>1. TableTypes'
    BY <1>a, NextTypeInv DEF TypeInv, TypeOK
  <2> QED
    BY <2>1 DEF DispatchInv, TableTypes
<1> DEFINE Same == /\ status'[m] = status[m] /\ retries'[m] = retries[m]
                   /\ calls'[m] = calls[m] /\ accepted'[m] = accepted[m]
                   /\ interrupted \subseteq interrupted'
           Old == m \in live /\ row'[m] = row[m]
\* A step of t alone, on another message or at a stage that dispatches nothing.
<1>0. ASSUME NEW t \in Tasks, Same, Old,
             \A u \in Tasks \ {t} : task'[u] = task[u],
             ~Dispatches(t, m), ~Dispatches(t, m)'
      PROVE  DispatchOK(m)'
  BY <1>0, <1>a, DispatchFrame DEF DispatchInv, Keyless
<1>1. ASSUME NEW t \in Tasks, NEW c \in Conversations,
             \/ \E k \in Keys \cup {None} : StartSend(t, c, k)
             \/ \E x \in MessageIds : ReuseKey(t, c, x)
             \/ ReceiveInbound(t, c)
      PROVE  DispatchOK(m)'
  <2>1. Same /\ Old /\ task[t].pc = "idle"
    BY <1>1 DEF StartSend, ReuseKey, ReceiveInbound, LoopFree, Keyless
  <2>2. \A u \in Tasks \ {t} : task'[u] = task[u]
    BY <1>1, <1>b DEF StartSend, ReuseKey, ReceiveInbound, TaskTypes
  <2>3. CASE task'[t].pc = "inserting"
    BY <1>0, <2>1, <2>2, <2>3 DEF Dispatches
  <2>4. CASE \E x \in MessageIds : ReuseKey(t, c, x)
    <3>1. row[task'[t].msg].key # None
      BY <2>4, <1>b DEF ReuseKey, TaskTypes
    <3> QED
      BY <1>0, <2>1, <2>2, <3>1 DEF Dispatches, Keyless
  <2>5. CASE \E k \in Keys \cup {None} : StartSend(t, c, k)
    <3>1. task'[t].pc = "inserting"
      BY <2>5, <1>b DEF StartSend, TaskTypes
    <3> QED
      BY <2>3, <3>1
  <2>6. CASE ReceiveInbound(t, c)
    <3>1. task'[t].pc = "inserting"
      BY <2>6, <1>b DEF ReceiveInbound, TaskTypes
    <3> QED
      BY <2>3, <3>1
  <2> QED
    BY <1>1, <2>4, <2>5, <2>6
<1>2. ASSUME NEW t \in Tasks, InsertMessage(t)
      PROVE  DispatchOK(m)'
  <2>1. /\ task[t].pc = "inserting"
        /\ \A u \in Tasks \ {t} : task'[u] = task[u]
        /\ task'[t].msg = task[t].msg
        /\ Same
    BY <1>2, <1>b DEF InsertMessage, Goto, TaskTypes
  <2>2. CASE m # task[t].msg
    <3>1. Old
      BY <1>2, <2>2, <1>b DEF InsertMessage, Keyless, TableTypes
    <3> QED
      BY <1>0, <2>1, <2>2, <3>1 DEF Dispatches
  <2>3. CASE m = task[t].msg
    <3>1. m \notin live /\ \A u \in Tasks \ {t} : Busy(u) => task[u].msg # m
      BY <2>1, <2>3, <1>a DEF FreshInv
    <3>2. status'[m] = "NULL" /\ retries'[m] = 0 /\ calls'[m] = 0
          /\ accepted'[m] = 0
      BY <2>1, <3>1, <1>a DEF UnwrittenInv
    <3>3. task[t].key = None /\ ~task[t].inbound
      BY <1>2, <2>3, <1>b DEF InsertMessage, Keyless, TableTypes
    <3>4. Served(t) /\ task'[t].pc = "marking"
      BY <1>2, <2>1, <3>3, <1>a, <1>b
      DEF FreshInv, InsertMessage, Goto, TaskTypes
    <3>5. \A u \in Tasks : Dispatches(u, m)' => u = t
      BY <2>1, <3>1 DEF Dispatches, Busy
    <3> QED
      BY <3>2, <3>4, <3>5 DEF DispatchOK, Dispatches, Served
  <2> QED
    BY <2>2, <2>3
<1>3. ASSUME NEW t \in Tasks, Continue(t) \/ ChannelAccepts(t), ~InsertMessage(t)
      PROVE  DispatchOK(m)'
  <2> DEFINE x == task[t].msg
  <2>0. /\ \A u \in Tasks \ {t} : task'[u] = task[u]
        /\ task'[t].pc = "idle" \/ task'[t].msg = x
        /\ UNCHANGED <<live, row>>
        /\ Old
    BY <1>3, <1>b
    DEF Continue, InsertRejected, EnqueueForAgent, AnnouncementLost, MarkPending,
        CommitRetry, DispatchSucceeds, DispatchFails, FinishFailed, RowGone,
        ConversationGone, ChannelAccepts, Goto, Finish, Idle, TaskTypes, Keyless
  <2>1. DispatchOK(m)
    BY <2>0, <1>a DEF DispatchInv, Keyless
  <2>2. CASE InsertRejected(t) \/ EnqueueForAgent(t) \/ AnnouncementLost(t)
             \/ FinishFailed(t)
    <3>1. Same /\ ~Dispatches(t, m) /\ task'[t].pc = "idle"
      BY <2>2, <1>b
      DEF InsertRejected, EnqueueForAgent, AnnouncementLost, FinishFailed,
          Finish, Idle, Dispatches, TaskTypes
    <3> QED
      BY <1>0, <2>0, <3>1 DEF Dispatches
  <2>3. CASE RowGone(t)
    <3>1. Same /\ m # x /\ task'[t].pc = "idle"
      BY <2>0, <2>3, <1>b DEF RowGone, Finish, Idle, TaskTypes
    <3> QED
      BY <1>0, <2>0, <3>1 DEF Dispatches
  <2>4. CASE m # x /\ ~RowGone(t)
    <3>1. Same
      BY <1>3, <2>4, <1>b
      DEF Continue, InsertRejected, EnqueueForAgent, AnnouncementLost,
          MarkPending, CommitRetry, DispatchSucceeds, DispatchFails,
          FinishFailed, ConversationGone, ChannelAccepts, TableTypes,
          HistoryTypes
    <3> QED
      BY <1>0, <2>0, <2>4, <3>1 DEF Dispatches
  <2>5. CASE m = x /\ MarkPending(t)
    <3>1. /\ Dispatches(t, m) /\ task[t].pc = "marking"
          /\ task'[t].pc = "sending" /\ task'[t].msg = m
          /\ status'[m] = "PENDING" /\ calls'[m] = calls[m] + 1
          /\ retries'[m] = retries[m] /\ accepted'[m] = accepted[m]
      BY <2>0, <2>5, <1>b
      DEF MarkPending, Dispatches, Goto, TaskTypes, TableTypes, HistoryTypes
    <3>2. \A u \in Tasks : Dispatches(u, m)' => u = t
      BY <2>0, <2>1, <3>1 DEF DispatchOK, Dispatches
    <3>3. calls[m] = 0 /\ retries[m] = 0 /\ accepted[m] \in Nat /\ accepted[m] <= 0
          /\ Served(t)
      BY <2>1, <3>1, <1>b DEF DispatchOK, HistoryTypes
    <3> QED
      BY <3>1, <3>2, <3>3 DEF DispatchOK, Dispatches, Served
  <2>6. CASE m = x /\ CommitRetry(t)
    <3>1. /\ Dispatches(t, m) /\ task[t].pc = "retrying"
          /\ task'[t].pc = "sending" /\ task'[t].msg = m
          /\ status'[m] = "PENDING" /\ calls'[m] = calls[m] + 1
          /\ retries'[m] = task[t].num + 1 /\ accepted'[m] = accepted[m]
      BY <2>0, <2>6, <1>b
      DEF CommitRetry, Dispatches, Goto, TaskTypes, TableTypes, HistoryTypes
    <3>2. \A u \in Tasks : Dispatches(u, m)' => u = t
      BY <2>0, <2>1, <3>1 DEF DispatchOK, Dispatches
    <3>3. /\ task[t].num = retries[m] /\ calls[m] <= 1 + retries[m]
          /\ accepted[m] <= calls[m] /\ Served(t)
          /\ accepted[m] \in Nat /\ calls[m] \in Nat /\ retries[m] \in Nat
      BY <2>1, <3>1, <1>b DEF DispatchOK, HistoryTypes, TableTypes
    <3> QED
      BY <3>1, <3>2, <3>3 DEF DispatchOK, Dispatches, Served
  <2>7. CASE m = x /\ ChannelAccepts(t)
    <3>1. /\ Dispatches(t, m) /\ task[t].pc = "sending"
          /\ task'[t].pc = "accepted" /\ task'[t].msg = m
          /\ status'[m] = status[m] /\ calls'[m] = calls[m]
          /\ retries'[m] = retries[m] /\ accepted'[m] = accepted[m] + 1
      BY <2>0, <2>7, <1>b
      DEF ChannelAccepts, Dispatches, Goto, TaskTypes, HistoryTypes
    <3>2. \A u \in Tasks : Dispatches(u, m)' => u = t
      BY <2>0, <2>1, <3>1 DEF DispatchOK, Dispatches
    <3>3. /\ status[m] = "PENDING" /\ calls[m] <= 1 + retries[m]
          /\ accepted[m] < calls[m] /\ Served(t)
          /\ accepted[m] \in Nat /\ calls[m] \in Nat
      BY <2>1, <3>1, <1>b DEF DispatchOK, HistoryTypes
    <3> QED
      BY <3>1, <3>2, <3>3 DEF DispatchOK, Dispatches, Served
  <2>8. CASE m = x /\ (DispatchSucceeds(t) \/ DispatchFails(t)
                        \/ ConversationGone(t))
    <3>1. /\ Dispatches(t, m) /\ ~Dispatches(t, m)'
          /\ \/ status'[m] \in {"SENT", "FAILED"}
             \/ status'[m] = status[m] /\ task[t].pc = "marking"
          /\ calls'[m] = calls[m] /\ retries'[m] = retries[m]
          /\ accepted'[m] = accepted[m]
      <4> USE <2>0, <2>8, <1>b DEF Dispatches, TaskTypes, TableTypes
      <4>1. CASE DispatchSucceeds(t)
        BY <4>1 DEF DispatchSucceeds, Delivered, Finish, Idle
      <4>2. CASE DispatchFails(t)
        <5>1. task[t].pc \in {"sending", "accepted"} /\ task'[t].pc = "failing"
          BY <4>2 DEF DispatchFails, CallEnds, Goto
        <5>2. /\ status'[m] = "FAILED" /\ calls'[m] = calls[m]
              /\ retries'[m] = retries[m] /\ accepted'[m] = accepted[m]
          BY <4>2 DEF DispatchFails
        <5> QED
          BY <5>1, <5>2
      <4>3. CASE ConversationGone(t)
        <5>1. task[t].pc = "marking" /\ task'[t].pc = "idle"
          BY <4>3 DEF ConversationGone, Finish, Idle
        <5>2. /\ status'[m] = "FAILED" \/ status'[m] = status[m]
              /\ calls'[m] = calls[m]
              /\ retries'[m] = retries[m] /\ accepted'[m] = accepted[m]
          BY <4>3 DEF ConversationGone
        <5> QED
          BY <5>1, <5>2
      <4> QED
        BY <4>1, <4>2, <4>3
    <3>2. \A u \in Tasks : ~Dispatches(u, m)'
      BY <2>0, <2>1, <3>1 DEF DispatchOK, Dispatches
    <3>3. status'[m] # "PENDING"
      BY <2>1, <3>1 DEF DispatchOK
    <3>4. status'[m] = "NULL" => status[m] = "NULL"
      BY <3>1
    <3> QED
      BY <2>1, <3>1, <3>2, <3>3, <3>4 DEF DispatchOK
  <2> QED
    BY <1>3, <2>2, <2>3, <2>4, <2>5, <2>6, <2>7, <2>8 DEF Continue
<1>4. ASSUME NEW t \in Tasks, NEW x \in MessageIds, StartRetry(t, x)
      PROVE  DispatchOK(m)'
  <2>1. /\ \A u \in Tasks \ {t} : task'[u] = task[u]
        /\ task'[t].pc = "retrying" /\ task'[t].msg = x
        /\ task'[t].num = retries[x]
        /\ Same /\ Old /\ task[t].pc = "idle" /\ Served(t)
        /\ status[x] = "FAILED" /\ loop[ProcessOf[t]] = None
    BY <1>4, <1>b DEF StartRetry, MayRetry, LoopFree, Keyless, TaskTypes
  <2>2. CASE m # x
    BY <1>0, <2>1, <2>2 DEF Dispatches
  <2>3. CASE m = x
    <3>1. DispatchOK(m)
      BY <2>1, <1>a DEF DispatchInv, Keyless
    <3>2. ASSUME NEW u \in Tasks, Dispatches(u, m) PROVE FALSE
      <4>1. task[u].pc = "retrying" /\ Served(u)
        BY <2>1, <2>3, <3>1, <3>2 DEF DispatchOK, Dispatches
      <4>2. loop[ProcessOf[u]] = u
        BY <4>1, <1>a DEF LoopInv, Holding
      <4>3. ProcessOf[u] = ProcessOf[t]
        BY <2>1, <4>1 DEF OneApi, Served
      <4> QED
        BY <2>1, <4>2, <4>3, ConstantsAssumption
    <3>3. \A u \in Tasks : Dispatches(u, m)' => u = t
      BY <2>1, <3>2 DEF Dispatches
    <3> QED
      BY <2>1, <2>3, <3>1, <3>3 DEF DispatchOK, Dispatches, Served
  <2> QED
    BY <2>2, <2>3
<1>5. CASE \/ \E x \in MessageIds : DeleteMessage(x)
           \/ \E c \in Conversations : DeleteConversation(c)
  <2>1. PICK S : Erase(S)
    BY <1>5 DEF DeleteMessage, DeleteConversation
  <2>2. Same /\ Old /\ UNCHANGED task
    BY <2>1 DEF Erase, Keyless
  <2> QED
    BY <2>2, <1>a, DispatchFrame DEF DispatchInv, Keyless
<1>6. CASE \E p \in Processes : Crash(p)
  <2>1. Same /\ Old
    BY <1>6 DEF Crash, Keyless
  <2>2. \A u \in Tasks : /\ Dispatches(u, m)' => task'[u] = task[u]
                         /\ task'[u] = task[u] \/ task[u].msg \in interrupted'
    BY <1>6 DEF Crash, Dispatches, Idle
  <2> QED
    BY <2>1, <2>2, <1>a, DispatchFrame DEF DispatchInv, Keyless, Dispatches
<1>7. CASE \/ \E c \in Conversations, u \in BOOLEAN : SetUnread(c, u)
           \/ UNCHANGED vars
  <2>1. Same /\ Old /\ UNCHANGED task
    BY <1>7 DEF SetUnread, vars, Keyless
  <2> QED
    BY <2>1, <1>a, DispatchFrame DEF DispatchInv, Keyless
<1> QED
  BY <1>1, <1>2, <1>3, <1>4, <1>5, <1>6, <1>7 DEF Next

LEMMA WholeInvariant ==
    ASSUME OneApi PROVE Spec => []WholeInv
<1>1. Init => WholeInv
  <2>1. Init => LoopInv /\ FreshInv /\ UnwrittenInv /\ DispatchInv
    BY DEF Init, LoopInv, FreshInv, UnwrittenInv, DispatchInv, Holding, Idle
  <2> QED
    BY <2>1, InitTypeInv DEF WholeInv
<1>2. WholeInv /\ [Next]_vars => WholeInv'
  BY NextTypeInv, LoopStep, FreshStep, UnwrittenStep, DispatchStep DEF WholeInv
<1> QED
  BY <1>1, <1>2, PTL DEF Spec

\* With one API process a message sent without a key is given to the channel at
\* most once per counted retry, however its handlers, deletions and crashes
\* interleave and whatever the agent worker's process does.
THEOREM RetriesAreBudgeted ==
    ASSUME OneApi PROVE Spec => []RetryBudget
<1>1. WholeInv => RetryBudget
  BY DEF WholeInv, TypeInv, TypeOK, TableTypes, DispatchInv, DispatchOK,
         RetryBudget, Keyless
<1> QED
  BY <1>1, WholeInvariant, PTL

\* With one API process PENDING means one dispatcher at work, or a crash.
THEOREM PendingHasDispatcher ==
    ASSUME OneApi PROVE Spec => []PendingIsInFlight
<1>1. WholeInv => PendingIsInFlight
  BY DEF WholeInv, TypeInv, TypeOK, TableTypes, DispatchInv, DispatchOK,
         Dispatches, PendingIsInFlight, InFlight, Keyless
<1> QED
  BY <1>1, WholeInvariant, PTL

LEMMA SentStep ==
    ASSUME WholeInv, [Next]_vars, NEW m \in MessageIds,
           Keyless(m), m \in live', status[m] = "SENT"
    PROVE  status'[m] = "SENT" /\ calls'[m] = calls[m]
<1> USE DEF rows, history
<1>b. TableTypes /\ HistoryTypes
  BY DEF WholeInv, TypeInv, TypeOK
<1>0. \A t \in Tasks : ~Dispatches(t, m)
  BY DEF WholeInv, DispatchInv, DispatchOK, Dispatches, Keyless
<1>1. ASSUME NEW t \in Tasks, NEW c \in Conversations,
             \/ \E k \in Keys \cup {None} : StartSend(t, c, k)
             \/ \E x \in MessageIds : ReuseKey(t, c, x)
             \/ ReceiveInbound(t, c)
      PROVE  UNCHANGED <<status, calls>>
  BY <1>1 DEF StartSend, ReuseKey, ReceiveInbound
<1>2. ASSUME NEW t \in Tasks, Continue(t) \/ ChannelAccepts(t)
      PROVE  status'[m] = "SENT" /\ calls'[m] = calls[m]
  <2>1. CASE \/ InsertMessage(t) \/ InsertRejected(t) \/ EnqueueForAgent(t)
             \/ AnnouncementLost(t) \/ FinishFailed(t) \/ RowGone(t)
             \/ ChannelAccepts(t)
    BY <2>1
    DEF InsertMessage, InsertRejected, EnqueueForAgent, AnnouncementLost,
        FinishFailed, RowGone, ChannelAccepts
  <2>2. CASE \/ MarkPending(t) \/ CommitRetry(t) \/ DispatchSucceeds(t)
             \/ DispatchFails(t) \/ ConversationGone(t)
    <3>1. task[t].msg # m
      BY <1>0, <2>2
      DEF MarkPending, CommitRetry, DispatchSucceeds, DispatchFails,
          ConversationGone, Delivered, CallEnds, Dispatches
    <3> QED
      BY <2>2, <3>1, <1>b
      DEF MarkPending, CommitRetry, DispatchSucceeds, DispatchFails,
          ConversationGone, TableTypes, HistoryTypes
  <2> QED
    BY <1>2, <2>1, <2>2 DEF Continue
<1>3. CASE \/ \E x \in MessageIds : DeleteMessage(x)
           \/ \E c \in Conversations : DeleteConversation(c)
  <2>1. PICK S : Erase(S)
    BY <1>3 DEF DeleteMessage, DeleteConversation
  <2> QED
    BY <2>1 DEF Erase
<1>4. CASE \/ \E t \in Tasks, x \in MessageIds : StartRetry(t, x)
           \/ \E c \in Conversations, u \in BOOLEAN : SetUnread(c, u)
           \/ \E p \in Processes : Crash(p)
           \/ UNCHANGED vars
  BY <1>4 DEF StartRetry, SetUnread, Crash, vars
<1> QED
  BY <1>1, <1>2, <1>3, <1>4 DEF Next

\* With one API process a message sent without a key is neither sent again nor
\* reported as failed once it is SENT.
THEOREM SentStaysSent ==
    ASSUME OneApi PROVE Spec => SentIsFinal
<1> DEFINE Final == \A m \in MessageIds :
            Keyless(m) /\ m \in live' /\ status[m] = "SENT" =>
                status'[m] = "SENT" /\ calls'[m] = calls[m]
<1>1. WholeInv /\ [Next]_vars => [Final]_vars
  BY SentStep
<1> QED
  BY <1>1, WholeInvariant, PTL DEF Spec, SentIsFinal

-----------------------------------------------------------------------------
(* Any number of processes: what rows, handlers and events agree on *)

\* A copy was accepted before a handler saw the channel's answer.
AnswerOK ==
    \A t \in Tasks : task[t].pc = "accepted" /\ task[t].msg \in live =>
        accepted[task[t].msg] > 0

\* A row's conversation is there.
HomeOK == \A m \in live : Present(row[m].conv)

\* A handler that is certain to announce m, or to be cut short.
WillShow(t, m) ==
    /\ task[t].msg = m
    /\ \/ task[t].pc \in {"sending", "accepted", "failing"}
       \/ task[t].pc = "marking" /\ task[t].conv = row[m].conv

ShownOK(m) ==
    \/ shown[m] = status[m]
    \/ m \in interrupted
    \/ \E t \in Tasks : WillShow(t, m)

ShownOrComing == \A m \in live : ShownOK(m)

RowInv ==
    /\ TypeInv /\ FreshInv /\ UnwrittenInv
    /\ OneRowPerKey /\ SentWasAccepted /\ AnswerOK
    /\ HomeOK /\ ShownOrComing

LEMMA KeyStep ==
    ASSUME TypeInv, OneRowPerKey, [Next]_vars
    PROVE  OneRowPerKey'
<1> USE DEF rows, history
<1>b. TableTypes /\ TaskTypes /\ WorkOK
  BY DEF TypeInv, TypeOK
<1>0. ASSUME live' \subseteq live, \A m \in live' : row'[m] = row[m]
      PROVE  OneRowPerKey'
  BY <1>0 DEF OneRowPerKey
<1>1. ASSUME NEW t \in Tasks, InsertMessage(t)
      PROVE  OneRowPerKey'
  <2>1. /\ live' = live \cup {task[t].msg}
        /\ row'[task[t].msg].key = task[t].key
        /\ \A m \in live \ {task[t].msg} : row'[m] = row[m]
    BY <1>1, <1>b DEF InsertMessage, TableTypes, WorkOK, Busy
  <2>2. KeyFree(task[t].key)
    BY <1>1 DEF InsertMessage, Insertable
  <2> QED
    BY <2>1, <2>2 DEF KeyFree, OneRowPerKey
<1>2. ASSUME NEW t \in Tasks, Continue(t) \/ ChannelAccepts(t),
             ~InsertMessage(t)
      PROVE  UNCHANGED <<live, row>>
  BY <1>2
  DEF Continue, InsertRejected, EnqueueForAgent, AnnouncementLost, MarkPending,
      CommitRetry, ChannelAccepts, DispatchSucceeds, DispatchFails,
      FinishFailed, RowGone, ConversationGone
<1>3. CASE \/ \E m \in MessageIds : DeleteMessage(m)
           \/ \E c \in Conversations : DeleteConversation(c)
  <2>1. PICK S : Erase(S)
    BY <1>3 DEF DeleteMessage, DeleteConversation
  <2> QED
    BY <1>0, <2>1, <1>b DEF Erase, TableTypes
<1>4. CASE \/ \E t \in Tasks, c \in Conversations :
                \/ \E k \in Keys \cup {None} : StartSend(t, c, k)
                \/ \E m \in MessageIds : ReuseKey(t, c, m)
                \/ ReceiveInbound(t, c)
           \/ \E t \in Tasks, m \in MessageIds : StartRetry(t, m)
           \/ \E c \in Conversations, u \in BOOLEAN : SetUnread(c, u)
           \/ \E p \in Processes : Crash(p)
           \/ UNCHANGED vars
  BY <1>0, <1>4
  DEF StartSend, ReuseKey, ReceiveInbound, StartRetry, SetUnread, Crash, vars
<1> QED
  BY <1>0, <1>1, <1>2, <1>3, <1>4 DEF Next

\* SENT is written where the channel's answer is seen, and nowhere else.
LEMMA AcceptedStep ==
    ASSUME RowInv, [Next]_vars
    PROVE  SentWasAccepted' /\ AnswerOK'
<1> USE DEF rows, history
<1>a. TypeInv /\ FreshInv /\ UnwrittenInv /\ SentWasAccepted /\ AnswerOK
  BY DEF RowInv
<1>b. TableTypes /\ TaskTypes /\ HistoryTypes /\ WorkOK
  BY <1>a DEF TypeInv, TypeOK
<1>0. ASSUME live' \subseteq live,
             \A m \in live' : accepted'[m] = accepted[m] /\
                               (status'[m] = status[m] \/ status'[m] # "SENT"),
             \A t \in Tasks : task'[t] = task[t] \/ task'[t].pc # "accepted"
      PROVE  SentWasAccepted' /\ AnswerOK'
  BY <1>0, <1>a DEF SentWasAccepted, AnswerOK
<1>1. ASSUME NEW t \in Tasks, NEW c \in Conversations,
             \/ \E k \in Keys \cup {None} : StartSend(t, c, k)
             \/ \E m \in MessageIds : ReuseKey(t, c, m)
             \/ ReceiveInbound(t, c)
      PROVE  SentWasAccepted' /\ AnswerOK'
  <2>1. UNCHANGED <<live, status, accepted>>
    BY <1>1 DEF StartSend, ReuseKey, ReceiveInbound
  <2>2. \A u \in Tasks : task'[u] = task[u] \/ task'[u].pc # "accepted"
    <3>1. CASE \E k \in Keys \cup {None} : StartSend(t, c, k)
      BY <3>1, <1>b DEF StartSend, TaskTypes
    <3>2. CASE \E m \in MessageIds : ReuseKey(t, c, m)
      BY <3>2, <1>b DEF ReuseKey, TaskTypes
    <3>3. CASE ReceiveInbound(t, c)
      BY <3>3, <1>b DEF ReceiveInbound, TaskTypes
    <3> QED
      BY <1>1, <3>1, <3>2, <3>3
  <2> QED
    BY <1>0, <2>1, <2>2
<1>2. ASSUME NEW t \in Tasks, InsertMessage(t)
      PROVE  SentWasAccepted' /\ AnswerOK'
  <2>1. /\ live' = live \cup {task[t].msg}
        /\ UNCHANGED <<status, accepted>>
        /\ task[t].pc = "inserting"
        /\ task'[t].pc # "accepted"
        /\ \A u \in Tasks \ {t} : task'[u] = task[u]
    BY <1>2, <1>b DEF InsertMessage, Goto, TaskTypes
  <2>2. task[t].msg \in MessageIds \ live /\ status[task[t].msg] = "NULL"
    BY <2>1, <1>a, <1>b DEF FreshInv, UnwrittenInv, WorkOK, Busy, TableTypes
  <2>3. \A u \in Tasks \ {t} : task[u].pc = "accepted" =>
            task[u].msg # task[t].msg
    BY <2>1, <1>a DEF FreshInv, Busy
  <2> QED
    BY <2>1, <2>2, <2>3, <1>a DEF SentWasAccepted, AnswerOK
<1>3. ASSUME NEW t \in Tasks, ChannelAccepts(t)
      PROVE  SentWasAccepted' /\ AnswerOK'
  <2>1. task[t].msg \in MessageIds
    BY <1>3, <1>b DEF ChannelAccepts, WorkOK, Busy, TableTypes
  <2>2. /\ \A m \in MessageIds : accepted'[m] \in Nat /\ accepted'[m] >= accepted[m]
        /\ task[t].msg \in live => accepted'[task[t].msg] > 0
    BY <1>3, <2>1, <1>b DEF ChannelAccepts, HistoryTypes
  <2>3. /\ task'[t].msg = task[t].msg
        /\ \A u \in Tasks \ {t} : task'[u] = task[u]
        /\ UNCHANGED <<live, status>>
    BY <1>3, <1>b DEF ChannelAccepts, Goto, TaskTypes
  <2>4. \A m \in live : m \in MessageIds /\ accepted[m] \in Nat
    BY <1>b DEF TableTypes, HistoryTypes
  <2>5. SentWasAccepted'
    BY <2>2, <2>3, <2>4, <1>a DEF SentWasAccepted
  <2>6. AnswerOK'
    BY <2>2, <2>3, <2>4, <1>a DEF AnswerOK
  <2> QED
    BY <2>5, <2>6
<1>4. ASSUME NEW t \in Tasks, DispatchSucceeds(t)
      PROVE  SentWasAccepted' /\ AnswerOK'
  <2>1. accepted[task[t].msg] > 0
    BY <1>4, <1>a DEF DispatchSucceeds, Delivered, AnswerOK
  <2>2. /\ UNCHANGED <<live, accepted>>
        /\ \A m \in live \ {task[t].msg} : status'[m] = status[m]
        /\ \A u \in Tasks : task'[u] = task[u] \/ task'[u].pc # "accepted"
    BY <1>4, <1>b DEF DispatchSucceeds, Finish, Idle, TableTypes, TaskTypes
  <2> QED
    BY <2>1, <2>2, <1>a DEF SentWasAccepted, AnswerOK
<1>5. ASSUME NEW t \in Tasks, Continue(t), ~InsertMessage(t),
             ~DispatchSucceeds(t)
      PROVE  SentWasAccepted' /\ AnswerOK'
  <2> USE <1>0, <1>b DEF TableTypes, TaskTypes, Finish, Goto, Idle
  <2>1. CASE InsertRejected(t) \/ EnqueueForAgent(t) \/ AnnouncementLost(t)
    BY <2>1 DEF InsertRejected, EnqueueForAgent, AnnouncementLost
  <2>2. CASE MarkPending(t) \/ CommitRetry(t) \/ DispatchFails(t)
    BY <2>2 DEF MarkPending, CommitRetry, DispatchFails
  <2>3. CASE FinishFailed(t) \/ RowGone(t) \/ ConversationGone(t)
    BY <2>3 DEF FinishFailed, RowGone, ConversationGone
  <2> QED
    BY <1>5, <2>1, <2>2, <2>3 DEF Continue
<1>6. CASE \/ \E m \in MessageIds : DeleteMessage(m)
           \/ \E c \in Conversations : DeleteConversation(c)
  <2>1. PICK S : Erase(S)
    BY <1>6 DEF DeleteMessage, DeleteConversation
  <2>2. /\ live' = live \ S /\ UNCHANGED task
        /\ \A m \in live' : status'[m] = status[m] /\ accepted'[m] = accepted[m]
    BY <2>1, <1>b DEF Erase, TableTypes
  <2> QED
    BY <1>0, <2>2
<1>7. CASE \/ \E t \in Tasks, m \in MessageIds : StartRetry(t, m)
           \/ \E c \in Conversations, u \in BOOLEAN : SetUnread(c, u)
           \/ \E p \in Processes : Crash(p)
           \/ UNCHANGED vars
  BY <1>0, <1>7, <1>b DEF StartRetry, SetUnread, Crash, Idle, TaskTypes, vars
<1> QED
  BY <1>1, <1>2, <1>3, <1>4, <1>5, <1>6, <1>7 DEF Next

LEMMA HomeStep ==
    ASSUME TypeInv, HomeOK, [Next]_vars
    PROVE  HomeOK'
<1> USE DEF rows, history, HomeOK, Present
<1>b. TableTypes /\ TaskTypes /\ WorkOK /\ RowsOK
  BY DEF TypeInv, TypeOK
<1>0. ASSUME UNCHANGED <<live, row, conversation>>
      PROVE  HomeOK'
  BY <1>0
<1>1. ASSUME NEW t \in Tasks, NEW c \in Conversations, ReceiveInbound(t, c)
      PROVE  HomeOK'
  <2>1. UNCHANGED <<live, row>>
    BY <1>1 DEF ReceiveInbound
  <2>2. \A d \in Conversations : conversation'[d].state \in
            {conversation[d].state, "present"}
    BY <1>1, <1>b DEF ReceiveInbound, TableTypes
  <2> QED
    BY <2>1, <2>2, <1>b DEF RowsOK
<1>2. ASSUME NEW t \in Tasks, InsertMessage(t)
      PROVE  HomeOK'
  <2>1. /\ live' = live \cup {task[t].msg}
        /\ row'[task[t].msg].conv = task[t].conv
        /\ \A m \in live \ {task[t].msg} : row'[m] = row[m]
        /\ task[t].conv \in Conversations
        /\ conversation[task[t].conv].state = "present"
    BY <1>2, <1>b DEF InsertMessage, Insertable, TableTypes, WorkOK, Busy
  <2>2. \A d \in Conversations : conversation'[d].state = conversation[d].state
    BY <1>2, <1>b DEF InsertMessage, TableTypes
  <2> QED
    BY <2>1, <2>2, <1>b DEF RowsOK
<1>3. ASSUME NEW t \in Tasks, Continue(t) \/ ChannelAccepts(t),
             ~InsertMessage(t)
      PROVE  UNCHANGED <<live, row, conversation>>
  BY <1>3
  DEF Continue, InsertRejected, EnqueueForAgent, AnnouncementLost, MarkPending,
      CommitRetry, ChannelAccepts, DispatchSucceeds, DispatchFails,
      FinishFailed, RowGone, ConversationGone
<1>4. ASSUME NEW x \in MessageIds, DeleteMessage(x)
      PROVE  HomeOK'
  <2>1. live' \subseteq live /\ \A m \in live' : row'[m] = row[m]
    BY <1>4, <1>b DEF DeleteMessage, Erase, TableTypes
  <2>2. \A d \in Conversations : conversation'[d].state = conversation[d].state
    <3>1. CASE conversation' = [conversation EXCEPT
                ![row[x].conv].last = None, ![row[x].conv].dated = FALSE,
                ![row[x].conv].unread = FALSE]
      BY <3>1, <1>b DEF TableTypes
    <3>2. ASSUME NEW n \in live, conversation' = [conversation EXCEPT
                ![row[x].conv].last = n, ![row[x].conv].dated = TRUE,
                ![row[x].conv].unread = row[n].inbound]
          PROVE  \A d \in Conversations :
                    conversation'[d].state = conversation[d].state
      BY <3>2, <1>b DEF TableTypes
    <3> QED
      BY <1>4, <3>1, <3>2 DEF DeleteMessage, Newest
  <2> QED
    BY <2>1, <2>2, <1>b DEF RowsOK
<1>5. ASSUME NEW c \in Conversations, DeleteConversation(c)
      PROVE  HomeOK'
  <2>1. /\ live' \subseteq live
        /\ \A m \in live' : row'[m] = row[m] /\ row[m].conv # c
    BY <1>5, <1>b DEF DeleteConversation, Erase, TableTypes
  <2>2. \A d \in Conversations \ {c} : conversation'[d] = conversation[d]
    BY <1>5, <1>b DEF DeleteConversation, TableTypes
  <2> QED
    BY <2>1, <2>2, <1>b DEF RowsOK
<1>6. ASSUME NEW c \in Conversations, NEW u \in BOOLEAN, SetUnread(c, u)
      PROVE  HomeOK'
  <2>1. /\ UNCHANGED <<live, row>>
        /\ \A d \in Conversations :
                conversation'[d].state = conversation[d].state
    BY <1>6, <1>b DEF SetUnread, TableTypes
  <2> QED
    BY <2>1, <1>b DEF RowsOK
<1>7. CASE \/ \E t \in Tasks, c \in Conversations :
                \/ \E k \in Keys \cup {None} : StartSend(t, c, k)
                \/ \E m \in MessageIds : ReuseKey(t, c, m)
           \/ \E t \in Tasks, m \in MessageIds : StartRetry(t, m)
           \/ \E p \in Processes : Crash(p)
           \/ UNCHANGED vars
  BY <1>0, <1>7 DEF StartSend, ReuseKey, StartRetry, Crash, vars
<1> QED
  BY <1>0, <1>1, <1>2, <1>3, <1>4, <1>5, <1>6, <1>7 DEF Next

\* A step that neither writes nor announces m and keeps, or interrupts, the
\* handlers that will announce it.
LEMMA ShownFrame ==
    ASSUME NEW m, ShownOK(m),
           row'[m] = row[m], status'[m] = status[m], shown'[m] = shown[m],
           interrupted \subseteq interrupted',
           \A t \in Tasks : WillShow(t, m) =>
                WillShow(t, m)' \/ m \in interrupted'
    PROVE  ShownOK(m)'
  BY DEF ShownOK

LEMMA ShownStep ==
    ASSUME RowInv, [Next]_vars
    PROVE  ShownOrComing'
<1> USE DEF rows, history
<1>a. TypeInv /\ FreshInv /\ UnwrittenInv /\ HomeOK /\ ShownOrComing
  BY DEF RowInv
<1>b. TableTypes /\ TaskTypes /\ HistoryTypes /\ WorkOK
  BY <1>a DEF TypeInv, TypeOK
<1> SUFFICES ASSUME NEW m \in live'
             PROVE  ShownOK(m)'
  BY DEF ShownOrComing
<1>m. m \in MessageIds
  <2>1. TableTypes'
    BY <1>a, NextTypeInv DEF TypeInv, TypeOK
  <2> QED
    BY <2>1 DEF TableTypes
<1>0. ASSUME m \in live, row'[m] = row[m], status'[m] = status[m],
             shown'[m] = shown[m], interrupted \subseteq interrupted',
             \A t \in Tasks : WillShow(t, m) =>
                task'[t] = task[t] \/ WillShow(t, m)' \/ m \in interrupted'
      PROVE  ShownOK(m)'
  <2>1. ShownOK(m)
    BY <1>0, <1>a DEF ShownOrComing
  <2>2. \A t \in Tasks : WillShow(t, m) => WillShow(t, m)' \/ m \in interrupted'
    BY <1>0 DEF WillShow
  <2> QED
    BY <1>0, <2>1, <2>2, ShownFrame
<1>1. ASSUME NEW t \in Tasks, NEW c \in Conversations,
             \/ \E k \in Keys \cup {None} : StartSend(t, c, k)
             \/ \E x \in MessageIds : ReuseKey(t, c, x)
             \/ ReceiveInbound(t, c)
      PROVE  ShownOK(m)'
  <2>1. /\ UNCHANGED <<live, row, status, shown, interrupted>>
        /\ task[t].pc = "idle"
    BY <1>1 DEF StartSend, ReuseKey, ReceiveInbound, LoopFree
  <2>2. \A u \in Tasks \ {t} : task'[u] = task[u]
    BY <1>1, <1>b DEF StartSend, ReuseKey, ReceiveInbound, TaskTypes
  <2> QED
    BY <1>0, <2>1, <2>2 DEF WillShow
<1>2. ASSUME NEW t \in Tasks, InsertMessage(t)
      PROVE  ShownOK(m)'
  <2>1. /\ task[t].pc = "inserting" /\ task[t].msg \in MessageIds \ live
        /\ live' = live \cup {task[t].msg}
        /\ row'[task[t].msg].conv = task[t].conv
        /\ \A x \in live : row'[x] = row[x] /\ shown'[x] = shown[x]
        /\ UNCHANGED <<status, interrupted>>
        /\ \A u \in Tasks \ {t} : task'[u] = task[u]
    BY <1>2, <1>a, <1>b
    DEF InsertMessage, Goto, FreshInv, WorkOK, Busy, TableTypes, TaskTypes,
        HistoryTypes
  <2>2. CASE m \in live
    BY <1>0, <2>1, <2>2 DEF WillShow
  <2>3. CASE m = task[t].msg /\ task[t].inbound
    BY <1>2, <2>1, <2>3, <1>b DEF InsertMessage, HistoryTypes, ShownOK
  <2>4. CASE m = task[t].msg /\ ~task[t].inbound
    <3>1. task'[t].msg = m /\ task'[t].pc = "marking" /\ task'[t].conv = row'[m].conv
      BY <1>2, <2>1, <2>4, <1>b DEF InsertMessage, Goto, TaskTypes
    <3> QED
      BY <3>1 DEF ShownOK, WillShow
  <2> QED
    BY <2>1, <2>2, <2>3, <2>4
<1>3. ASSUME NEW t \in Tasks, Continue(t) \/ ChannelAccepts(t),
             ~InsertMessage(t)
      PROVE  ShownOK(m)'
  <2>0. UNCHANGED <<live, row>> /\ m \in live
    BY <1>3
    DEF Continue, InsertRejected, EnqueueForAgent, AnnouncementLost,
        MarkPending, CommitRetry, ChannelAccepts, DispatchSucceeds,
        DispatchFails, FinishFailed, RowGone, ConversationGone
  <2>9. ASSUME \A x \in MessageIds \ {task[t].msg} :
                    status'[x] = status[x] /\ shown'[x] = shown[x],
               interrupted \subseteq interrupted',
               \A u \in Tasks \ {t} : task'[u] = task[u],
               task[t].msg # m
        PROVE  ShownOK(m)'
    BY <1>0, <1>m, <2>0, <2>9 DEF WillShow
  <2>1. CASE InsertRejected(t) \/ EnqueueForAgent(t) \/ AnnouncementLost(t)
    <3>1. /\ UNCHANGED <<status, shown>> /\ interrupted \subseteq interrupted'
          /\ task[t].pc \in {"inserting", "announcing"}
          /\ \A u \in Tasks \ {t} : task'[u] = task[u]
      BY <2>1, <1>b
      DEF InsertRejected, EnqueueForAgent, AnnouncementLost, Finish, TaskTypes
    <3> QED
      BY <1>0, <2>0, <3>1 DEF WillShow
  <2>2. CASE MarkPending(t) \/ CommitRetry(t) \/ ChannelAccepts(t)
             \/ DispatchFails(t)
    <3>1. /\ \A x \in MessageIds \ {task[t].msg} : status'[x] = status[x]
          /\ UNCHANGED <<shown, interrupted>>
          /\ \A u \in Tasks \ {t} : task'[u] = task[u]
          /\ task'[t].msg = task[t].msg
          /\ task'[t].pc \in {"sending", "accepted", "failing"}
      BY <2>2, <1>b
      DEF MarkPending, CommitRetry, ChannelAccepts, DispatchFails, Goto,
          TaskTypes, TableTypes
    <3>2. CASE task[t].msg = m
      BY <3>1, <3>2 DEF ShownOK, WillShow
    <3> QED
      BY <2>9, <3>1, <3>2
  <2>3. CASE DispatchSucceeds(t) \/ FinishFailed(t)
    <3>1. /\ \A x \in MessageIds \ {task[t].msg} :
                status'[x] = status[x] /\ shown'[x] = shown[x]
          /\ UNCHANGED interrupted
          /\ \A u \in Tasks \ {t} : task'[u] = task[u]
      BY <2>3, <1>b
      DEF DispatchSucceeds, FinishFailed, Finish, TaskTypes, TableTypes,
          HistoryTypes
    <3>2. CASE task[t].msg = m
      <4>1. shown'[m] = status'[m]
        BY <2>3, <3>2, <1>m, <1>b
        DEF DispatchSucceeds, FinishFailed, Refreshed, TableTypes, HistoryTypes
      <4> QED
        BY <4>1 DEF ShownOK
    <3> QED
      BY <2>9, <3>1, <3>2
  <2>4. CASE RowGone(t)
    <3>1. /\ UNCHANGED <<status, shown, interrupted>>
          /\ task[t].msg # m
          /\ \A u \in Tasks \ {t} : task'[u] = task[u]
      BY <2>4, <2>0, <1>b DEF RowGone, Finish, TaskTypes
    <3> QED
      BY <2>9, <3>1
  <2>5. CASE ConversationGone(t)
    <3>1. /\ \A x \in MessageIds \ {task[t].msg} :
                status'[x] = status[x] /\ shown'[x] = shown[x]
          /\ UNCHANGED interrupted
          /\ \A u \in Tasks \ {t} : task'[u] = task[u]
          /\ task[t].pc = "marking" /\ ~Present(task[t].conv)
      BY <2>5, <1>b
      DEF ConversationGone, Finish, TaskTypes, TableTypes, HistoryTypes
    <3>2. CASE task[t].msg = m /\ UNCHANGED <<status, shown>>
      <4>1. ~WillShow(t, m)
        BY <3>1, <3>2, <2>0, <1>a DEF WillShow, HomeOK
      <4> QED
        BY <1>0, <2>0, <3>1, <3>2, <4>1 DEF WillShow
    <3>3. CASE task[t].msg = m /\ ~UNCHANGED <<status, shown>>
      <4>1. shown'[m] = status'[m]
        BY <2>5, <3>3, <1>m, <1>b
        DEF ConversationGone, TableTypes, HistoryTypes
      <4> QED
        BY <4>1 DEF ShownOK
    <3> QED
      BY <2>9, <3>1, <3>2, <3>3
  <2> QED
    BY <1>3, <2>1, <2>2, <2>3, <2>4, <2>5 DEF Continue
<1>4. CASE \/ \E x \in MessageIds : DeleteMessage(x)
           \/ \E c \in Conversations : DeleteConversation(c)
  <2>1. PICK S : Erase(S)
    BY <1>4 DEF DeleteMessage, DeleteConversation
  <2>2. /\ m \in live /\ row'[m] = row[m] /\ status'[m] = status[m]
        /\ shown'[m] = shown[m] /\ UNCHANGED <<task, interrupted>>
    BY <2>1, <1>m DEF Erase
  <2> QED
    BY <1>0, <2>2
<1>5. CASE \E p \in Processes : Crash(p)
  <2>1. UNCHANGED <<live, row, status, shown>>
    BY <1>5 DEF Crash
  <2>2. interrupted \subseteq interrupted'
    BY <1>5 DEF Crash
  <2>3. \A t \in Tasks : task'[t] = task[t] \/ task[t].msg \in interrupted'
    BY <1>5, <1>b DEF Crash, TaskTypes
  <2> QED
    BY <1>0, <2>1, <2>2, <2>3 DEF WillShow
<1>6. CASE \/ \E t \in Tasks, x \in MessageIds : StartRetry(t, x)
           \/ \E c \in Conversations, u \in BOOLEAN : SetUnread(c, u)
           \/ UNCHANGED vars
  <2>1. UNCHANGED <<live, row, status, shown, interrupted>>
    BY <1>6 DEF StartRetry, SetUnread, vars
  <2>2. \A t \in Tasks : task'[t] = task[t] \/ task[t].pc = "idle"
    BY <1>6, <1>b DEF StartRetry, LoopFree, SetUnread, vars, TaskTypes
  <2> QED
    BY <1>0, <2>1, <2>2 DEF WillShow
<1> QED
  BY <1>1, <1>2, <1>3, <1>4, <1>5, <1>6 DEF Next

LEMMA RowInvariant == Spec => []RowInv
<1>1. Init => RowInv
  <2>1. Init => /\ FreshInv /\ UnwrittenInv /\ OneRowPerKey
                /\ SentWasAccepted /\ AnswerOK /\ HomeOK /\ ShownOrComing
    BY DEF Init, FreshInv, UnwrittenInv, OneRowPerKey, SentWasAccepted,
           AnswerOK, HomeOK, ShownOrComing, Idle
  <2> QED
    BY <2>1, InitTypeInv DEF RowInv
<1>2. RowInv /\ [Next]_vars => RowInv'
  BY NextTypeInv, FreshStep, UnwrittenStep, KeyStep, AcceptedStep, HomeStep,
     ShownStep
  DEF RowInv
<1> QED
  BY <1>1, <1>2, PTL DEF Spec

\* However many processes race for an idempotency key, at most one row has it.
THEOREM KeysAreUnique == Spec => []OneRowPerKey
<1>1. RowInv => OneRowPerKey
  BY DEF RowInv
<1> QED
  BY <1>1, RowInvariant, PTL

\* No message is SENT, with or without a key, unless the channel accepted it.
THEOREM SentIsEarned == Spec => []SentWasAccepted
<1>1. RowInv => SentWasAccepted
  BY DEF RowInv
<1> QED
  BY <1>1, RowInvariant, PTL

\* Whatever overlaps, crashes of others included, the last event about a message
\* nobody works on carried its stored status.
THEOREM LastEventIsTrue == Spec => []ShownIsStored
<1>1. RowInv => ShownIsStored
  BY DEF RowInv, ShownOrComing, ShownOK, WillShow, ShownIsStored, Working
<1> QED
  BY <1>1, RowInvariant, PTL

-----------------------------------------------------------------------------
(* One process: the preview and the rows are written together *)

Here(c) == {m \in live : row[m].conv = c}

LastOK ==
    /\ interrupted \subseteq used
    /\ \A c \in Conversations : conversation[c].last \in used \cup {None}

\* A row to be inserted will be accepted, and no preview but its own
\* conversation's shows it yet.
HandOK ==
    \A t \in Tasks : task[t].pc = "inserting" =>
        /\ Insertable(t)
        /\ task[t].msg \notin interrupted
        /\ \A c \in Conversations :
            conversation[c].last = task[t].msg => c = task[t].conv

PreviewOK ==
    \A c \in Conversations :
        \/ conversation[c].last \in Newest(Here(c))
        \/ conversation[c].last = None /\ Here(c) = {}
        \/ conversation[c].last \in interrupted \ live
        \/ \E t \in Tasks : /\ task[t].pc = "inserting"
                            /\ task[t].msg = conversation[c].last

PreviewInv == SequenceInv /\ FreshInv /\ LastOK /\ HandOK /\ PreviewOK

\* Nothing is written but by whoever holds the loop, which here is alone.
LEMMA NobodyInserts ==
    ASSUME TypeInv, LoopInv, SingleProcess, NEW u \in Tasks,
           loop[ProcessOf[u]] = None \/ ApiLoopFree
           \/ (Holding(u) /\ task[u].pc # "inserting")
    PROVE  \A t \in Tasks : task[t].pc # "inserting"
<1>1. SUFFICES ASSUME NEW t \in Tasks, task[t].pc = "inserting"
               PROVE  FALSE
  OBVIOUS
<1>2. loop[ProcessOf[u]] = t /\ (Holding(u) => u = t) /\ t # None
  BY <1>1, AloneBetween, ConstantsAssumption
<1>3. ASSUME NEW p \in Api, loop[p] = None
      PROVE  FALSE
  BY <1>2, <1>3, ConstantsAssumption DEF SingleProcess
<1> QED
  BY <1>1, <1>2, <1>3 DEF ApiLoopFree

LEMMA PreviewFrame ==
    ASSUME TypeInv, LastOK, HandOK, PreviewOK, UNCHANGED <<live, row>>,
           used \subseteq used', interrupted \subseteq interrupted',
           interrupted' \subseteq used',
           \A c \in Conversations :
                /\ conversation'[c].last = conversation[c].last
                /\ conversation'[c].state = conversation[c].state,
           \A t \in Tasks : task'[t].pc = "inserting" =>
                task'[t] = task[t] /\ task[t].msg \notin interrupted',
           \A t \in Tasks : task[t].pc = "inserting" =>
                task'[t] = task[t] \/ task[t].msg \in interrupted' \ live
    PROVE  LastOK' /\ HandOK' /\ PreviewOK'
<1>1. LastOK'
  BY DEF LastOK
<1>2. HandOK'
  BY DEF HandOK, Insertable, Present, KeyFree, TypeInv, WorkOK, Busy
<1>3. PreviewOK'
  BY DEF PreviewOK, Newest, Here
<1> QED
  BY <1>1, <1>2, <1>3

LEMMA PreviewStep ==
    ASSUME PreviewInv, SingleProcess, [Next]_vars
    PROVE  LastOK' /\ HandOK' /\ PreviewOK'
<1> USE DEF rows, history
<1>a. /\ TypeInv /\ LoopInv /\ InsertInv /\ FreshInv
      /\ LastOK /\ HandOK /\ PreviewOK
  BY DEF PreviewInv, SequenceInv
<1>b. TableTypes /\ TaskTypes /\ HistoryTypes /\ WorkOK /\ RowsOK
  BY <1>a DEF TypeInv, TypeOK
<1>1. ASSUME NEW t \in Tasks, NEW c \in Conversations,
             NEW k \in Keys \cup {None}, StartSend(t, c, k)
      PROVE  LastOK' /\ HandOK' /\ PreviewOK'
  <2>1. PICK m \in MessageIds \ used :
          /\ used' = used \cup {m}
          /\ task'[t].pc = "inserting" /\ task'[t].conv = c
          /\ task'[t].msg = m /\ task'[t].key = k
          /\ \A u \in Tasks \ {t} : task'[u] = task[u]
    BY <1>1, <1>b DEF StartSend, TaskTypes
  <2>2. /\ UNCHANGED <<live, row, conversation, interrupted>>
        /\ Present(c) /\ KeyFree(k)
    BY <1>1 DEF StartSend
  <2>3. \A u \in Tasks : task[u].pc # "inserting"
    BY <1>1, <1>a, NobodyInserts DEF StartSend, LoopFree
  <2>4. m # None /\ \A d \in Conversations : conversation[d].last # m
    BY <1>a, ConstantsAssumption DEF LastOK
  <2>5. LastOK'
    BY <2>1, <2>2, <1>a DEF LastOK
  <2>6. HandOK'
    BY <2>1, <2>2, <2>3, <2>4, <1>a
    DEF HandOK, LastOK, Insertable, Present, KeyFree
  <2>7. PreviewOK'
    BY <2>2, <2>3, <1>a DEF PreviewOK, Newest, Here
  <2> QED
    BY <2>5, <2>6, <2>7
<1>2. ASSUME NEW t \in Tasks, NEW c \in Conversations, ReceiveInbound(t, c)
      PROVE  LastOK' /\ HandOK' /\ PreviewOK'
  <2>1. PICK m \in MessageIds \ used :
          /\ used' = used \cup {m}
          /\ task'[t].pc = "inserting" /\ task'[t].conv = c
          /\ task'[t].msg = m /\ task'[t].key = None
          /\ \A u \in Tasks \ {t} : task'[u] = task[u]
          /\ conversation'[c].state = "present"
          /\ conversation'[c].last \in {m, conversation[c].last}
          /\ \A d \in Conversations \ {c} : conversation'[d] = conversation[d]
    BY <1>2, <1>b DEF ReceiveInbound, TaskTypes, TableTypes
  <2>2. UNCHANGED <<live, row, interrupted>>
    BY <1>2 DEF ReceiveInbound
  <2>3. \A u \in Tasks : task[u].pc # "inserting"
    BY <1>2, <1>a, NobodyInserts DEF ReceiveInbound, LoopFree
  <2>4. m # None /\ \A d \in Conversations : conversation[d].last # m
    BY <1>a, ConstantsAssumption DEF LastOK
  <2>5. LastOK'
    BY <2>1, <2>2, <1>a DEF LastOK
  <2>6. HandOK'
    BY <2>1, <2>2, <2>3, <2>4, <1>a
    DEF HandOK, LastOK, Insertable, Present, KeyFree
  <2>7. PreviewOK'
    BY <2>1, <2>2, <2>3, <1>a DEF PreviewOK, Newest, Here
  <2> QED
    BY <2>5, <2>6, <2>7
<1>3. ASSUME NEW t \in Tasks, InsertMessage(t)
      PROVE  LastOK' /\ HandOK' /\ PreviewOK'
  <2>0. PICK m \in MessageIds, c \in Conversations :
            m = task[t].msg /\ c = task[t].conv
    BY <1>3, <1>b DEF InsertMessage, WorkOK, Busy, TableTypes
  <2>1. /\ task[t].pc = "inserting" /\ m \in used
        /\ m \notin live /\ task[t].num \in Nat
    BY <1>3, <2>0, <1>a, <1>b DEF InsertMessage, InsertInv, WorkOK, Busy
  <2>2. /\ live' = live \cup {m}
        /\ row'[m].conv = c /\ row'[m].seq = task[t].num
        /\ \A x \in live : row'[x] = row[x]
        /\ conversation'[c].last = m
        /\ \A d \in Conversations \ {c} : conversation'[d] = conversation[d]
        /\ UNCHANGED <<used, interrupted>>
    BY <1>3, <2>0, <2>1, <1>b DEF InsertMessage, TableTypes
  <2>3. \A u \in Tasks : task'[u].pc # "inserting"
    BY <1>3, <2>1, <1>a, <1>b, AloneBetween
    DEF InsertMessage, Goto, Holding, TaskTypes
  <2>4. LastOK'
    BY <2>1, <2>2, <1>a DEF LastOK
  <2>5. HandOK'
    BY <2>3 DEF HandOK
  <2>6. conversation'[c].last \in Newest(Here(c))'
    <3>1. \A x \in live : row[x].conv = c =>
            row[x].seq \in Nat /\ row[x].seq < task[t].num
      BY <2>0, <2>1, <1>a, <1>b DEF InsertInv, TableTypes
    <3> QED
      BY <2>1, <2>2, <3>1 DEF Newest, Here
  <2>7. ASSUME NEW d \in Conversations \ {c}
        PROVE  \/ conversation'[d].last \in Newest(Here(d))'
               \/ conversation'[d].last = None /\ Here(d)' = {}
               \/ conversation'[d].last \in interrupted' \ live'
    <3>1. Here(d)' = Here(d) /\ Newest(Here(d))' = Newest(Here(d))
      BY <2>1, <2>2 DEF Newest, Here
    <3>2. conversation[d].last # m
      BY <2>0, <2>1, <1>a DEF HandOK
    <3>3. \A u \in Tasks : task[u].pc = "inserting" => u = t
      BY <2>1, <1>a, AloneBetween DEF Holding
    <3> QED
      BY <2>0, <2>2, <3>1, <3>2, <3>3, <1>a DEF PreviewOK
  <2> QED
    BY <2>4, <2>5, <2>6, <2>7 DEF PreviewOK
<1>4. ASSUME NEW t \in Tasks, Continue(t) \/ ChannelAccepts(t),
             ~InsertMessage(t)
      PROVE  LastOK' /\ HandOK' /\ PreviewOK'
  <2>1. ~InsertRejected(t)
    BY <1>a DEF InsertRejected, HandOK
  <2>2. UNCHANGED <<live, row, conversation, used>>
    BY <1>4, <2>1
    DEF Continue, EnqueueForAgent, AnnouncementLost, MarkPending, CommitRetry,
        ChannelAccepts, DispatchSucceeds, DispatchFails, FinishFailed, RowGone,
        ConversationGone
  <2>3. task[t].pc # "inserting" /\ Busy(t)
    BY <1>4, <2>1
    DEF Continue, EnqueueForAgent, AnnouncementLost, MarkPending, CommitRetry,
        ChannelAccepts, DispatchSucceeds, DispatchFails, FinishFailed, RowGone,
        ConversationGone, Delivered, CallEnds, Busy
  <2>4. /\ task'[t].pc # "inserting"
        /\ \A u \in Tasks \ {t} : task'[u] = task[u]
    <3> USE <1>b DEF TaskTypes, Finish, Goto, Idle
    <3>1. CASE EnqueueForAgent(t) \/ AnnouncementLost(t) \/ FinishFailed(t)
      BY <3>1 DEF EnqueueForAgent, AnnouncementLost, FinishFailed
    <3>2. CASE MarkPending(t) \/ CommitRetry(t) \/ ChannelAccepts(t)
      BY <3>2 DEF MarkPending, CommitRetry, ChannelAccepts
    <3>3. CASE DispatchSucceeds(t) \/ DispatchFails(t)
      BY <3>3 DEF DispatchSucceeds, DispatchFails
    <3>4. CASE RowGone(t) \/ ConversationGone(t)
      BY <3>4 DEF RowGone, ConversationGone
    <3> QED
      BY <1>4, <2>1, <3>1, <3>2, <3>3, <3>4 DEF Continue
  <2>5. interrupted' \in {interrupted, interrupted \cup {task[t].msg}}
    BY <1>4, <2>1
    DEF Continue, EnqueueForAgent, AnnouncementLost, MarkPending, CommitRetry,
        ChannelAccepts, DispatchSucceeds, DispatchFails, FinishFailed, RowGone,
        ConversationGone
  <2>6. interrupted \subseteq interrupted' /\ interrupted' \subseteq used'
    BY <2>2, <2>3, <2>5, <1>a, <1>b DEF LastOK, WorkOK
  <2>7. \A u \in Tasks : task[u].pc = "inserting" =>
            task[u].msg \notin interrupted'
    BY <2>3, <2>5, <1>a DEF HandOK, FreshInv
  <2> QED
    BY <2>2, <2>3, <2>4, <2>6, <2>7, <1>a, PreviewFrame
<1>5. ASSUME NEW x \in MessageIds, DeleteMessage(x)
      PROVE  LastOK' /\ HandOK' /\ PreviewOK'
  <2>0. PICK c \in Conversations, rest \in SUBSET live :
            c = row[x].conv /\ rest = {n \in live \ {x} : row[n].conv = c}
    BY <1>5, <1>b DEF DeleteMessage, RowsOK
  <2>1. /\ live' = live \ {x} /\ x \in live
        /\ \A n \in live' : row'[n] = row[n]
        /\ UNCHANGED <<task, used, interrupted>>
    BY <1>5, <1>b DEF DeleteMessage, Erase, TableTypes, RowsOK
  <2>2. \A t \in Tasks : task[t].pc # "inserting"
    <3>1. ApiLoopFree
      BY <1>5 DEF DeleteMessage
    <3> QED
      BY <3>1, <1>a, NobodyInserts
  <2>3. /\ \A d \in Conversations \ {c} : conversation'[d] = conversation[d]
        /\ \/ conversation'[c].last = None /\ rest = {}
           \/ conversation'[c].last \in Newest(rest)
    <3>1. CASE rest = {} /\ conversation' = [conversation EXCEPT
                ![c].last = None, ![c].dated = FALSE, ![c].unread = FALSE]
      BY <3>1, <1>b DEF TableTypes
    <3>2. ASSUME NEW n \in Newest(rest), conversation' = [conversation EXCEPT
                ![c].last = n, ![c].dated = TRUE, ![c].unread = row[n].inbound]
          PROVE  /\ \A d \in Conversations \ {c} :
                        conversation'[d] = conversation[d]
                 /\ conversation'[c].last \in Newest(rest)
      BY <3>2, <1>b DEF TableTypes
    <3> QED
      BY <1>5, <2>0, <3>1, <3>2 DEF DeleteMessage
  <2>4. Here(c)' = rest /\ Newest(Here(c))' = Newest(rest)
    BY <2>0, <2>1 DEF Newest, Here
  <2>5. LastOK'
    BY <2>0, <2>1, <2>3, <1>a, <1>b DEF LastOK, Newest, TableTypes
  <2>6. HandOK'
    BY <2>1, <2>2 DEF HandOK
  <2>7. ASSUME NEW d \in Conversations \ {c}
        PROVE  \/ conversation'[d].last \in Newest(Here(d))'
               \/ conversation'[d].last = None /\ Here(d)' = {}
               \/ conversation'[d].last \in interrupted' \ live'
    <3>1. Here(d)' = Here(d) /\ Newest(Here(d))' = Newest(Here(d))
      BY <2>0, <2>1 DEF Newest, Here
    <3> QED
      BY <2>1, <2>2, <2>3, <3>1, <1>a DEF PreviewOK
  <2> QED
    BY <2>3, <2>4, <2>5, <2>6, <2>7 DEF PreviewOK
<1>6. ASSUME NEW c \in Conversations, DeleteConversation(c)
      PROVE  LastOK' /\ HandOK' /\ PreviewOK'
  <2>1. /\ live' = live \ Here(c)
        /\ \A n \in live' : row'[n] = row[n]
        /\ UNCHANGED <<task, used, interrupted>>
        /\ conversation'[c].last = None
        /\ \A d \in Conversations \ {c} : conversation'[d] = conversation[d]
    BY <1>6, <1>b
    DEF DeleteConversation, Erase, Here, TableTypes, NewConversation
  <2>2. \A t \in Tasks : task[t].pc # "inserting"
    <3>1. ApiLoopFree
      BY <1>6 DEF DeleteConversation
    <3> QED
      BY <3>1, <1>a, NobodyInserts
  <2>3. LastOK' /\ HandOK'
    BY <2>1, <2>2, <1>a DEF LastOK, HandOK
  <2>4. Here(c)' = {}
    BY <2>1 DEF Here
  <2>5. ASSUME NEW d \in Conversations \ {c}
        PROVE  \/ conversation'[d].last \in Newest(Here(d))'
               \/ conversation'[d].last = None /\ Here(d)' = {}
               \/ conversation'[d].last \in interrupted' \ live'
    <3>1. Here(d)' = Here(d) /\ Newest(Here(d))' = Newest(Here(d))
      BY <2>1 DEF Newest, Here
    <3> QED
      BY <2>1, <2>2, <3>1, <1>a DEF PreviewOK
  <2> QED
    BY <2>1, <2>3, <2>4, <2>5 DEF PreviewOK
<1>7. ASSUME NEW c \in Conversations, NEW u \in BOOLEAN, SetUnread(c, u)
      PROVE  LastOK' /\ HandOK' /\ PreviewOK'
  <2>1. UNCHANGED <<live, row, task, used, interrupted>>
    BY <1>7 DEF SetUnread
  <2>2. \A d \in Conversations :
            /\ conversation'[d].last = conversation[d].last
            /\ conversation'[d].state = conversation[d].state
    BY <1>7, <1>b DEF SetUnread, TableTypes
  <2> QED
    BY <2>1, <2>2, <1>a, PreviewFrame DEF LastOK, HandOK
<1>8. ASSUME NEW p \in Processes, Crash(p)
      PROVE  LastOK' /\ HandOK' /\ PreviewOK'
  <2>1. UNCHANGED <<live, row, conversation, used>>
    BY <1>8 DEF Crash
  <2>2. \A t \in Tasks : task'[t].pc # "inserting"
    BY <1>8, <1>b, ConstantsAssumption DEF Crash, Idle, TaskTypes, SingleProcess
  <2>3. interrupted \subseteq interrupted' /\ interrupted' \subseteq used'
    BY <1>8, <1>a, <1>b DEF Crash, LastOK, WorkOK, Busy
  <2>4. \A t \in Tasks : task[t].pc = "inserting" =>
            task[t].msg \in interrupted' \ live
    BY <1>8, <1>a, <1>b, ConstantsAssumption
    DEF Crash, InsertInv, TaskTypes, SingleProcess
  <2> QED
    BY <2>1, <2>2, <2>3, <2>4, <1>a, PreviewFrame
<1>9. CASE \/ \E t \in Tasks, c \in Conversations, m \in MessageIds :
                ReuseKey(t, c, m)
           \/ \E t \in Tasks, m \in MessageIds : StartRetry(t, m)
           \/ UNCHANGED vars
  <2>1. UNCHANGED <<live, row, conversation, used, interrupted>>
    BY <1>9 DEF ReuseKey, StartRetry, vars
  <2>2. \A t \in Tasks :
            task'[t] = task[t] \/ (task[t].pc = "idle" /\ task'[t].pc # "inserting")
    BY <1>9, <1>b DEF ReuseKey, StartRetry, LoopFree, TaskTypes, vars
  <2> QED
    BY <2>1, <2>2, <1>a, PreviewFrame DEF LastOK, HandOK
<1> QED
  BY <1>1, <1>2, <1>3, <1>4, <1>5, <1>6, <1>7, <1>8, <1>9 DEF Next

LEMMA PreviewInvariant ==
    ASSUME SingleProcess PROVE Spec => []PreviewInv
<1>1. Init => PreviewInv
  <2>1. Init => LoopInv /\ InsertInv /\ UniqueSequences /\ FreshInv
    BY DEF Init, LoopInv, InsertInv, UniqueSequences, FreshInv, Holding, Idle
  <2>2. Init => LastOK /\ HandOK /\ PreviewOK
    BY DEF Init, LastOK, HandOK, PreviewOK, Here, Idle, NewConversation,
           EmptyConversation
  <2> QED
    BY <2>1, <2>2, InitTypeInv DEF PreviewInv, SequenceInv
<1>2. PreviewInv /\ [Next]_vars => PreviewInv'
  BY NextTypeInv, LoopStep, InsertStep, FreshStep, PreviewStep
  DEF PreviewInv, SequenceInv
<1> QED
  BY <1>1, <1>2, PTL DEF Spec

\* With one process the preview of a conversation is its newest message whenever
\* no handler is between two writes, whatever is deleted and wherever the
\* process dies, but for the Telegram message whose INSERT a crash prevented.
THEOREM PreviewsAreNewest ==
    ASSUME SingleProcess PROVE Spec => []PreviewIsNewest
<1>1. ASSUME PreviewInv, \A p \in Processes : loop[p] = None
      PROVE  \A t \in Tasks : task[t].pc # "inserting"
  BY <1>1, ConstantsAssumption
  DEF PreviewInv, SequenceInv, LoopInv, Holding
<1>2. PreviewInv => PreviewIsNewest
  BY <1>1 DEF PreviewInv, PreviewOK, PreviewIsNewest, Here
<1> QED
  BY <1>2, PreviewInvariant, PTL

=============================================================================
