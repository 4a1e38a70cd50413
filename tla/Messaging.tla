----------------------------- MODULE Messaging -----------------------------
(***************************************************************************)
(* The message pipeline of the backend: MessageCreationService,            *)
(* MessageService and DeliveryService over the tables messages and         *)
(* conversations, called by the chat endpoints, the channel webhooks and   *)
(* the agent worker.                                                       *)
(*                                                                         *)
(* Every caller is a coroutine (a "task" here) of some process.  A process *)
(* runs one coroutine at a time and switches only at an await, so an       *)
(* action is the code of one coroutine up to its next commit or await, and *)
(* loop[p] is the coroutine that process p may not leave yet.  Processes   *)
(* share the database and nothing else.                                    *)
(***************************************************************************)
EXTENDS Naturals, FiniteSets

CONSTANTS
    Conversations,  \* ids of conversations
    MessageIds,     \* ids (uuid4) that rows of messages may get, never reused
    Keys,           \* idempotency keys
    Tasks,          \* coroutines: one per request or agent task in progress
    Processes,      \* operating-system processes sharing the database
    Api,            \* the processes that serve the HTTP API
    ProcessOf,      \* the process each coroutine runs in
    Telegram,       \* conversations whose webhook writes the preview first
    MaxRetries,     \* MessageService.MAX_RETRIES
    MaxReuses,      \* bound: calls that present a key already stored
    MaxRestarts,    \* bound: crashes of a process
    None            \* absence of a value (SQL NULL, Python None)

ASSUME ConstantsAssumption ==
    /\ Api \subseteq Processes
    /\ ProcessOf \in [Tasks -> Processes]
    /\ Telegram \subseteq Conversations
    /\ MaxRetries \in Nat /\ MaxReuses \in Nat /\ MaxRestarts \in Nat
    /\ None \notin Conversations \cup MessageIds \cup Keys \cup Tasks

VARIABLES
    live,           \* ids of the rows of messages
    row,            \* the columns of messages that never change
    status,         \* messages.delivery_status
    retries,        \* messages.retry_count
    conversation,   \* the rows of conversations
    task,           \* the coroutines
    loop,           \* the coroutine holding each event loop between awaits
    enqueued,       \* inbound messages handed to the agent queue
    \* History, read by no guard but the bounds'.
    used,           \* ids already given to a message
    calls,          \* calls of ChannelService.send for each message
    accepted,       \* copies of each message that the channel accepted
    shown,          \* status in the last new_message event of each message
    interrupted,    \* messages whose handler a crash or an exception cut short
    reuses,         \* counts up to MaxReuses
    restarts        \* counts up to MaxRestarts

rows    == <<live, row, status, retries>>
history == <<used, calls, accepted, shown, interrupted, reuses, restarts>>
vars    == <<rows, conversation, task, loop, enqueued, history>>

Statuses == {"NULL", "PENDING", "SENT", "FAILED"}

Blank == [conv |-> None, seq |-> 0, inbound |-> FALSE, key |-> None]

NewConversation ==
    [state |-> "absent", last |-> None, unread |-> FALSE,
     dated |-> FALSE]

\* Every message of it has been deleted.
EmptyConversation ==
    [state |-> "present", last |-> None, unread |-> FALSE,
     dated |-> FALSE]

Idle == [pc |-> "idle", conv |-> None, msg |-> None, key |-> None,
         inbound |-> FALSE, num |-> 0]

-----------------------------------------------------------------------------
(* Reading the tables *)

SequencesOf(c) == {row[m].seq : m \in {m \in live : row[m].conv = c}}

\* Mutant: numbers a message by the number of rows there are.
CountRows(c) == {Cardinality({m \in live : row[m].conv = c}) + 1}

\* max(conversation_sequence) + 1, as the set with that one element.
NextSequence(c) ==
    {n \in {s + 1 : s \in SequencesOf(c) \cup {0}} :
        \A s \in SequencesOf(c) : s < n}

KeyFree(k) == k = None \/ \A m \in live : row[m].key # k

\* Mutant: the order is not descending.
Oldest(S) == {m \in S : \A n \in S : row[m].seq <= row[n].seq}

\* The rows ORDER BY conversation_sequence DESC may put first.
Newest(S) == {m \in S : \A n \in S : row[n].seq <= row[m].seq}

Present(c) == conversation[c].state = "present"

(* Scheduling *)

LoopFree(t) == task[t].pc = "idle" /\ loop[ProcessOf[t]] = None

\* An awaited call of t has ended and no other coroutine holds the loop.
Resumed(t) == loop[ProcessOf[t]] = None

\* Mutant: an await between what a handler reads and what it writes.
HoldNothing(t) == UNCHANGED loop

Hold(t)    == loop' = [loop EXCEPT ![ProcessOf[t]] = t]
Release(t) == loop' = [loop EXCEPT ![ProcessOf[t]] = None]
Goto(t, pc) == task' = [task EXCEPT ![t].pc = pc]
Finish(t)   == task' = [task EXCEPT ![t] = Idle]

Served(t) == ProcessOf[t] \in Api

-----------------------------------------------------------------------------
(* Creating a message *)

\* send_from_dashboard with a key nobody used: SELECT max(sequence).  Only
\* the agent worker's auto-replies, which carry a key, come from elsewhere
\* than the API process.
StartSend(t, c, k) ==
    /\ LoopFree(t)
    /\ k = None => Served(t)
    /\ Present(c)
    /\ KeyFree(k)
    /\ \E m \in MessageIds \ used, n \in NextSequence(c) :
        /\ used' = used \cup {m}
        /\ task' = [task EXCEPT ![t] =
            [pc |-> "inserting", conv |-> c, msg |-> m, key |-> k,
             inbound |-> FALSE, num |-> n]]
    /\ Hold(t)
    /\ UNCHANGED <<rows, conversation, enqueued, calls, accepted, shown,
                   interrupted, reuses, restarts>>

\* send_from_dashboard with a stored key: create_message returns the row that
\* has it, whatever its conversation, and the caller goes on with that row.
ReuseKey(t, c, m) ==
    /\ LoopFree(t)
    /\ Present(c)
    /\ m \in live /\ row[m].key # None
    /\ reuses < MaxReuses
    /\ reuses' = reuses + 1
    /\ task' = [task EXCEPT ![t] =
        [pc |-> "marking", conv |-> c, msg |-> m, key |-> row[m].key,
         inbound |-> FALSE, num |-> 0]]
    /\ Hold(t)
    /\ UNCHANGED <<rows, conversation, enqueued, used, calls, accepted, shown,
                   interrupted, restarts>>

\* A channel webhook: find or create the conversation (Telegram also commits
\* its preview), then SELECT max(sequence).  No inbound caller passes a key.
ReceiveInbound(t, c) ==
    /\ LoopFree(t)
    /\ Served(t)
    /\ conversation[c].state # "deleted"
    /\ \E m \in MessageIds \ used, n \in NextSequence(c) :
        /\ used' = used \cup {m}
        /\ task' = [task EXCEPT ![t] =
            [pc |-> "inserting", conv |-> c, msg |-> m, key |-> None,
             inbound |-> TRUE, num |-> n]]
        /\ conversation' = [conversation EXCEPT ![c] =
            IF c \in Telegram
            THEN [@ EXCEPT !.state = "present", !.last = m, !.unread = TRUE]
            ELSE [@ EXCEPT !.state = "present"]]
    /\ Hold(t)
    /\ UNCHANGED <<rows, enqueued, calls, accepted, shown, interrupted,
                   reuses, restarts>>

\* Mutant: idempotency_key is not UNIQUE.
InsertableTwice(t) == Present(task[t].conv)

\* The foreign key and the unique index of messages.
Insertable(t) == Present(task[t].conv) /\ KeyFree(task[t].key)

\* INSERT and preview, one commit.  An inbound message is then announced (an
\* await); an outbound one stays on the loop until it is marked PENDING.
InsertMessage(t) ==
    LET m == task[t].msg
        c == task[t].conv
    IN  /\ task[t].pc = "inserting"
        /\ Insertable(t)
        /\ live' = live \cup {m}
        /\ row' = [row EXCEPT ![m] =
            [conv |-> c, seq |-> task[t].num, inbound |-> task[t].inbound,
             key |-> task[t].key]]
        /\ conversation' = [conversation EXCEPT
            ![c].last = m, ![c].unread = task[t].inbound]
        /\ \/ /\ task[t].inbound
              /\ shown' = [shown EXCEPT ![m] = status[m]]
              /\ Goto(t, "announcing")
              /\ Release(t)
           \/ /\ ~task[t].inbound
              /\ Goto(t, "marking")
              /\ UNCHANGED <<shown, loop>>
        /\ UNCHANGED <<status, retries, enqueued, used, calls, accepted,
                       interrupted, reuses, restarts>>

\* IntegrityError: another process stored the key, or deleted the
\* conversation, after this one looked.  The request ends with a 500.
InsertRejected(t) ==
    /\ task[t].pc = "inserting"
    /\ ~Insertable(t)
    /\ Finish(t)
    /\ Release(t)
    /\ UNCHANGED <<rows, conversation, enqueued, history>>

\* Mutant: an error while the agent task is built is always swallowed.
NotQueued(t) == enqueued

\* Loading the conversation's channel fails when the conversation is gone.
Queued(t) ==
    IF Present(task[t].conv) THEN enqueued \cup {task[t].msg} ELSE enqueued

\* After the announcement the message goes to the agent queue.
EnqueueForAgent(t) ==
    /\ task[t].pc = "announcing" /\ Resumed(t)
    /\ enqueued' = Queued(t)
    /\ Finish(t)
    /\ UNCHANGED <<rows, conversation, loop, history>>

\* The announcement raised, or the queue was full: no agent task.
AnnouncementLost(t) ==
    /\ task[t].pc = "announcing" /\ Resumed(t)
    /\ interrupted' = interrupted \cup {task[t].msg}
    /\ Finish(t)
    /\ UNCHANGED <<rows, conversation, loop, enqueued, used, calls, accepted,
                   shown, reuses, restarts>>

-----------------------------------------------------------------------------
(* Dispatching to the channel *)

\* send_from_dashboard after create_message: PENDING (and the date of the first
\* response, left out), then the call of ChannelService.send (an await).
MarkPending(t) ==
    LET m == task[t].msg
    IN  /\ task[t].pc = "marking"
        /\ m \in live /\ Present(task[t].conv)
        /\ status' = [status EXCEPT ![m] = "PENDING"]
        /\ calls' = [calls EXCEPT ![m] = @ + 1]
        /\ Goto(t, "sending")
        /\ Release(t)
        /\ UNCHANGED <<live, row, retries, conversation, enqueued, used,
                       accepted, shown, interrupted, reuses, restarts>>

\* The channel accepts the text; its answer may still be lost or late.
ChannelAccepts(t) ==
    /\ task[t].pc = "sending"
    /\ accepted' = [accepted EXCEPT ![task[t].msg] =
        IF task[t].msg \in live THEN @ + 1 ELSE @]
    /\ Goto(t, "accepted")
    /\ UNCHANGED <<rows, conversation, loop, enqueued, used, calls, shown,
                   interrupted, reuses, restarts>>

\* Mutant: a refusal reported as a result and not as an exception is ignored.
AnyAnswer(t) == task[t].pc \in {"sending", "accepted"} /\ Resumed(t)

\* ChannelService.send returned.
Delivered(t) == task[t].pc = "accepted" /\ Resumed(t)

\* ChannelService.send may raise, whether or not the channel accepted.
CallEnds(t) == task[t].pc \in {"sending", "accepted"} /\ Resumed(t)

\* Mutant: the announcement uses what the handler itself wrote.
NotRefreshed(m) == "FAILED"

\* db.refresh before the announcement.
Refreshed(m) == status[m]

\* The channel's answer arrives: SENT, and the row is announced.
DispatchSucceeds(t) ==
    LET m == task[t].msg
    IN  /\ Delivered(t)
        /\ m \in live /\ Present(task[t].conv)
        /\ status' = [status EXCEPT ![m] = "SENT"]
        /\ shown' = [shown EXCEPT ![m] = "SENT"]
        /\ Finish(t)
        /\ UNCHANGED <<live, row, retries, conversation, loop, enqueued, used,
                       calls, accepted, interrupted, reuses, restarts>>

\* A refusal, an error or a timeout: FAILED, then the send_error event (an
\* await).
DispatchFails(t) ==
    LET m == task[t].msg
    IN  /\ CallEnds(t)
        /\ m \in live
        /\ status' = [status EXCEPT ![m] = "FAILED"]
        /\ Goto(t, "failing")
        /\ UNCHANGED <<live, row, retries, conversation, loop, enqueued, history>>

\* After the send_error event the row is read again and announced as it is.
FinishFailed(t) ==
    LET m == task[t].msg
    IN  /\ task[t].pc = "failing" /\ Resumed(t)
        /\ m \in live
        /\ shown' = [shown EXCEPT ![m] = Refreshed(m)]
        /\ Finish(t)
        /\ UNCHANGED <<rows, conversation, loop, enqueued, used, calls,
                       accepted, interrupted, reuses, restarts>>

\* The row was deleted meanwhile: the next UPDATE or refresh of it raises
\* and the session needs a rollback that nobody does, so the request ends.
RowGone(t) ==
    /\ \/ task[t].pc \in {"marking", "retrying"}
       \/ task[t].pc \in {"sending", "accepted", "failing"} /\ Resumed(t)
    /\ task[t].msg \notin live
    /\ Finish(t)
    /\ Release(t)
    /\ UNCHANGED <<rows, conversation, enqueued, history>>

\* A reused key's row outlives the conversation of the request.  Writing the
\* first response raises and the request ends; if there was one already,
\* loading the channel raises inside the dispatch: FAILED and announced.
ConversationGone(t) ==
    LET m == task[t].msg
    IN  /\ task[t].pc = "marking"
        /\ m \in live /\ ~Present(task[t].conv)
        /\ \/ UNCHANGED <<status, shown>>
           \/ /\ status' = [status EXCEPT ![m] = "FAILED"]
              /\ shown' = [shown EXCEPT ![m] = "FAILED"]
        /\ Finish(t)
        /\ Release(t)
        /\ UNCHANGED <<live, row, retries, conversation, enqueued, used, calls,
                       accepted, interrupted, reuses, restarts>>

-----------------------------------------------------------------------------
(* Retrying by hand *)

\* Mutants: PENDING may be retried; SENT may be retried.
PendingToo(m) == m \in live /\ status[m] # "SENT" /\ retries[m] < MaxRetries
SentToo(m) == m \in live /\ status[m] # "PENDING" /\ retries[m] < MaxRetries

\* The endpoint's checks and those of retry_message.
MayRetry(m) == m \in live /\ status[m] = "FAILED" /\ retries[m] < MaxRetries

StartRetry(t, m) ==
    /\ LoopFree(t)
    /\ Served(t)
    /\ MayRetry(m)
    /\ task' = [task EXCEPT ![t] =
        [pc |-> "retrying", conv |-> row[m].conv, msg |-> m, key |-> row[m].key,
         inbound |-> FALSE, num |-> retries[m]]]
    /\ Hold(t)
    /\ UNCHANGED <<rows, conversation, enqueued, history>>

CommitRetry(t) ==
    LET m == task[t].msg
    IN  /\ task[t].pc = "retrying"
        /\ m \in live
        /\ retries' = [retries EXCEPT ![m] = task[t].num + 1]
        /\ status' = [status EXCEPT ![m] = "PENDING"]
        /\ calls' = [calls EXCEPT ![m] = @ + 1]
        /\ Goto(t, "sending")
        /\ Release(t)
        /\ UNCHANGED <<live, row, conversation, enqueued, used, accepted, shown,
                       interrupted, reuses, restarts>>

-----------------------------------------------------------------------------
(* Conversations and deletion: handlers with no await before their commit *)

\* DELETE of the rows S, and of what history keeps about them.
Erase(S) ==
    /\ live' = live \ S
    /\ row' = [m \in MessageIds |-> IF m \in S THEN Blank ELSE row[m]]
    /\ status' = [m \in MessageIds |-> IF m \in S THEN "NULL" ELSE status[m]]
    /\ retries' = [m \in MessageIds |-> IF m \in S THEN 0 ELSE retries[m]]
    /\ calls' = [m \in MessageIds |-> IF m \in S THEN 0 ELSE calls[m]]
    /\ accepted' = [m \in MessageIds |-> IF m \in S THEN 0 ELSE accepted[m]]
    /\ shown' = [m \in MessageIds |-> IF m \in S THEN "unseen" ELSE shown[m]]
    /\ UNCHANGED <<task, loop, enqueued, used, interrupted, reuses, restarts>>

ApiLoopFree == \E p \in Api : loop[p] = None

\* delete_message: the conversation takes preview, date and unread mark from
\* the newest row that is left.
DeleteMessage(m) ==
    LET c == row[m].conv
        rest == {n \in live \ {m} : row[n].conv = c}
    IN  /\ ApiLoopFree
        /\ m \in live
        /\ Erase({m})
        /\ \/ /\ rest = {}
              /\ conversation' = [conversation EXCEPT
                    ![c].last = None, ![c].dated = FALSE, ![c].unread = FALSE]
           \/ \E n \in Newest(rest) :
                conversation' = [conversation EXCEPT
                    ![c].last = n, ![c].dated = TRUE,
                    ![c].unread = row[n].inbound]

DeleteConversation(c) ==
    /\ ApiLoopFree
    /\ Present(c)
    /\ Erase({m \in live : row[m].conv = c})
    /\ conversation' = [conversation EXCEPT ![c] =
        [NewConversation EXCEPT !.state = "deleted"]]

\* PATCH of is_unread, which the dashboard sends when a conversation is opened.
SetUnread(c, u) ==
    /\ ApiLoopFree
    /\ Present(c)
    /\ conversation[c].unread # u
    /\ conversation' = [conversation EXCEPT ![c].unread = u]
    /\ UNCHANGED <<rows, task, loop, enqueued, history>>

-----------------------------------------------------------------------------
(* A process dies and is started again; nothing resumes its coroutines *)

Crash(p) ==
    LET lost == {t \in Tasks : ProcessOf[t] = p /\ task[t].pc # "idle"}
    IN  /\ restarts < MaxRestarts
        /\ lost # {}
        /\ restarts' = restarts + 1
        /\ interrupted' = interrupted \cup {task[t].msg : t \in lost}
        /\ task' = [t \in Tasks |-> IF t \in lost THEN Idle ELSE task[t]]
        /\ loop' = [loop EXCEPT ![p] = None]
        /\ UNCHANGED <<rows, conversation, enqueued, used, calls, accepted,
                       shown, reuses>>

-----------------------------------------------------------------------------
Init ==
    /\ live = {}
    /\ row = [m \in MessageIds |-> Blank]
    /\ status = [m \in MessageIds |-> "NULL"]
    /\ retries = [m \in MessageIds |-> 0]
    /\ conversation \in [Conversations -> {NewConversation, EmptyConversation}]
    /\ task = [t \in Tasks |-> Idle]
    /\ loop = [p \in Processes |-> None]
    /\ enqueued = {}
    /\ used = {}
    /\ calls = [m \in MessageIds |-> 0]
    /\ accepted = [m \in MessageIds |-> 0]
    /\ shown = [m \in MessageIds |-> "unseen"]
    /\ interrupted = {}
    /\ reuses = 0
    /\ restarts = 0

\* What a coroutine does once it has begun.
Continue(t) ==
    \/ InsertMessage(t) \/ InsertRejected(t)
    \/ EnqueueForAgent(t) \/ AnnouncementLost(t)
    \/ MarkPending(t) \/ CommitRetry(t)
    \/ DispatchSucceeds(t) \/ DispatchFails(t)
    \/ FinishFailed(t) \/ RowGone(t) \/ ConversationGone(t)

Next ==
    \/ \E t \in Tasks, c \in Conversations :
        \/ \E k \in Keys \cup {None} : StartSend(t, c, k)
        \/ \E m \in MessageIds : ReuseKey(t, c, m)
        \/ ReceiveInbound(t, c)
    \/ \E t \in Tasks : Continue(t) \/ ChannelAccepts(t)
    \/ \E t \in Tasks, m \in MessageIds : StartRetry(t, m)
    \/ \E m \in MessageIds : DeleteMessage(m)
    \/ \E c \in Conversations :
        DeleteConversation(c) \/ \E u \in BOOLEAN : SetUnread(c, u)
    \/ \E p \in Processes : Crash(p)

Spec == Init /\ [][Next]_vars

\* The loop runs ready coroutines first come, first served, and nothing is
\* awaited for ever: every channel call has a timeout and so has every awaited
\* acknowledgement of an event.
FairSpec == Spec /\ \A t \in Tasks : SF_vars(Continue(t))

-----------------------------------------------------------------------------
(* Properties *)

InFlight(m) ==
    {t \in Tasks : task[t].msg = m /\ task[t].pc \in {"sending", "accepted"}}

Working(m) == {t \in Tasks : task[t].msg = m}

\* Sent once by a handler and afterwards only by hand: messages without a key.
Keyless(m) == m \in live /\ row[m].key = None /\ ~row[m].inbound

TableTypes ==
    /\ live \subseteq used /\ used \subseteq MessageIds
    /\ row \in [MessageIds ->
        [conv : Conversations \cup {None}, seq : Nat, inbound : BOOLEAN,
         key : Keys \cup {None}]]
    /\ status \in [MessageIds -> Statuses]
    /\ retries \in [MessageIds -> 0 .. MaxRetries]
    /\ conversation \in [Conversations ->
        [state : {"absent", "present", "deleted"},
         last : MessageIds \cup {None}, unread : BOOLEAN, dated : BOOLEAN]]

TaskTypes ==
    /\ task \in [Tasks ->
        [pc : {"idle", "inserting", "marking", "retrying", "sending",
               "accepted", "failing", "announcing"},
         conv : Conversations \cup {None}, msg : MessageIds \cup {None},
         key : Keys \cup {None}, inbound : BOOLEAN, num : Nat]]
    /\ loop \in [Processes -> Tasks \cup {None}]

HistoryTypes ==
    /\ enqueued \subseteq MessageIds
    /\ calls \in [MessageIds -> Nat] /\ accepted \in [MessageIds -> Nat]
    /\ shown \in [MessageIds -> Statuses \cup {"unseen"}]
    /\ interrupted \subseteq MessageIds
    /\ reuses \in 0 .. MaxReuses /\ restarts \in 0 .. MaxRestarts

\* The types of the tables and of the coroutines; a retry count never passes
\* MAX_RETRIES, however retries of the same message overlap.
TypeOK == TableTypes /\ TaskTypes /\ HistoryTypes

\* No two messages of a conversation have the same conversation_sequence:
\* _next_sequence and the INSERT it feeds are not interrupted by another
\* handler of the same process (the table has no such constraint).
UniqueSequences ==
    \A m, n \in live :
        m # n /\ row[m].conv = row[n].conv => row[m].seq # row[n].seq

\* Read in the order of conversation_sequence a conversation is a log.
Log == INSTANCE ConversationLog WITH
    members <- [c \in Conversations |-> {m \in live : row[m].conv = c}],
    older <- {pair \in live \X live :
                /\ row[pair[1]].conv = row[pair[2]].conv
                /\ row[pair[1]].seq < row[pair[2]].seq}

\* The message tables implement the log.
IsALog == Log!LogSpec

\* Between handlers, conversations.last_message is the text of the newest
\* message there is, or of a Telegram message whose handler a crash stopped
\* between its preview and its INSERT.
PreviewIsNewest ==
    (\A p \in Processes : loop[p] = None) =>
        \A c \in Conversations :
            LET here == {m \in live : row[m].conv = c}
            IN  \/ conversation[c].last \in Newest(here)
                \/ conversation[c].last = None /\ here = {}
                \/ conversation[c].last \in interrupted \ live

\* A message sent without a key is given to the channel once, and once more
\* for each retry counted; the channel never accepts more copies than that.
RetryBudget ==
    \A m \in MessageIds : Keyless(m) =>
        /\ calls[m] <= 1 + retries[m]
        /\ accepted[m] <= calls[m]

\* PENDING means that exactly one handler is dispatching the message, except
\* after a crash, which leaves it PENDING with nobody at work.
PendingIsInFlight ==
    \A m \in MessageIds : Keyless(m) =>
        /\ InFlight(m) # {} => status[m] = "PENDING"
        /\ status[m] = "PENDING" => InFlight(m) # {} \/ m \in interrupted
        /\ \A t, u \in InFlight(m) : t = u

\* A message shown as SENT has been accepted by the channel at least once.
SentWasAccepted ==
    \A m \in live : status[m] = "SENT" => accepted[m] > 0

\* Once no handler works on a message, the last new_message event about it
\* carried its stored delivery status, unless a handler was cut short: the
\* event of a slow failure does not overwrite what a later retry achieved.
ShownIsStored ==
    \A m \in live :
        Working(m) = {} /\ m \notin interrupted => shown[m] = status[m]

\* At most one row per idempotency key, whichever processes race for it.
OneRowPerKey ==
    \A m, n \in live : row[m].key # None /\ row[m].key = row[n].key => m = n

\* Nothing is sent again, or reported as failed, once it has been SENT.
SentIsFinal ==
    [][\A m \in MessageIds :
        Keyless(m) /\ m \in live' /\ status[m] = "SENT" =>
            status'[m] = "SENT" /\ calls'[m] = calls[m]]_vars

\* A stored inbound message reaches the agent queue unless it is deleted, its
\* handler is cut short or the queue refuses it.
InboundReachesAgent ==
    \A m \in MessageIds :
        (m \in live /\ row[m].inbound) ~>
            (m \in enqueued \/ m \notin live \/ m \in interrupted)

\* What the documentation says of the pipeline and TLC refutes (README, section 6).

\* "Returns existing message if idempotency_key was already used": presenting
\* a key again does not give the message to the channel again.
KeySentOnce ==
    \A m \in live : row[m].key # None => calls[m] <= 1 + retries[m]

\* "Periodically scan open conversations exceeding the SLA threshold": the
\* scan compares last_message_date, so a conversation whose newest message
\* waits unread for an answer must have one.
WaitingIsDated ==
    \A m \in enqueued \cap live :
        LET c == conversation[row[m].conv]
        IN  c.last = m /\ c.unread => c.dated

=============================================================================
