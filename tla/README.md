# Formal models of the multi-channel chat

TLA+ models of the backend and of the dashboard of this repository, with TLC
runs and TLAPS proofs. Paths below are relative to the repository; `app/` and
`src/` without a prefix mean `backend/app/` and `backend/src/`, except in
sections about the dashboard, where they mean `frontend/src/`.

1. [The system](#1-the-system)
2. [Modules](#2-modules)
3. [Runs, bounds and what they show](#3-runs-bounds-and-what-they-show)
4. [Fairness](#4-fairness)
5. [Proofs](#5-proofs)
6. [Where code and documentation disagree](#6-where-code-and-documentation-disagree)
7. [What is not modelled, and what the models simplify](#7-what-is-not-modelled-and-what-the-models-simplify)
8. [What remains](#8-what-remains)

## 1. The system

A customer writes on Telegram, WhatsApp, SMS or by mail; operators read and
answer in a dashboard; an agent suggests answers and sometimes sends one by
itself. The deployed program (`backend/Procfile`) is one `uvicorn` process: the
FastAPI handlers, the background loops of `backend/main.py` and the agent
workers all run as coroutines of one asyncio event loop, over one PostgreSQL
database and, when `REDIS_URL` is set, a Redis stream. `src/worker/main.py` can
run the workers in a process of their own.

Database calls are synchronous. A handler therefore runs without interruption
from one `await` to the next, and all interleaving inside a process happens at
awaits: a call of a channel, a WebSocket send, a wait for an acknowledgement, a
Redis command, a sleep. Between processes it happens at every commit and query.

### Components

| Component | State | Operations | Hard because | Correct when |
|---|---|---|---|---|
| Message pipeline: `message_service.py`, `message_creation_service.py`, `message_delivery_service.py`, `endpoints/chat.py` | tables `messages`, `conversations` | receive, send, retry, delete a message or a conversation, mark read | handlers interleave at the channel call and at announcements; rows disappear under them; answers are lost; the process dies between commits | conversations are logs; previews are up to date; nothing is sent more often than counted; PENDING is somebody's work; what was shown last is what is stored |
| WebSocket hub: `core/websocket.py`, endpoint `/ws` | clients, subscriptions, presence, sequence numbers, acknowledgements | connect, disconnect, subscribe, unsubscribe, acknowledge, four kinds of broadcast | a broadcast awaits each client in turn while it iterates the live dictionary | every subscriber that stays is reached; presence is true; slow clients are kept and gone ones dropped; broadcasts end |
| Agent queue and workers: `src/shared/queue.py`, `src/worker/` | queue or stream, pending entries, failure counts, suggestions | enqueue, get, process, answer, acknowledge, stop | Redis fails at any call; a crash at any point; cancellation runs `finally` | no message vanishes unnoticed; one answer for each; acknowledged after the work; workers survive failures |
| Task automation: `run_due_task_automations_once`, `_task_automation_loop` | automation columns of `project_tasks` | schedule, edit, delete, execute a pass | a pass awaits channels, shares one session and can be cut short anywhere | at most one message for each task; outcomes final and true; due tasks are executed |
| Channel adapters | none (external services) | send, webhooks, mail polling | lost and late answers, redelivery | the pipeline sees every outcome |
| Projects, proposals, catalog, users, clients, quick replies: their endpoints | their tables | create, read, update, delete, bulk actions | derived totals and positions, several people | one transaction each; modelled as the pages meet them |
| Delivery alerts | failure counts per channel | record success, record failure | detached tasks | an alert means consecutive failures |
| SLA scan, dashboard figures | none | select late conversations | depends on a column others must write | a late conversation is found |
| AI suggestions, agent graph | `ai_suggestions` | ask for, use, discard | parallel workers | suggestions belong to the conversation |
| Dashboard, view of a conversation: `useWebSocket.ts`, `useMessages.ts`, `MessagesSessionContext.tsx`, `messagesSessionCache.ts` | socket, subscriptions, messages on screen, optimistic bubbles, session cache | open, fetch, send texts and files, retry, delete, merge events, reconnect, reload | answers, events and reconnections race while the agent goes on to other conversations | each message once and in order; tab and server agree on subscriptions; retries neither lose nor double what was sent |
| Dashboard, messages page: `useConversations.ts`, `app/messages/page.tsx` | list, badges, viewers, file, recording, contact panel, dialogs | select, send media, link clients, create from messages, be notified | a request of one conversation is answered in another | nothing of one conversation ends up in another |
| Dashboard, projects board: `app/projects/page.tsx` | cards, drag, project modal, contacts, tasks | optimistic move, save, delete, task panel | rollbacks overlap with answers; modals close under requests | the board shows what is stored; tasks and contacts match |
| Dashboard, proposals page: `app/proposals/page.tsx` | queue, selection, details, form | select, update, items, service details, create, delete | loads change the selection, selections start loads | fields are saved into their own proposal; loads end |
| Dashboard, record pages: `app/clients`, `app/admin/*`, `app/catalog`, `app/tasks` | a list, a filter, forms | create, edit, delete, approve, toggle, bulk actions | lists overtake lists and changes | the page shows what is stored |
| Dashboard, landing, sign-in, settings | single values | show, edit | nothing in particular | – |

### Interactions

* A webhook calls `receive_from_channel`: INSERT and preview, announcement
  through the hub, then `put_nowait` to the agent queue. The hub can delay or
  fail the announcement, and so keep the message from the queue.
* `send_from_dashboard` is called by the chat endpoint, by the task automation
  (without a key) and by the agent worker (key `auto-reply:<message id>`). It
  commits PENDING, awaits the channel, commits SENT or FAILED and announces the
  row. The dispatch awaits a `send_error` broadcast before it reports a failure.
* Workers announce suggestions through the hub and answer through the pipeline.
* The SLA scan reads what the pipeline writes in `conversations`.

* The dashboard calls the endpoints and follows the hub's events. A tab is one
  thread: a handler runs to its next `await`, React renders and runs effects
  between events, and answers arrive in any order. A page that was left ignores
  the answers it still gets.

`PROJECT.json` lists the hazards of these interactions, each at its line with
the properties that cover it, or the reason why none does yet.

## 2. Modules

| Module | Models |
|---|---|
| `Messaging` | the message pipeline over both tables, in one or several processes |
| `ConversationLog` | abstract: a conversation read by sequence number is a log |
| `ConnectionManager` | the WebSocket hub |
| `AgentWorker` | queue, workers and processor |
| `TaskAutomation` | the automation of project tasks |
| `ConversationView` | a tab's view of conversations over the hub's promises |
| `ConversationList`, `ConversationPanel` | the messages page: the list, and on top of it (EXTENDS) composer, contact panel and dialogs |
| `ProjectBoard` | the projects page and its endpoints |
| `ProposalEditor` | the proposals page and its endpoints |
| `RecordPage`, `PeoplePages`, `StockPages`, `BackOffice` | what the record pages share; clients, users and roles; catalog, tasks, quick replies and audit log; their composition |
| `MessagingProofs`, `ConnectionManagerProofs`, `ConversationViewProofs`, `ProposalEditorProofs`, `ProjectBoardProofs`, `ConversationPanelProofs`, `BackOfficeProofs` | theorems about the module each is named after (`ConversationPanelProofs` also about `ConversationList`, `BackOfficeProofs` about the modules it is composed of) |
| `BackgroundProofs` | theorems about `AgentWorker` and `TaskAutomation`, the background work of the API process |
| `MC...` | instances for TLC: values of constants, symmetry |

### Messaging

`live`, `row`, `status`, `retries` are the rows of `messages`; `conversation`
those of `conversations` (`last` is the message whose text is the preview,
`dated` whether `last_message_date` is not NULL). `task[t]` is a coroutine
suspended at an await or a commit, with the local variables it will use
afterwards. `loop[p]` is the coroutine that holds the event loop of process `p`
between two commits with no await in between: others of that process wait, other
processes do not. That is what makes `_next_sequence` and its INSERT one step
in one process and two steps in two.

| Code | Actions |
|---|---|
| `send_from_dashboard`, `create_message` | `StartSend` or `ReuseKey`, `InsertMessage` or `InsertRejected`, `MarkPending` or `ConversationGone` |
| `dispatch_to_channel` | `ChannelAccepts`, `DispatchSucceeds`, `DispatchFails`, `FinishFailed`, `RowGone` |
| webhooks, `receive_from_channel` | `ReceiveInbound`, `InsertMessage`, `EnqueueForAgent` or `AnnouncementLost` |
| `retry_message` | `StartRetry`, `CommitRetry`, then the dispatch |
| `delete_message`, `delete_conversation`, `update_conversation` | `DeleteMessage`, `DeleteConversation`, `SetUnread` |
| end of the process | `Crash` |

The channel is nondeterministic: it may accept and answer, accept without an
answer arriving, refuse, or raise.

### ConnectionManager

`entries` is the table of the dictionary `_clients` in insertion order, with a
hole (`None`) where a client was removed: a CPython dictionary keeps such holes
until it grows, and an iterator continues by position. It raises when the number
of keys has changed, or when it has returned as many keys as there were at its
start and finds another. `job[b]` is a broadcast: its position, the number of
keys it started with and how many of them are left, the client it is sending to
or waiting for, and its list of dead clients. `Proceed` is one turn of the `for` loop. The history
variable `due` holds the clients a broadcast still owes something: those it
was for when it began, minus those served, gone, or whose subscription changed.
When the table is compacted is up to CPython, so `Connect` may compact or not
(`Compactions(e)` is the set whose only member is `e` without its holes).
The presence broadcasts that subscribing, unsubscribing and disconnecting start
are tasks of their own; `StartPresence` begins them at any moment.

### AgentWorker

`redis` is chosen in `Init`: both queues are checked. `pending` is XPENDING;
`posting` and `acking` are the XADD and XACK tasks nobody awaits. A worker
is idle, dead, or holds a task before (`taken`), during (`announcing`) or after
(`replying`) the announcement of its suggestions. `Restart` is what a crash and
a shutdown share.

### TaskAutomation

`runner[r]` is the background loop of a process: the tasks it still has to
execute and the one at work. Handlers of the API may come in at each commit
(from another process) and at each await. `SessionBroken` and `RowGone` are the
ways a pass ends early: the session is shared by the whole pass and nobody
rolls it back. Its specification is `LoopSpec`, of `LoopInit` and `LoopNext`, so
that one module can state theorems about it and about `AgentWorker`.

### The dashboard's modules

A request under way is a record in a bag (`calls`; `asked` and `work` on the
messages page): what was asked, for what, and, once the server has acted
(`done`), its answer. So each `await` is two steps, the server's and the
page's, with clicks, other answers and other users in between; the second step
may also be an error, before or after the server acted. The closures of the
code are the fields of the record: a handler that goes on after its `await`
uses what it captured, not what is on the screen.

| Code | Actions |
|---|---|
| `useWebSocket` | `Connect`, `Drop`; `Frame` writes and `ServerReceives` reads what is on the wire |
| `activateConversation`, `selectConversation` | `Open` (`Click`, `FollowLink`), `MarkReadSettles`, `FetchSucceeds` or `FetchFails` |
| `handleSendMessage`, `sendFile`, `sendAudio` | `Send`; `Upload`, `UploadSucceeds` or `UploadFails`. `Send` takes any text, also the one whose POST is under way: the composer is cleared only afterwards, and Enter does not ask |
| `sendCore`, `retryMessage` | `StartSend`, `SendSucceeds`, `SendFails`, `RetryBubble`, `RetryStored` |
| `handleDeleteMessage` | `Delete`, `AnswersDelete`, `DeleteSucceeds` (which fetches again) or `DeleteFails` |
| `handleWsEvent` | `EventArrives` in the view; `OnNewMessage`, `OnConversationNotification`, `OnPresenceUpdate`, `OnConversationUpdated` in the list |
| reload, `Hydrate` effect | `Reload`, `Hydrate`, from the session cache |
| `handleDrop` | `Drop`, then `Moved` or `MoveFails` (which puts back the cards it captured) |
| `handleSave`, `handleDelete`, task panel | `Save`, `Saved`, `Delete`, `Deleted`, `TaskSave`, `TaskSaved`, `TaskToggle`, ... |
| `loadProposals`, `loadProposalDetail` and their effects | `ListArrives`, `Selects`, `DetailArrives`, `LoadFails` |
| JSX sections with handlers | operators named after the section (`InHeader`, `Column`, `ItemDetail`, ...): under which conditions their buttons are on the screen and enabled |

The last line matters: what a click may do depends on what is rendered, so the
guards of an action are those of its handler and of the sections around its
control. Modals cover the page; Escape and the backdrop close them whenever
their `onClose` does not refuse.

`owed` (`ConversationView`) is a history variable: how often each text, or a file,
was sent since the page was loaded and not confirmed by an answer. `StartSend`
of a retry does not raise it. `muddled` (`ProjectBoard`, `RecordPage`) is one, too: it says that
something happened after which the code does not promise an accurate page
(overlapping board changes, a lost answer, a list overtaken by a later one, an
answer that comes after a later one about its record). A later list heals it.

## 3. Runs, bounds and what they show

Every property of a passing run has a mutant in `PROJECT.json`: a changed
definition, such as a dropped guard or a missing reset, that breaks it.

| Run | States | Checks |
|---|---|---|
| `messaging` | 776,000 | one process, 2 coroutines, 3 messages of one Telegram conversation, 1 retry, 1 crash: the invariants of the pipeline, that it implements `ConversationLog`, and that SENT is final |
| `messaging_live` | 465,000 | the API and a worker process, 2 conversations, one key presented twice: at most one row for a key, nothing SENT that no channel accepted, every inbound message reaches the agent queue (with the exceptions the property names) |
| `hub` | 1,515,000 | 3 clients, 2 broadcasts of `notify_new_message` (the longest kind: two loops) or of presence, 2 subscription changes |
| `hub_liveness` | 20,000 | 2 clients, one broadcast of any kind: it ends, and gone clients leave |
| `worker` | 19,000 | 2 tasks, 2 workers, in-memory capacity 1, 2 failures allowed, one restart |
| `automation` | 25,000 | 2 tasks of different projects, one runner, 2 restarts |
| `conversation_view` | 1,982,000 | 2 conversations, 2 messages, 2 bubbles, 2 texts and files, a page and a cache of 2, one frame on the wire, 2 acts of the user besides sending |
| `inbox` | 1,745,000 | 2 conversations, 2 clients (one known), 3 acts, 2 requests under way when the user acts |
| `project_board` | 612,000 | 3 projects (2 existing), 2 tasks, 2 clients, 3 acts |
| `proposal_editor` | 229,000 | 3 proposals (2 existing), 2 acts |
| `back_office` | 5,362,000 | each of the 7 pages with at most 4 records, 5 acts, 2 requests under way when the user acts |
| `proposal_choice` | – | a counterexample, see section 6 |

The bounds and why they suffice:

* Two coroutines show every pair of handlers at every pair of awaits; a third
  would only repeat a pair, because no handler waits for another. A conversation
  of three messages lets a deletion fall at the front, in the middle and at the
  end of the log. `MaxRetries = 1` makes the last retry and the refused one
  happen; the code's constant is 3. `messaging_live` uses 0 retries and no
  crash because its questions are about creation and about handing on;
  `messaging` has both.
* `MaxReuses` bounds calls with a stored key, `MaxRestarts` and `MaxStops` crashes, `MaxFrames`
  subscribe and unsubscribe frames, and `Kinds` the broadcast methods called:
  all are bounds of the environment, in guards, and none delays what the
  program itself does. Runs about liveness have no state constraint.
* Three clients let one arrive and one leave while a third is served. Two
  broadcasts are needed for one to drop the client another waits for.
  `hub` is restricted to `notify_new_message`, which contains
  `broadcast_to_conversation`, and to presence, which has the loop of
  `broadcast_global` over fewer clients; `hub_liveness` covers all four kinds.
* A queue of capacity 1 with two tasks overflows. Two workers with fixed
  consumer ids let one take what another holds, if the code allowed it.
* Two tasks let one be deleted while the other is executed.
* On the dashboard `MaxActs` bounds what the user (and other users) do, never
  the answers. Three acts are a request, something that invalidates what it
  captured, and a second request or a return to the first; what merges answers
  into a list needs five (create, list, open, delete, answer: an instance with
  four does not find that a created reply may come back). Larger instances
  passed as well, too slow to keep: `inbox` with 4 acts (15.5 million states),
  the invariants of `project_board` with 4 acts (6.2 million). `MaxWork` bounds the
  requests under way when the user acts; `MaxCalls`, `MaxBubbles` and
  `MaxMessages` those of `conversation_view`. Two
  bubbles are two Enters with one text or with two, or a text and a retry of it.
* Symmetry is used in `messaging`, `hub` and `conversation_view`, on sets whose
  elements nothing distinguishes; no run with a liveness property uses it.
* `CHECK_DEADLOCK FALSE`: message ids, broadcasts, tasks and acts are finite in
  a run, so every instance ends when they are used up.

The main properties in words:

* `UniqueSequences`, `IsALog`: within a process a message is always numbered
  after all others of its conversation, so readers never see two messages
  change places.
* `PreviewIsNewest`: the preview is the newest message, except where a crash
  hit a Telegram webhook between its two commits.
* `RetryBudget`, `PendingIsInFlight`, `SentIsFinal`, `ShownIsStored`: the
  delivery status tells the truth to those who rely on it: one handler is at
  work on PENDING, copies are counted, SENT is never repeated or revoked, and
  the last event equals the row.
* `ReachesTheSteady`: a broadcast that ends normally skipped no steady client,
  although the dictionary changed beneath it, except after a compaction.
* `Accounted`, `AutoReplyOnce`, `AckedAfterWork`: no message leaves the queue
  unprocessed unless a named event lost it, and none is answered twice.
* `NeverTriedAgain` (proved, not in a run): a task that failed is not processed
  again, so failures never add up to a dead letter.
* `AtMostOneMessage`, `ProcessingIsExecuted`, `CompletedIsDone`: executing a
  task is at-most-once and reported truthfully.
* `EachOnceInOrder`: whichever of the POST's answer, the event and a fetch comes
  first, a message is on the screen once.
* `AttemptsAreOwed`, `BubbleIsHonest`: there are as many attempts of a text, under
  way or failed and kept for a retry, as the user has sent it and the server has not
  confirmed. A retry replaces the attempt that failed. That a text is under way
  once is not claimed: a second Enter sends it a second time.
* `SubscriptionsAgree`, `ShownIsTracked`: after every reconnection and reload
  the server will push exactly what the tab believes it follows.
* `ActiveIsInOrder`, `FileGoesHome`, `NewClientGoesHome`, `FormGoesHome`,
  `TasksOfProject`, `ContactOfClient`: what was begun for one conversation,
  proposal or project does not end up in another, although the user went on.
  `FileGoesHome` includes files that stay in the composer because their upload
  failed. It is not about recordings: those are bound to their conversation when
  the microphone is asked for, and the chunks two recorders share are left out.
  `FormGoesHome` is not about the service details (section 6).
* `QuietBoardIsAccurate`, `QuietPageIsAccurate`: once nothing is under way the
  page shows what is stored, unless something named happened: changes of the board
  that overlap, lists that overtake each other, answers that come after a later one.
  What the page shows after these is covered by no property.
* `BusyIsWorking`, `SpinnersStop`, `LoadsEnd`, `SavingFormStays`: controls are
  disabled only while something is under way that will enable them, loads end,
  and a form stays open while it is saved.

## 4. Fairness

* `Messaging!FairSpec`: strong fairness of each coroutine once it has begun.
  asyncio runs ready callbacks first in, first out, so a coroutine whose await
  has ended gets the loop although others keep taking it (hence strong, not
  weak). Awaits end: HTTP clients have a timeout (5 s by default in httpx, 8 s
  for SMTP), an acknowledgement 30 s. New requests, deletions and crashes are
  not fair.
* `ConnectionManager!FairSpec`: weak fairness of each broadcast, which needs
  no acknowledgement to go on, and of the handlers of closed connections, whose
  `receive_json` raises.
* `AgentWorker!FairSpec`: weak fairness of each worker's steps. The tasks that
  post and acknowledge are not needed to be fair.
* `TaskAutomation!FairLoopSpec`: weak fairness of each loop, which sleeps for
  30 seconds and tries again after every exception.
* `ProjectBoard!FairSpec`, `ProposalEditor!FairSpec`: weak fairness of the
  page's steps after its awaits. The browser settles every promise of `fetch`
  sooner or later, with an answer or an error. Neither the user nor the server
  is fair: a request the server never acts on ends in an error.

## 5. Proofs

Everything in this section holds for every value of the constants that
satisfies the named assumption of the module and the hypothesis of the theorem.
The assumptions (`ConstantsAssumption`, `ManagerAssumption`, `WorkerAssumption`,
`AutomationAssumption`, `ListAssumption` and `PanelAssumption`,
`BoardAssumption`, `EditorAssumption`, `ViewAssumption`, `RecordAssumption`) say that `None` is no
id, that bounds are numbers, and that constant functions have the domains they
should; that of the record pages also that there is room for the two records
that exist at first.

| Theorem | Property | Hypothesis |
|---|---|---|
| `TypeCorrect` | `TypeOK` of `Messaging` | – |
| `SequencesAreUnique` | `UniqueSequences` | `SingleProcess` |
| `TablesImplementLog` | `IsALog` (refinement of `ConversationLog`) | `SingleProcess` |
| `PreviewsAreNewest` | `PreviewIsNewest` | `SingleProcess` |
| `RetriesAreBudgeted`, `PendingHasDispatcher`, `SentStaysSent` | `RetryBudget`, `PendingIsInFlight`, `SentIsFinal` | `OneApi` |
| `KeysAreUnique`, `SentIsEarned`, `LastEventIsTrue` | `OneRowPerKey`, `SentWasAccepted`, `ShownIsStored` | – |
| `HubTypes` | `TypeOK` of `ConnectionManager` | – |
| `NoSteadyClientIsSkipped`, `PresenceIsSound`, `OnlyTheGoneAreDropped` | `ReachesTheSteady`, `PresenceSound`, `DropsOnlyTheGone` | – |
| `PipelineTypes` | `TypeOK` of `AgentWorker` | – |
| `NothingVanishes`, `AnsweredOnce`, `AcknowledgedLast` | `Accounted`, `AutoReplyOnce`, `AckedAfterWork` | – |
| `NoSecondTry` | `NeverTriedAgain`: no task fails twice, so there are no dead letters | – |
| `TypesAreCorrect` | `LoopTypes` of `TaskAutomation` | – |
| `AtMostOnce`, `ProcessingHasRunner`, `CompletedWasDone`, `OutcomeStands` | `AtMostOneMessage`, `ProcessingIsExecuted`, `CompletedIsDone`, `OutcomeIsFinal` | `OneRunner` |
| `TypeCorrect` | `TypeOK` of `ProposalEditor` | – |
| `FieldsGoHome`, `BusyWorks` | `FormGoesHome`, `BusyIsWorking` | – |
| `ViewInvariant`, `TypeCorrect` | `ViewInv` (the inductive invariant), `TypeOK` of `ConversationView` | – |
| `OnceInOrderAlways`, `SubscriptionsAlwaysAgree`, `ShownAlwaysTracked`, `AttemptsAlwaysOwed`, `BubbleAlwaysHonest` | `EachOnceInOrder`, `SubscriptionsAgree`, `ShownIsTracked`, `AttemptsAreOwed`, `BubbleIsHonest` | – |
| `TypeCorrect` | `TypeOK` of `ProjectBoard` | – |
| `TasksStayHome`, `ContactsMatch`, `QuietBoardAlways` | `TasksOfProject`, `ContactOfClient`, `QuietBoardIsAccurate` | – |
| `TypeCorrect` | `TypeOK` of `ConversationPanel`, with `ListTypes` of `ConversationList` | – |
| `ActiveStaysInOrder`, `FilesStayHome`, `NewClientsStayHome` | `ActiveIsInOrder`, `FileGoesHome`, `NewClientGoesHome` | – |
| `TypeCorrect` | `TypeOK` of `BackOffice` | – |
| `QuietPageAlways`, `SavingFormAlways` | `QuietPageIsAccurate`, `SavingFormStays` of `BackOffice` | – |

`SingleProcess`, `OneApi` and `OneRunner` are the deployment: one process, one
process that serves the API (a separate worker process is allowed), one process
that runs the loop. Without them the properties are false, as the docstring of
`_next_sequence` admits ("thread-safe within single process"). They appear as
hypotheses of the theorems and not as assumptions of the modules, because
`messaging_live` runs with two processes. The eight `TypeOK`s, `LoopTypes`,
`OutcomeIsFinal` and `NeverTriedAgain` are stated in their modules and proved,
but no run lists them.

Every safety property that a passing run checks is also a theorem.

**Messaging.** None of the properties is inductive by itself.

* `TypeInv` adds to `TypeOK` what a coroutine's local variables must be at
  each program counter (`WorkOK`) and what the row of a live message and the
  columns of a dead one are (`RowsOK`). `retries <= MaxRetries` depends on it:
  a retry remembers a count below the limit.
* `SequenceInv` adds that at most one coroutine of a process is between two
  commits (`LoopInv`) and that the number it is about to insert is above all
  those of its conversation (`InsertInv`). With one process that coroutine is
  alone, so no INSERT invalidates it; deletions only make it truer. The
  refinement theorem uses the same invariant: an INSERT is an `Append` because
  the new number is above all the others.
* `WholeInv` adds that a message about to be inserted is new, carries no
  history (`FreshInv`, `UnwrittenInv`) and that a message without a key has at
  most one coroutine after its first commit, in agreement with its status,
  counts and calls (`DispatchInv`). From it follow `RetryBudget` and
  `PendingIsInFlight`, and, step by step, the action property `SentIsFinal`:
  whoever could overwrite SENT would have to be dispatching.
* `RowInv` needs no hypothesis about processes. A handler that saw the
  channel's answer has an accepted copy (`AnswerOK`), a row's conversation
  exists (`HomeOK`), and a message whose last event is not its status is
  interrupted or has a handler that is certain to announce it
  (`ShownOrComing`). "Certain" excludes a handler of a reused key whose
  conversation may be gone; the handler that created the row is safe because
  deleting its conversation deletes the row as well.
* `PreviewInv` (one process) follows the preview through the gap between a
  webhook's two commits: it shows the newest row, or a message whose INSERT is
  still to come and cannot be rejected (`HandOK`), or one a crash prevented.

**ConnectionManager.** `HubInv` says of every broadcast under way: it is at a
client it was sent to, its dead clients have closed sockets (`ConnectionInv`),
and, unless the table was compacted, every client in `due` is ahead of it
(`NobodyIsSkipped`): at a position the iteration has not passed or, for
`notify_new_message`, in the second loop. At the end of the table nothing is
ahead, which is `ReachesTheSteady`. The step of the loop
goes to the first key from its position; that a non-empty set of positions has a
first is `WFMin` of the library's `WellFoundedInduction`. `Compactions` is a set
given by a condition because the library's `SelectSeq` is out of the provers'
reach.

**AgentWorker.** `PipelineInv` is the argument a reader would make: a task is in
one place. It waits once in the queue (`WaitsOnce`), or one worker holds it
(`HeldIsNew`), or it is over; what waits was never touched
(`WaitingIsUntouched`), and only what is finished is being acknowledged
(`AckingIsFinished`). An entry is delivered once because Redis is only asked for
new ones, and that is why nothing is answered or fails twice, crashes included.

**TaskAutomation.** `PassInv` joins the three state properties to: the types and
that a runner at work has a task (`TypeInv`); what the status of the task at
work is at each program counter (`AtWork`); tasks still to execute are
scheduled, or deleted (`TodoIsUntouched`); and a task that is still scheduled
or absent sent nothing (`UnclaimedIsUnsent`).

**The dashboard.** The invariants of `ProposalEditorProofs`,
`ProjectBoardProofs` and `ConversationPanelProofs` have the same form: every
request in the bag is well-shaped and what it captured agrees (`Good`), and the
page agrees with itself (a form holds the fields of the record it is for, a
file's conversation is the active one, ...). An action adds a request that is
good because the page was, or takes one out and writes to the page only what
was captured; the interesting cases are the guards that make the page ignore an
answer. What this needs of `(+)`, `(-)` and `SetToBag` is proved first.
`ActiveIsInOrder` is proved in the composition with the panel, whose steps also
remove conversations from the list. The types of the board, of the messages page
and of the proposals page are proved with those of the requests under way
(`TypeInv`), because an answer writes to the page what its request captured: a
detected client, the conversation in which recording was asked for, the dialog that
waits for its stages, the queue as it was when a deletion was asked for. That a
queue names each proposal once justifies `Without`, which removes one element
where the code filters; what it returns is proved from the library's theorems
on subsequences (`RemoveAtProperties`, `WithoutIsList`).

`QuietBoardIsAccurate` speaks of the moment when nothing is under way and needs
an invariant of the moments before (`QuietInv`): unless changes overlapped or an
answer was lost, at most one request of the board is under way, one copy of
it, and it tells how the board and the table will agree, whichever way it ends
(`Fits`). A move that is not stored yet carries the cards of before, which
are the rows (the rollback), and the cards already show its stage; one that is
stored has the row that makes the cards equal to the rows. A second change while
one is on its way ends this, and the history variable says so. `SameBoard`
shows that the requests of the modal, and the cleanup of its effects, leave
those of the board and their number alone.

**The record pages.** `QuietPageIsAccurate` also speaks of the moment when
nothing is under way, and here any number of changes and lists may be under way
before. `Inv` therefore says of every moment how far rows may differ from the
table. Of the requests whose answers are still to come it takes those the server
has carried out: `Altered` are the records they changed or deleted, `Added` those
they created. Rows *fit* (`Fits`) if each is as the server lists it, unless it is
`Altered`, and if every record the server lists is among them, unless it is
`Altered` or `Added`.

* `RowsFit`: while no list is asked for, the rows of a page that is not muddled
  fit. An answer that is taken into the rows takes its record out of `Altered`
  or `Added`, and the row it writes is what the server keeps, or another change
  of the record is still to be answered (`NotStale`); otherwise the page is
  muddled. A page that asks for the list again has no duty until it comes.
* `ListsFit`: if one list is asked for, once, and nothing overtook it, what has
  been read of it fits, part by part. So the answer makes the rows fit. With two
  lists under way the one taken first marks the other as late (`OvertakenLists`).
* `CallsInv`: what a request and its answer may be (`Sound`). An answer to an
  update is the row it asked for; an answer to a deletion means that the record
  is gone for good, since keys are not reused (`Gone` only grows). The rest of
  what bags need is proved once, from their definition (`Plus`, `Minus`,
  `Replaced`).

The step of the server is proved once for all pages, and so is each block the
handlers are made of (`SendsNew`, `ReloadsInv`, `ReplacesInv`, `MergesInv`, ...);
a page's lemma says which block each of its handlers is.

`SavingFormStays` needs that the modal's request is alone. `ItemInv`: there is
at most one request that ends the saving of an item, the save or the refresh
after it, one copy of it, the flag `saving` is set while it lasts, and if it is the
save, the form for its item is open. The step that is not obvious is `Overtaken`,
which may turn the refresh into a late one but neither doubles nor merges it
(`OvertakesItem`). The form stays because the modal covers the page, so that
nothing else can be opened over it but the picker, whose drafts may arrive late.

**A tab's view.** `ViewInv` joins seven parts, none of which is inductive alone.

* `TypeOK`; in it, a message on screen has a number the server gave or, as
  a bubble, the number its tab gave.
* `WireInv`: a closed socket has nothing on the wire and no subscription, and
  the tracked set is finite, so that a reconnection can write it out.
  `SubscriptionsAgree` needs both: when the socket opens, the frames on the
  wire are those of `tracked`, once each.
* `TrackInv`: the conversation whose effect ran last is tracked. A click leaves
  the one before, and only that one (`Left`).
* `SendInv`: a bubble is being sent exactly when its own request is under
  way, once. From it follows `BubbleIsHonest`; that a bubble has its text needs
  `DOMAIN status` to be within `DOMAIN pending`.
* `AttemptsAreOwed` counts, for each text, the bubbles whose payload is kept; it is
  preserved because a retry moves the payload to its new bubble, and because the
  answer of a POST belongs to a bubble that still has its payload (`SendInv`).
* `ListInv`: besides `EachOnceInOrder`, a bubble belongs to one conversation and
  its number is not above the counter (`BubblesAreTold`), so that a new bubble is
  not listed yet; and an answer brings stored messages, each once
  (`AnswersAreGood`).

`EachOnceInOrder` rests on what sorting and filtering return: `Rank` orders
positions, every rank is taken by one of them (`RankIsTaken`, by counting), and
so `Arranged` is a bijection that keeps the order.

Model-checked only: all liveness properties (`InboundReachesAgent`,
`BroadcastsEnd`, `GoneClientsLeave`, `TaskIsTaken`, `DueIsExecuted`,
`SpinnersStop`, `LoadsEnd`), since fairness and ENABLED are out of the prover's
reach.

## 6. Where code and documentation disagree

One run has a counterexample that is the behaviour of the code:

* `proposal_choice`: the page asks to choose a proposal in the list to see its
  details (`app/proposals/page.tsx:566`). Choosing one makes the page load the
  list again, and the arrival of the list selects the first proposal, or the
  one of the address bar, instead.

These are stated in the modules and refuted by TLC when they replace the
properties of the configuration named here:

| Operator | Says | Configuration | Why it fails |
|---|---|---|---|
| `Messaging!KeySentOnce` | "Returns existing message if idempotency_key was already used" | `messaging.cfg` with `Keys = {k1}`, `MaxReuses = 1` | the existing row is marked PENDING and dispatched again |
| `Messaging!WaitingIsDated` | "Periodically scan open conversations exceeding the SLA threshold" | `messaging.cfg` | the scan selects by `last_message_date`, which neither receiving nor sending writes |
| `ConnectionManager!AllSubscribersReached` | "Broadcast sequenced event to all clients subscribed to a conversation" | `hub.cfg` with `Kinds = {"event"}`, `MaxFrames = 3`, no symmetry | a client that comes or goes makes the iteration raise |
| `ConnectionManager!EventsInOrder` (a PROPERTY) | "WebSocket event with ordering guarantee" | the same | two broadcasts of a conversation await their clients independently |
| `AgentWorker!FailedIsDeadLetter` | "On repeated failure, sends the task to the dead-letter stream" | `worker.cfg` | a failed task is acknowledged and never tried again; `NoSecondTry` proves that the failures never repeat |
| `ConversationView!ViewIsOfShown` | the header of the page and the messages under it belong together | `conversation_view.cfg` | opening a conversation awaits the mark-as-read request before it fetches, and the agent may be elsewhere by then |

Seen in the dashboard's code while it was modelled, with no property about it:

* text typed while a message is being sent is cleared by the answer, and Enter
  pressed twice sends one text twice (`app/messages/page.tsx:1560`, `:2210`); cancelling a recording does not release the
  microphone (`:2163`); unlinking a contact ignores errors (`:2527`);
* a failed move restores all cards of before the drag, and so undoes on the
  screen what was saved since (`app/projects/page.tsx:2035`); an answer to a
  save closes the modal of another project opened since (`:1897`);
* the service details keep their fields when another proposal is selected,
  because the section has no key (`app/proposals/page.tsx:1319`);
* a fetch asks for 100 messages in ascending order, and so for the oldest;
* a quick reply that was created, listed and deleted is listed again by the
  answer to its creation (`hooks/useQuickReplies.ts:61`).

## 7. What is not modelled, and what the models simplify

* Contents, names, dates, permissions and rate limits are left out. The date of
  the first response is left out.
* `DeleteMessage` is one step: its queries and its commit have no await between
  them; only another process could come in, and would find the row or not.
  Whether a project is linked to the message is not modelled, so the
  deletion may always happen. The same goes for the other references that
  would make the database refuse a deletion.
* Ids are never reused. A deleted conversation does not come back; a later
  message of the same customer opens another.
* A webhook delivered twice is simply another inbound message, which is what
  the code makes of it.
* In the hub a send fails only when the peer is gone. Presence is a set of
  clients; the names shown are left out, and so is the list of viewers inside a
  presence event.
* `AgentWorker` is one process. The conversation's tag, the transcript the agent
  reads and the text of its suggestions are left out; the model may give any
  answer or fail. `TaskIsTaken` excepts the case in which errors of Redis have
  ended every worker. `Accounted` names the losses it tolerates: a full queue
  in memory, a failed XADD, memory lost with the process, and a task whose
  worker a shutdown cancelled.
* `TaskAutomation` executes the due tasks in any order, as the query states
  none. Tasks without an automation are left out, and creating one from a
  message is `CreateTask`.
* On the dashboard, layout, search, tags, audio playback and the wording of
  messages are left out, and what a record contains is reduced to its id and,
  where a property needs it, whose fields it holds. A list is its first page. In
  the record pages one person changes records through one tab; of requests that
  are equal only the number is kept, since they would do the same.
* Liveness of the messages page and of the record pages is not checked.
* Not modelled at all (`not_modelled` in `PROJECT.json`): the delivery alerts,
  settings and encryption, the optional standalone server, the landing, sign-in
  and settings pages, and repositories and migrations. Each entry there says
  why; most are single rows or presentation without concurrent state.

## 8. What remains

1. The mail poller: fetching marks mail as seen before it is processed; loss and
   duplication across crashes.
2. Positions and totals of proposals; an abstract priced list the tables are to
   implement.
3. Accounts on the server's side: can everybody be locked out?
4. Delivery alerts: consecutive failures counted by detached tasks.
5. A composition of `AgentWorker` with `Messaging` (the auto-reply's key and the
   pipeline's retry), and of `ConnectionManager` with `ConversationView` (what
   a reconnection misses).
