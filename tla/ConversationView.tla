-------------------------- MODULE ConversationView --------------------------
(***************************************************************************)
(* One agent's browser tab on the messages page: the message list on       *)
(* screen (useMessages), the WebSocket that feeds it (useWebSocket), the   *)
(* copy kept in sessionStorage (messagesSessionCache) and the provider     *)
(* that opens conversations (MessagesSessionContext).  Every await is two  *)
(* steps: the server answers, and later the tab takes the answer, so that  *)
(* clicks, events and other answers come between.                          *)
(*                                                                         *)
(* Abstracted: a message is its conversation and its number; what the      *)
(* composer holds is any text at any time, the one being sent included:    *)
(* handleSendMessage clears it only when its POST is settled; identify,    *)
(* ping and ack frames and presence events (ConnectionManager has them)    *)
(* change nothing here; the list of conversations is ConversationList.     *)
(***************************************************************************)
EXTENDS Integers, Sequences, FiniteSets, SequencesExt

CONSTANTS
    Convs,          \* conversations
    Texts,          \* what may be typed in the composer
    Media,          \* stands for any file and any recording
    None,
    PageSize,       \* getMessages' limit
    CacheSize,      \* MAX_MESSAGES_PER_CONVERSATION
    MaxMessages,    \* bound: messages stored in a conversation
    MaxBubbles,     \* bound: optimistic bubbles, retries included
    MaxCalls,       \* bound: requests in flight when the user acts
    MaxFrames,      \* bound: events on their way when one is caused
    MaxActs         \* bound: clicks, retries, reloads, deletions and closes

ASSUME ViewAssumption ==
    /\ None \notin Convs /\ Media \notin Texts
    /\ PageSize \in Nat \ {0} /\ CacheSize \in Nat \ {0}
    /\ MaxMessages \in Nat /\ MaxBubbles \in Nat
    /\ MaxCalls \in Nat /\ MaxFrames \in Nat /\ MaxActs \in Nat

VARIABLES
    \* The server, as this tab meets it.
    stored,         \* the numbers of the messages of each conversation
    last,           \* conversation_sequence of the newest
    subs,           \* what the server believes this socket is subscribed to
    \* The socket.
    link,           \* "open" or "closed"
    inbox,          \* events on their way to the tab
    outbox,         \* subscribe and unsubscribe frames on their way out
    tracked,        \* subscribedRef
    \* The tab.
    shown,          \* activeConversation, as rendered and in sessionStorage
    active,         \* activeConversationRef.current
    hydrated,       \* hydratedConversationIdRef.current
    requested,      \* currentConversationIdRef and requestConversationIdRef
    view,           \* messages
    status,         \* sendStatus of the optimistic bubbles
    pending,        \* pendingRef: the payload each bubble would send again
    bubbles,        \* bubbles made so far (Date.now() of the next temp id)
    owed,           \* history: sendings of each payload not confirmed yet
    calls,          \* the bag of requests whose promise is not settled
    cache,          \* messagesByConversation, in sessionStorage
    acts            \* what MaxActs bounds, so far

server  == <<stored, last, subs>>
socket  == <<link, inbox, outbox, tracked>>
opened  == <<shown, active, hydrated>>
list    == <<requested, view, cache>>
sends   == <<status, pending, bubbles, owed>>
vars    == <<server, socket, opened, list, sends, calls, acts>>

-----------------------------------------------------------------------------
(* Messages and lists of messages *)

\* What sendCore is given.
Payloads == Texts \cup {Media}

\* A stored message, and a bubble: conversation_sequence: Date.now() puts it
\* after every stored one.
Stored(c, n) == [conv |-> c, temp |-> 0, seq |-> n]
Bubble(c, k) == [conv |-> c, temp |-> k, seq |-> MaxMessages + k]

Messages == {Stored(c, n) : c \in Convs, n \in 1..MaxMessages}
                \cup {Bubble(c, k) : c \in Convs, k \in 1..MaxBubbles}

\* What is at the positions P of ms, in the order R of these positions.
Rank(i, P, R)      == Cardinality({j \in P : <<j, i>> \in R})
Arranged(ms, P, R) ==
    [k \in 1..Cardinality(P) |-> ms[CHOOSE i \in P : Rank(i, P, R) = k - 1]]

\* sort by conversation_sequence is stable; filter leaves the order alone.
Before(ms, P) ==
    {pair \in P \X P :
        \/ ms[pair[1]].seq < ms[pair[2]].seq
        \/ ms[pair[1]].seq = ms[pair[2]].seq /\ pair[1] < pair[2]}
Sorted(ms)      == Arranged(ms, DOMAIN ms, Before(ms, DOMAIN ms))
Filtered(ms, P) == Arranged(ms, P, {pair \in P \X P : pair[1] < pair[2]})

\* normalizeMessages: one of each id, in order, the newest CacheSize of them.
Normalize(ms) ==
    LET once == {i \in DOMAIN ms : \A j \in DOMAIN ms : j < i => ms[j] # ms[i]}
        all  == Arranged(ms, once, Before(ms, once))
        cut  == IF Len(all) > CacheSize THEN Len(all) - CacheSize ELSE 0
    IN  SubSeq(all, cut + 1, Len(all))

\* get_conversation_messages: ascending, from the first, PageSize of them.
FirstPage(c) ==
    LET all == Sorted(SetToSeq({Stored(c, n) : n \in stored[c]}))
    IN  SubSeq(all, 1, IF Len(all) > PageSize THEN PageSize ELSE Len(all))

\* setMessages(next) together with saveMessagesToSessionCache(userId, c, next).
ShowAndSave(c, ms) ==
    /\ view' = ms
    /\ cache' = [cache EXCEPT ![c] = Normalize(ms)]

-----------------------------------------------------------------------------
(* Requests *)

Call(op, c, k) == [op |-> op, conv |-> c, temp |-> k, done |-> FALSE, ans |-> <<>>]

InFlight == DOMAIN calls
Asked(call)   == calls (+) SetToBag({call})
Settled(call) == calls (-) SetToBag({call})

\* The part of fetchMessages before its await, as a step of the list alone.
ShowCached(c) ==
    /\ requested' = c
    /\ view' = cache[c]
    /\ UNCHANGED cache

\* React runs the effects of a change before it renders another: before the
\* next click is handled, and before a refreshed list has its effect.
EffectsRan == shown \in {None, hydrated}

\* The user does not act with more than MaxCalls requests under way.
UserMayAct ==
    /\ EffectsRan
    /\ BagCardinality(calls) <= MaxCalls

-----------------------------------------------------------------------------
(* The socket *)

Frame(t, c) == [type |-> t, conv |-> c]

\* Frames that subscribe() and unsubscribe() write when the socket is open.
Written(frames) == IF link = "open" THEN outbox \o frames ELSE outbox

\* Events the server writes to this client.
Pushed(events) == IF link = "open" THEN inbox \o events ELSE inbox

\* notify_new_message sends the whole message to subscribers only.
NewMessage(c, n) ==
    IF c \in subs THEN <<[type |-> "new_message", conv |-> c, seq |-> n]>> ELSE <<>>

\* delete_message tells the subscribers.
Deletion(c, n) ==
    IF c \in subs THEN <<[type |-> "message_deleted", conv |-> c, seq |-> n]>> ELSE <<>>

\* The socket closes, on either side; nothing on the wire survives.
Drop ==
    /\ link = "open"
    /\ link' = "closed" /\ inbox' = <<>> /\ outbox' = <<>> /\ subs' = {}
    /\ UNCHANGED <<stored, last, tracked, opened, list, sends, calls>>

\* Mutant: the new socket does not subscribe again.
ConnectSilent ==
    /\ link = "closed"
    /\ link' = "open"
    /\ UNCHANGED <<server, inbox, outbox, tracked, opened, list, sends, calls>>

\* onopen, after the backoff: subscribe to everything in subscribedRef.
Connect ==
    /\ link = "closed"
    /\ link' = "open"
    /\ \E ids \in SetToSeqs(tracked) :
          outbox' = [i \in DOMAIN ids |-> Frame("subscribe", ids[i])]
    /\ UNCHANGED <<server, inbox, tracked, opened, list, sends, calls>>

\* The server's receive loop takes one frame.
ServerReceives ==
    /\ outbox # <<>>
    /\ subs' = IF Head(outbox).type = "subscribe"
               THEN subs \cup {Head(outbox).conv}
               ELSE subs \ {Head(outbox).conv}
    /\ outbox' = Tail(outbox)
    /\ UNCHANGED <<stored, last, link, inbox, tracked, opened, list, sends, calls>>

-----------------------------------------------------------------------------
(* The server *)

\* A message that this tab did not send is stored and announced.
MessageArrives(c) ==
    /\ last[c] < MaxMessages /\ Len(inbox) < MaxFrames
    /\ last' = [last EXCEPT ![c] = @ + 1]
    /\ stored' = [stored EXCEPT ![c] = @ \cup {last[c] + 1}]
    /\ inbox' = Pushed(NewMessage(c, last[c] + 1))
    /\ UNCHANGED <<subs, link, outbox, tracked, opened, list, sends, calls>>

\* Somebody deletes a message: message_deleted to the subscribers.
MessageDeleted(c, n) ==
    /\ n \in stored[c] /\ Len(inbox) < MaxFrames
    /\ stored' = [stored EXCEPT ![c] = @ \ {n}]
    /\ inbox' = Pushed(Deletion(c, n))
    /\ UNCHANGED <<last, subs, link, outbox, tracked, opened, list, sends, calls>>

\* The server handles a request; its answer is on the way.  (When the PATCH
\* and the backend's retry are handled makes no difference here.)
Answered(call, ans) ==
    calls' = Settled(call) (+) SetToBag({[call EXCEPT !.done = TRUE, !.ans = ans]})

AnswersFetch(call) ==
    /\ call.op = "fetch" /\ ~call.done
    /\ Answered(call, FirstPage(call.conv))
    /\ UNCHANGED <<server, socket, opened, list, sends>>

\* handleDeleteMessage's DELETE, of a message of its conversation that is still
\* there; otherwise it can only fail.
AnswersDelete(call) ==
    LET c == call.conv IN
    /\ call.op = "delete" /\ ~call.done
    /\ \E n \in stored[c] :
          /\ stored' = [stored EXCEPT ![c] = @ \ {n}]
          /\ inbox' = Pushed(Deletion(c, n))
    /\ Answered(call, <<>>)
    /\ UNCHANGED <<last, subs, link, outbox, tracked, opened, list, sends>>

AnswersSend(call) ==
    LET c == call.conv
        n == last[c] + 1
    IN  /\ call.op = "send" /\ ~call.done
        /\ n <= MaxMessages
        /\ last' = [last EXCEPT ![c] = n]
        /\ stored' = [stored EXCEPT ![c] = @ \cup {n}]
        /\ inbox' = Pushed(NewMessage(c, n))
        /\ Answered(call, <<Stored(c, n)>>)
        /\ UNCHANGED <<subs, link, outbox, tracked, opened, list, sends>>

-----------------------------------------------------------------------------
(* Opening a conversation *)

SetActive(c) == shown' = c /\ active' = c

\* Mutant: the conversation that is left is not compared with the new one.
LeftAlways(c) == {active} \ {None}

\* The active conversation, when another one takes its place.
Left(c) == {active} \ {None, c}

\* The part of activateConversation and selectConversation that runs before
\* the first await: leave the active conversation, make c active and, when the
\* list has it as unread, start the PATCH.  What follows the await (subscribe
\* and fetchMessages) runs at once when there is no PATCH to wait for.
\* "effects" tells whether React has run the provider's effect on
\* activeConversation.id by then: it has after a click, a discrete event; it
\* has not after the timer that opens ?conversationId=.
Open(c, unread, effects) ==
    LET left    == Left(c)
        effect  == effects /\ hydrated # c
        asks    == SetToBag(IF effect THEN {Call("fetch", c, 0)} ELSE {})
                   (+) SetToBag({Call(IF unread THEN "mark read" ELSE "fetch", c, 0)})
    IN  /\ SetActive(c)
        /\ hydrated' = IF effect THEN c ELSE hydrated
        /\ tracked' = (tracked \ left)
                      \cup (IF effect \/ ~unread THEN {c} ELSE {})
        /\ outbox' = Written((IF left = {} THEN <<>> ELSE <<Frame("unsubscribe", active)>>)
                      \o (IF effect THEN <<Frame("subscribe", c)>> ELSE <<>>)
                      \o (IF unread THEN <<>> ELSE <<Frame("subscribe", c)>>))
        /\ IF effect \/ ~unread THEN ShowCached(c) ELSE UNCHANGED list
        /\ calls' = calls (+) asks
        /\ UNCHANGED <<server, link, inbox, sends>>

Click(c, unread)      == UserMayAct /\ Open(c, unread, TRUE)
FollowLink(c, unread) == UserMayAct /\ Open(c, unread, FALSE)

\* The effect, when it has not run with the step that changed `shown'.
Hydrate ==
    /\ shown # None /\ hydrated # shown
    /\ hydrated' = shown
    /\ tracked' = tracked \cup {shown}
    /\ outbox' = Written(<<Frame("subscribe", shown)>>)
    /\ ShowCached(shown)
    /\ calls' = Asked(Call("fetch", shown, 0))
    /\ UNCHANGED <<server, link, inbox, shown, active, sends>>

\* The PATCH is settled, well or not: activateConversation goes on with the
\* conversation it was called for.
MarkReadSettles(call) ==
    LET c == call.conv IN
    /\ call.op = "mark read"
    /\ tracked' = tracked \cup {c}
    /\ outbox' = Written(<<Frame("subscribe", c)>>)
    /\ ShowCached(c)
    /\ calls' = Settled(call) (+) SetToBag({Call("fetch", c, 0)})
    /\ UNCHANGED <<server, link, inbox, opened, sends>>

\* A refreshed list of conversations lacks the active one: setActive(null).
ActiveVanishes ==
    /\ EffectsRan
    /\ active # None
    /\ SetActive(None)
    /\ UNCHANGED <<server, socket, hydrated, list, sends, calls>>

\* The page is loaded again: only sessionStorage is left.  The conversation it
\* names is rendered, and the provider's effect fetches it.
Reload ==
    LET c == shown IN
    /\ link' = "closed" /\ inbox' = <<>> /\ outbox' = <<>> /\ subs' = {}
    /\ active' = None /\ hydrated' = c
    /\ tracked' = {c} \ {None}
    /\ requested' = c
    /\ view' = IF c = None THEN <<>> ELSE cache[c]
    /\ calls' = IF c = None THEN EmptyBag ELSE SetToBag({Call("fetch", c, 0)})
    /\ status' = <<>> /\ pending' = <<>> /\ owed' = [t \in Payloads |-> 0]
    /\ UNCHANGED <<stored, last, shown, bubbles, cache>>

-----------------------------------------------------------------------------
(* The answers *)

\* fetchMessages goes on: an answer for another conversation than the last one
\* asked for is dropped.
FetchSucceeds(call) ==
    LET c == call.conv IN
    /\ call.op = "fetch" /\ call.done
    /\ IF requested = c
       THEN ShowAndSave(c, Sorted(call.ans))
       ELSE UNCHANGED <<view, cache>>
    /\ calls' = Settled(call)
    /\ UNCHANGED <<server, socket, opened, requested, sends>>

FetchFails(call) ==
    /\ call.op = "fetch"
    /\ calls' = Settled(call)
    /\ UNCHANGED <<server, socket, opened, list, sends>>

Without(f, k) == [x \in DOMAIN f \ {k} |-> f[x]]
With(f, k, v) == [x \in DOMAIN f \cup {k} |-> IF x = k THEN v ELSE f[x]]

\* sendCore up to its await: a bubble at the end of whatever list is there.
\* `asked' is the bag of requests but for its own POST.
StartSend(c, text, ms, others, marks, asked) ==
    LET k == bubbles + 1 IN
    /\ k <= MaxBubbles
    /\ bubbles' = k
    /\ pending' = With(others, k, text)
    /\ status' = With(marks, k, "sending")
    /\ ShowAndSave(c, Append(ms, Bubble(c, k)))
    /\ calls' = asked (+) SetToBag({Call("send", c, k)})
    /\ UNCHANGED <<server, socket, opened, requested>>

\* The messages on screen but that with the id of a bubble.
OthersThan(k) == Filtered(view, {i \in DOMAIN view : view[i].temp # k})

\* Mutant: a retry keeps the payload of the failed bubble.
RetryKeepsPending(j) ==
    LET m == view[j] IN
    /\ UserMayAct
    /\ m.temp \in DOMAIN status \cap DOMAIN pending
    /\ status[m.temp] = "failed"
    /\ StartSend(m.conv, pending[m.temp], OthersThan(m.temp),
                 pending, Without(status, m.temp), calls)
    /\ UNCHANGED owed

\* handleSendMessage and sendText: the text goes to activeConversation.  Enter
\* does not ask whether one is being sent: a second one sends the text again.
Send(t) ==
    /\ UserMayAct
    /\ shown # None
    /\ StartSend(shown, t, view, pending, status, calls)
    /\ owed' = [owed EXCEPT ![t] = @ + 1]

\* sendFile and sendAudio up to their upload's await.  A recording is bound to
\* the conversation in which it began, and is part of its upload here.
Upload ==
    /\ UserMayAct
    /\ shown # None
    /\ calls' = Asked(Call("upload", shown, 0))
    /\ UNCHANGED <<server, socket, opened, list, sends>>

\* The upload is done and sendCore begins, whatever is on screen by then.
UploadSucceeds(call) ==
    /\ call.op = "upload"
    /\ StartSend(call.conv, Media, view, pending, status, Settled(call))
    /\ owed' = [owed EXCEPT ![Media] = @ + 1]

\* The file is too large, or its upload fails: nothing is sent.
UploadFails(call) ==
    /\ call.op = "upload"
    /\ calls' = Settled(call)
    /\ UNCHANGED <<server, socket, opened, list, sends>>

\* The sending that the bubble stands for has been answered.
Confirmed(k) ==
    owed' = IF k \in DOMAIN pending THEN [owed EXCEPT ![pending[k]] = @ - 1] ELSE owed

\* Mutant: the answer does not look for a copy brought by the socket.
SendReplaces(call) ==
    LET k == call.temp
    IN  /\ call.op = "send" /\ call.done
        /\ pending' = Without(pending, k)
        /\ status' = Without(status, k)
        /\ ShowAndSave(call.conv,
               Sorted([j \in DOMAIN view |->
                           IF view[j].temp = k THEN call.ans[1] ELSE view[j]]))
        /\ Confirmed(k)
        /\ calls' = Settled(call)
        /\ UNCHANGED <<server, socket, opened, requested, bubbles>>

\* The POST has answered: the stored message takes the bubble's place, unless
\* the socket brought it before.
SendSucceeds(call) ==
    LET k    == call.temp
        real == call.ans[1]
        rest == OthersThan(k)
    IN  /\ call.op = "send" /\ call.done
        /\ pending' = Without(pending, k)
        /\ status' = Without(status, k)
        /\ ShowAndSave(call.conv,
               IF Contains(view, real) THEN rest
               ELSE Sorted([j \in DOMAIN view |->
                                IF view[j].temp = k THEN real ELSE view[j]]))
        /\ Confirmed(k)
        /\ calls' = Settled(call)
        /\ UNCHANGED <<server, socket, opened, requested, bubbles>>

\* Mutant: a failure forgets the payload too, as a success does.
SendFailsForgets(call) ==
    /\ call.op = "send"
    /\ pending' = Without(pending, call.temp)
    /\ status' = With(status, call.temp, "failed")
    /\ calls' = Settled(call)
    /\ UNCHANGED <<server, socket, opened, list, bubbles, owed>>

\* The POST failed, or its answer was lost after the message was stored.
SendFails(call) ==
    /\ call.op = "send"
    /\ status' = With(status, call.temp, "failed")
    /\ calls' = Settled(call)
    /\ UNCHANGED <<server, socket, opened, list, pending, bubbles, owed>>

\* retryMessage on a failed bubble: forget it and send its text again.
RetryBubble(j) ==
    LET m == view[j] IN
    /\ UserMayAct
    /\ m.temp \in DOMAIN status \cap DOMAIN pending
    /\ status[m.temp] = "failed"
    /\ StartSend(m.conv, pending[m.temp], OthersThan(m.temp),
                 Without(pending, m.temp), Without(status, m.temp), calls)
    /\ UNCHANGED owed

\* retryMessage on a stored message whose delivery failed: the backend tries
\* again, and the answer is the same message with another delivery status.
RetryStored(j) ==
    /\ UserMayAct
    /\ view[j].temp = 0
    /\ calls' = Asked(Call("retry", view[j].conv, 0))
    /\ UNCHANGED <<server, socket, opened, list, sends>>

RetrySucceeds(call) ==
    /\ call.op = "retry"
    /\ ShowAndSave(call.conv, view)
    /\ calls' = Settled(call)
    /\ UNCHANGED <<server, socket, opened, requested, sends>>

RetryFails(call) ==
    /\ call.op = "retry"
    /\ calls' = Settled(call)
    /\ UNCHANGED <<server, socket, opened, list, sends>>

\* handleDeleteMessage, with the message of the modal.
Delete ==
    /\ UserMayAct
    /\ shown # None
    /\ \E j \in DOMAIN view : view[j].temp = 0
    /\ calls' = Asked(Call("delete", shown, 0))
    /\ UNCHANGED <<server, socket, opened, list, sends>>

\* The conversation of the modal is fetched, whatever is on screen by then.
DeleteSucceeds(call) ==
    /\ call.op = "delete" /\ call.done
    /\ ShowCached(call.conv)
    /\ calls' = Settled(call) (+) SetToBag({Call("fetch", call.conv, 0)})
    /\ UNCHANGED <<server, socket, opened, sends>>

DeleteFails(call) ==
    /\ call.op = "delete"
    /\ calls' = Settled(call)
    /\ UNCHANGED <<server, socket, opened, list, sends>>

-----------------------------------------------------------------------------
(* The events *)

\* appendMessage.
Appended(c, m) ==
    IF Contains(view, m) THEN UNCHANGED <<view, cache>>
    ELSE LET next == Sorted(Append(view, m)) IN
         /\ view' = next
         /\ cache' = IF requested = c THEN [cache EXCEPT ![c] = Normalize(next)]
                     ELSE cache

\* handleWsEvent: only what concerns the active conversation reaches the list.
EventArrives ==
    LET e == Head(inbox) IN
    /\ inbox # <<>>
    /\ inbox' = Tail(inbox)
    /\ \/ /\ e.type = "new_message" /\ active = e.conv
          /\ Appended(e.conv, Stored(e.conv, e.seq))
          /\ UNCHANGED <<requested, calls>>
       \/ /\ e.type = "message_deleted" /\ active = e.conv
          /\ ShowCached(e.conv)
          /\ calls' = Asked(Call("fetch", e.conv, 0))
       \/ /\ active # e.conv
          /\ UNCHANGED <<list, calls>>
    /\ UNCHANGED <<server, link, outbox, tracked, opened, sends>>

-----------------------------------------------------------------------------
Init ==
    /\ stored = [c \in Convs |-> {}]
    /\ last = [c \in Convs |-> 0]
    /\ subs = {}
    /\ link = "closed" /\ inbox = <<>> /\ outbox = <<>> /\ tracked = {}
    /\ shown = None /\ active = None /\ hydrated = None
    /\ requested = None /\ view = <<>> /\ cache = [c \in Convs |-> <<>>]
    /\ status = <<>> /\ pending = <<>> /\ bubbles = 0
    /\ owed = [t \in Payloads |-> 0]
    /\ calls = EmptyBag /\ acts = 0

Server == \/ ServerReceives
          \/ \E c \in Convs : MessageArrives(c)
          \/ \E call \in InFlight :
                AnswersFetch(call) \/ AnswersSend(call) \/ AnswersDelete(call)

Answers == \E call \in InFlight :
              \/ MarkReadSettles(call)
              \/ FetchSucceeds(call) \/ FetchFails(call)
              \/ SendSucceeds(call) \/ SendFails(call)
              \/ RetrySucceeds(call) \/ RetryFails(call)
              \/ UploadSucceeds(call) \/ UploadFails(call)
              \/ DeleteSucceeds(call) \/ DeleteFails(call)

User == \/ \E c \in Convs, unread \in BOOLEAN :
              Click(c, unread) \/ FollowLink(c, unread)
        \/ \E j \in DOMAIN view : RetryBubble(j) \/ RetryStored(j)
        \/ Upload \/ Delete
        \/ Reload
        \/ ActiveVanishes

Elsewhere == \/ Drop
             \/ \E c \in Convs : \E n \in stored[c] : MessageDeleted(c, n)

Next == \/ /\ \/ Server \/ Answers \/ EventArrives \/ Hydrate \/ Connect
              \/ \E t \in Texts : Send(t)
           /\ UNCHANGED acts
        \/ /\ User \/ Elsewhere
           /\ acts < MaxActs /\ acts' = acts + 1

Spec == Init /\ [][Next]_vars

-----------------------------------------------------------------------------
(* Properties *)

Calls == [op : {"fetch", "mark read", "send", "retry", "upload", "delete"}, conv : Convs,
          temp : 0..MaxBubbles, done : BOOLEAN, ans : Seq(Messages)]

ServerTypes ==
    /\ stored \in [Convs -> SUBSET (1..MaxMessages)]
    /\ last \in [Convs -> 0..MaxMessages]
    /\ subs \subseteq Convs

Events == [type : {"new_message", "message_deleted"}, conv : Convs, seq : 1..MaxMessages]
Frames == [type : {"subscribe", "unsubscribe"}, conv : Convs]

SocketTypes ==
    /\ link \in {"open", "closed"} /\ tracked \subseteq Convs
    /\ inbox \in Seq(Events) /\ outbox \in Seq(Frames)

ListTypes ==
    /\ {shown, active, hydrated, requested} \subseteq Convs \cup {None}
    /\ view \in Seq(Messages) /\ cache \in [Convs -> Seq(Messages)]

SendTypes ==
    /\ bubbles \in 0..MaxBubbles
    /\ DOMAIN status \cup DOMAIN pending \subseteq 1..bubbles
    /\ \A k \in DOMAIN status : status[k] \in {"sending", "failed"}
    /\ \A k \in DOMAIN pending : pending[k] \in Payloads
    /\ owed \in [Payloads -> Nat]

CallTypes == IsABag(calls) /\ InFlight \subseteq Calls

\* The types of the variables.
TypeOK ==
    /\ ServerTypes /\ SocketTypes /\ ListTypes /\ SendTypes /\ CallTypes
    /\ acts \in 0..MaxActs

\* Every message is on screen once, in the order of its number, and so it is
\* in every cached copy, whichever of the POST's answer, the event and a fetch
\* brings it first ("deduplicates + keeps order", and the titles of
\* useMessages.test.ts).
InOrder(ms) == \A i, j \in DOMAIN ms :
                  i < j => ms[i].seq <= ms[j].seq /\ ms[i] # ms[j]
EachOnceInOrder == InOrder(view) /\ \A c \in Convs : InOrder(cache[c])

\* While the socket is open, once the server has read every frame on the wire
\* it is subscribed to exactly what the tab tracks: through reconnects,
\* reloads and clicks in quick succession.
IsLast(i, c) == /\ outbox[i].conv = c
                /\ \A j \in DOMAIN outbox : j > i => outbox[j].conv # c
WillBeSubscribed(c) ==
    \/ \E i \in DOMAIN outbox : IsLast(i, c) /\ outbox[i].type = "subscribe"
    \/ c \in subs /\ \A i \in DOMAIN outbox : outbox[i].conv # c
SubscriptionsAgree ==
    link = "open" => \A c \in Convs : WillBeSubscribed(c) <=> c \in tracked

\* The conversation on screen is one the tab is subscribed to.
ShownIsTracked == shown # None /\ hydrated = shown => shown \in tracked

\* Whatever the user sent since the page was loaded has one attempt, a POST under
\* way or a failed bubble to retry, until the server confirms it: a retry, a
\* failure or an answer that comes while another conversation is shown neither
\* loses nor doubles a sending.
\* (Two Enters are two sendings, of one text if it was not cleared in between.)
AttemptsAreOwed ==
    \A t \in Payloads :
        Cardinality({k \in DOMAIN pending : pending[k] = t}) = owed[t]

\* A bubble of this page load that is on screen is being sent, or says that it
\* failed and still has its text to send again.
BubbleIsHonest ==
    \A j \in DOMAIN view : view[j].temp \in DOMAIN status =>
        /\ view[j].temp \in DOMAIN pending
        /\ status[view[j].temp] = "sending" =>
              \E call \in InFlight : call.op = "send" /\ call.temp = view[j].temp

\* What the header of the page suggests and TLC refutes (README, section 6):
\* the messages on screen are those of the conversation that was opened.
ViewIsOfShown ==
    shown # None /\ hydrated = shown =>
        \A j \in DOMAIN view : view[j].conv = shown

=============================================================================
