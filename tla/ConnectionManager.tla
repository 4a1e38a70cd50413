------------------------- MODULE ConnectionManager -------------------------
(***************************************************************************)
(* SequencedConnectionManager: the WebSocket clients of one process, their *)
(* subscriptions and presence, and the broadcasts that walk over them.     *)
(*                                                                         *)
(* A broadcast awaits every client in turn, for up to 30 s each, while it  *)
(* iterates the dictionary of clients itself and not a copy.  An action is *)
(* the code of one coroutine between two awaits.                           *)
(***************************************************************************)
EXTENDS Integers, Sequences, FiniteSets

CONSTANTS
    Clients,        \* client ids: one uuid4 for each connection
    Conversations,
    Broadcasts,     \* calls of the broadcast methods, each made at most once
    Kinds,          \* bound: which broadcast methods are called
    MaxFrames,      \* bound: subscribe and unsubscribe frames read
    None

ASSUME ManagerAssumption ==
    /\ Kinds \subseteq {"event", "message", "global", "presence"}
    /\ MaxFrames \in Nat
    /\ None \notin Clients \cup Conversations \cup Broadcasts

VARIABLES
    entries,        \* _clients in insertion order; None where one was removed
    socket,         \* each connection as its handler will find it
    subscribed,     \* ClientSession.subscribed_conversations
    presence,       \* _presence
    sequences,      \* _conversation_sequences
    job,            \* the broadcasts
    \* History.
    received,       \* number of the last event each client received
    due,            \* whom each broadcast is for and was not sent to yet, among
                    \* those that stayed connected and subscribed as they were
    frames,         \* counts up to MaxFrames
    moved           \* broadcasts during which the dictionary was compacted

state == <<entries, socket, subscribed, presence, sequences, job>>
vars  == <<state, received, due, frames, moved>>

New == [pc |-> "new", kind |-> "event", conv |-> None, seq |-> 0, pos |-> 0,
        used |-> 0, left |-> 0, at |-> None, dead |-> {}]

Connected == {entries[i] : i \in DOMAIN entries} \ {None}

Running(b) == job[b].pc \notin {"new", "ended", "raised"}

\* broadcast_to_conversation numbers its event and wants an acknowledgement.
Sequenced(j) == j.kind \in {"event", "message"}

Used(e) == Cardinality({i \in DOMAIN e : e[i] # None})

\* Mutant: the clients are kept in a list.
RemoveFromList(e, S) == SelectSeq(e, LAMBDA c : c \notin S)

Without(e, S) == [i \in DOMAIN e |-> IF e[i] \in S THEN None ELSE e[i]]

\* e without its holes, in the same order (one sequence: the places p are in
\* order and leave out no entry).
Compactions(e) ==
    LET kept == {i \in DOMAIN e : e[i] # None}
    IN  {[m \in DOMAIN p |-> e[p[m]]] :
            p \in {p \in [1 .. Used(e) -> kept] :
                    /\ \A m, n \in DOMAIN p : m < n => p[m] < p[n]
                    /\ \A i \in kept : \E m \in DOMAIN p : p[m] = i}}

-----------------------------------------------------------------------------
(* The websocket endpoint *)

\* connect.  A full table of entries is rebuilt without its holes, which moves
\* the later entries forward under whoever iterates over them.
Connect(c) ==
    /\ socket[c] = "new"
    /\ socket' = [socket EXCEPT ![c] = "open"]
    /\ \/ /\ entries' = Append(entries, c)
          /\ UNCHANGED moved
       \/ /\ Used(entries) < Len(entries)
          /\ \E e \in Compactions(entries) : entries' = Append(e, c)
          /\ moved' = moved \cup {b \in Broadcasts : Running(b)}
    /\ UNCHANGED <<subscribed, presence, sequences, job,
                   received, due, frames>>

\* The peer goes away; its handler does not know yet.
Close(c) ==
    /\ socket[c] = "open"
    /\ socket' = [socket EXCEPT ![c] = "closed"]
    /\ UNCHANGED <<entries, subscribed, presence, sequences, job,
                   received, due, frames, moved>>

\* Mutant: presence is not cleared.
ForgetOnly(S) ==
    /\ entries' = Without(entries, S)
    /\ UNCHANGED <<subscribed, presence>>

\* disconnect, for each client of S.  Whatever its handler reads afterwards
\* finds no session and changes nothing.
Disconnect(S) ==
    /\ entries' = Without(entries, S)
    /\ subscribed' = [c \in Clients |-> IF c \in S THEN {} ELSE subscribed[c]]
    /\ presence' = [v \in Conversations |-> presence[v] \ S]

\* Whom broadcasts are due to, if the clients of S change their subscriptions
\* to v, or are disconnected.
Unsettled(S, v) ==
    [b \in Broadcasts |-> IF Running(b) /\ job[b].conv = v
                          THEN due[b] \ S ELSE due[b]]
Departed(S) ==
    [b \in Broadcasts |-> IF Running(b) THEN due[b] \ S ELSE due[b]]

\* Mutant: only WebSocketDisconnect is caught, not every exception.
Nobody(c) == {}

\* The exceptions of receive_json that end in manager.disconnect.
Caught(c) == {c}

HandlerEnds(c) ==
    /\ socket[c] = "closed" /\ c \in Connected
    /\ Disconnect(Caught(c))
    /\ due' = Departed({c})
    /\ UNCHANGED <<socket, sequences, job, received, frames, moved>>

\* A client that has identified itself is entered in the presence list; one
\* without a display_name is not.
Subscribe(c, v) ==
    /\ c \in Connected
    /\ frames < MaxFrames /\ frames' = frames + 1
    /\ c \notin presence[v]
    /\ subscribed' = [subscribed EXCEPT ![c] = @ \cup {v}]
    /\ \E enrolled \in SUBSET {c} :
        presence' = [presence EXCEPT ![v] = @ \cup enrolled]
    /\ due' = IF v \in subscribed[c] THEN due ELSE Unsettled({c}, v)
    /\ UNCHANGED <<entries, socket, sequences, job, received, moved>>

Unsubscribe(c, v) ==
    /\ c \in Connected
    /\ frames < MaxFrames /\ frames' = frames + 1
    /\ v \in subscribed[c]
    /\ subscribed' = [subscribed EXCEPT ![c] = @ \ {v}]
    /\ presence' = [presence EXCEPT ![v] = @ \ {c}]
    /\ due' = Unsettled({c}, v)
    /\ UNCHANGED <<entries, socket, sequences, job, received, moved>>

-----------------------------------------------------------------------------
(* Iterating over _clients.items() *)

IsTarget(j, c) ==
    CASE j.kind = "global" -> TRUE
      [] j.kind = "notice" -> j.conv \notin subscribed[c]
      [] OTHER -> j.conv \in subscribed[c]

\* The entries still to be visited, and those of them that are sent to.
Ahead(e, j) == {i \in DOMAIN e : i > j.pos /\ e[i] # None}
Targets(e, j) == {i \in Ahead(e, j) : IsTarget(j, e[i])}

\* The entries visited up to the next await.
Passed(e, j) == {i \in Ahead(e, j) : \A k \in Targets(e, j) : i <= k}

\* The iterator raises if the number of clients is not what it was when it
\* began, or if it finds more of them than that.
IteratorRaises(e, j) ==
    Used(e) # j.used \/ Cardinality(Passed(e, j)) > j.left

\* Of a broadcast that is over only its kind is kept.
Over(j, pc) == [New EXCEPT !.pc = pc, !.kind = j.kind]

\* The loop passes over other clients without an await.
Walk(e, j) ==
    CASE IteratorRaises(e, j) -> Over(j, "raised")
      [] Targets(e, j) = {} -> Over(j, "ended")
      [] OTHER ->
            LET i == CHOOSE i \in Targets(e, j) : i \in Passed(e, j)
            IN  [j EXCEPT !.pc = "sending", !.pos = i, !.at = e[i],
                          !.left = @ - Cardinality(Passed(e, j))]

FirstOf(e, j) ==
    Walk(e, [j EXCEPT !.pos = 0, !.used = Used(e), !.left = Used(e), !.dead = {}])

\* The second loop of notify_new_message, over those not subscribed.
Notices(e, j) == FirstOf(e, [j EXCEPT !.kind = "notice"])

Begin(e, j) ==
    IF j.kind = "message" /\ FirstOf(e, j).pc = "ended"
    THEN Notices(e, j) ELSE FirstOf(e, j)

\* The frame of a send is written before anything is awaited.
Received(j) ==
    IF j.pc = "sending" /\ Sequenced(j) /\ socket[j.at] = "open"
    THEN [received EXCEPT ![j.at][j.conv] = j.seq] ELSE received

\* The next turn of the loop.  At its end the dead clients are disconnected,
\* but not if it is left by an exception.
Proceed(b, j) ==
    LET next == Walk(entries, j)
        notices == Notices(Without(entries, j.dead), j)
        then == IF j.kind = "message" THEN notices ELSE next
    IN  \/ /\ next.pc = "raised"
           /\ job' = [job EXCEPT ![b] = next]
           /\ UNCHANGED <<entries, subscribed, presence, due, received>>
        \/ /\ next.pc = "sending"
           /\ job' = [job EXCEPT ![b] = next]
           /\ due' = [due EXCEPT ![b] = @ \ {next.at}]
           /\ received' = Received(next)
           /\ UNCHANGED <<entries, subscribed, presence>>
        \/ /\ next.pc = "ended"
           /\ job' = [job EXCEPT ![b] = then]
           /\ Disconnect(j.dead)
           /\ due' = [Departed(j.dead) EXCEPT ![b] = @ \ {then.at}]
           /\ UNCHANGED received

-----------------------------------------------------------------------------
(* Broadcasts *)

Start(b, j) ==
    /\ job[b].pc = "new"
    /\ j.kind \in Kinds
    /\ job' = [job EXCEPT ![b] = Begin(entries, j)]
    /\ due' = [due EXCEPT ![b] =
        {c \in Connected : j.kind = "message" \/ IsTarget(j, c)}
            \ {Begin(entries, j).at}]
    /\ received' = Received(Begin(entries, j))
    /\ UNCHANGED <<entries, socket, subscribed, presence, frames, moved>>

\* broadcast_to_conversation, alone or as the first loop of notify_new_message.
StartSequenced(b, kind, v) ==
    /\ sequences' = [sequences EXCEPT ![v] = @ + 1]
    /\ Start(b, [New EXCEPT !.kind = kind, !.conv = v, !.seq = sequences[v] + 1])

StartGlobal(b) ==
    /\ Start(b, [New EXCEPT !.kind = "global"])
    /\ UNCHANGED sequences

\* _broadcast_presence, which subscribe, unsubscribe and disconnect start as a
\* task of its own: it may begin at any later moment.
StartPresence(b, v) ==
    /\ Start(b, [New EXCEPT !.kind = "presence", !.conv = v])
    /\ UNCHANGED sequences

\* send_json raises: send_event returns False.
SendFails(b) ==
    LET j == job[b]
    IN  /\ j.pc = "sending" /\ socket[j.at] # "open"
        /\ Proceed(b, [j EXCEPT !.dead = @ \cup {j.at}])
        /\ UNCHANGED <<socket, sequences, frames, moved>>

\* send_json returns.  Only now is the acknowledgement registered.
SendReturns(b) ==
    LET j == job[b]
    IN  /\ j.pc = "sending"
        /\ \/ /\ Sequenced(j)
              /\ job' = [job EXCEPT ![b].pc = "waiting"]
              /\ UNCHANGED <<entries, subscribed, presence, due, received>>
           \/ /\ ~Sequenced(j)
              /\ Proceed(b, j)
        /\ UNCHANGED <<socket, sequences, frames, moved>>

\* The client's ack is read in time.  One that is read before the wait has
\* begun, or without a session, is dropped and never sent again.
Acknowledge(b) ==
    LET j == job[b]
    IN  /\ j.pc = "waiting"
        /\ socket[j.at] = "open" /\ j.at \in Connected
        /\ job' = [job EXCEPT ![b].pc = "woken"]
        /\ UNCHANGED <<entries, socket, subscribed, presence, sequences,
                       received, due, frames, moved>>

\* Mutant: the wait has no timeout.
WaitsForAck(b) == job[b].pc = "woken"

\* wait_for ends: the event was set, or 30 s passed.
WaitEnds(b) == job[b].pc \in {"waiting", "woken"}

\* Mutant: send_event returns False after a timeout.
DeadIfSilent(j) == IF j.pc = "woken" THEN j.dead ELSE j.dead \cup {j.at}

\* A timeout is not a failure.
DeadAfterWait(j) == j.dead

Resume(b) ==
    /\ WaitEnds(b)
    /\ Proceed(b, [job[b] EXCEPT !.dead = DeadAfterWait(job[b])])
    /\ UNCHANGED <<socket, sequences, frames, moved>>

-----------------------------------------------------------------------------
Init ==
    /\ entries = <<>>
    /\ socket = [c \in Clients |-> "new"]
    /\ subscribed = [c \in Clients |-> {}]
    /\ presence = [v \in Conversations |-> {}]
    /\ sequences = [v \in Conversations |-> 0]
    /\ job = [b \in Broadcasts |-> New]
    /\ received = [c \in Clients |-> [v \in Conversations |-> 0]]
    /\ due = [b \in Broadcasts |-> {}]
    /\ frames = 0
    /\ moved = {}

Continue(b) == SendFails(b) \/ SendReturns(b) \/ Resume(b)

Next ==
    \/ \E c \in Clients :
        \/ Connect(c) \/ Close(c) \/ HandlerEnds(c)
        \/ \E v \in Conversations : Subscribe(c, v) \/ Unsubscribe(c, v)
    \/ \E b \in Broadcasts :
        \/ \E v \in Conversations :
            \/ \E kind \in {"event", "message"} : StartSequenced(b, kind, v)
            \/ StartPresence(b, v)
        \/ StartGlobal(b)
        \/ Continue(b) \/ Acknowledge(b)

Spec == Init /\ [][Next]_vars

\* The event loop starves no coroutine; a send returns or raises, a wait times
\* out, and reading from a closed connection raises.
FairSpec ==
    /\ Spec
    /\ \A b \in Broadcasts : WF_vars(Continue(b))
    /\ WF_vars(\E c \in Clients : HandlerEnds(c))

-----------------------------------------------------------------------------
(* Properties *)

JobTypes ==
    job \in [Broadcasts ->
        [pc : {"new", "sending", "waiting", "woken", "ended", "raised"},
         kind : {"event", "message", "notice", "global", "presence"},
         conv : Conversations \cup {None}, seq : Nat, pos : Nat, used : Nat,
         left : Nat, at : Clients \cup {None}, dead : SUBSET Clients]]

\* The types of the manager; a client has at most one entry, and a broadcast
\* that is over refers to none.
TypeOK ==
    /\ entries \in Seq(Clients \cup {None})
    /\ \A i, k \in DOMAIN entries : entries[i] = entries[k] => i = k \/ entries[i] = None
    /\ socket \in [Clients -> {"new", "open", "closed"}]
    /\ subscribed \in [Clients -> SUBSET Conversations]
    /\ presence \in [Conversations -> SUBSET Clients]
    /\ sequences \in [Conversations -> Nat]
    /\ JobTypes
    /\ \A b \in Broadcasts : Running(b) \/ (job[b].at = None /\ job[b].dead = {})
    /\ received \in [Clients -> [Conversations -> Nat]]
    /\ due \in [Broadcasts -> SUBSET Clients]
    /\ frames \in 0 .. MaxFrames
    /\ moved \subseteq Broadcasts

\* A broadcast that ends without an exception was sent to every client it was
\* for when it began and that stayed connected and subscribed as it was,
\* although clients come, go and subscribe while it iterates; unless one left
\* and one came and the dictionary was compacted in between.
ReachesTheSteady ==
    \A b \in Broadcasts \ moved :
        job[b].pc = "ended" => due[b] = {}

\* Whoever is shown as viewing a conversation is connected and subscribed.
PresenceSound ==
    \A v \in Conversations :
        presence[v] \subseteq {c \in Connected : v \in subscribed[c]}

\* A broadcast never drops a client that is still there, however slowly it
\* acknowledges.
DropsOnlyTheGone ==
    [][\A c \in Connected : c \notin Connected' => socket[c] # "open"]_vars

\* No client can keep a broadcast, and the request or agent task that awaits
\* it, from ending.
BroadcastsEnd ==
    \A b \in Broadcasts : Running(b) ~> job[b].pc \in {"ended", "raised"}

\* A client that goes away leaves the table and every presence list.
GoneClientsLeave ==
    \A c \in Clients : socket[c] = "closed" ~>
        c \notin Connected /\ \A v \in Conversations : c \notin presence[v]

\* What the comments say of a broadcast and TLC refutes (README, section 6).

\* "Broadcast sequenced event to all clients subscribed to a conversation":
\* also if others connect or leave meanwhile.
AllSubscribersReached ==
    \A b \in Broadcasts :
        job[b].pc \in {"ended", "raised"} /\ job[b].kind = "event" => due[b] = {}

\* "WebSocket event with ordering guarantee": a client receives the events of
\* a conversation in the order of their numbers.
EventsInOrder ==
    [][\A c \in Clients, v \in Conversations : received'[c][v] >= received[c][v]]_vars

=============================================================================
