---------------------- MODULE ConnectionManagerProofs ----------------------
(***************************************************************************)
(* What the hub guarantees for every number of clients, conversations and  *)
(* broadcasts, although broadcasts iterate over a dictionary that changes. *)
(***************************************************************************)
EXTENDS ConnectionManager, FiniteSetTheorems, WellFoundedInduction, TLAPS

\* A set of positions has a first one.
LEMMA FirstPosition ==
    ASSUME NEW T \in SUBSET Nat, T # {}
    PROVE  \E i \in T : \A k \in T : i <= k
<1> DEFINE R == OpToRel(<, Nat)
<1>1. IsWellFoundedOn(R, Nat)
    BY NatLessThanWellFounded
<1>2. PICK i \in T : \A k \in T : <<k, i>> \notin R
    BY <1>1, WFMin
<1>3. \A k \in T : ~(k < i)
    BY <1>2 DEF OpToRel
<1>4. \A k \in T : i <= k
    <2> HIDE DEF R
    <2>1. QED
        BY <1>3
<1>5. QED
    BY <1>4

-----------------------------------------------------------------------------
(* One turn of an iteration *)

Table == Seq(Clients \cup {None})

Jobs ==
    [pc : {"new", "sending", "waiting", "woken", "ended", "raised"},
     kind : {"event", "message", "notice", "global", "presence"},
     conv : Conversations \cup {None}, seq : Nat, pos : Nat, used : Nat,
     left : Nat, at : Clients \cup {None}, dead : SUBSET Clients]

\* A loop that begins visits all of these.
All(e, j) == {i \in DOMAIN e : e[i] # None /\ IsTarget(j, e[i])}

\* n is the job j after a turn that stopped at the first place of T.
StopsAt(n, j, e, T) ==
    /\ n.pos \in T /\ n.at = e[n.pos] /\ n.at # None
    /\ \A i \in T : n.pos <= i
    /\ n.conv = j.conv /\ n.dead = j.dead

\* n is a broadcast that an iteration has just left or interrupted.
Turned(n) ==
    /\ n \in Jobs /\ n.pc \in {"sending", "ended", "raised"}
    /\ n.pc = "sending" <=> n.at # None
    /\ n.pc # "sending" => n.dead = {}

\* The number of clients in a table.
LEMMA UsedIsNat ==
    ASSUME NEW e \in Table PROVE Used(e) \in Nat
<1>1. DOMAIN e = 1 .. Len(e) /\ Len(e) \in Nat
    BY DEF Table
<1>2. IsFiniteSet(DOMAIN e)
    BY <1>1, FS_Interval
<1>3. {i \in DOMAIN e : e[i] # None} \in SUBSET DOMAIN e
    OBVIOUS
<1>4. QED
    BY <1>2, <1>3, FS_Subset, FS_CardinalityType DEF Used

\* A turn ends at the first target ahead, or the loop is over because there is
\* none, or raises.
LEMMA WalkFacts ==
    ASSUME NEW e \in Table, NEW j \in Jobs
    PROVE  /\ Turned(Walk(e, j))
           /\ Walk(e, j).pc = "ended" => Targets(e, j) = {}
           /\ Walk(e, j).pc = "sending" =>
                /\ StopsAt(Walk(e, j), j, e, Targets(e, j))
                /\ Walk(e, j).kind = j.kind
<1>1. DOMAIN e = 1 .. Len(e) /\ Len(e) \in Nat
    BY DEF Table
<1>2. \A i \in DOMAIN e : i \in Nat /\ e[i] \in Clients \cup {None}
    BY <1>1 DEF Table
<1>3. CASE IteratorRaises(e, j)
    BY <1>3 DEF Walk, Over, New, Jobs, Turned
<1>4. CASE ~IteratorRaises(e, j) /\ Targets(e, j) = {}
    BY <1>4 DEF Walk, Over, New, Jobs, Turned
<1>5. CASE ~IteratorRaises(e, j) /\ Targets(e, j) # {}
    <2> DEFINE T == Targets(e, j)
               i == CHOOSE i \in T : i \in Passed(e, j)
               n == Walk(e, j)
    <2>1. T \in SUBSET Nat /\ T \subseteq Ahead(e, j)
        BY <1>2 DEF Targets, Ahead
    <2>2. \E k \in T : k \in Passed(e, j)
        BY <1>5, <2>1, FirstPosition DEF Passed
    <2>3. i \in T /\ i \in Passed(e, j)
        BY <2>2
    <2>4. i \in DOMAIN e /\ i \in Nat /\ e[i] # None /\ \A k \in T : i <= k
        BY <1>2, <2>1, <2>3 DEF Passed, Ahead
    <2>5. j.left - Cardinality(Passed(e, j)) \in Nat
        <3>1. IsFiniteSet(Passed(e, j))
            <4>1. IsFiniteSet(DOMAIN e)
                BY <1>1, FS_Interval
            <4>2. Passed(e, j) \in SUBSET DOMAIN e
                BY DEF Passed, Ahead
            <4>3. QED
                BY <4>1, <4>2, FS_Subset
        <3>2. Cardinality(Passed(e, j)) \in Nat
            BY <3>1, FS_CardinalityType
        <3>3. Cardinality(Passed(e, j)) <= j.left /\ j.left \in Nat
            BY <1>5, <3>2 DEF IteratorRaises, Jobs
        <3>4. QED
            BY <3>2, <3>3
    <2>6. n = [j EXCEPT !.pc = "sending", !.pos = i, !.at = e[i],
                        !.left = @ - Cardinality(Passed(e, j))]
        BY <1>5 DEF Walk
    <2> HIDE DEF i, n, T
    <2>7. n \in Jobs /\ n.pc = "sending"
        BY <1>2, <2>4, <2>5, <2>6 DEF Jobs
    <2>8. n.pos = i /\ n.at = e[i] /\ n.conv = j.conv /\ n.dead = j.dead /\ n.kind = j.kind
        BY <2>6 DEF Jobs
    <2>9. Turned(n) /\ StopsAt(n, j, e, T)
        BY <2>3, <2>4, <2>7, <2>8 DEF Turned, StopsAt
    <2>10. QED
        BY <2>7, <2>8, <2>9 DEF n, T
<1>6. QED
    BY <1>3, <1>4, <1>5

\* The first turn of a loop starts before the first client.
LEMMA FirstFacts ==
    ASSUME NEW e \in Table, NEW j \in Jobs
    PROVE  LET n == FirstOf(e, j)
           IN  /\ Turned(n)
               /\ n.pc = "ended" => All(e, j) = {}
               /\ n.pc = "sending" =>
                    /\ StopsAt(n, [j EXCEPT !.dead = {}], e, All(e, j))
                    /\ n.kind = j.kind
<1> DEFINE k == [j EXCEPT !.pos = 0, !.used = Used(e), !.left = Used(e), !.dead = {}]
<1>1. k \in Jobs
    BY UsedIsNat DEF Jobs
<1>2. k.pos = 0 /\ k.kind = j.kind /\ k.conv = j.conv /\ k.dead = {}
    BY DEF Jobs
<1>3. FirstOf(e, j) = Walk(e, k)
    BY DEF FirstOf
<1> HIDE DEF k
<1>4. \A i \in DOMAIN e : i > 0
    BY DEF Table
<1>5. Targets(e, k) = All(e, j)
    BY <1>2, <1>4 DEF Targets, Ahead, All, IsTarget
<1>6. [j EXCEPT !.dead = {}].conv = j.conv /\ [j EXCEPT !.dead = {}].dead = {}
    BY DEF Jobs
<1>7. QED
    BY <1>1, <1>2, <1>3, <1>5, <1>6, WalkFacts DEF StopsAt

\* The first turn of a broadcast: notify_new_message may be in its second loop
\* at once, if nobody is subscribed.
LEMMA BeginFacts ==
    ASSUME NEW e \in Table, NEW j \in Jobs
    PROVE  LET n == Begin(e, j)
               notice == [j EXCEPT !.kind = "notice"]
           IN  /\ Turned(n)
               /\ n.pc = "ended" =>
                    All(e, j) = {} /\ (j.kind = "message" => All(e, notice) = {})
               /\ n.pc = "sending" =>
                    \/ /\ n.kind = j.kind
                       /\ StopsAt(n, [j EXCEPT !.dead = {}], e, All(e, j))
                    \/ /\ n.kind = "notice" /\ j.kind = "message"
                       /\ All(e, j) = {}
                       /\ StopsAt(n, [notice EXCEPT !.dead = {}], e, All(e, notice))
<1> DEFINE notice == [j EXCEPT !.kind = "notice"]
<1>1. notice \in Jobs /\ notice.kind = "notice"
    BY DEF Jobs
<1>2. CASE j.kind = "message" /\ FirstOf(e, j).pc = "ended"
    <2>1. Begin(e, j) = FirstOf(e, notice)
        BY <1>2 DEF Begin, Notices
    <2> HIDE DEF notice
    <2>2. All(e, j) = {}
        BY <1>2, FirstFacts
    <2>3. QED
        BY <1>1, <1>2, <2>1, <2>2, FirstFacts DEF notice
<1>3. CASE ~(j.kind = "message" /\ FirstOf(e, j).pc = "ended")
    <2>1. Begin(e, j) = FirstOf(e, j)
        BY <1>3 DEF Begin
    <2>2. QED
        BY <1>3, <2>1, FirstFacts
<1>4. QED
    BY <1>2, <1>3

-----------------------------------------------------------------------------
(* The invariant *)

\* A connection that was entered is not new, and one found gone is closed for
\* ever; a broadcast under way is at a client.
ConnectionInv ==
    /\ \A c \in Connected : socket[c] # "new"
    /\ \A b \in Broadcasts :
        /\ Running(b) => job[b].at # None
        /\ job[b].at # None => socket[job[b].at] # "new"
        /\ \A c \in job[b].dead : socket[c] = "closed"

\* The job j will still visit each client of D: in the loop it is in, or in the
\* second loop of notify_new_message.
Visits(j, D) ==
    \A c \in D :
        /\ c \in Connected
        /\ IsTarget(j, c) => \E i \in Ahead(entries, j) : entries[i] = c
        /\ ~IsTarget(j, c) => j.kind = "message"

WillBeVisited(b) == Visits(job[b], due[b])

NobodyIsSkipped ==
    \A b \in Broadcasts \ moved : Running(b) => WillBeVisited(b)

HubInv ==
    /\ TypeOK /\ ConnectionInv /\ PresenceSound
    /\ NobodyIsSkipped /\ ReachesTheSteady

LEMMA HubInit == Init => HubInv
<1> SUFFICES ASSUME Init PROVE HubInv
    OBVIOUS
<1> USE ManagerAssumption DEF Init, Connected, New, Running
<1>1. TypeOK
    BY DEF TypeOK, JobTypes
<1>2. ConnectionInv /\ PresenceSound
    BY DEF ConnectionInv, PresenceSound
<1>3. NobodyIsSkipped /\ ReachesTheSteady
    BY DEF NobodyIsSkipped, ReachesTheSteady
<1>4. QED
    BY <1>1, <1>2, <1>3 DEF HubInv

-----------------------------------------------------------------------------
(* Changes of the table *)

InTable(e) == {e[i] : i \in DOMAIN e} \ {None}
OneEntryEach(e) == \A i, k \in DOMAIN e : e[i] = e[k] => i = k \/ e[i] = None

\* Removing clients leaves holes and nothing else.
LEMMA WithoutFacts ==
    ASSUME NEW e \in Table, NEW S \in SUBSET Clients
    PROVE  /\ Without(e, S) \in Table
           /\ DOMAIN Without(e, S) = DOMAIN e
           /\ \A i \in DOMAIN e :
                Without(e, S)[i] = IF e[i] \in S THEN None ELSE e[i]
           /\ InTable(Without(e, S)) = InTable(e) \ S
           /\ OneEntryEach(e) => OneEntryEach(Without(e, S))
<1> DEFINE f == Without(e, S)
<1>1. DOMAIN e = 1 .. Len(e) /\ Len(e) \in Nat
      /\ \A i \in DOMAIN e : e[i] \in Clients \cup {None}
    BY DEF Table
<1>2. DOMAIN f = DOMAIN e /\ \A i \in DOMAIN e : f[i] = IF e[i] \in S THEN None ELSE e[i]
    BY DEF Without
<1>3. f \in Table
    <2>1. f \in [1 .. Len(e) -> Clients \cup {None}]
        BY <1>1, <1>2 DEF Without
    <2>2. QED
        BY <1>1, <2>1 DEF Table
<1> HIDE DEF f
<1>4. InTable(f) = InTable(e) \ S
    BY <1>1, <1>2, ManagerAssumption DEF InTable
<1>5. OneEntryEach(e) => OneEntryEach(f)
    BY <1>2 DEF OneEntryEach
<1>6. QED
    BY <1>2, <1>3, <1>4, <1>5 DEF f

\* A table that is rebuilt has the same clients.
LEMMA CompactFacts ==
    ASSUME NEW e \in Table, NEW f \in Compactions(e)
    PROVE  /\ f \in Table /\ InTable(f) = InTable(e)
           /\ OneEntryEach(e) => OneEntryEach(f)
<1> DEFINE kept == {i \in DOMAIN e : e[i] # None}
<1>1. PICK p \in [1 .. Used(e) -> kept] :
        /\ \A m, n \in DOMAIN p : m < n => p[m] < p[n]
        /\ \A i \in kept : \E m \in DOMAIN p : p[m] = i
        /\ f = [m \in DOMAIN p |-> e[p[m]]]
    BY DEF Compactions
<1>2. Used(e) \in Nat /\ DOMAIN p = 1 .. Used(e)
    BY UsedIsNat
<1>3. \A i \in kept : e[i] \in Clients /\ i \in Nat /\ i \in DOMAIN e /\ e[i] # None
    BY DEF Table
<1>4. \A m \in DOMAIN p : p[m] \in kept /\ f[m] = e[p[m]]
    BY <1>1
<1>5. f \in Table
    <2>1. f \in [1 .. Used(e) -> Clients \cup {None}]
        BY <1>1, <1>2, <1>3, <1>4
    <2>2. QED
        BY <1>2, <2>1 DEF Table
<1>6. DOMAIN f = DOMAIN p
    BY <1>1
<1>7. InTable(f) = InTable(e)
    <2>1. ASSUME NEW c \in InTable(f) PROVE c \in InTable(e)
        <3>1. PICK m \in DOMAIN p : c = f[m]
            BY <1>6, <2>1 DEF InTable
        <3>2. c = e[p[m]] /\ p[m] \in DOMAIN e
            BY <1>3, <1>4, <3>1
        <3>3. QED
            BY <2>1, <3>2 DEF InTable
    <2>2. ASSUME NEW c \in InTable(e) PROVE c \in InTable(f)
        <3>1. PICK i \in DOMAIN e : c = e[i] /\ c # None
            BY <2>2 DEF InTable
        <3>2. PICK m \in DOMAIN p : p[m] = i
            BY <1>1, <3>1
        <3>3. f[m] = c /\ m \in DOMAIN f
            BY <1>4, <1>6, <3>1, <3>2
        <3>4. QED
            BY <3>1, <3>3 DEF InTable
    <2>3. QED
        BY <2>1, <2>2
<1>8. ASSUME OneEntryEach(e) PROVE OneEntryEach(f)
    <2>1. ASSUME NEW m \in DOMAIN f, NEW n \in DOMAIN f, f[m] = f[n]
          PROVE  m = n
        <3>1. p[m] = p[n]
            BY <1>3, <1>4, <1>6, <1>8, <2>1 DEF OneEntryEach
        <3>2. m \in Int /\ n \in Int /\ p[m] \in Nat /\ p[n] \in Nat
            BY <1>2, <1>3, <1>4, <1>6
        <3>3. ~(m < n) /\ ~(n < m)
            BY <1>1, <1>6, <3>1, <3>2
        <3>4. QED
            BY <3>2, <3>3
    <2>2. QED
        BY <2>1 DEF OneEntryEach
<1>9. QED
    BY <1>5, <1>7, <1>8

\* A client is entered once, behind the others.
LEMMA EnterFacts ==
    ASSUME NEW e \in Table, NEW c \in Clients, c \notin InTable(e)
    PROVE  /\ Append(e, c) \in Table
           /\ InTable(Append(e, c)) = InTable(e) \cup {c}
           /\ OneEntryEach(e) => OneEntryEach(Append(e, c))
           /\ \A i \in DOMAIN e :
                i \in DOMAIN Append(e, c) /\ Append(e, c)[i] = e[i]
<1> DEFINE f == Append(e, c)
<1>1. DOMAIN e = 1 .. Len(e) /\ Len(e) \in Nat
    BY DEF Table
<1>2. f \in Table /\ DOMAIN f = 1 .. Len(e) + 1 /\ f[Len(e) + 1] = c
    BY DEF Table
<1>3. \A i \in DOMAIN e : i \in DOMAIN f /\ f[i] = e[i]
    BY <1>1, <1>2 DEF Table
<1>4. \A i \in DOMAIN f : i \in DOMAIN e \/ i = Len(e) + 1
    BY <1>1, <1>2
<1>5. Len(e) + 1 \in DOMAIN f /\ c # None
    BY <1>1, <1>2, ManagerAssumption
<1> HIDE DEF f
<1>6. InTable(f) = InTable(e) \cup {c}
    BY <1>2, <1>3, <1>4, <1>5 DEF InTable
<1>7. \A i \in DOMAIN e : e[i] # c
    BY <1>5 DEF InTable
<1>8. OneEntryEach(e) => OneEntryEach(f)
    BY <1>2, <1>3, <1>4, <1>7 DEF OneEntryEach
<1>9. QED
    BY <1>2, <1>3, <1>6, <1>8 DEF f

-----------------------------------------------------------------------------
(* Connections and subscriptions *)

\* Those who leave the table in this step had gone.
OnlyTheGoneLeave == \A c \in Connected : c \notin Connected' => socket[c] # "open"

\* A connection enters the table; a table that is rebuilt loses nobody.
LEMMA ConnectStep ==
    ASSUME HubInv, NEW c \in Clients, Connect(c)
    PROVE  HubInv' /\ OnlyTheGoneLeave
<1> USE DEF HubInv, TypeOK, JobTypes
<1>1. entries \in Table /\ c \notin InTable(entries) /\ OneEntryEach(entries)
    BY DEF Connect, ConnectionInv, Connected, Table, InTable, OneEntryEach
<1>2. PICK e \in {entries} \cup Compactions(entries) :
        /\ entries' = Append(e, c)
        /\ \/ e = entries /\ moved' = moved
           \/ moved' = moved \cup {b \in Broadcasts : Running(b)}
    BY DEF Connect
<1>3. e \in Table /\ InTable(e) = InTable(entries) /\ OneEntryEach(e)
    BY <1>1, <1>2, CompactFacts
<1>4. /\ entries' \in Table /\ OneEntryEach(entries')
      /\ InTable(entries') = InTable(entries) \cup {c}
      /\ \A i \in DOMAIN e : i \in DOMAIN entries' /\ entries'[i] = e[i]
    BY <1>1, <1>2, <1>3, EnterFacts
<1>5. Connected' = Connected \cup {c}
    BY <1>4 DEF Connected, InTable
<1>6. TypeOK'
    BY <1>2, <1>4 DEF Connect, Table, OneEntryEach, Running
<1>7. ConnectionInv'
    BY <1>5 DEF Connect, ConnectionInv, Running
<1>8. PresenceSound'
    BY <1>5 DEF Connect, PresenceSound
<1>9. NobodyIsSkipped'
    <2>1. ASSUME NEW b \in Broadcasts \ moved', Running(b)' PROVE WillBeVisited(b)'
        <3>1. b \in Broadcasts \ moved /\ Running(b) /\ e = entries
            BY <1>2, <2>1 DEF Connect, Running
        <3>2. WillBeVisited(b)
            BY <3>1 DEF NobodyIsSkipped
        <3>3. \A d : IsTarget(job[b], d)' <=> IsTarget(job[b], d)
            BY DEF Connect, IsTarget
        <3>4. job' = job /\ due' = due
            BY DEF Connect
        <3>5. Ahead(entries, job[b]) \subseteq Ahead(entries', job[b])
            BY <1>4, <3>1 DEF Ahead
        <3>6. QED
            BY <1>4, <1>5, <3>1, <3>2, <3>3, <3>4, <3>5 DEF WillBeVisited, Visits, Ahead
    <2>2. QED
        BY <2>1 DEF NobodyIsSkipped
<1>10. ReachesTheSteady'
    BY <1>2 DEF Connect, ReachesTheSteady, Running
<1>11. QED
    BY <1>5, <1>6, <1>7, <1>8, <1>9, <1>10 DEF OnlyTheGoneLeave

\* A peer that goes away is closed for ever.
LEMMA CloseStep ==
    ASSUME HubInv, NEW c \in Clients, Close(c)
    PROVE  HubInv' /\ OnlyTheGoneLeave
<1> USE DEF HubInv, TypeOK, JobTypes, Close, Running, Connected
<1>1. TypeOK'
    OBVIOUS
<1>2. ConnectionInv' /\ PresenceSound' /\ ReachesTheSteady'
    BY DEF ConnectionInv, PresenceSound, ReachesTheSteady
<1>3. NobodyIsSkipped'
    <2>1. ASSUME NEW b \in Broadcasts \ moved, Running(b) PROVE WillBeVisited(b)'
        <3>1. WillBeVisited(b)
            BY <2>1 DEF NobodyIsSkipped
        <3>2. \A d : IsTarget(job[b], d)' <=> IsTarget(job[b], d)
            BY DEF IsTarget
        <3>3. QED
            BY <3>1, <3>2 DEF WillBeVisited, Visits, Ahead
    <2>2. QED
        BY <2>1 DEF NobodyIsSkipped
<1>4. QED
    BY <1>1, <1>2, <1>3 DEF OnlyTheGoneLeave

\* What a change of subscriptions leaves to a broadcast it would visit anyway.
LEMMA SubscriptionStep ==
    ASSUME HubInv, NEW c \in Clients, NEW v \in Conversations,
           Subscribe(c, v) \/ Unsubscribe(c, v)
    PROVE  HubInv' /\ OnlyTheGoneLeave
<1> USE DEF HubInv, TypeOK, JobTypes
<1>0. PICK V \in SUBSET Conversations, P \in SUBSET Clients :
        /\ subscribed' = [subscribed EXCEPT ![c] = V]
        /\ presence' = [presence EXCEPT ![v] = P]
        /\ \A u \in Conversations : u # v => (u \in V <=> u \in subscribed[c])
        /\ \A d \in P : d # c => d \in presence[v]
        /\ c \in P => v \in V
    <2>1. CASE Subscribe(c, v)
        <3>1. PICK enrolled \in SUBSET {c} :
                presence' = [presence EXCEPT ![v] = @ \cup enrolled]
            BY <2>1 DEF Subscribe
        <3>2. WITNESS subscribed[c] \cup {v} \in SUBSET Conversations,
                      presence[v] \cup enrolled \in SUBSET Clients
        <3>3. QED
            BY <2>1, <3>1 DEF Subscribe
    <2>2. CASE Unsubscribe(c, v)
        <3>1. WITNESS subscribed[c] \ {v} \in SUBSET Conversations,
                      presence[v] \ {c} \in SUBSET Clients
        <3>2. QED
            BY <2>2 DEF Unsubscribe
    <2>3. QED
        BY <2>1, <2>2
<1>1. /\ \A d \in Clients : d # c => subscribed'[d] = subscribed[d]
      /\ \A u \in Conversations : u # v => (u \in subscribed'[c] <=> u \in subscribed[c])
      /\ subscribed' \in [Clients -> SUBSET Conversations]
    BY <1>0
<1>2. /\ UNCHANGED <<entries, socket, sequences, job, received, moved>>
      /\ c \in Connected /\ Connected' = Connected
    BY DEF Subscribe, Unsubscribe, Connected
<1>3. /\ due' \in [Broadcasts -> SUBSET Clients]
      /\ \A b \in Broadcasts : due'[b] \subseteq due[b]
      /\ \A b \in Broadcasts : Running(b) /\ job[b].conv = v =>
            c \notin due'[b] \/ subscribed' = subscribed
    <2>1. CASE due' = Unsettled({c}, v)
        BY <2>1 DEF Unsettled
    <2>2. CASE due' = due /\ v \in subscribed[c] /\ Subscribe(c, v)
        BY <2>2 DEF Subscribe
    <2>3. QED
        BY <2>1, <2>2 DEF Subscribe, Unsubscribe
<1>4. TypeOK'
    <2>1. presence' \in [Conversations -> SUBSET Clients]
        BY <1>0
    <2>2. frames' \in 0 .. MaxFrames
        BY ManagerAssumption DEF Subscribe, Unsubscribe
    <2>3. QED
        BY <1>1, <1>2, <1>3, <2>1, <2>2 DEF Running
<1>5. ConnectionInv'
    BY <1>2 DEF ConnectionInv, Running
<1>6. PresenceSound'
    BY <1>0, <1>1, <1>2 DEF PresenceSound
<1>7. NobodyIsSkipped'
    <2>1. ASSUME NEW b \in Broadcasts \ moved, Running(b), NEW d \in due'[b]
          PROVE  IsTarget(job[b], d)' <=> IsTarget(job[b], d)
        <3>1. d \in Clients /\ job[b].conv \in Conversations \cup {None}
            BY <1>3, <2>1
        <3>2. d # c \/ job[b].conv # v \/ subscribed' = subscribed
            BY <1>3, <2>1
        <3>3. None \notin subscribed[d] /\ None \notin subscribed'[d]
            BY <1>1, <3>1, ManagerAssumption
        <3>4. job[b].conv \in subscribed'[d] <=> job[b].conv \in subscribed[d]
            BY <1>1, <3>1, <3>2, <3>3
        <3>5. QED
            BY <1>2, <3>4 DEF IsTarget
    <2>2. ASSUME NEW b \in Broadcasts \ moved', Running(b)' PROVE WillBeVisited(b)'
        <3>1. b \in Broadcasts \ moved /\ Running(b) /\ WillBeVisited(b)
            BY <1>2, <2>2 DEF Running, NobodyIsSkipped
        <3>2. QED
            BY <1>2, <1>3, <2>1, <3>1 DEF WillBeVisited, Visits, Ahead
    <2>3. QED
        BY <2>2 DEF NobodyIsSkipped
<1>8. ReachesTheSteady'
    BY <1>2, <1>3 DEF ReachesTheSteady
<1>9. QED
    BY <1>2, <1>4, <1>5, <1>6, <1>7, <1>8 DEF OnlyTheGoneLeave

\* Clients that are disconnected take their entries, subscriptions and presence
\* with them, and no broadcast is due to them any more.
LEMMA DisconnectFacts ==
    ASSUME HubInv, NEW S \in SUBSET Clients, Disconnect(S)
    PROVE  /\ entries' \in Table /\ OneEntryEach(entries')
           /\ Connected' = Connected \ S
           /\ subscribed' \in [Clients -> SUBSET Conversations]
           /\ presence' \in [Conversations -> SUBSET Clients]
           /\ PresenceSound'
           /\ \A b \in Broadcasts :
                /\ WillBeVisited(b) /\ job'[b] = job[b] /\ due'[b] \subseteq due[b] \ S
                /\ due[b] \subseteq Clients
                => WillBeVisited(b)'
<1> USE DEF HubInv, TypeOK, Disconnect
<1>1. entries \in Table /\ OneEntryEach(entries)
    BY DEF Table, OneEntryEach
<1>2. /\ entries' \in Table /\ OneEntryEach(entries')
      /\ Connected' = Connected \ S
      /\ DOMAIN entries' = DOMAIN entries
      /\ \A i \in DOMAIN entries :
            entries'[i] = IF entries[i] \in S THEN None ELSE entries[i]
    BY <1>1, WithoutFacts DEF Connected, InTable
<1>3. \A c \in Clients \ S : subscribed'[c] = subscribed[c]
    OBVIOUS
<1>4. subscribed' \in [Clients -> SUBSET Conversations]
      /\ presence' \in [Conversations -> SUBSET Clients]
    OBVIOUS
<1>5. PresenceSound'
    BY <1>2, <1>3 DEF PresenceSound
<1>6. ASSUME NEW b \in Broadcasts, WillBeVisited(b), job'[b] = job[b],
             due'[b] \subseteq due[b] \ S, due[b] \subseteq Clients
      PROVE  WillBeVisited(b)'
    <2>1. ASSUME NEW c \in due'[b]
          PROVE  /\ c \in Connected'
                 /\ IsTarget(job[b], c)' <=> IsTarget(job[b], c)
                 /\ \A i \in Ahead(entries, job[b]) :
                        entries[i] = c => i \in Ahead(entries', job[b]) /\ entries'[i] = c
        <3>1. c \in Clients \ S /\ c \in Connected /\ c # None
            BY <1>6, <2>1, ManagerAssumption DEF WillBeVisited, Visits
        <3>2. QED
            BY <1>2, <1>3, <1>6, <3>1 DEF IsTarget, Ahead
    <2>2. QED
        BY <1>6, <2>1 DEF WillBeVisited, Visits
<1>7. QED
    BY <1>2, <1>4, <1>5, <1>6

\* A closed connection's handler takes it out of everything.
LEMMA HandlerStep ==
    ASSUME HubInv, NEW c \in Clients, HandlerEnds(c)
    PROVE  HubInv' /\ OnlyTheGoneLeave
<1>0. TypeOK /\ ConnectionInv /\ NobodyIsSkipped /\ ReachesTheSteady
    BY DEF HubInv
<1>1. Disconnect({c}) /\ socket[c] = "closed"
    BY DEF HandlerEnds, Caught
<1>2. UNCHANGED <<socket, sequences, job, received, frames, moved>>
    BY DEF HandlerEnds
<1>3. /\ due' \in [Broadcasts -> SUBSET Clients]
      /\ \A b \in Broadcasts : due'[b] \subseteq due[b]
      /\ \A b \in Broadcasts : Running(b) => due'[b] \subseteq due[b] \ {c}
    BY <1>0 DEF HandlerEnds, Departed, TypeOK
<1>4. /\ entries' \in Table /\ OneEntryEach(entries')
      /\ Connected' = Connected \ {c}
      /\ subscribed' \in [Clients -> SUBSET Conversations]
      /\ presence' \in [Conversations -> SUBSET Clients]
      /\ PresenceSound'
      /\ \A b \in Broadcasts :
            /\ WillBeVisited(b) /\ job'[b] = job[b] /\ due'[b] \subseteq due[b] \ {c}
            /\ due[b] \subseteq Clients
            => WillBeVisited(b)'
    BY <1>1, DisconnectFacts
<1>5. TypeOK'
    BY <1>0, <1>2, <1>3, <1>4 DEF Table, OneEntryEach, Running, TypeOK, JobTypes
<1>6. ConnectionInv' /\ ReachesTheSteady'
    BY <1>0, <1>2, <1>3, <1>4 DEF ConnectionInv, ReachesTheSteady, TypeOK, Running
<1>7. NobodyIsSkipped'
    <2>1. ASSUME NEW b \in Broadcasts \ moved', Running(b)' PROVE WillBeVisited(b)'
        <3>1. b \in Broadcasts \ moved /\ Running(b) /\ WillBeVisited(b)
            BY <1>0, <1>2, <2>1 DEF Running, NobodyIsSkipped
        <3>2. job'[b] = job[b] /\ due'[b] \subseteq due[b] \ {c} /\ due[b] \subseteq Clients
            BY <1>0, <1>2, <1>3, <3>1 DEF TypeOK
        <3>3. QED
            BY <1>4, <3>1, <3>2
    <2>2. QED
        BY <2>1 DEF NobodyIsSkipped
<1>8. QED
    BY <1>1, <1>4, <1>5, <1>6, <1>7 DEF HubInv, OnlyTheGoneLeave

-----------------------------------------------------------------------------
(* Broadcasts *)

\* A job that stopped at the first target ahead has passed over nobody.
LEMMA StopVisits ==
    ASSUME NEW j, NEW n, NEW D, Visits(j, D), entries \in Table,
           j.pos \in Nat, n.kind = j.kind,
           StopsAt(n, j, entries, Targets(entries, j))
    PROVE  Visits(n, D \ {n.at})
<1>1. \A c : IsTarget(n, c) <=> IsTarget(j, c)
    BY DEF IsTarget, StopsAt
<1>2. \A i \in DOMAIN entries : i \in Nat
    BY DEF Table
<1>3. ASSUME NEW c \in D \ {n.at}, IsTarget(j, c)
      PROVE  \E i \in Ahead(entries, n) : entries[i] = c
    <2>1. PICK i \in Ahead(entries, j) : entries[i] = c
        BY <1>3 DEF Visits
    <2>2. i \in Targets(entries, j) /\ i # n.pos /\ i \in Nat
        BY <1>2, <1>3, <2>1 DEF Targets, StopsAt, Ahead
    <2>3. n.pos \in Nat /\ n.pos <= i
        BY <1>2, <2>2 DEF StopsAt, Targets, Ahead
    <2>4. n.pos < i
        BY <2>2, <2>3
    <2>5. QED
        BY <2>1, <2>4 DEF Ahead
<1>4. QED
    BY <1>1, <1>3 DEF Visits

\* Whoever is in a table that a loop begins to walk over is its first target or
\* ahead of it.
LEMMA FirstVisits ==
    ASSUME NEW e \in Table, NEW j, NEW n, StopsAt(n, j, e, All(e, j)),
           NEW c \in InTable(e), IsTarget(j, c), c # n.at
    PROVE  \E i \in Ahead(e, n) : e[i] = c
<1>1. PICK i \in DOMAIN e : e[i] = c /\ c # None
    BY DEF InTable
<1>2. i \in All(e, j) /\ i # n.pos
    BY <1>1 DEF All, StopsAt
<1>3. i \in Nat /\ n.pos \in Nat /\ n.pos <= i
    BY <1>2 DEF StopsAt, All, Table
<1>4. i > n.pos
    BY <1>2, <1>3
<1>5. QED
    BY <1>1, <1>4 DEF Ahead

\* The last event a client received keeps its type.
LEMMA ReceivedType ==
    ASSUME TypeOK, NEW n \in Jobs
    PROVE  Received(n) \in [Clients -> [Conversations -> Nat]]
BY DEF TypeOK, Jobs, Received

\* What a step of one broadcast has to establish when it disconnects nobody.
LEMMA JobStep ==
    ASSUME HubInv, NEW b \in Broadcasts, NEW n \in Jobs, NEW D \in SUBSET Clients,
           job' = [job EXCEPT ![b] = n], due' = [due EXCEPT ![b] = D],
           UNCHANGED <<entries, socket, subscribed, presence, frames, moved>>,
           sequences' \in [Conversations -> Nat],
           received' \in [Clients -> [Conversations -> Nat]],
           n.pc \in {"new", "ended", "raised"} <=> n.at = None,
           n.at = None => n.dead = {},
           n.at # None => socket[n.at] # "new",
           \A c \in n.dead : socket[c] = "closed",
           b \notin moved /\ n.pc \notin {"new", "ended", "raised"} => Visits(n, D),
           b \notin moved /\ n.pc = "ended" => D = {}
    PROVE  HubInv' /\ OnlyTheGoneLeave
<1> USE DEF HubInv, TypeOK, JobTypes
<1>1. /\ job'[b] = n /\ due'[b] = D
      /\ \A x \in Broadcasts : x # b => job'[x] = job[x] /\ due'[x] = due[x]
    OBVIOUS
<1>2. Connected' = Connected
    BY DEF Connected
<1>3. TypeOK'
    <2>1. JobTypes' /\ due' \in [Broadcasts -> SUBSET Clients]
        BY DEF Jobs
    <2>2. \A x \in Broadcasts : Running(x)' \/ (job'[x].at = None /\ job'[x].dead = {})
        BY <1>1 DEF Running
    <2>3. QED
        BY <2>1, <2>2
<1>4. ConnectionInv' /\ PresenceSound' /\ ReachesTheSteady'
    BY <1>1, <1>2 DEF ConnectionInv, PresenceSound, ReachesTheSteady, Running
<1>5. ASSUME NEW x \in Broadcasts \ moved, Running(x)' PROVE WillBeVisited(x)'
    <2>1. CASE x = b
        <3>1. Visits(n, D)
            BY <1>1, <1>5, <2>1 DEF Running
        <3>2. \A d : IsTarget(job[x], d)' <=> IsTarget(n, d)
            BY <1>1, <2>1 DEF IsTarget
        <3>3. QED
            BY <1>1, <1>2, <2>1, <3>1, <3>2 DEF WillBeVisited, Visits, Ahead
    <2>2. CASE x # b
        <3>1. WillBeVisited(x)
            BY <1>1, <1>5, <2>2 DEF Running, NobodyIsSkipped
        <3>2. \A d : IsTarget(job[x], d)' <=> IsTarget(job[x], d)
            BY <1>1, <2>2 DEF IsTarget
        <3>3. QED
            BY <1>1, <1>2, <2>2, <3>1, <3>2 DEF WillBeVisited, Visits, Ahead
    <2>3. QED
        BY <2>1, <2>2
<1>6. NobodyIsSkipped'
    BY <1>5 DEF NobodyIsSkipped
<1>7. QED
    BY <1>2, <1>3, <1>4, <1>6 DEF OnlyTheGoneLeave

\* A broadcast begins: those it is for are ahead of it, or its first client.
LEMMA StartStep ==
    ASSUME HubInv, NEW b \in Broadcasts, NEW j \in Jobs, j.dead = {},
           Start(b, j), sequences' \in [Conversations -> Nat]
    PROVE  HubInv' /\ OnlyTheGoneLeave
<1> DEFINE n == Begin(entries, j)
           D == {c \in Connected : j.kind = "message" \/ IsTarget(j, c)} \ {n.at}
           notice == [j EXCEPT !.kind = "notice"]
<1>0. /\ TypeOK /\ ConnectionInv /\ entries \in Table /\ j.kind # "notice"
      /\ Connected = InTable(entries) /\ Connected \subseteq Clients
    BY ManagerAssumption
    DEF HubInv, TypeOK, Table, Start, Connected, InTable
<1>1. /\ job' = [job EXCEPT ![b] = n] /\ due' = [due EXCEPT ![b] = D]
      /\ received' = Received(n)
      /\ UNCHANGED <<entries, socket, subscribed, presence, frames, moved>>
    BY DEF Start
<1>2. /\ Turned(n)
      /\ n.pc = "ended" => All(entries, j) = {} /\ (j.kind = "message" => All(entries, notice) = {})
      /\ n.pc = "sending" =>
            \/ /\ n.kind = j.kind
               /\ StopsAt(n, [j EXCEPT !.dead = {}], entries, All(entries, j))
            \/ /\ n.kind = "notice" /\ j.kind = "message"
               /\ All(entries, j) = {}
               /\ StopsAt(n, [notice EXCEPT !.dead = {}], entries, All(entries, notice))
    BY <1>0, BeginFacts
<1>3. [j EXCEPT !.dead = {}] = j /\ [notice EXCEPT !.dead = {}] = notice
    BY DEF Jobs
<1>4. notice.kind = "notice" /\ notice.conv = j.conv /\ notice.dead = {}
    BY DEF Jobs
<1> HIDE DEF n, notice
<1>5. D \in SUBSET Clients /\ n \in Jobs
    BY <1>0, <1>2 DEF Turned
<1>6. \A c \in Connected : IsTarget(j, c) => All(entries, j) # {}
    BY <1>0 DEF All, InTable
<1>7. \A c \in Connected : IsTarget(notice, c) => All(entries, notice) # {}
    BY <1>0 DEF All, InTable
<1>8. j.kind = "message" => \A c : IsTarget(j, c) <=> ~IsTarget(notice, c)
    BY <1>4 DEF IsTarget
<1>9. n.pc = "ended" => D = {}
    BY <1>2, <1>6, <1>7, <1>8
<1>10. ASSUME n.pc = "sending" PROVE Visits(n, D)
    <2>1. CASE n.kind = j.kind /\ StopsAt(n, j, entries, All(entries, j))
        <3>1. \A c : IsTarget(n, c) <=> IsTarget(j, c)
            BY <2>1 DEF IsTarget, StopsAt
        <3>2. QED
            BY <1>0, <2>1, <3>1, FirstVisits DEF Visits
    <2>2. CASE /\ n.kind = "notice" /\ j.kind = "message" /\ All(entries, j) = {}
               /\ StopsAt(n, notice, entries, All(entries, notice))
        <3>1. \A c : IsTarget(n, c) <=> IsTarget(notice, c)
            BY <1>4, <2>2 DEF IsTarget, StopsAt
        <3>2. \A c \in D : IsTarget(notice, c)
            BY <1>6, <1>8, <2>2
        <3>3. QED
            BY <1>0, <2>2, <3>1, <3>2, FirstVisits DEF Visits
    <2>3. QED
        BY <1>2, <1>3, <1>10, <2>1, <2>2
<1>11. n.at # None => socket[n.at] # "new"
    <2>1. n.pc = "sending" => n.at \in Connected
        BY <1>0, <1>2, <1>3 DEF StopsAt, All, InTable
    <2>2. QED
        BY <1>0, <1>2, <2>1 DEF Turned, ConnectionInv
<1>12. n.dead = {}
    BY <1>2, <1>3, <1>4 DEF StopsAt, Turned
<1>13. received' \in [Clients -> [Conversations -> Nat]]
    BY <1>0, <1>1, <1>5, ReceivedType
<1> HIDE DEF D
<1>14. QED
    BY <1>1, <1>2, <1>5, <1>9, <1>10, <1>11, <1>12, <1>13, JobStep DEF Turned

\* The end of a loop: its dead clients are disconnected, and notify_new_message
\* goes on to those who are not subscribed.
LEMMA LoopEnds ==
    ASSUME HubInv, NEW b \in Broadcasts, Running(b), NEW j \in Jobs, NEW n \in Jobs,
           \A c \in j.dead : socket[c] = "closed",
           UNCHANGED <<socket, sequences, received, frames, moved>>,
           Disconnect(j.dead), job' = [job EXCEPT ![b] = n],
           due' = [Departed(j.dead) EXCEPT ![b] = @ \ {n.at}],
           Turned(n), n.dead = {}, n.at # None => n.at \in Connected,
           b \notin moved => LET D == (due[b] \ j.dead) \ {n.at}
                            IN  /\ n.pc = "ended" => D = {}
                                /\ n.pc = "sending" =>
                                    \A c \in D : /\ c \in InTable(entries')
                                                 /\ \E i \in Ahead(entries', n) : entries'[i] = c
                                                 /\ n.kind = "notice"
                                                 /\ n.conv \notin subscribed'[c]
    PROVE  HubInv' /\ OnlyTheGoneLeave
<1> DEFINE D == (due[b] \ j.dead) \ {n.at}
<1>0. /\ TypeOK /\ ConnectionInv /\ NobodyIsSkipped /\ ReachesTheSteady
      /\ j.dead \in SUBSET Clients
    BY DEF HubInv, Jobs
<1>1. /\ entries' \in Table /\ OneEntryEach(entries')
      /\ Connected' = Connected \ j.dead
      /\ subscribed' \in [Clients -> SUBSET Conversations]
      /\ presence' \in [Conversations -> SUBSET Clients]
      /\ PresenceSound'
      /\ \A x \in Broadcasts :
            /\ WillBeVisited(x) /\ job'[x] = job[x] /\ due'[x] \subseteq due[x] \ j.dead
            /\ due[x] \subseteq Clients
            => WillBeVisited(x)'
    BY <1>0, DisconnectFacts
<1>2. /\ job'[b] = n /\ \A x \in Broadcasts : x # b => job'[x] = job[x]
      /\ due'[b] = D
      /\ \A x \in Broadcasts : due'[x] \subseteq due[x]
      /\ \A x \in Broadcasts : Running(x) => due'[x] \subseteq due[x] \ j.dead
      /\ due' \in [Broadcasts -> SUBSET Clients]
    <2>1. /\ Departed(j.dead) \in [Broadcasts -> SUBSET Clients]
          /\ \A x \in Broadcasts :
                Departed(j.dead)[x] = IF Running(x) THEN due[x] \ j.dead ELSE due[x]
        BY <1>0 DEF Departed, TypeOK
    <2>2. due' = [Departed(j.dead) EXCEPT ![b] = D]
        BY <2>1
    <2> HIDE DEF D
    <2>3. D \subseteq due[b] \ j.dead /\ D \in SUBSET Clients
        BY <1>0 DEF D, TypeOK
    <2>4. due'[b] = D /\ \A x \in Broadcasts : x # b => due'[x] = Departed(j.dead)[x]
        BY <2>1, <2>2
    <2>5. job'[b] = n /\ \A x \in Broadcasts : x # b => job'[x] = job[x]
        BY <1>0 DEF TypeOK, JobTypes
    <2>6. due' \in [Broadcasts -> SUBSET Clients]
        BY <2>1, <2>2, <2>3
    <2>7. Running(b) /\ D \subseteq due[b]
        BY <2>3
    <2>8. \A x \in Broadcasts : due'[x] \subseteq due[x]
        BY <2>1, <2>4, <2>7
    <2>9. \A x \in Broadcasts : Running(x) => due'[x] \subseteq due[x] \ j.dead
        BY <2>1, <2>3, <2>4
    <2>10. QED
        BY <2>4, <2>5, <2>6, <2>8, <2>9
<1>3. TypeOK'
    <2>1. JobTypes'
        BY <1>0 DEF TypeOK, JobTypes, Jobs
    <2>2. \A x \in Broadcasts : Running(x)' \/ (job'[x].at = None /\ job'[x].dead = {})
        BY <1>0, <1>2 DEF Running, TypeOK, Turned
    <2>3. QED
        BY <1>0, <1>1, <1>2, <2>1, <2>2 DEF TypeOK, Table, OneEntryEach
<1>4. ConnectionInv'
    BY <1>0, <1>1, <1>2 DEF ConnectionInv, Running, Turned
<1>5. ASSUME NEW x \in Broadcasts \ moved, x # b PROVE
        /\ Running(x)' => WillBeVisited(x)'
        /\ job'[x].pc = "ended" => due'[x] = {}
    <2>1. job'[x] = job[x] /\ due'[x] \subseteq due[x] /\ due[x] \subseteq Clients
        BY <1>0, <1>2, <1>5 DEF TypeOK
    <2>2. ASSUME Running(x)' PROVE WillBeVisited(x)'
        <3>1. Running(x)
            BY <2>1, <2>2 DEF Running
        <3>2. WillBeVisited(x) /\ due'[x] \subseteq due[x] \ j.dead
            BY <1>0, <1>2, <1>5, <3>1 DEF NobodyIsSkipped
        <3>3. QED
            BY <1>1, <1>5, <2>1, <3>2
    <2>3. QED
        BY <1>0, <1>5, <2>1, <2>2 DEF ReachesTheSteady
<1>6. ASSUME b \notin moved PROVE
        /\ Running(b)' => WillBeVisited(b)'
        /\ job'[b].pc = "ended" => due'[b] = {}
    <2>1. ASSUME Running(b)' PROVE WillBeVisited(b)'
        <3>1. n.pc = "sending"
            BY <1>2, <2>1 DEF Running, Turned
        <3>2. job'[b] = n /\ due'[b] = D
            BY <1>2
        <3>3. ASSUME NEW c \in D
              PROVE  /\ c \in Connected'
                     /\ \E i \in Ahead(entries', n) : entries'[i] = c
                     /\ IsTarget(job[b], c)'
            BY <1>6, <3>1, <3>2, <3>3 DEF Connected, InTable, IsTarget
        <3>4. QED
            BY <3>2, <3>3 DEF WillBeVisited, Visits, Ahead
    <2>2. QED
        BY <1>2, <1>6, <2>1
<1>7. NobodyIsSkipped' /\ ReachesTheSteady'
    BY <1>5, <1>6 DEF NobodyIsSkipped, ReachesTheSteady
<1>8. OnlyTheGoneLeave
    BY <1>1 DEF OnlyTheGoneLeave
<1>9. QED
    BY <1>1, <1>3, <1>4, <1>7, <1>8 DEF HubInv

\* A turn of a loop passes over nobody it is due to.
LEMMA ProceedStep ==
    ASSUME HubInv, NEW b \in Broadcasts, Running(b), NEW j \in Jobs,
           j.kind = job[b].kind, j.conv = job[b].conv, j.pos = job[b].pos,
           \A c \in j.dead : socket[c] = "closed",
           Proceed(b, j), UNCHANGED <<socket, sequences, frames, moved>>
    PROVE  HubInv' /\ OnlyTheGoneLeave
<1> DEFINE next == Walk(entries, j)
           rest == Without(entries, j.dead)
           notice == [j EXCEPT !.kind = "notice"]
           then == IF j.kind = "message" THEN FirstOf(rest, notice) ELSE next
<1>0. /\ TypeOK /\ ConnectionInv /\ NobodyIsSkipped /\ entries \in Table
      /\ j.dead \in SUBSET Clients /\ j.pos \in Nat
      /\ due[b] \subseteq Clients
    BY DEF HubInv, TypeOK, Table, Jobs
<1>1. b \notin moved => Visits(j, due[b])
    <2>1. \A c : IsTarget(j, c) <=> IsTarget(job[b], c)
        BY DEF IsTarget
    <2>2. QED
        BY <1>0, <2>1 DEF NobodyIsSkipped, WillBeVisited, Visits, Ahead
<1>2. /\ Turned(next)
      /\ next.pc = "ended" => Targets(entries, j) = {}
      /\ next.pc = "sending" =>
            StopsAt(next, j, entries, Targets(entries, j)) /\ next.kind = j.kind
    BY <1>0, WalkFacts
<1>3. CASE /\ next.pc = "raised"
           /\ job' = [job EXCEPT ![b] = next]
           /\ UNCHANGED <<entries, subscribed, presence, due, received>>
    <2> HIDE DEF next
    <2>1. due' = [due EXCEPT ![b] = due[b]]
        BY <1>0, <1>3 DEF TypeOK
    <2>2. QED
        BY <1>0, <1>2, <1>3, <2>1, JobStep DEF Turned, TypeOK
<1>4. CASE /\ next.pc = "sending"
           /\ job' = [job EXCEPT ![b] = next]
           /\ due' = [due EXCEPT ![b] = @ \ {next.at}]
           /\ received' = Received(next)
           /\ UNCHANGED <<entries, subscribed, presence>>
    <2> HIDE DEF next
    <2>1. next \in Jobs /\ received' \in [Clients -> [Conversations -> Nat]]
        BY <1>0, <1>2, <1>4, ReceivedType DEF Turned
    <2>2. b \notin moved => Visits(next, due[b] \ {next.at})
        BY <1>0, <1>1, <1>2, <1>4, StopVisits
    <2>3. next.at # None /\ socket[next.at] # "new" /\ next.dead = j.dead
        BY <1>0, <1>2, <1>4
        DEF StopsAt, Targets, Ahead, ConnectionInv, Connected
    <2>4. due' = [due EXCEPT ![b] = due[b] \ {next.at}]
        BY <1>4
    <2>5. due[b] \ {next.at} \in SUBSET Clients
        BY <1>0
    <2>6. sequences' \in [Conversations -> Nat]
        BY <1>0 DEF TypeOK
    <2>7. QED
        BY <1>4, <2>1, <2>2, <2>3, <2>4, <2>5, <2>6, JobStep
<1>5. CASE /\ next.pc = "ended"
           /\ job' = [job EXCEPT ![b] = then]
           /\ Disconnect(j.dead)
           /\ due' = [Departed(j.dead) EXCEPT ![b] = @ \ {then.at}]
           /\ UNCHANGED received
    <2> DEFINE D == (due[b] \ j.dead) \ {then.at}
    <2>1. /\ rest \in Table /\ entries' = rest
          /\ InTable(rest) = InTable(entries) \ j.dead
        BY <1>0, <1>5, WithoutFacts DEF Disconnect
    <2>2. notice \in Jobs /\ notice.kind = "notice" /\ notice.conv = j.conv
        BY DEF Jobs
    <2>3. j.kind = "message" =>
            /\ Turned(then)
            /\ then.pc = "ended" => All(rest, notice) = {}
            /\ then.pc = "sending" =>
                /\ StopsAt(then, [notice EXCEPT !.dead = {}], rest, All(rest, notice))
                /\ then.kind = notice.kind
        BY <2>1, <2>2, FirstFacts
    <2>4. [notice EXCEPT !.dead = {}].dead = {} /\ [notice EXCEPT !.dead = {}].conv = j.conv
        BY DEF Jobs
    <2>5. j.kind # "message" => then = next
        OBVIOUS
    <2> HIDE DEF next, then, notice, rest
    <2>6. Turned(then) /\ then.dead = {}
        BY <1>2, <1>5, <2>3, <2>4, <2>5 DEF StopsAt, Turned
    <2>7. then.pc = "sending" => j.kind = "message"
        BY <1>5, <2>5
    <2>8. then.at # None => then.at \in Connected
        BY <2>1, <2>3, <2>6, <2>7 DEF Turned, StopsAt, All, InTable, Connected
    <2>9. ASSUME b \notin moved, NEW c \in due[b]
          PROVE  /\ j.kind = "message" /\ IsTarget(notice, c)
                 /\ c \notin j.dead => c \in InTable(rest)
        <3>1. ~IsTarget(j, c)
            BY <1>1, <1>2, <1>5, <2>9 DEF Visits, Targets, Ahead
        <3>2. j.kind = "message" /\ c \in InTable(entries)
            BY <1>1, <2>9, <3>1 DEF Visits, Connected, InTable
        <3>3. QED
            BY <2>1, <2>2, <3>1, <3>2 DEF IsTarget
    <2>10. ASSUME b \notin moved, then.pc = "ended" PROVE D = {}
        <3>1. ASSUME NEW c \in D PROVE FALSE
            <4>1. j.kind = "message" /\ IsTarget(notice, c) /\ c \in InTable(rest)
                BY <2>9, <2>10, <3>1
            <4>2. All(rest, notice) # {}
                BY <4>1 DEF All, InTable
            <4>3. QED
                BY <2>3, <2>10, <4>1, <4>2
        <3>2. QED
            BY <3>1
    <2>11. ASSUME b \notin moved, then.pc = "sending", NEW c \in D
          PROVE  /\ c \in InTable(entries')
                 /\ \E i \in Ahead(entries', then) : entries'[i] = c
                 /\ then.kind = "notice"
                 /\ then.conv \notin subscribed'[c]
        <3> DEFINE first == [notice EXCEPT !.dead = {}]
        <3>1. first.kind = "notice" /\ first.conv = j.conv
            BY <2>2 DEF Jobs
        <3>2. All(rest, first) = All(rest, notice)
            BY <2>2, <3>1 DEF All, IsTarget
        <3>3. /\ StopsAt(then, first, rest, All(rest, first)) /\ then.kind = "notice"
              /\ then.conv = j.conv
            BY <2>2, <2>3, <2>7, <2>11, <3>1, <3>2 DEF StopsAt
        <3>4. c \in Clients \ j.dead /\ IsTarget(notice, c) /\ c \in InTable(rest) /\ c # then.at
            BY <1>0, <2>9, <2>11
        <3>5. subscribed'[c] = subscribed[c] /\ j.conv \notin subscribed[c] /\ IsTarget(first, c)
            BY <1>5, <2>2, <3>1, <3>4 DEF Disconnect, IsTarget
        <3> HIDE DEF first
        <3>6. \E i \in Ahead(rest, then) : rest[i] = c
            BY <2>1, <3>3, <3>4, <3>5, FirstVisits
        <3>7. QED
            BY <2>1, <3>3, <3>4, <3>5, <3>6
    <2>12. then \in Jobs
        BY <2>6 DEF Turned
    <2>13. QED
        BY <1>5, <2>6, <2>8, <2>10, <2>11, <2>12, LoopEnds
<1>6. QED
    BY <1>3, <1>4, <1>5 DEF Proceed, Notices

\* A broadcast that waits for its client, or was acknowledged, stays where it is.
LEMMA WaitStep ==
    ASSUME HubInv, NEW b \in Broadcasts, NEW pc \in {"waiting", "woken"},
           job[b].pc \in {"sending", "waiting"},
           job' = [job EXCEPT ![b].pc = pc],
           UNCHANGED <<entries, socket, subscribed, presence, sequences, due,
                       received, frames, moved>>
    PROVE  HubInv' /\ OnlyTheGoneLeave
<1> DEFINE n == [job[b] EXCEPT !.pc = pc]
<1>1. /\ job[b] \in Jobs /\ due[b] \in SUBSET Clients
      /\ sequences \in [Conversations -> Nat]
      /\ received \in [Clients -> [Conversations -> Nat]]
      /\ job' = [job EXCEPT ![b] = n] /\ due' = [due EXCEPT ![b] = due[b]]
    BY DEF HubInv, TypeOK, JobTypes, Jobs
<1>2. /\ n \in Jobs /\ n.pc = pc /\ n.kind = job[b].kind /\ n.conv = job[b].conv
      /\ n.pos = job[b].pos /\ n.at = job[b].at /\ n.dead = job[b].dead
    BY <1>1 DEF Jobs
<1> HIDE DEF n
<1>3. /\ n.at # None /\ socket[n.at] # "new"
      /\ \A c \in n.dead : socket[c] = "closed"
    BY <1>2 DEF HubInv, ConnectionInv, Running
<1>4. b \notin moved => Visits(n, due[b])
    <2>1. \A c : IsTarget(n, c) <=> IsTarget(job[b], c)
        BY <1>2 DEF IsTarget
    <2>2. b \notin moved => Visits(job[b], due[b])
        BY DEF HubInv, NobodyIsSkipped, WillBeVisited, Running
    <2>3. QED
        BY <1>2, <2>1, <2>2 DEF Visits, Ahead
<1>5. n.pc \notin {"new", "ended", "raised"}
    BY <1>2
<1>6. /\ sequences' \in [Conversations -> Nat]
      /\ received' \in [Clients -> [Conversations -> Nat]]
    BY <1>1
<1>7. QED
    BY <1>1, <1>2, <1>3, <1>4, <1>5, <1>6, JobStep

\* A turn that follows a send or a wait drops only clients found gone.
LEMMA ContinueStep ==
    ASSUME HubInv, NEW b \in Broadcasts, Continue(b)
    PROVE  HubInv' /\ OnlyTheGoneLeave
<1>0. /\ job[b] \in Jobs /\ \A c \in job[b].dead : socket[c] = "closed"
      /\ job[b].at # None => socket[job[b].at] # "new"
      /\ socket \in [Clients -> {"new", "open", "closed"}]
    BY DEF HubInv, TypeOK, JobTypes, Jobs, ConnectionInv
<1>1. ASSUME NEW S \in SUBSET Clients, \A c \in S : socket[c] = "closed", Running(b),
             Proceed(b, [job[b] EXCEPT !.dead = S]),
             UNCHANGED <<socket, sequences, frames, moved>>
      PROVE  HubInv' /\ OnlyTheGoneLeave
    <2> DEFINE j == [job[b] EXCEPT !.dead = S]
    <2>1. /\ j \in Jobs /\ j.kind = job[b].kind /\ j.conv = job[b].conv
          /\ j.pos = job[b].pos /\ j.dead = S
        BY <1>0 DEF Jobs
    <2> HIDE DEF j
    <2>2. Proceed(b, j)
        BY <1>1 DEF j
    <2>3. QED
        BY <1>1, <2>1, <2>2, ProceedStep
<1>2. CASE SendFails(b)
    <2>1. /\ job[b].pc = "sending" /\ socket[job[b].at] # "open"
          /\ Proceed(b, [job[b] EXCEPT !.dead = job[b].dead \cup {job[b].at}])
          /\ UNCHANGED <<socket, sequences, frames, moved>>
        BY <1>2 DEF SendFails
    <2>2. job[b].at # None
        BY <2>1 DEF HubInv, ConnectionInv, Running
    <2>3. job[b].dead \cup {job[b].at} \in SUBSET Clients
        BY <1>0, <2>2 DEF Jobs
    <2>4. socket[job[b].at] = "closed"
        BY <1>0, <2>1, <2>2 DEF Jobs
    <2>5. QED
        BY <1>0, <1>1, <2>1, <2>3, <2>4 DEF Running
<1>3. CASE SendReturns(b)
    <2>1. CASE job' = [job EXCEPT ![b].pc = "waiting"]
               /\ UNCHANGED <<entries, subscribed, presence, due, received>>
        BY <1>3, <2>1, WaitStep DEF SendReturns
    <2>2. CASE Proceed(b, job[b])
        <3>1. job[b] = [job[b] EXCEPT !.dead = job[b].dead]
            BY <1>0 DEF Jobs
        <3>2. QED
            BY <1>0, <1>1, <1>3, <2>2, <3>1 DEF SendReturns, Running, Jobs
    <2>3. QED
        BY <1>3, <2>1, <2>2 DEF SendReturns
<1>4. CASE Resume(b)
    BY <1>0, <1>1, <1>4 DEF Resume, DeadAfterWait, WaitEnds, Running, Jobs
<1>5. QED
    BY <1>2, <1>3, <1>4 DEF Continue

-----------------------------------------------------------------------------
(* The theorems *)

\* Every step keeps the invariant and drops only those who have gone.
LEMMA HubStep ==
    ASSUME HubInv, [Next]_vars PROVE HubInv' /\ [OnlyTheGoneLeave]_vars
<1>1. ASSUME NEW c \in Clients,
             \/ Connect(c) \/ Close(c) \/ HandlerEnds(c)
             \/ \E v \in Conversations : Subscribe(c, v) \/ Unsubscribe(c, v)
      PROVE  HubInv' /\ OnlyTheGoneLeave
    BY <1>1, ConnectStep, CloseStep, HandlerStep, SubscriptionStep
<1>2. ASSUME NEW b \in Broadcasts, NEW v \in Conversations,
             NEW kind \in {"event", "message"}, StartSequenced(b, kind, v)
      PROVE  HubInv' /\ OnlyTheGoneLeave
    <2>1. ASSUME NEW s \in Nat
          PROVE  LET k == [New EXCEPT !.kind = kind, !.conv = v, !.seq = s]
                 IN  k \in Jobs /\ k.dead = {}
        BY DEF New, Jobs
    <2>2. sequences[v] + 1 \in Nat /\ sequences' \in [Conversations -> Nat]
        BY <1>2 DEF HubInv, TypeOK, StartSequenced
    <2> DEFINE j == [New EXCEPT !.kind = kind, !.conv = v, !.seq = sequences[v] + 1]
    <2>3. j \in Jobs /\ j.dead = {}
        BY <2>1, <2>2
    <2> HIDE DEF j
    <2>4. Start(b, j)
        BY <1>2 DEF StartSequenced, j
    <2>5. QED
        BY <2>2, <2>3, <2>4, StartStep
<1>3. ASSUME NEW b \in Broadcasts, NEW j \in Jobs, j.dead = {}, Start(b, j),
             UNCHANGED sequences
      PROVE  HubInv' /\ OnlyTheGoneLeave
    <2>1. sequences' \in [Conversations -> Nat]
        BY <1>3 DEF HubInv, TypeOK
    <2>2. QED
        BY <1>3, <2>1, StartStep
<1>4. ASSUME NEW b \in Broadcasts, NEW v \in Conversations, StartPresence(b, v)
      PROVE  HubInv' /\ OnlyTheGoneLeave
    <2>1. [New EXCEPT !.kind = "presence", !.conv = v] \in Jobs
          /\ [New EXCEPT !.kind = "presence", !.conv = v].dead = {}
        BY DEF New, Jobs
    <2>2. QED
        BY <1>3, <1>4, <2>1 DEF StartPresence
<1>5. ASSUME NEW b \in Broadcasts, StartGlobal(b)
      PROVE  HubInv' /\ OnlyTheGoneLeave
    <2>1. [New EXCEPT !.kind = "global"] \in Jobs
          /\ [New EXCEPT !.kind = "global"].dead = {}
        BY DEF New, Jobs
    <2>2. QED
        BY <1>3, <1>5, <2>1 DEF StartGlobal
<1>6. ASSUME NEW b \in Broadcasts, Acknowledge(b)
      PROVE  HubInv' /\ OnlyTheGoneLeave
    BY <1>6, WaitStep DEF Acknowledge
<1>7. CASE UNCHANGED vars
    <2>1. /\ UNCHANGED <<entries, socket, subscribed, presence, sequences, job,
                         received, due, frames, moved>>
        BY <1>7 DEF vars, state
    <2>2. TypeOK' /\ ConnectionInv' /\ PresenceSound' /\ ReachesTheSteady'
        BY <2>1 DEF HubInv, TypeOK, JobTypes, ConnectionInv, PresenceSound,
                    ReachesTheSteady, Running, Connected
    <2>3. ASSUME NEW b \in Broadcasts \ moved, Running(b) PROVE WillBeVisited(b)'
        <3>1. WillBeVisited(b)
            BY <2>3 DEF HubInv, NobodyIsSkipped
        <3>2. \A d : IsTarget(job[b], d)' <=> IsTarget(job[b], d)
            BY <2>1 DEF IsTarget
        <3>3. QED
            BY <2>1, <3>1, <3>2 DEF WillBeVisited, Visits, Ahead, Connected
    <2>4. NobodyIsSkipped'
        BY <2>1, <2>3 DEF NobodyIsSkipped, Running
    <2>5. QED
        BY <1>7, <2>2, <2>4 DEF HubInv
<1>8. CASE Next
    BY <1>1, <1>2, <1>4, <1>5, <1>6, <1>8, ContinueStep DEF Next
<1>9. QED
    BY <1>7, <1>8

\* The invariant that the theorems below are read off from.
LEMMA HubInvariant == Spec => []HubInv
<1>1. HubInv /\ [Next]_vars => HubInv'
    BY HubStep
<1>2. QED
    BY <1>1, HubInit, PTL DEF Spec

\* The table, the jobs and the counters keep their types, and a client has at
\* most one entry.
THEOREM HubTypes == Spec => []TypeOK
<1>1. HubInv => TypeOK
    BY DEF HubInv
<1>2. QED
    BY <1>1, HubInvariant, PTL

\* A broadcast that ends without an exception skipped no steady client, however
\* many clients come, go and subscribe while it iterates.
THEOREM NoSteadyClientIsSkipped == Spec => []ReachesTheSteady
<1>1. HubInv => ReachesTheSteady
    BY DEF HubInv
<1>2. QED
    BY <1>1, HubInvariant, PTL

\* Presence lists name connected subscribers only.
THEOREM PresenceIsSound == Spec => []PresenceSound
<1>1. HubInv => PresenceSound
    BY DEF HubInv
<1>2. QED
    BY <1>1, HubInvariant, PTL

\* No broadcast drops a client that is still there.
THEOREM OnlyTheGoneAreDropped == Spec => DropsOnlyTheGone
<1>1. HubInv /\ [Next]_vars =>
        [\A c \in Connected : c \notin Connected' => socket[c] # "open"]_vars
    BY HubStep DEF OnlyTheGoneLeave
<1>2. QED
    BY <1>1, HubInvariant, PTL DEF Spec, DropsOnlyTheGone

=============================================================================
