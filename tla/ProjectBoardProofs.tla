------------------------- MODULE ProjectBoardProofs -------------------------
(***************************************************************************)
(* What the projects page keeps to, for any number of projects, tasks,     *)
(* clients and acts of the user: a task is listed under its own project, a *)
(* project never gets the contact of another client, and the board, once   *)
(* nothing is under way, shows what is stored.                             *)
(***************************************************************************)
EXTENDS ProjectBoard, TLAPS

-----------------------------------------------------------------------------
(* The bag of requests under way *)

\* Settling leaves no request behind that was not there.
LEMMA BagLess ==
    ASSUME NEW B, NEW C
    PROVE  DOMAIN (B (-) C) \subseteq DOMAIN B
BY DEF (-)

\* Requests that are sent are added, and nothing else is.
LEMMA BagMore ==
    ASSUME NEW B, NEW S
    PROVE  DOMAIN (B (+) SetToBag(S)) = DOMAIN B \cup S
BY DEF (+), SetToBag

\* The bag the page starts with.
LEMMA BagOfSet ==
    ASSUME NEW S
    PROVE  IsABag(SetToBag(S)) /\ DOMAIN SetToBag(S) = S
BY DEF IsABag, SetToBag

-----------------------------------------------------------------------------
(* The invariant *)

Card(r)     == r \in Row /\ Matching(r)
AllCards(f) == DOMAIN f \subseteq Projects /\ \A p \in DOMAIN f : Card(f[p])
TasksFit(f) == \A p \in DOMAIN f : \A t \in f[p] : t.proj = p

\* A request has the fields that Call gives it.
Shaped(c) ==
    /\ c = [f \in {"op", "proj", "arg", "ctx", "live", "done", "ans"} |-> c[f]]
    /\ c.live \in BOOLEAN

\* What is sent, what is remembered and what is answered fit each other.
Good(c) ==
    /\ Shaped(c)
    /\ c.op \in {"create", "update"} => c.proj \in Projects /\ Card(c.arg)
    /\ c.op = "move" => c.arg \in Stages /\ AllCards(c.ctx)
    /\ c.op = "load tasks" => AllCards(c.ctx)
    /\ c.done =>
        /\ c.op = "contacts" => c.ans = {c.arg}
        /\ c.op \in {"create", "update", "move"} => Card(c.ans)
        /\ c.op = "load" => AllCards(c.ans)
        /\ c.op = "load tasks" => TasksFit(c.ans)
        /\ c.op = "tasks" => \A t \in c.ans : t.proj = c.proj
        /\ c.op \in TaskChanges => c.ans.proj = c.proj

AllGood(bag) == \A c \in DOMAIN bag : Good(c)

\* The contacts that the modal waits for are those of its client.
LiveFits(bag, f) ==
    \A c \in DOMAIN bag : c.op = "contacts" /\ c.live => f # None /\ c.arg = f.client

FormFits   == form = None \/ (form \in Form /\ Matching(form))
PeopleFit  == form # None /\ form.client # None /\ ~fetching => people \subseteq {form.client}

BoardInv ==
    /\ AllGood(calls) /\ LiveFits(calls, form)
    /\ AllCards(rows) /\ AllCards(cards) /\ TasksFit(shown)
    /\ FormFits /\ PeopleFit

-----------------------------------------------------------------------------
(* Requests *)

\* Requests that only ask need nothing to be good.
LEMMA AskingIsGood ==
    ASSUME NEW op, op \notin {"create", "update", "move", "load tasks"},
           NEW p, NEW arg, NEW ctx
    PROVE  Good(Call(op, p, arg, ctx))
<1> DEFINE c == Call(op, p, arg, ctx)
<1>1. Shaped(c) /\ c.op = op /\ ~c.done
    BY DEF Call, Shaped
<1> HIDE DEF c
<1>2. Good(c)
    BY <1>1 DEF Good
<1> QED
    BY <1>2 DEF c

LEMMA SettledFits ==
    ASSUME NEW call, NEW f, AllGood(calls), LiveFits(calls, f)
    PROVE  AllGood(Settled(call)) /\ LiveFits(Settled(call), f)
BY BagLess DEF AllGood, LiveFits, Settled

\* Sending one more request.
LEMMA MoreFits ==
    ASSUME NEW bag, NEW f, AllGood(bag), LiveFits(bag, f), NEW c, Good(c),
           c.op = "contacts" => f # None /\ c.arg = f.client
    PROVE  AllGood(bag (+) SetToBag({c})) /\ LiveFits(bag (+) SetToBag({c}), f)
<1>1. DOMAIN (bag (+) SetToBag({c})) = DOMAIN bag \cup {c}
    BY BagMore
<1> QED
    BY <1>1 DEF AllGood, LiveFits

LEMMA SettledMoreFits ==
    ASSUME BoardInv, NEW call, NEW c, Good(c), c.op # "contacts"
    PROVE  /\ AllGood(Settled(call) (+) SetToBag({c}))
           /\ LiveFits(Settled(call) (+) SetToBag({c}), form)
BY SettledFits, MoreFits DEF BoardInv

\* Effects that are cleaned up leave no live request behind.
LEMMA UnmountedFits ==
    ASSUME NEW bag, AllGood(bag), NEW ops
    PROVE  /\ AllGood(Unmounted(bag, ops))
           /\ "contacts" \in ops => \A f : LiveFits(Unmounted(bag, ops), f)
           /\ \A f : LiveFits(bag, f) => LiveFits(Unmounted(bag, ops), f)
<1> DEFINE D == Unmounted(bag, ops)
           ended == {c \in DOMAIN bag : c.op \in ops /\ c.live}
           dead  == {[c EXCEPT !.live = FALSE] : c \in ended}
<1>1. DOMAIN D = (DOMAIN bag \ ended) \cup dead
    BY DEF Unmounted, (+)
<1>2. ASSUME NEW d \in dead
      PROVE  Good(d) /\ d.live = FALSE /\ d.op \in ops
    <2>1. PICK c \in ended : d = [c EXCEPT !.live = FALSE]
        OBVIOUS
    <2>2. Good(c) /\ c.op \in ops
        BY DEF AllGood
    <2>3. /\ Shaped(d) /\ d.op = c.op /\ d.arg = c.arg /\ d.proj = c.proj /\ d.ctx = c.ctx
          /\ d.done = c.done /\ d.ans = c.ans /\ d.live = FALSE
        BY <2>1, <2>2 DEF Good, Shaped
    <2> QED
        BY <2>2, <2>3 DEF Good
<1>3. ASSUME NEW c \in DOMAIN D
      PROVE  Good(c) /\ (c.live => c \in DOMAIN bag /\ c.op \notin ops)
    <2>1. CASE c \in dead
        BY <1>2, <2>1
    <2>2. CASE c \in DOMAIN bag \ ended
        BY <2>2 DEF AllGood
    <2> HIDE DEF D, ended, dead
    <2> QED
        BY <1>1, <1>3, <2>1, <2>2
<1> HIDE DEF D, ended, dead
<1>4. /\ AllGood(D)
      /\ "contacts" \in ops => \A f : LiveFits(D, f)
      /\ \A f : LiveFits(bag, f) => LiveFits(D, f)
    BY <1>3 DEF AllGood, LiveFits
<1> QED
    BY <1>4 DEF D

\* An answer on its way.
LEMMA AnswerFits ==
    ASSUME BoardInv, NEW call \in InFlight, ~call.done, NEW ans, Answered(call, ans),
           call.op = "contacts" => ans = {call.arg},
           call.op \in {"create", "update", "move"} => Card(ans),
           call.op = "load" => AllCards(ans),
           call.op = "load tasks" => TasksFit(ans),
           call.op = "tasks" => \A t \in ans : t.proj = call.proj,
           call.op \in TaskChanges => ans.proj = call.proj
    PROVE  AllGood(calls') /\ LiveFits(calls', form)
<1> DEFINE d == [call EXCEPT !.done = TRUE, !.ans = ans]
<1>1. Good(call) /\ AllGood(calls) /\ LiveFits(calls, form)
    BY DEF BoardInv, AllGood, InFlight
<1>2. /\ Shaped(d) /\ d.op = call.op /\ d.arg = call.arg /\ d.proj = call.proj
      /\ d.ctx = call.ctx /\ d.ans = ans /\ d.live = call.live
    BY <1>1 DEF Good, Shaped
<1>3. calls' = Settled(call) (+) SetToBag({d})
    BY DEF Answered
<1> HIDE DEF d
<1>4. Good(d)
    BY <1>1, <1>2 DEF Good
<1>5. DOMAIN calls' = DOMAIN Settled(call) \cup {d}
    BY <1>3, BagMore
<1>6. d.op = "contacts" /\ d.live => form # None /\ d.arg = form.client
    BY <1>1, <1>2 DEF LiveFits, InFlight
<1>7. AllGood(Settled(call)) /\ LiveFits(Settled(call), form)
    BY <1>1, SettledFits
<1> QED
    BY <1>4, <1>5, <1>6, <1>7 DEF AllGood, LiveFits

-----------------------------------------------------------------------------
LEMMA BoardInit == Init => BoardInv
<1> SUFFICES ASSUME Init PROVE BoardInv
    OBVIOUS
<1> USE BoardAssumption
<1>1. AllGood(calls) /\ LiveFits(calls, form)
    <2> DEFINE c == Call("load", None, None, None)
    <2>1. DOMAIN calls = {c}
        BY BagOfSet DEF Init
    <2>2. Good(c) /\ c.op = "load"
        BY AskingIsGood DEF Call
    <2> HIDE DEF c
    <2> QED
        BY <2>1, <2>2 DEF AllGood, LiveFits
<1>2. AllCards(rows)
    <2> DEFINE k == CHOOSE k \in Clients : TRUE
               bare == [stage |-> "lead", client |-> None, contact |-> "typed"]
               full == [stage |-> "lead", client |-> k, contact |-> k]
    <2>1. k \in Clients
        OBVIOUS
    <2> HIDE DEF k
    <2>2. Card(bare) /\ Card(full)
        BY <2>1 DEF Card, Row, Stages, Matching
    <2>3. rows \in [Existing -> {bare, full}]
        BY DEF Init, k
    <2> HIDE DEF bare, full
    <2> QED
        BY <2>2, <2>3 DEF AllCards
<1>3. AllCards(cards) /\ TasksFit(shown)
    BY DEF Init, AllCards, TasksFit
<1> QED
    BY <1>1, <1>2, <1>3 DEF Init, BoardInv, FormFits, PeopleFit

LEMMA ServerKeeps ==
    ASSUME BoardInv, Server
    PROVE  BoardInv'
<1> SUFFICES ASSUME NEW call \in InFlight,
                 \/ AnswersList(call) \/ AnswersAllTasks(call) \/ AnswersTasks(call)
                 \/ AnswersContacts(call)
                 \/ Stores(call) \/ Deletes(call) \/ StoresTask(call)
             PROVE  BoardInv'
    BY DEF Server
<1>1. UNCHANGED <<board, modal>>
    BY DEF AnswersList, AnswersAllTasks, AnswersTasks, AnswersContacts, Stores, Deletes, StoresTask
<1>2. ASSUME AllGood(calls'), LiveFits(calls', form), AllCards(rows')
      PROVE  BoardInv'
    BY <1>1, <1>2 DEF BoardInv, board, modal, AllGood, LiveFits, AllCards, TasksFit, FormFits,
                      Matching, PeopleFit
<1>3. Good(call) /\ AllCards(rows)
    BY DEF BoardInv, AllGood, InFlight
<1>4. CASE AnswersList(call)
    BY <1>2, <1>3, <1>4, AnswerFits DEF AnswersList, stores, TaskChanges
<1>5. CASE AnswersAllTasks(call)
    <2>1. TasksFit([p \in DOMAIN call.ctx |-> TasksOf(p)])
        BY DEF TasksFit, TasksOf
    <2> QED
        BY <1>2, <1>3, <1>5, <2>1, AnswerFits DEF AnswersAllTasks, stores, TaskChanges
<1>6. CASE AnswersTasks(call)
    BY <1>2, <1>3, <1>6, AnswerFits DEF AnswersTasks, stores, TaskChanges, TasksOf
<1>7. CASE AnswersContacts(call)
    BY <1>2, <1>3, <1>7, AnswerFits DEF AnswersContacts, stores, TaskChanges
<1>8. CASE Stores(call)
    <2> DEFINE row == IF call.op = "move" THEN [rows[call.proj] EXCEPT !.stage = call.arg]
                      ELSE call.arg
    <2>1. Card(row)
        <3>1. CASE call.op = "move"
            <4>1. call.proj \in DOMAIN rows /\ Card(rows[call.proj]) /\ call.arg \in Stages
                BY <1>3, <1>8, <3>1 DEF Stores, AllCards, Good
            <4> QED
                BY <3>1, <4>1 DEF Card, Row, Matching
        <3>2. CASE call.op # "move"
            BY <1>3, <1>8, <3>2 DEF Stores, Good
        <3> QED
            BY <3>1, <3>2
    <2>2. call.proj \in Projects
        BY <1>3, <1>8 DEF Stores, Good, AllCards
    <2> HIDE DEF row
    <2>3. AllCards(rows')
        <3>1. rows' = With(rows, call.proj, row)
            BY <1>8 DEF Stores, row
        <3> QED
            BY <1>3, <2>1, <2>2, <3>1 DEF With, AllCards
    <2>4. Answered(call, row) /\ ~call.done /\ call.op \in {"create", "update", "move"}
        BY <1>8 DEF Stores, row
    <2> QED
        BY <1>2, <2>1, <2>3, <2>4, AnswerFits DEF TaskChanges
<1>9. CASE Deletes(call)
    <2>1. AllCards(rows')
        BY <1>3, <1>9 DEF Deletes, Without, AllCards
    <2> QED
        BY <1>2, <1>9, <2>1, AnswerFits DEF Deletes, TaskChanges
<1>10. CASE StoresTask(call)
    BY <1>2, <1>3, <1>10, AnswerFits DEF StoresTask, TaskChanges
<1> QED
    BY <1>4, <1>5, <1>6, <1>7, <1>8, <1>9, <1>10

\* Steps that leave what is shown alone.
LEMMA PageKept ==
    ASSUME BoardInv, UNCHANGED <<rows, cards, shown, form, people, fetching>>,
           AllGood(calls'), LiveFits(calls', form)
    PROVE  BoardInv'
BY DEF BoardInv, AllGood, LiveFits, AllCards, TasksFit, FormFits, Matching, PeopleFit

\* No contacts are waited for when the modal is closed.
LEMMA NoneLive ==
    ASSUME BoardInv, form = None, NEW f
    PROVE  LiveFits(calls, f)
BY DEF BoardInv, LiveFits

\* A modal that opens waits for the contacts of its client.
LEMMA OpenedFits ==
    ASSUME NEW f \in Form, Matching(f), NEW bag, AllGood(bag), LiveFits(bag, f),
           Opened(f, bag)
    PROVE  AllGood(calls') /\ LiveFits(calls', form') /\ FormFits' /\ PeopleFit'
<1> USE BoardAssumption
<1>1. form' = f /\ f # None /\ people' = {} /\ fetching' = (f.client # None)
    BY DEF Opened
<1>2. AllGood(calls') /\ LiveFits(calls', f)
    <2>1. CASE f.client = None
        <3>1. calls' = bag (+) SetToBag({})
            BY <2>1 DEF Opened, EmptyBag
        <3>2. DOMAIN calls' = DOMAIN bag
            BY <3>1, BagMore
        <3> QED
            BY <3>2, <3>1, BagMore DEF AllGood, LiveFits
    <2>2. CASE f.client # None
        <3> DEFINE c == Call("contacts", None, f.client, None)
        <3>1. calls' = bag (+) SetToBag({c})
            BY <2>2 DEF Opened
        <3>2. Good(c) /\ c.arg = f.client
            BY AskingIsGood DEF Call
        <3> HIDE DEF c
        <3> QED
            BY <1>1, <3>1, <3>2, MoreFits
    <2> QED
        BY <2>1, <2>2
<1> QED
    BY <1>1, <1>2 DEF FormFits, PeopleFit, Matching

LEMMA BoardActsKeep ==
    ASSUME BoardInv,
           \/ \E sc : SetScope(sc)
           \/ \E p \in Projects : DragStart(p)
           \/ \E stage \in Stages : Drop(stage)
    PROVE  BoardInv'
<1>1. ASSUME NEW sc, SetScope(sc)
      PROVE  BoardInv'
    BY <1>1, PageKept DEF SetScope, stores, modal, BoardInv, AllGood, LiveFits
<1>2. ASSUME NEW p \in Projects, DragStart(p)
      PROVE  BoardInv'
    BY <1>2, PageKept DEF DragStart, stores, board, modal, BoardInv, AllGood, LiveFits
<1>3. ASSUME NEW stage \in Stages, Drop(stage)
      PROVE  BoardInv'
    <2> DEFINE c == Call("move", drag, stage, cards)
    <2>1. Good(c) /\ c.op = "move"
        <3>1. Shaped(c) /\ c.op = "move" /\ c.arg = stage /\ c.ctx = cards /\ ~c.done
            BY DEF Call, Shaped
        <3> HIDE DEF c
        <3> QED
            BY <3>1 DEF Good, BoardInv
    <2>2. calls' = calls (+) SetToBag({c})
        BY <1>3 DEF Drop, Change, Asked
    <2> HIDE DEF c
    <2>3. AllGood(calls') /\ LiveFits(calls', form)
        BY <2>1, <2>2, MoreFits DEF BoardInv
    <2>4. AllCards(cards')
        <3>1. CASE drag \in DOMAIN cards
            <4>1. cards' = [cards EXCEPT ![drag].stage = stage] /\ Card(cards[drag])
                BY <1>3, <3>1 DEF Drop, BoardInv, AllCards
            <4>2. Card([cards[drag] EXCEPT !.stage = stage])
                BY <4>1 DEF Card, Row, Matching
            <4> QED
                BY <4>1, <4>2 DEF BoardInv, AllCards
        <3>2. CASE drag \notin DOMAIN cards
            BY <1>3, <3>2 DEF Drop, BoardInv
        <3> QED
            BY <3>1, <3>2
    <2> QED
        BY <1>3, <2>3, <2>4 DEF Drop, stores, modal, BoardInv, AllGood, LiveFits, AllCards, TasksFit,
                               FormFits, Matching, PeopleFit
<1> QED
    BY <1>1, <1>2, <1>3

LEMMA OpeningKeeps ==
    ASSUME BoardInv,
           \/ \E stage \in Stages : OpenNew(stage)
           \/ \E p \in Projects : OpenExisting(p)
    PROVE  BoardInv'
<1> USE BoardAssumption
<1>1. ASSUME NEW f \in Form, Matching(f), NEW bag, AllGood(bag), LiveFits(bag, f),
             Opened(f, bag), UNCHANGED <<rows, cards, shown>>
      PROVE  BoardInv'
    BY <1>1, OpenedFits DEF BoardInv, AllGood, LiveFits, AllCards, TasksFit
<1>2. ASSUME NEW stage \in Stages, OpenNew(stage)
      PROVE  BoardInv'
    <2> DEFINE f == [id |-> None, stage |-> stage, client |-> None, contact |-> None]
    <2>1. f \in Form /\ Matching(f)
        BY DEF Form, Matching
    <2>2. Opened(f, calls) /\ UNCHANGED <<rows, cards, shown>> /\ form = None
        BY <1>2 DEF OpenNew, Uncovered, stores, board
    <2>3. LiveFits(calls, f) /\ AllGood(calls)
        BY <2>2, NoneLive DEF BoardInv
    <2> HIDE DEF f
    <2> QED
        BY <1>1, <2>1, <2>2, <2>3
<1>3. ASSUME NEW p \in Projects, OpenExisting(p)
      PROVE  BoardInv'
    <2> DEFINE card == cards[p]
               f    == [id |-> p, stage |-> card.stage, client |-> card.client,
                        contact |-> IF card.client # None /\ card.contact \in Clients
                                    THEN None ELSE card.contact]
               c    == Call("tasks", p, None, None)
    <2>1. p \in DOMAIN cards /\ form = None
        BY <1>3 DEF OpenExisting, Uncovered, OnScreen, Filtered
    <2>2. Card(card)
        BY <2>1 DEF BoardInv, AllCards
    <2>3. f \in Form /\ Matching(f)
        BY <2>2 DEF Card, Row, Form, Matching
    <2>4. Opened(f, Asked(c)) /\ UNCHANGED <<rows, cards, shown>>
        BY <1>3 DEF OpenExisting, stores, board
    <2>5. Good(c) /\ c.op = "tasks"
        BY AskingIsGood DEF Call
    <2> HIDE DEF f, c
    <2>6. AllGood(Asked(c)) /\ LiveFits(Asked(c), f)
        BY <2>1, <2>5, NoneLive, MoreFits DEF BoardInv, Asked
    <2> QED
        BY <1>1, <2>3, <2>4, <2>6
<1> QED
    BY <1>2, <1>3

\* The address opens a project over whatever modal there is.
LEMMA QueryKeeps ==
    ASSUME BoardInv, QueryOpens
    PROVE  BoardInv'
<1> USE BoardAssumption
<1> DEFINE card == cards[query]
           kept == form # None /\ form.client = card.client
           bare == Unmounted(calls, {"tasks", "contacts"})
           c    == Call("contacts", None, card.client, None)
           t    == Call("tasks", query, None, None)
           bag  == IF kept THEN Unmounted(calls, {"tasks"})
                   ELSE bare (+) (IF card.client = None THEN EmptyBag ELSE SetToBag({c}))
<1>1. query \in DOMAIN cards /\ Card(card) /\ query \in Projects
    BY DEF QueryOpens, BoardInv, AllCards
<1>2. form'.client = card.client /\ form' \in Form /\ Matching(form') /\ form' # None
    <2>1. form' = [id |-> query, stage |-> card.stage, client |-> card.client,
                   contact |-> IF card.client # None /\ card.contact \in Clients
                                  /\ card.contact \notin people /\ ~fetching
                               THEN None ELSE card.contact]
        BY DEF QueryOpens
    <2> QED
        BY <1>1, <2>1 DEF Card, Row, Form, Matching
<1>3. /\ calls' = bag (+) SetToBag({t})
      /\ UNCHANGED <<rows, cards, shown>>
      /\ people' = IF card.client = None THEN {} ELSE people
      /\ fetching' = (fetching \/ (~kept /\ card.client # None))
    BY DEF QueryOpens, stores
<1>4. /\ Good(c) /\ c.arg = card.client
      /\ Good(t) /\ t.op = "tasks"
    BY AskingIsGood DEF Call
<1>5. /\ AllGood(Unmounted(calls, {"tasks"})) /\ AllGood(bare)
      /\ \A f : LiveFits(bare, f)
      /\ LiveFits(Unmounted(calls, {"tasks"}), form)
    BY UnmountedFits DEF BoardInv
<1> HIDE DEF c, t, bare
<1>6. AllGood(bag) /\ LiveFits(bag, form')
    <2>1. CASE kept
        BY <1>2, <1>5, <2>1 DEF LiveFits
    <2>2. CASE ~kept /\ card.client = None
        <3>1. bag = bare (+) SetToBag({})
            BY <2>2 DEF EmptyBag
        <3> HIDE DEF bag
        <3>2. DOMAIN bag = DOMAIN bare
            BY <3>1, BagMore
        <3> QED
            BY <1>5, <3>2 DEF AllGood, LiveFits
    <2>3. CASE ~kept /\ card.client # None
        <3>1. bag = bare (+) SetToBag({c})
            BY <2>3
        <3> HIDE DEF bag
        <3> QED
            BY <1>2, <1>4, <1>5, <3>1, MoreFits
    <2> QED
        BY <2>1, <2>2, <2>3
<1> HIDE DEF bag
<1>7. AllGood(calls') /\ LiveFits(calls', form')
    BY <1>3, <1>4, <1>6, MoreFits
<1>8. PeopleFit'
    BY <1>2, <1>3 DEF PeopleFit, BoardInv
<1> QED
    BY <1>2, <1>3, <1>7, <1>8 DEF BoardInv, FormFits, AllCards, TasksFit, AllGood, LiveFits

\* The modal closes: whatever it waited for is dropped.
LEMMA ClosedKeeps ==
    ASSUME BoardInv, NEW bag, AllGood(bag), calls' = Unmounted(bag, {"tasks", "contacts"}),
           Closed, AllCards(cards'), TasksFit(shown'), UNCHANGED rows
    PROVE  BoardInv'
<1>1. AllGood(calls') /\ LiveFits(calls', form')
    BY UnmountedFits
<1> QED
    BY <1>1 DEF Closed, BoardInv, FormFits, PeopleFit, AllGood, LiveFits, AllCards, TasksFit

LEMMA ModalActsKeep ==
    ASSUME BoardInv,
           \/ \E stage \in Stages : EditStage(stage)
           \/ Close \/ Save \/ Delete
           \/ \E k \in Clients \cup {None} : PickClient(k)
           \/ \E k \in Clients \cup {"typed"} : PickContact(k)
    PROVE  BoardInv'
<1> USE BoardAssumption
<1>1. ASSUME NEW stage \in Stages, EditStage(stage)
      PROVE  BoardInv'
    <2>1. /\ form' = [form EXCEPT !.stage = stage] /\ form # None /\ form \in Form /\ Matching(form)
          /\ UNCHANGED <<rows, cards, shown, people, fetching, calls>>
        BY <1>1 DEF EditStage, stores, board, BoardInv, FormFits
    <2>2. form' \in Form /\ Matching(form') /\ form'.client = form.client /\ form' # None
        BY <2>1 DEF Form, Matching
    <2> QED
        BY <2>1, <2>2 DEF BoardInv, FormFits, PeopleFit, AllGood, LiveFits, AllCards, TasksFit
<1>2. CASE Close
    <2>1. Closed /\ calls' = Unmounted(calls, {"tasks", "contacts"})
          /\ UNCHANGED <<rows, cards, shown>>
        BY <1>2 DEF Close, stores, board
    <2> QED
        BY <2>1, ClosedKeeps DEF BoardInv, AllCards, TasksFit
<1>3. ASSUME NEW c, Good(c), c.op # "contacts", Change(c),
             UNCHANGED <<stores, board, modal, drag>>
      PROVE  BoardInv'
    <2>1. AllGood(calls') /\ LiveFits(calls', form)
        BY <1>3, MoreFits DEF Change, Asked, BoardInv
    <2> QED
        BY <1>3, <2>1, PageKept DEF stores, board, modal
<1>4. CASE Save
    <2> DEFINE row == [stage |-> form.stage, client |-> form.client, contact |-> form.contact]
    <2>1. form \in Form /\ Matching(form)
        BY <1>4 DEF Save, BoardInv, FormFits
    <2>2. Card(row)
        BY <2>1 DEF Card, Row, Form, Matching
    <2> HIDE DEF row
    <2>3. PICK op \in {"create", "update"}, p \in Projects : Change(Call(op, p, row, None))
        BY <1>4, <2>1 DEF Save, Form, row
    <2> DEFINE c == Call(op, p, row, None)
    <2>4. Shaped(c) /\ c.op = op /\ c.proj = p /\ c.arg = row /\ ~c.done
        BY DEF Call, Shaped
    <2>5. Change(c) /\ UNCHANGED <<stores, board, modal, drag>>
        BY <1>4, <2>3 DEF Save
    <2> HIDE DEF c
    <2>6. Good(c)
        BY <2>2, <2>4 DEF Good
    <2> QED
        BY <1>3, <2>4, <2>5, <2>6
<1>5. CASE Delete
    <2> DEFINE c == Call("delete", form.id, None, None)
    <2>1. Good(c) /\ c.op # "contacts"
        BY AskingIsGood DEF Call
    <2> HIDE DEF c
    <2> QED
        BY <1>3, <1>5, <2>1 DEF Delete, c
<1>6. ASSUME NEW k \in Clients \cup {None}, PickClient(k)
      PROVE  BoardInv'
    <2> DEFINE bare == Unmounted(calls, {"contacts"})
               c    == Call("contacts", None, k, None)
    <2>1. /\ form' = [form EXCEPT !.client = k,
                         !.contact = IF k # None \/ @ \in Clients THEN None ELSE @]
          /\ form # None /\ form \in Form
          /\ people' = IF k = None THEN {} ELSE people
          /\ fetching' = (fetching \/ k # None)
          /\ UNCHANGED <<rows, cards, shown>>
        BY <1>6 DEF PickClient, stores, board, BoardInv, FormFits
    <2>2. form' \in Form /\ Matching(form') /\ form'.client = k /\ form' # None
        BY <2>1 DEF Form, Matching
    <2>3. AllGood(bare) /\ LiveFits(bare, form')
        BY UnmountedFits DEF BoardInv
    <2>4. Good(c) /\ c.arg = k
        BY AskingIsGood DEF Call
    <2>5. calls' = bare (+) (IF k = None THEN EmptyBag ELSE SetToBag({c}))
        BY <1>6 DEF PickClient
    <2> HIDE DEF bare, c
    <2>6. AllGood(calls') /\ LiveFits(calls', form')
        <3>1. CASE k = None
            <4>1. calls' = bare (+) SetToBag({})
                BY <2>5, <3>1 DEF EmptyBag
            <4>2. DOMAIN calls' = DOMAIN bare
                BY <4>1, BagMore
            <4> QED
                BY <2>3, <4>2 DEF AllGood, LiveFits
        <3>2. CASE k # None
            BY <2>2, <2>3, <2>4, <2>5, <3>2, MoreFits
        <3> QED
            BY <3>1, <3>2
    <2> QED
        BY <2>1, <2>2, <2>6 DEF BoardInv, FormFits, PeopleFit, AllGood, LiveFits, AllCards, TasksFit
<1>7. ASSUME NEW k \in Clients \cup {"typed"}, PickContact(k)
      PROVE  BoardInv'
    <2>1. /\ form' = [form EXCEPT !.contact = k] /\ form # None /\ form \in Form
          /\ form.client # None => ~fetching /\ k \in people
          /\ UNCHANGED <<rows, cards, shown, people, fetching, calls>>
        BY <1>7 DEF PickContact, stores, board, BoardInv, FormFits
    <2>2. form.client # None => k = form.client
        BY <2>1 DEF BoardInv, PeopleFit
    <2>3. form' \in Form /\ Matching(form') /\ form'.client = form.client /\ form' # None
        BY <2>1, <2>2 DEF Form, Matching
    <2> QED
        BY <2>1, <2>3 DEF BoardInv, FormFits, PeopleFit, AllGood, LiveFits, AllCards, TasksFit
<1> QED
    BY <1>1, <1>2, <1>4, <1>5, <1>6, <1>7

LEMMA TaskActsKeep ==
    ASSUME BoardInv,
           \/ \E t : TaskEdit(t) \/ TaskToggle(t)
           \/ \E done : TaskSave(done)
           \/ TaskCancel
    PROVE  BoardInv'
<1>1. ASSUME NEW op \in TaskChanges, NEW p, NEW arg, NEW ctx,
             calls' = Asked(Call(op, p, arg, ctx)), UNCHANGED <<stores, board, modal>>
      PROVE  BoardInv'
    <2> DEFINE c == Call(op, p, arg, ctx)
    <2>1. Good(c) /\ c.op # "contacts"
        BY AskingIsGood DEF Call, TaskChanges
    <2>2. calls' = calls (+) SetToBag({c})
        BY <1>1 DEF Asked
    <2> HIDE DEF c
    <2>3. AllGood(calls') /\ LiveFits(calls', form)
        BY <2>1, <2>2, MoreFits DEF BoardInv
    <2> QED
        BY <1>1, <2>3, PageKept DEF stores, board, modal
<1>2. ASSUME NEW t, TaskEdit(t) \/ TaskCancel
      PROVE  BoardInv'
    BY <1>2, PageKept DEF TaskEdit, TaskCancel, stores, board, BoardInv, AllGood, LiveFits
<1>3. ASSUME NEW t, TaskToggle(t)
      PROVE  BoardInv'
    BY <1>1, <1>3 DEF TaskToggle, TaskChanges
<1>4. ASSUME NEW done, TaskSave(done)
      PROVE  BoardInv'
    BY <1>1, <1>4 DEF TaskSave, TaskChanges
<1> QED
    BY <1>2, <1>3, <1>4

\* Clearing the contact leaves the form and its client.
LEMMA ClearedFits ==
    ASSUME form \in Form, Matching(form), NEW contacts
    PROVE  /\ Cleared(contacts) \in Form /\ Matching(Cleared(contacts))
           /\ Cleared(contacts).client = form.client
<1>1. CASE Cleared(contacts) = form
    BY <1>1
<1>2. CASE Cleared(contacts) = [form EXCEPT !.contact = None]
    BY <1>2 DEF Form, Matching
<1> QED
    BY <1>1, <1>2 DEF Cleared

\* A list of contacts, or none, for a form that is still there.
LEMMA ContactsKeep ==
    ASSUME BoardInv, form # None, NEW contacts, contacts \subseteq {form.client},
           form' = Cleared(contacts), people' = contacts,
           AllGood(calls'), LiveFits(calls', form),
           UNCHANGED <<rows, cards, shown>>
    PROVE  BoardInv'
<1>1. form \in Form /\ Matching(form) /\ None \notin Form
    BY BoardAssumption DEF BoardInv, FormFits, Form
<1>2. /\ form' \in Form /\ Matching(form') /\ form'.client = form.client
    BY <1>1, ClearedFits
<1>3. form' # None
    BY <1>1, <1>2
<1>4. LiveFits(calls', form')
    BY <1>2, <1>3 DEF LiveFits
<1> QED
    BY <1>2, <1>3, <1>4 DEF BoardInv, AllGood, LiveFits, AllCards, TasksFit, FormFits, Matching,
                            PeopleFit

LEMMA ArrivesKeeps ==
    ASSUME BoardInv, Arrives
    PROVE  BoardInv'
<1> SUFFICES ASSUME NEW call \in InFlight,
                 \/ ListLoaded(call) \/ AllLoaded(call)
                 \/ Moved(call) \/ Saved(call) \/ Deleted(call)
                 \/ TasksArrive(call) \/ TaskSaved(call) \/ ContactsArrive(call)
             PROVE  BoardInv'
    BY DEF Arrives
<1>1. Good(call)
    BY DEF BoardInv, AllGood, InFlight
<1>2. AllGood(Settled(call)) /\ LiveFits(Settled(call), form)
    BY SettledFits DEF BoardInv
<1>3. AllCards(cards) /\ TasksFit(shown)
    BY DEF BoardInv
<1>4. ASSUME calls' = Settled(call), UNCHANGED <<rows, form, people, fetching>>,
             AllCards(cards'), TasksFit(shown')
      PROVE  BoardInv'
    BY <1>2, <1>4 DEF BoardInv, AllGood, LiveFits, AllCards, TasksFit, FormFits, Matching, PeopleFit
<1>5. CASE ListLoaded(call)
    <2> DEFINE c == Call("load tasks", None, None, call.ans)
    <2>1. Shaped(c) /\ c.op = "load tasks" /\ c.ctx = call.ans /\ ~c.done
        BY DEF Call, Shaped
    <2>2. calls' = Settled(call) (+) SetToBag({c}) /\ UNCHANGED <<stores, board, modal>>
        BY <1>5 DEF ListLoaded
    <2> HIDE DEF c
    <2>3. Good(c)
        BY <1>1, <1>5, <2>1 DEF Good, ListLoaded
    <2>4. AllGood(calls') /\ LiveFits(calls', form)
        BY <2>1, <2>2, <2>3, SettledMoreFits
    <2> QED
        BY <2>2, <2>4, PageKept DEF stores, board, modal
<1>6. CASE AllLoaded(call)
    BY <1>1, <1>4, <1>6 DEF AllLoaded, Good, stores, modal
<1>7. CASE Moved(call)
    <2>1. AllCards(cards')
        BY <1>1, <1>3, <1>7 DEF Moved, Good, Replaced, AllCards
    <2> QED
        BY <1>3, <1>4, <1>7, <2>1 DEF Moved, stores, modal, TasksFit
<1>8. CASE Saved(call)
    <2>1. AllCards(cards')
        BY <1>1, <1>3, <1>8 DEF Saved, Good, Replaced, With, AllCards
    <2>2. TasksFit(shown')
        BY <1>3, <1>8 DEF Saved, TasksFit
    <2> QED
        BY <1>2, <1>8, <2>1, <2>2, ClosedKeeps DEF Saved, AfterSave, stores
<1>9. CASE Deleted(call)
    <2>1. AllCards(cards') /\ TasksFit(shown')
        BY <1>3, <1>9 DEF Deleted, Without, AllCards, TasksFit
    <2> QED
        BY <1>2, <1>9, <2>1, ClosedKeeps DEF Deleted, AfterSave, stores
<1>10. CASE TasksArrive(call)
    <2>1. TasksFit(shown')
        BY <1>1, <1>3, <1>10 DEF TasksArrive, Good, With, TasksFit
    <2> QED
        BY <1>3, <1>4, <1>10, <2>1 DEF TasksArrive, stores, modal, AllCards
<1>11. CASE TaskSaved(call)
    <2>1. \A t \in ShownTasks(call.proj) : t.proj = call.proj
        BY <1>3 DEF ShownTasks, TasksFit
    <2>2. call.ans.proj = call.proj
        BY <1>1, <1>11 DEF TaskSaved, Good
    <2>3. TasksFit(shown')
        BY <1>3, <1>11, <2>1, <2>2 DEF TaskSaved, With, TasksFit
    <2> QED
        BY <1>3, <1>4, <1>11, <2>3 DEF TaskSaved, stores, AllCards
<1>12. CASE ContactsArrive(call)
    <2>1. call.live => form # None /\ call.ans = {form.client}
        BY <1>1, <1>12 DEF ContactsArrive, Good, BoardInv, LiveFits, InFlight
    <2>2. calls' = Settled(call) /\ UNCHANGED <<rows, cards, shown>>
        BY <1>12 DEF ContactsArrive, stores, board
    <2>3. CASE call.live
        BY <1>2, <1>12, <2>1, <2>2, <2>3, ContactsKeep DEF ContactsArrive
    <2>4. CASE ~call.live
        BY <1>3, <1>4, <1>12, <2>2, <2>4 DEF ContactsArrive
    <2> QED
        BY <2>3, <2>4
<1> QED
    BY <1>5, <1>6, <1>7, <1>8, <1>9, <1>10, <1>11, <1>12

LEMMA FailsKeeps ==
    ASSUME BoardInv, Fails
    PROVE  BoardInv'
<1> SUFFICES ASSUME NEW call \in InFlight,
                 \/ LoadFails(call) \/ MoveFails(call) \/ SaveFails(call)
                 \/ TasksFail(call) \/ TaskFails(call) \/ ContactsFail(call)
             PROVE  BoardInv'
    BY DEF Fails
<1>1. Good(call) /\ calls' = Settled(call)
    BY DEF BoardInv, AllGood, InFlight, LoadFails, MoveFails, SaveFails, TasksFail, TaskFails,
           ContactsFail
<1>2. AllGood(calls') /\ LiveFits(calls', form)
    BY <1>1, SettledFits DEF BoardInv
<1>3. CASE MoveFails(call)
    BY <1>1, <1>2, <1>3 DEF MoveFails, Good, stores, modal, BoardInv, AllGood, LiveFits,
                           AllCards, TasksFit, FormFits, Matching, PeopleFit
<1>4. CASE ContactsFail(call)
    <2>1. UNCHANGED <<rows, cards, shown>>
        BY <1>4 DEF ContactsFail, stores, board
    <2>2. CASE call.live
        <3>1. form # None
            BY <1>4, <2>2 DEF ContactsFail, BoardInv, LiveFits, InFlight
        <3> QED
            BY <1>2, <1>4, <2>1, <2>2, <3>1, ContactsKeep DEF ContactsFail
    <2>3. CASE ~call.live
        BY <1>2, <1>4, <2>1, <2>3 DEF ContactsFail, BoardInv, AllGood, LiveFits, AllCards,
                                       TasksFit, FormFits, Matching, PeopleFit
    <2> QED
        BY <2>2, <2>3
<1>5. CASE LoadFails(call) \/ SaveFails(call) \/ TasksFail(call) \/ TaskFails(call)
    BY <1>2, <1>5, PageKept DEF LoadFails, SaveFails, TasksFail, TaskFails, stores, board, modal
<1> QED
    BY <1>3, <1>4, <1>5

LEMMA BoardNext == BoardInv /\ [Next]_vars => BoardInv'
<1> SUFFICES ASSUME BoardInv, [Next]_vars PROVE BoardInv'
    OBVIOUS
<1>1. CASE User
    <2>1. CASE OnBoard
        <3>1. "lead" \in Stages
            BY DEF Stages
        <3> QED
            BY <2>1, <3>1, BoardActsKeep, OpeningKeeps
            DEF OnBoard, Toolbar, ProjectCardView, Column, ListView, GanttView
    <2>2. CASE InModal
        BY <2>2, ModalActsKeep DEF InModal
    <2>3. CASE TaskList \/ TaskForm
        BY <2>3, TaskActsKeep DEF TaskList, TaskForm
    <2> QED
        BY <1>1, <2>1, <2>2, <2>3 DEF User
<1>2. CASE Server \/ Arrives \/ Fails \/ QueryOpens
    BY <1>2, ServerKeeps, ArrivesKeeps, FailsKeeps, QueryKeeps
<1>3. CASE UNCHANGED vars
    BY <1>3, PageKept DEF vars, stores, board, modal, BoardInv, AllGood, LiveFits
<1> QED
    BY <1>1, <1>2, <1>3 DEF Next

LEMMA BoardAlways == Spec => []BoardInv
BY BoardInit, BoardNext, PTL DEF Spec

-----------------------------------------------------------------------------
(* The board once nothing is under way *)

\* What a request of the board, the only one under way, tells of its outcome.
Fits(c) ==
    /\ c.op = "load" /\ c.done => c.ans = rows
    /\ c.op = "load tasks" => c.ctx = rows
    /\ c.op \in {"create", "update", "delete"} /\ ~c.done => cards = rows
    /\ c.op = "move" /\ ~c.done =>
        /\ c.ctx = rows
        /\ cards = IF c.proj \in DOMAIN rows THEN [rows EXCEPT ![c.proj].stage = c.arg]
                   ELSE rows
    /\ c.op = "create" /\ c.done => rows = With(cards, c.proj, c.ans)
    /\ c.op \in {"update", "move"} /\ c.done => rows = Replaced(c.proj, c.ans)
    /\ c.op = "delete" /\ c.done => rows = Without(cards, c.proj)

\* Nothing on its way means that the board is accurate; one request on its way
\* that it will be, whichever way it ends.
Awaited ==
    /\ BoardCalls = {} => cards = rows
    /\ \A c, d \in BoardCalls : c = d
    /\ \A c \in BoardCalls : calls[c] = 1 /\ Fits(c)

QuietInv == IsABag(calls) /\ (~muddled => Awaited)

\* Two bags with the same requests of the board.
SameBoard(B, D) ==
    \A c : c.op \in BoardOps =>
        (c \in DOMAIN B <=> c \in DOMAIN D) /\ (c \in DOMAIN B => B[c] = D[c])

LEMMA OneMore ==
    ASSUME NEW B, IsABag(B), NEW c, calls' = B (+) SetToBag({c})
    PROVE  /\ IsABag(calls') /\ DOMAIN calls' = DOMAIN B \cup {c}
           /\ c \notin DOMAIN B => calls'[c] = 1
BY DEF IsABag, (+), SetToBag

LEMMA OneLess ==
    ASSUME NEW B, IsABag(B), NEW c, NEW D, D = B (-) SetToBag({c})
    PROVE  /\ IsABag(D) /\ DOMAIN D \subseteq DOMAIN B
           /\ \A x \in DOMAIN B : x # c => x \in DOMAIN D /\ D[x] = B[x]
           /\ c \in DOMAIN B /\ B[c] = 1 => c \notin DOMAIN D
BY DEF IsABag, (-), SetToBag

\* Cleaning up the effects of the modal leaves the requests of the board alone.
LEMMA UnmountedKeeps ==
    ASSUME NEW B, IsABag(B), AllGood(B), NEW ops, ops \cap BoardOps = {},
           NEW D, D = Unmounted(B, ops)
    PROVE  IsABag(D) /\ SameBoard(B, D)
<1> DEFINE ended == {c \in DOMAIN B : c.op \in ops /\ c.live}
           dead  == {[c EXCEPT !.live = FALSE] : c \in ended}
           E == [c \in DOMAIN B \ ended |-> B[c]]
           F == [c \in dead |-> B[[c EXCEPT !.live = TRUE]]]
<1>1. D = E (+) F
    BY DEF Unmounted
<1>2. ASSUME NEW d \in dead
      PROVE  d.op \in ops /\ [d EXCEPT !.live = TRUE] \in DOMAIN B
    <2>1. PICK c \in ended : d = [c EXCEPT !.live = FALSE]
        OBVIOUS
    <2>2. Shaped(c) /\ c.op \in ops /\ c.live = TRUE /\ c \in DOMAIN B
        BY DEF AllGood, Good
    <2>3. d.op = c.op /\ [d EXCEPT !.live = TRUE] = c
        BY <2>1, <2>2 DEF Shaped
    <2> QED
        BY <2>2, <2>3
<1>3. IsABag(E) /\ IsABag(F)
    BY <1>2 DEF IsABag
<1>4. \A c : c.op \in BoardOps =>
          (c \in DOMAIN B <=> c \in DOMAIN E) /\ (c \in DOMAIN B => B[c] = E[c])
    OBVIOUS
<1>5. \A c : c.op \in BoardOps => c \notin DOMAIN F
    BY <1>2
<1> HIDE DEF ended, dead, E, F
<1>6. IsABag(D)
    BY <1>1, <1>3 DEF IsABag, (+)
<1>7. ASSUME NEW c, c.op \in BoardOps
      PROVE  (c \in DOMAIN E <=> c \in DOMAIN D) /\ (c \in DOMAIN E => E[c] = D[c])
    BY <1>1, <1>3, <1>5, <1>7 DEF IsABag, (+)
<1> QED
    BY <1>4, <1>6, <1>7 DEF SameBoard

\* Steps that leave the board and its requests alone.
LEMMA QuietStays ==
    ASSUME QuietInv, IsABag(calls'), SameBoard(calls, calls'), UNCHANGED <<rows, cards>>,
           muddled => muddled'
    PROVE  QuietInv'
<1>1. ASSUME NEW c
      PROVE  Fits(c) <=> Fits(c)'
    BY DEF Fits, Replaced
<1>2. BoardCalls' = BoardCalls /\ \A c \in BoardCalls : calls'[c] = calls[c]
    BY DEF BoardCalls, InFlight, SameBoard
<1>3. Awaited => Awaited'
    BY <1>1, <1>2 DEF Awaited
<1> QED
    BY <1>3 DEF QuietInv

LEMMA QuietKept ==
    ASSUME QuietInv, UNCHANGED <<rows, cards, calls, muddled>>
    PROVE  QuietInv'
BY QuietStays DEF SameBoard, QuietInv

\* A request that is not of the board is sent, answered or settled.
LEMMA OtherAsked ==
    ASSUME NEW B, IsABag(B), NEW c, c.op \notin BoardOps
    PROVE  /\ IsABag(B (+) SetToBag({c})) /\ SameBoard(B, B (+) SetToBag({c}))
           /\ IsABag(B (-) SetToBag({c})) /\ SameBoard(B, B (-) SetToBag({c}))
<1>1. IsABag(B (+) SetToBag({c})) /\ IsABag(B (-) SetToBag({c}))
    BY DEF IsABag, (+), (-), SetToBag
<1>2. SameBoard(B, B (+) SetToBag({c})) /\ SameBoard(B, B (-) SetToBag({c}))
    BY DEF SameBoard, IsABag, (+), (-), SetToBag
<1> QED
    BY <1>1, <1>2

LEMMA SameAgain ==
    ASSUME NEW B, NEW D, NEW E, SameBoard(B, D), SameBoard(D, E)
    PROVE  SameBoard(B, E)
BY DEF SameBoard

\* A change is sent: alone, or the board is muddled.
LEMMA QuietAsks ==
    ASSUME QuietInv, NEW c, c.op \in Changes, Change(c),
           ~muddled /\ cards = rows => Fits(c)'
    PROVE  QuietInv'
<1>1. calls' = calls (+) SetToBag({c}) /\ IsABag(calls)
    BY DEF Change, Asked, QuietInv
<1>2. /\ IsABag(calls') /\ DOMAIN calls' = DOMAIN calls \cup {c}
      /\ c \notin DOMAIN calls => calls'[c] = 1
    BY <1>1, OneMore
<1>3. ASSUME ~muddled'
      PROVE  Awaited'
    <2>1. ~muddled /\ \A x \in DOMAIN calls : x.op \notin BoardOps
        BY <1>3 DEF Change, BoardCalls, InFlight
    <2>2. c.op \in BoardOps
        BY DEF BoardOps
    <2>3. Fits(c)' /\ c \notin DOMAIN calls
        BY <2>1, <2>2 DEF QuietInv, Awaited, BoardCalls, InFlight
    <2> QED
        BY <1>2, <2>1, <2>2, <2>3 DEF Awaited, BoardCalls, InFlight
<1> QED
    BY <1>2, <1>3 DEF QuietInv

\* A request of the board is followed by its answer, or by the next request.
LEMMA QuietAnswers ==
    ASSUME QuietInv, NEW call \in BoardCalls, NEW d, d.op \in BoardOps, d # call,
           calls' = Settled(call) (+) SetToBag({d}), muddled' = muddled,
           ~muddled /\ Fits(call) => Fits(d)'
    PROVE  QuietInv'
<1> DEFINE L == Settled(call)
<1>1. IsABag(calls) /\ call \in DOMAIN calls /\ call.op \in BoardOps
    BY DEF QuietInv, BoardCalls, InFlight
<1>2. /\ IsABag(L) /\ DOMAIN L \subseteq DOMAIN calls
      /\ calls[call] = 1 => call \notin DOMAIN L
    BY <1>1, OneLess DEF Settled
<1>2a. calls' = L (+) SetToBag({d})
    OBVIOUS
<1> HIDE DEF L
<1>3. /\ IsABag(calls') /\ DOMAIN calls' = DOMAIN L \cup {d}
      /\ d \notin DOMAIN L => calls'[d] = 1
    BY <1>2, <1>2a, OneMore
<1>4. ASSUME ~muddled
      PROVE  Awaited'
    <2>1. /\ \A x \in DOMAIN calls : x.op \in BoardOps => x = call
          /\ calls[call] = 1 /\ Fits(call)
        BY <1>1, <1>4 DEF QuietInv, Awaited, BoardCalls, InFlight
    <2>2. \A x \in DOMAIN L : x.op \notin BoardOps
        BY <1>2, <2>1
    <2>3. Fits(d)' /\ d \notin DOMAIN L
        BY <1>4, <2>1, <2>2
    <2> QED
        BY <1>3, <2>2, <2>3 DEF Awaited, BoardCalls, InFlight
<1> QED
    BY <1>3, <1>4 DEF QuietInv

\* The last word of a request of the board.
LEMMA QuietEnds ==
    ASSUME QuietInv, NEW call \in BoardCalls,
           IsABag(calls'), SameBoard(Settled(call), calls'), muddled => muddled',
           ~muddled' /\ Fits(call) => cards' = rows'
    PROVE  QuietInv'
<1> DEFINE L == Settled(call)
<1>1. IsABag(calls) /\ call \in DOMAIN calls /\ call.op \in BoardOps
    BY DEF QuietInv, BoardCalls, InFlight
<1>2. /\ DOMAIN L \subseteq DOMAIN calls
      /\ calls[call] = 1 => call \notin DOMAIN L
    BY <1>1, OneLess DEF Settled
<1>3. SameBoard(L, calls')
    OBVIOUS
<1> HIDE DEF L
<1>4. ASSUME ~muddled'
      PROVE  Awaited'
    <2>1. /\ \A x \in DOMAIN calls : x.op \in BoardOps => x = call
          /\ calls[call] = 1 /\ Fits(call)
        BY <1>1, <1>4 DEF QuietInv, Awaited, BoardCalls, InFlight
    <2>2. \A x \in DOMAIN L : x.op \notin BoardOps
        BY <1>2, <2>1
    <2>3. \A x \in DOMAIN calls' : x.op \notin BoardOps
        BY <1>3, <2>2 DEF SameBoard
    <2>4. cards' = rows'
        BY <1>4, <2>1
    <2> QED
        BY <2>3, <2>4 DEF Awaited, BoardCalls, InFlight
<1> QED
    BY <1>4 DEF QuietInv

\* Requests that are not of the board, one settled and others sent.
LEMMA OthersStay ==
    ASSUME QuietInv, NEW B, IsABag(B), SameBoard(calls, B), NEW c, c.op \notin BoardOps,
           \/ calls' = B
           \/ calls' = B (+) SetToBag({c})
           \/ calls' = B (-) SetToBag({c})
           \/ calls' = B (+) EmptyBag,
           UNCHANGED <<rows, cards>>, muddled => muddled'
    PROVE  QuietInv'
<1>1. IsABag(B (+) SetToBag({c})) /\ SameBoard(calls, B (+) SetToBag({c}))
    BY OtherAsked, SameAgain
<1>2. IsABag(B (-) SetToBag({c})) /\ SameBoard(calls, B (-) SetToBag({c}))
    BY OtherAsked, SameAgain
<1>3. IsABag(B (+) EmptyBag) /\ SameBoard(B, B (+) EmptyBag)
    BY DEF IsABag, SameBoard, (+), EmptyBag, SetToBag
<1>4. SameBoard(calls, B (+) EmptyBag)
    BY <1>3, SameAgain
<1>5. IsABag(calls') /\ SameBoard(calls, calls')
    BY <1>1, <1>2, <1>3, <1>4
<1> QED
    BY <1>5, QuietStays

LEMMA OtherAnswered ==
    ASSUME QuietInv, NEW call, call.op \notin BoardOps, NEW d, d.op \notin BoardOps,
           calls' = Settled(call) (+) SetToBag({d}), UNCHANGED <<rows, cards, muddled>>
    PROVE  QuietInv'
<1> DEFINE B == Settled(call)
<1>1. IsABag(B) /\ SameBoard(calls, B)
    BY OtherAsked DEF Settled, QuietInv
<1>2. calls' = B (+) SetToBag({d})
    OBVIOUS
<1> HIDE DEF B
<1> QED
    BY <1>1, <1>2, OthersStay

LEMMA QuietServer ==
    ASSUME BoardInv, QuietInv, Server
    PROVE  QuietInv'
<1> SUFFICES ASSUME NEW call \in InFlight,
                 \/ AnswersList(call) \/ AnswersAllTasks(call) \/ AnswersTasks(call)
                 \/ AnswersContacts(call)
                 \/ Stores(call) \/ Deletes(call) \/ StoresTask(call)
             PROVE  QuietInv'
    BY DEF Server
<1>1. Shaped(call)
    BY DEF BoardInv, AllGood, Good, InFlight
<1>2. ASSUME NEW ans, Answered(call, ans), ~call.done, UNCHANGED <<cards, muddled>>,
             IF call.op \in BoardOps
             THEN ~muddled /\ Fits(call) =>
                    \A d : /\ d.op = call.op /\ d.proj = call.proj /\ d.ctx = call.ctx
                          /\ d.done /\ d.ans = ans
                          => Fits(d)'
             ELSE rows' = rows
      PROVE  QuietInv'
    <2> DEFINE d == [call EXCEPT !.done = TRUE, !.ans = ans]
    <2>1. /\ d.op = call.op /\ d.proj = call.proj /\ d.ctx = call.ctx
          /\ d.done /\ d.ans = ans
        BY <1>1 DEF Shaped
    <2>2. calls' = Settled(call) (+) SetToBag({d})
        BY <1>2 DEF Answered
    <2> HIDE DEF d
    <2>3. d # call
        BY <1>2, <2>1
    <2>4. CASE call.op \in BoardOps
        <3>1. call \in BoardCalls
            BY <2>4 DEF BoardCalls
        <3>2. ~muddled /\ Fits(call) => Fits(d)'
            BY <1>2, <2>1, <2>4
        <3> QED
            BY <1>2, <2>1, <2>2, <2>3, <2>4, <3>1, <3>2, QuietAnswers
    <2>5. CASE call.op \notin BoardOps
        BY <1>2, <2>1, <2>2, <2>5, OtherAnswered
    <2> QED
        BY <2>4, <2>5
<1>3. UNCHANGED <<cards, muddled>> /\ ~call.done
    BY DEF AnswersList, AnswersAllTasks, AnswersTasks, AnswersContacts, Stores, Deletes, StoresTask,
           board
<1>4. CASE AnswersList(call)
    BY <1>2, <1>3, <1>4 DEF AnswersList, stores, Fits, BoardOps, Changes
<1>5. CASE AnswersAllTasks(call)
    BY <1>2, <1>3, <1>5 DEF AnswersAllTasks, stores, Fits, BoardOps, Changes
<1>6. CASE AnswersTasks(call)
    BY <1>2, <1>3, <1>6 DEF AnswersTasks, stores, BoardOps, Changes
<1>7. CASE AnswersContacts(call)
    BY <1>2, <1>3, <1>7 DEF AnswersContacts, stores, BoardOps, Changes
<1>8. CASE Stores(call)
    <2> DEFINE p   == call.proj
               row == IF call.op = "move" THEN [rows[p] EXCEPT !.stage = call.arg]
                      ELSE call.arg
    <2>1. /\ rows' = With(rows, p, row) /\ Answered(call, row)
          /\ call.op \in {"create", "update", "move"}
          /\ call.op = "create" <=> p \notin DOMAIN rows
        BY <1>8 DEF Stores
    <2>2. ASSUME Fits(call), NEW d, d.op = call.op, d.proj = p, d.done, d.ans = row
          PROVE  Fits(d)'
        <3>1. CASE call.op = "create"
            BY <1>3, <2>1, <2>2, <3>1 DEF Fits, With
        <3>2. CASE call.op = "update"
            BY <1>3, <2>1, <2>2, <3>2 DEF Fits, With, Replaced
        <3>3. CASE call.op = "move"
            <4>1. p \in DOMAIN rows /\ cards = [rows EXCEPT ![p].stage = call.arg]
                BY <1>3, <2>1, <2>2, <3>3 DEF Fits
            <4>2. rows' = Replaced(d.proj, d.ans)'
                BY <1>3, <2>1, <2>2, <4>1 DEF With, Replaced
            <4> HIDE DEF row
            <4> QED
                BY <2>2, <3>3, <4>2 DEF Fits
        <3> QED
            BY <2>1, <3>1, <3>2, <3>3
    <2>3. call.op \in BoardOps
        BY <2>1 DEF BoardOps, Changes
    <2> HIDE DEF row
    <2> QED
        BY <1>2, <1>3, <2>1, <2>2, <2>3
<1>9. CASE Deletes(call)
    BY <1>2, <1>3, <1>9 DEF Deletes, Fits, Without, BoardOps, Changes
<1>10. CASE StoresTask(call)
    BY <1>2, <1>3, <1>10 DEF StoresTask, TaskChanges, BoardOps, Changes
<1> QED
    BY <1>4, <1>5, <1>6, <1>7, <1>8, <1>9, <1>10

LEMMA QuietArrives ==
    ASSUME BoardInv, QuietInv, Arrives
    PROVE  QuietInv'
<1> SUFFICES ASSUME NEW call \in InFlight,
                 \/ ListLoaded(call) \/ AllLoaded(call)
                 \/ Moved(call) \/ Saved(call) \/ Deleted(call)
                 \/ TasksArrive(call) \/ TaskSaved(call) \/ ContactsArrive(call)
             PROVE  QuietInv'
    BY DEF Arrives
<1>1. IsABag(Settled(call)) /\ AllGood(Settled(call)) /\ IsABag(calls)
    BY OneLess, SettledFits DEF Settled, QuietInv, BoardInv
<1>2. call.op \in BoardOps => call \in BoardCalls
    BY DEF BoardCalls
<1>3. SameBoard(Settled(call), Settled(call)) /\ SameBoard(calls, calls)
    BY DEF SameBoard
<1>4. CASE ListLoaded(call)
    <2> DEFINE d == Call("load tasks", None, None, call.ans)
    <2>1. d.op = "load tasks" /\ d.ctx = call.ans /\ ~d.done
        BY DEF Call
    <2>2. /\ calls' = Settled(call) (+) SetToBag({d}) /\ UNCHANGED <<rows, cards, muddled>>
          /\ call.op = "load" /\ call.done
        BY <1>4 DEF ListLoaded, stores, board
    <2> HIDE DEF d
    <2>3. Fits(call) => Fits(d)'
        BY <2>1, <2>2 DEF Fits
    <2>4. d.op \in BoardOps /\ call \in BoardCalls /\ d # call
        BY <1>2, <2>1, <2>2 DEF BoardOps
    <2> QED
        BY <2>2, <2>3, <2>4, QuietAnswers
<1>5. CASE AllLoaded(call) \/ Moved(call)
    <2>1. /\ calls' = Settled(call) /\ muddled' = muddled /\ call \in BoardCalls
          /\ Fits(call) => cards' = rows'
        BY <1>2, <1>5 DEF AllLoaded, Moved, Fits, stores, BoardOps, Changes
    <2> QED
        BY <1>1, <1>3, <2>1, QuietEnds
<1>6. CASE Saved(call) \/ Deleted(call)
    <2>1. /\ calls' = Unmounted(Settled(call), {"tasks", "contacts"})
          /\ muddled' = muddled /\ call \in BoardCalls
          /\ Fits(call) => cards' = rows'
        BY <1>2, <1>6 DEF Saved, Deleted, AfterSave, Fits, stores, BoardOps, Changes
    <2>2. {"tasks", "contacts"} \cap BoardOps = {}
        BY DEF BoardOps, Changes
    <2>3. IsABag(calls') /\ SameBoard(Settled(call), calls')
        BY <1>1, <2>1, <2>2, UnmountedKeeps
    <2> QED
        BY <2>1, <2>3, QuietEnds
<1>7. CASE TasksArrive(call) \/ TaskSaved(call) \/ ContactsArrive(call)
    <2>1. /\ calls' = calls (-) SetToBag({call}) /\ UNCHANGED <<rows, cards, muddled>>
          /\ call.op \notin BoardOps
        BY <1>7 DEF TasksArrive, TaskSaved, ContactsArrive, Settled, stores, board, BoardOps, Changes,
                   TaskChanges
    <2> QED
        BY <1>1, <1>3, <2>1, OthersStay
<1> QED
    BY <1>4, <1>5, <1>6, <1>7

LEMMA QuietFails ==
    ASSUME BoardInv, QuietInv, Fails
    PROVE  QuietInv'
<1> SUFFICES ASSUME NEW call \in InFlight,
                 \/ LoadFails(call) \/ MoveFails(call) \/ SaveFails(call)
                 \/ TasksFail(call) \/ TaskFails(call) \/ ContactsFail(call)
             PROVE  QuietInv'
    BY DEF Fails
<1>1. IsABag(Settled(call)) /\ IsABag(calls)
    BY OneLess DEF Settled, QuietInv
<1>2. call.op \in BoardOps => call \in BoardCalls
    BY DEF BoardCalls
<1>3. SameBoard(Settled(call), Settled(call)) /\ SameBoard(calls, calls)
    BY DEF SameBoard
<1>4. CASE LoadFails(call) \/ MoveFails(call) \/ SaveFails(call)
    <2>1. calls' = Settled(call) /\ (muddled => muddled')
        BY <1>4 DEF LoadFails, MoveFails, SaveFails, Lost
    <2>2. call \in BoardCalls
        BY <1>2, <1>4 DEF LoadFails, MoveFails, SaveFails, BoardOps, Changes
    <2>3. ~muddled' /\ Fits(call) => cards' = rows'
        <3>1. CASE LoadFails(call)
            BY <3>1 DEF LoadFails
        <3>2. CASE MoveFails(call)
            BY <3>2 DEF MoveFails, Lost, Fits, stores
        <3>3. CASE SaveFails(call)
            BY <3>3 DEF SaveFails, Lost, Fits, stores, board
        <3> QED
            BY <1>4, <3>1, <3>2, <3>3
    <2> QED
        BY <1>1, <1>3, <2>1, <2>2, <2>3, QuietEnds
<1>5. CASE TasksFail(call) \/ TaskFails(call) \/ ContactsFail(call)
    <2>1. /\ calls' = calls (-) SetToBag({call}) /\ UNCHANGED <<rows, cards, muddled>>
          /\ call.op \notin BoardOps
        BY <1>5 DEF TasksFail, TaskFails, ContactsFail, Settled, stores, board, BoardOps, Changes,
                   TaskChanges
    <2> QED
        BY <1>1, <1>3, <2>1, OthersStay
<1> QED
    BY <1>4, <1>5

\* Cards that move, and changes that are sent.
LEMMA QuietChanges ==
    ASSUME BoardInv, QuietInv,
           Save \/ Delete \/ \E stage \in Stages : Drop(stage)
    PROVE  QuietInv'
<1>1. ASSUME NEW op \in {"create", "update", "delete"}, NEW p, NEW arg,
             Change(Call(op, p, arg, None)), UNCHANGED <<rows, cards>>
      PROVE  QuietInv'
    <2> DEFINE c == Call(op, p, arg, None)
    <2>1. c.op = op /\ ~c.done /\ Change(c)
        BY <1>1 DEF Call
    <2> HIDE DEF c
    <2>2. c.op \in Changes
        BY <2>1 DEF Changes
    <2>3. cards = rows => Fits(c)'
        BY <1>1, <2>1 DEF Fits
    <2> QED
        BY <2>1, <2>2, <2>3, QuietAsks
<1>2. CASE Save
    BY <1>1, <1>2 DEF Save, stores, board
<1>3. CASE Delete
    BY <1>1, <1>3 DEF Delete, stores, board
<1>4. ASSUME NEW stage \in Stages, Drop(stage)
      PROVE  QuietInv'
    <2>1. PICK c : c = Call("move", drag, stage, cards)
        OBVIOUS
    <2>2. c.op = "move" /\ ~c.done /\ c.proj = drag /\ c.arg = stage /\ c.ctx = cards
        BY <2>1 DEF Call
    <2>3. Change(c) /\ c.op \in Changes
        BY <1>4, <2>1, <2>2 DEF Drop, Changes
    <2>4. /\ rows' = rows
          /\ cards' = IF c.proj \in DOMAIN cards THEN [cards EXCEPT ![c.proj].stage = c.arg]
                      ELSE cards
        BY <1>4, <2>2 DEF Drop, stores
    <2>5. cards = rows => Fits(c)'
        BY <2>2, <2>4 DEF Fits
    <2> QED
        BY <2>3, <2>5, QuietAsks
<1> QED
    BY <1>2, <1>3, <1>4

\* The modal opens on top of what else is sent.
LEMMA QuietOpened ==
    ASSUME QuietInv, NEW f, NEW bag, IsABag(bag), SameBoard(calls, bag), Opened(f, bag),
           UNCHANGED <<rows, cards, muddled>>
    PROVE  QuietInv'
<1> DEFINE c == Call("contacts", None, f.client, None)
<1>1. c.op \notin BoardOps
    BY DEF Call, BoardOps, Changes
<1>2. calls' = bag (+) EmptyBag \/ calls' = bag (+) SetToBag({c})
    BY DEF Opened
<1> HIDE DEF c
<1> QED
    BY <1>1, <1>2, OthersStay

LEMMA QuietOpens ==
    ASSUME BoardInv, QuietInv,
           \/ \E stage : OpenNew(stage)
           \/ \E p : OpenExisting(p)
           \/ QueryOpens
    PROVE  QuietInv'
<1>1. IsABag(calls) /\ SameBoard(calls, calls) /\ AllGood(calls)
    BY DEF QuietInv, SameBoard, BoardInv
<1>2. ASSUME NEW stage, OpenNew(stage)
      PROVE  QuietInv'
    <2>1. /\ UNCHANGED <<rows, cards, muddled>>
          /\ \E f : Opened(f, calls)
        BY <1>2 DEF OpenNew, stores, board
    <2> QED
        BY <1>1, <2>1, QuietOpened
<1>3. ASSUME NEW p, OpenExisting(p)
      PROVE  QuietInv'
    <2>1. PICK c : c = Call("tasks", p, None, None)
        OBVIOUS
    <2>2. c.op \notin BoardOps
        BY <2>1 DEF Call, BoardOps, Changes
    <2>3. PICK B : B = calls (+) SetToBag({c})
        OBVIOUS
    <2>4. IsABag(B) /\ SameBoard(calls, B)
        BY <1>1, <2>2, <2>3, OtherAsked
    <2>5. /\ UNCHANGED <<rows, cards, muddled>>
          /\ \E f : Opened(f, B)
        BY <1>3, <2>1, <2>3 DEF OpenExisting, Asked, stores, board
    <2> QED
        BY <2>4, <2>5, QuietOpened
<1>4. CASE QueryOpens
    <2> DEFINE card == cards[query]
               kept == form # None /\ form.client = card.client
    <2>1. PICK c : c = Call("contacts", None, card.client, None)
        OBVIOUS
    <2>2. PICK t : t = Call("tasks", query, None, None)
        OBVIOUS
    <2>3. c.op \notin BoardOps /\ t.op \notin BoardOps
        BY <2>1, <2>2 DEF Call, BoardOps, Changes
    <2>4. PICK D, E : D = Unmounted(calls, {"tasks"}) /\ E = Unmounted(calls, {"tasks", "contacts"})
        OBVIOUS
    <2>5. {"tasks"} \cap BoardOps = {} /\ {"tasks", "contacts"} \cap BoardOps = {}
        BY DEF BoardOps, Changes
    <2>6. IsABag(D) /\ SameBoard(calls, D) /\ IsABag(E) /\ SameBoard(calls, E)
        BY <1>1, <2>4, <2>5, UnmountedKeeps
    <2>7. IsABag(E (+) EmptyBag) /\ SameBoard(E, E (+) EmptyBag)
        BY <2>6 DEF IsABag, SameBoard, (+), EmptyBag, SetToBag
    <2>8. IsABag(E (+) SetToBag({c})) /\ SameBoard(E, E (+) SetToBag({c}))
        BY <2>3, <2>6, OtherAsked
    <2>9. PICK B : /\ B = IF kept THEN D
                         ELSE E (+) (IF card.client = None THEN EmptyBag ELSE SetToBag({c}))
        OBVIOUS
    <2>10. IsABag(B) /\ SameBoard(calls, B)
        BY <2>6, <2>7, <2>8, <2>9, SameAgain
    <2>11. calls' = B (+) SetToBag({t}) /\ UNCHANGED <<rows, cards, muddled>>
        BY <1>4, <2>1, <2>2, <2>4, <2>9 DEF QueryOpens, stores
    <2> QED
        BY <2>3, <2>10, <2>11, OthersStay
<1> QED
    BY <1>2, <1>3, <1>4

LEMMA QuietModal ==
    ASSUME BoardInv, QuietInv,
           Close \/ \E k : PickClient(k)
    PROVE  QuietInv'
<1>1. IsABag(calls) /\ AllGood(calls)
    BY DEF QuietInv, BoardInv
<1>2. CASE Close
    <2>1. {"tasks", "contacts"} \cap BoardOps = {}
        BY DEF BoardOps, Changes
    <2>2. calls' = Unmounted(calls, {"tasks", "contacts"}) /\ UNCHANGED <<rows, cards, muddled>>
        BY <1>2 DEF Close, stores, board
    <2>3. IsABag(calls') /\ SameBoard(calls, calls')
        BY <1>1, <2>1, <2>2, UnmountedKeeps
    <2> QED
        BY <2>2, <2>3, QuietStays
<1>3. ASSUME NEW k, PickClient(k)
      PROVE  QuietInv'
    <2>1. PICK c : c = Call("contacts", None, k, None)
        OBVIOUS
    <2>2. PICK B : B = Unmounted(calls, {"contacts"})
        OBVIOUS
    <2>3. c.op \notin BoardOps /\ {"contacts"} \cap BoardOps = {}
        BY <2>1 DEF Call, BoardOps, Changes
    <2>4. IsABag(B) /\ SameBoard(calls, B)
        BY <1>1, <2>2, <2>3, UnmountedKeeps
    <2>5. /\ calls' = B (+) (IF k = None THEN EmptyBag ELSE SetToBag({c}))
          /\ UNCHANGED <<rows, cards, muddled>>
        BY <1>3, <2>1, <2>2 DEF PickClient, stores, board
    <2>6. calls' = B (+) EmptyBag \/ calls' = B (+) SetToBag({c})
        BY <2>5
    <2> QED
        BY <2>3, <2>4, <2>5, <2>6, OthersStay
<1> QED
    BY <1>2, <1>3

LEMMA QuietTasks ==
    ASSUME QuietInv,
           \/ \E t : TaskToggle(t)
           \/ \E done : TaskSave(done)
    PROVE  QuietInv'
<1>1. ASSUME NEW op \in TaskChanges, NEW p, NEW arg, NEW ctx,
             calls' = Asked(Call(op, p, arg, ctx)), UNCHANGED <<rows, cards, muddled>>
      PROVE  QuietInv'
    <2>1. PICK c : c = Call(op, p, arg, ctx)
        OBVIOUS
    <2>2. c.op \notin BoardOps
        BY <2>1 DEF Call, BoardOps, Changes, TaskChanges
    <2>3. calls' = calls (+) SetToBag({c})
        BY <1>1, <2>1 DEF Asked
    <2>4. IsABag(calls) /\ SameBoard(calls, calls)
        BY DEF QuietInv, SameBoard
    <2> QED
        BY <1>1, <2>2, <2>3, <2>4, OthersStay
<1>2. ASSUME NEW t, TaskToggle(t)
      PROVE  QuietInv'
    BY <1>1, <1>2 DEF TaskToggle, TaskChanges, stores, board
<1>3. ASSUME NEW done, TaskSave(done)
      PROVE  QuietInv'
    BY <1>1, <1>3 DEF TaskSave, TaskChanges, stores, board
<1> QED
    BY <1>2, <1>3

LEMMA QuietInit == Init => QuietInv
<1> SUFFICES ASSUME Init PROVE QuietInv
    OBVIOUS
<1>1. PICK c : c = Call("load", None, None, None)
    OBVIOUS
<1>2. calls = SetToBag({c}) /\ c.op = "load" /\ ~c.done
    BY <1>1 DEF Init, Call
<1>3. IsABag(calls) /\ DOMAIN calls = {c} /\ calls[c] = 1
    BY <1>2 DEF IsABag, SetToBag
<1>4. Fits(c)
    BY <1>2 DEF Fits
<1>5. BoardCalls = {c}
    BY <1>2, <1>3 DEF BoardCalls, InFlight, BoardOps
<1> QED
    BY <1>3, <1>4, <1>5 DEF QuietInv, Awaited

LEMMA QuietNext == BoardInv /\ QuietInv /\ [Next]_vars => QuietInv'
<1> SUFFICES ASSUME BoardInv, QuietInv, [Next]_vars PROVE QuietInv'
    OBVIOUS
<1>1. CASE User
    <2>1. CASE OnBoard
        <3>1. CASE \E stage : OpenNew(stage)
            BY <3>1, QuietOpens
        <3>2. CASE \E p : OpenExisting(p)
            BY <3>2, QuietOpens
        <3>3. CASE \E stage \in Stages : Drop(stage)
            BY <3>3, QuietChanges
        <3>4. CASE (\E sc : SetScope(sc)) \/ (\E p : DragStart(p))
            BY <3>4, QuietKept DEF SetScope, DragStart, stores, board
        <3> QED
            BY <2>1, <3>1, <3>2, <3>3, <3>4
            DEF OnBoard, Toolbar, ProjectCardView, Column, ListView, GanttView
    <2>2. CASE InModal
        <3>1. CASE Close \/ \E k : PickClient(k)
            BY <3>1, QuietModal
        <3>2. CASE Save \/ Delete
            BY <3>2, QuietChanges
        <3>3. CASE (\E stage : EditStage(stage)) \/ (\E k : PickContact(k))
            BY <3>3, QuietKept DEF EditStage, PickContact, stores, board
        <3> QED
            BY <2>2, <3>1, <3>2, <3>3 DEF InModal
    <2>3. CASE TaskList \/ TaskForm
        <3>1. CASE (\E t : TaskToggle(t)) \/ (\E done : TaskSave(done))
            BY <3>1, QuietTasks
        <3>2. CASE (\E t : TaskEdit(t)) \/ TaskCancel
            BY <3>2, QuietKept DEF TaskEdit, TaskCancel, stores, board
        <3> QED
            BY <2>3, <3>1, <3>2 DEF TaskList, TaskForm
    <2> QED
        BY <1>1, <2>1, <2>2, <2>3 DEF User
<1>2. CASE Server \/ Arrives \/ Fails \/ QueryOpens
    BY <1>2, QuietServer, QuietArrives, QuietFails, QuietOpens
<1>3. CASE UNCHANGED vars
    BY <1>3, QuietKept DEF vars, stores, board
<1> QED
    BY <1>1, <1>2, <1>3 DEF Next

\* Once nothing is under way the board shows what the server stores, for any
\* number of projects and any run of drops, saves and deletions that do not
\* overlap and whose answers arrive: handleDrop sets the card at once and puts
\* the whole board back when the move fails, handleSave and handleDelete change
\* it with the answer.
THEOREM QuietBoardAlways == Spec => []QuietBoardIsAccurate
<1>1. QuietInv => QuietBoardIsAccurate
    BY DEF QuietInv, Awaited, QuietBoardIsAccurate
<1>2. Spec => []QuietInv
    BY QuietInit, QuietNext, BoardAlways, PTL DEF Spec
<1> QED
    BY <1>1, <1>2, PTL

-----------------------------------------------------------------------------
(* Types *)

\* What BoardInv leaves open of the types of a request.
Typed(c) ==
    /\ c.op = "tasks" => c.proj \in Projects
    /\ c.op \in TaskChanges => c.arg \in BOOLEAN /\ c.ctx \in Tasks
    /\ c.op = "contacts" => c.arg \in Clients
    /\ c.done =>
        /\ c.op = "load tasks" => \A p \in DOMAIN c.ans : c.ans[p] \subseteq Task
        /\ c.op = "tasks" => c.ans \subseteq Task
        /\ c.op \in TaskChanges => c.ans \in Task

AllTyped(bag) == \A c \in DOMAIN bag : Typed(c)

\* And what it leaves open of the types of the page.
TasksTyped == todo \subseteq Task /\ \A p \in DOMAIN shown : shown[p] \subseteq Task
BarTyped   == scope \in {"ALL", "open"} /\ query \in Projects \cup {None}
                  /\ drag \in Projects \cup {None} /\ acts \in 0..MaxActs
ModalTyped == people \subseteq Clients /\ draft \in Tasks \cup {None}
                  /\ busy \subseteq {"project", "task", "tasks"}
FlagsTyped == {loading, fetching, muddled} \subseteq BOOLEAN

TypeInv == AllTyped(calls) /\ TasksTyped /\ BarTyped /\ ModalTyped /\ FlagsTyped

LEMMA TypesFollow == BoardInv /\ TypeInv => TypeOK
BY DEF BoardInv, TypeInv, TypeOK, AllCards, Card, FormFits, TasksTyped, BarTyped, ModalTyped,
       FlagsTyped

LEMMA TypedLess ==
    ASSUME NEW call, AllTyped(calls)
    PROVE  AllTyped(Settled(call))
BY BagLess DEF AllTyped, Settled

LEMMA TypedMore ==
    ASSUME NEW bag, AllTyped(bag), NEW c, Typed(c)
    PROVE  AllTyped(bag (+) SetToBag({c})) /\ AllTyped(bag (+) EmptyBag)
<1>1. DOMAIN (bag (+) SetToBag({c})) = DOMAIN bag \cup {c}
    BY BagMore
<1>2. DOMAIN (bag (+) EmptyBag) = DOMAIN bag
    BY BagMore DEF EmptyBag
<1> QED
    BY <1>1, <1>2 DEF AllTyped

LEMMA TypedUnmounted ==
    ASSUME NEW bag, AllGood(bag), AllTyped(bag), NEW ops
    PROVE  AllTyped(Unmounted(bag, ops))
<1> DEFINE ended == {c \in DOMAIN bag : c.op \in ops /\ c.live}
           dead  == {[c EXCEPT !.live = FALSE] : c \in ended}
<1>1. DOMAIN Unmounted(bag, ops) = (DOMAIN bag \ ended) \cup dead
    BY DEF Unmounted, (+)
<1>2. ASSUME NEW d \in dead
      PROVE  Typed(d)
    <2>1. PICK c \in ended : d = [c EXCEPT !.live = FALSE]
        OBVIOUS
    <2>2. Shaped(c) /\ Typed(c)
        BY DEF AllGood, Good, AllTyped
    <2>3. /\ d.op = c.op /\ d.arg = c.arg /\ d.proj = c.proj /\ d.ctx = c.ctx
          /\ d.done = c.done /\ d.ans = c.ans
        BY <2>1, <2>2 DEF Shaped
    <2> QED
        BY <2>2, <2>3 DEF Typed
<1> HIDE DEF ended, dead
<1> QED
    BY <1>1, <1>2 DEF AllTyped

\* Requests of the board, and a request as it is sent.
LEMMA CallIsTyped ==
    ASSUME NEW op, NEW p, NEW arg, NEW ctx,
           op = "tasks" => p \in Projects,
           op \in TaskChanges => arg \in BOOLEAN /\ ctx \in Tasks,
           op = "contacts" => arg \in Clients
    PROVE  Typed(Call(op, p, arg, ctx))
<1>1. PICK c : c = Call(op, p, arg, ctx)
    OBVIOUS
<1>2. c.op = op /\ c.proj = p /\ c.arg = arg /\ c.ctx = ctx /\ ~c.done
    BY <1>1 DEF Call
<1>3. Typed(c)
    BY <1>2 DEF Typed
<1> QED
    BY <1>1, <1>3

LEMMA TypesInit == Init => TypeInv
<1> SUFFICES ASSUME Init PROVE TypeInv
    OBVIOUS
<1> USE BoardAssumption
<1>1. PICK c : c = Call("load", None, None, None)
    OBVIOUS
<1>2. Typed(c)
    BY <1>1, CallIsTyped DEF TaskChanges
<1>3. calls = SetToBag({c})
    BY <1>1 DEF Init
<1>4. AllTyped(calls)
    BY <1>2, <1>3, BagOfSet DEF AllTyped
<1>5. (CHOOSE t \in Tasks : TRUE) \in Tasks
    OBVIOUS
<1>6. PICK p \in Existing :
          todo = {[id |-> CHOOSE t \in Tasks : TRUE, proj |-> p, done |-> FALSE]}
    BY DEF Init
<1>7. TasksTyped
    BY <1>5, <1>6 DEF Init, TasksTyped, Task
<1>8. (CHOOSE q \in Existing : TRUE) \in Projects
    BY <1>6
<1>9. BarTyped
    BY <1>8 DEF Init, BarTyped
<1> QED
    BY <1>4, <1>7, <1>9 DEF Init, TypeInv, ModalTyped, FlagsTyped

LEMMA TypesServer ==
    ASSUME BoardInv, TypeInv, Server, acts' \in 0..MaxActs
    PROVE  TypeInv'
<1> SUFFICES ASSUME NEW call \in InFlight,
                 \/ AnswersList(call) \/ AnswersAllTasks(call) \/ AnswersTasks(call)
                 \/ AnswersContacts(call)
                 \/ Stores(call) \/ Deletes(call) \/ StoresTask(call)
             PROVE  TypeInv'
    BY DEF Server
<1>1. Shaped(call) /\ Typed(call)
    BY DEF BoardInv, AllGood, Good, TypeInv, AllTyped, InFlight
<1>2. UNCHANGED <<board, modal, busy, drag, muddled>>
    BY DEF AnswersList, AnswersAllTasks, AnswersTasks, AnswersContacts, Stores, Deletes, StoresTask
<1>3. todo \subseteq Task
    BY DEF TypeInv, TasksTyped
<1>4. ASSUME NEW ans, Answered(call, ans), todo' \subseteq Task,
             call.op = "load tasks" => \A p \in DOMAIN ans : ans[p] \subseteq Task,
             call.op = "tasks" => ans \subseteq Task,
             call.op \in TaskChanges => ans \in Task
      PROVE  TypeInv'
    <2>1. PICK d : d = [call EXCEPT !.done = TRUE, !.ans = ans]
        OBVIOUS
    <2>2. /\ d.op = call.op /\ d.proj = call.proj /\ d.arg = call.arg /\ d.ctx = call.ctx
          /\ d.ans = ans
        BY <1>1, <2>1 DEF Shaped
    <2>3. Typed(d)
        BY <1>1, <1>4, <2>2 DEF Typed
    <2>4. calls' = Settled(call) (+) SetToBag({d})
        BY <1>4, <2>1 DEF Answered
    <2>5. AllTyped(calls')
        BY <2>3, <2>4, TypedLess, TypedMore DEF TypeInv
    <2> QED
        BY <1>2, <1>4, <2>5 DEF TypeInv, AllTyped, TasksTyped, BarTyped, ModalTyped, FlagsTyped,
                               board, modal
<1>5. CASE AnswersList(call)
    BY <1>3, <1>4, <1>5 DEF AnswersList, stores, TaskChanges
<1>6. CASE AnswersAllTasks(call)
    <2>1. PICK ans : ans = [p \in DOMAIN call.ctx |-> TasksOf(p)]
        OBVIOUS
    <2>2. \A p \in DOMAIN ans : ans[p] \subseteq Task
        BY <1>3, <2>1 DEF TasksOf
    <2>3. Answered(call, ans) /\ call.op = "load tasks" /\ todo' = todo
        BY <1>6, <2>1 DEF AnswersAllTasks, stores
    <2> QED
        BY <1>3, <1>4, <2>2, <2>3 DEF TaskChanges
<1>7. CASE AnswersTasks(call)
    BY <1>3, <1>4, <1>7 DEF AnswersTasks, stores, TaskChanges, TasksOf
<1>8. CASE AnswersContacts(call)
    BY <1>3, <1>4, <1>8 DEF AnswersContacts, stores, TaskChanges
<1>9. CASE Stores(call)
    <2>1. /\ call.op \in {"create", "update", "move"} /\ todo' = todo
          /\ \E row : Answered(call, row)
        BY <1>9 DEF Stores
    <2> QED
        BY <1>3, <1>4, <2>1 DEF TaskChanges
<1>10. CASE Deletes(call)
    BY <1>3, <1>4, <1>10 DEF Deletes, TaskChanges
<1>11. CASE StoresTask(call)
    <2> DEFINE task == [id |-> call.ctx, proj |-> call.proj, done |-> call.arg]
    <2>1. call.proj \in Projects /\ call.op \in TaskChanges
        BY <1>11 DEF StoresTask, BoardInv, AllCards
    <2>2. task \in Task
        BY <1>1, <2>1 DEF Typed, Task
    <2>3. Answered(call, task) /\ todo' \subseteq todo \cup {task}
        BY <1>11 DEF StoresTask
    <2> HIDE DEF task
    <2> QED
        BY <1>3, <1>4, <2>1, <2>2, <2>3 DEF TaskChanges
<1> QED
    BY <1>5, <1>6, <1>7, <1>8, <1>9, <1>10, <1>11

\* Answers and errors: what they bring was typed when it was sent back.
LEMMA TypesArrive ==
    ASSUME BoardInv, TypeInv, Arrives, acts' \in 0..MaxActs
    PROVE  TypeInv'
<1> SUFFICES ASSUME NEW call \in InFlight,
                 \/ ListLoaded(call) \/ AllLoaded(call)
                 \/ Moved(call) \/ Saved(call) \/ Deleted(call)
                 \/ TasksArrive(call) \/ TaskSaved(call) \/ ContactsArrive(call)
             PROVE  TypeInv'
    BY DEF Arrives
<1>1. Good(call) /\ Typed(call)
    BY DEF BoardInv, AllGood, TypeInv, AllTyped, InFlight
<1>2. AllTyped(Settled(call)) /\ AllGood(Settled(call))
    BY TypedLess, SettledFits DEF TypeInv, BoardInv
<1>3. TasksTyped /\ BarTyped /\ ModalTyped /\ FlagsTyped
    BY DEF TypeInv
<1>4. AllTyped(calls')
    <2>1. CASE ListLoaded(call)
        <3>1. PICK d : d = Call("load tasks", None, None, call.ans)
            OBVIOUS
        <3>2. Typed(d)
            BY <3>1, CallIsTyped DEF TaskChanges
        <3>3. calls' = Settled(call) (+) SetToBag({d})
            BY <2>1, <3>1 DEF ListLoaded
        <3> QED
            BY <1>2, <3>2, <3>3, TypedMore
    <2>2. CASE Saved(call) \/ Deleted(call)
        <3>1. calls' = Unmounted(Settled(call), {"tasks", "contacts"})
            BY <2>2 DEF Saved, Deleted, AfterSave
        <3> QED
            BY <1>2, <3>1, TypedUnmounted
    <2>3. CASE \/ AllLoaded(call) \/ Moved(call) \/ TasksArrive(call) \/ TaskSaved(call)
               \/ ContactsArrive(call)
        <3>1. calls' = Settled(call)
            BY <2>3 DEF AllLoaded, Moved, TasksArrive, TaskSaved, ContactsArrive
        <3> QED
            BY <1>2, <3>1
    <2> QED
        BY <2>1, <2>2, <2>3
<1>5. TasksTyped'
    <2>1. CASE UNCHANGED <<todo, shown>>
        BY <1>3, <2>1 DEF TasksTyped
    <2>2. CASE AllLoaded(call)
        BY <1>1, <1>3, <2>2 DEF AllLoaded, Typed, stores, TasksTyped
    <2>3. CASE Deleted(call)
        BY <1>3, <2>3 DEF Deleted, AfterSave, Without, stores, TasksTyped
    <2>4. CASE TasksArrive(call)
        BY <1>1, <1>3, <2>4 DEF TasksArrive, Typed, With, stores, TasksTyped
    <2>5. CASE TaskSaved(call)
        <3>1. call.ans \in Task
            BY <1>1, <2>5 DEF TaskSaved, Typed
        <3>2. ShownTasks(call.proj) \subseteq Task
            BY <1>3 DEF ShownTasks, TasksTyped
        <3> QED
            BY <1>3, <2>5, <3>1, <3>2 DEF TaskSaved, With, stores, TasksTyped
    <2>6. \/ UNCHANGED <<todo, shown>>
          \/ AllLoaded(call) \/ Deleted(call) \/ TasksArrive(call) \/ TaskSaved(call)
        BY DEF ListLoaded, Moved, Saved, AfterSave, ContactsArrive, stores, board
    <2> QED
        BY <2>1, <2>2, <2>3, <2>4, <2>5, <2>6
<1>6. BarTyped'
    <2>1. UNCHANGED <<scope, query, drag>>
        BY DEF ListLoaded, AllLoaded, Moved, Saved, Deleted, AfterSave, TasksArrive, TaskSaved,
               ContactsArrive, board
    <2> QED
        BY <1>3, <2>1 DEF BarTyped
<1>7. ModalTyped'
    <2>1. draft' = draft \/ draft' \in Tasks \cup {None}
        BY <1>1 DEF ListLoaded, AllLoaded, Moved, Saved, Deleted, AfterSave, TasksArrive, TaskSaved,
                    ContactsArrive, modal, Typed
    <2>2. busy' \subseteq busy
        BY DEF ListLoaded, AllLoaded, Moved, Saved, Deleted, AfterSave, TasksArrive, TaskSaved,
               ContactsArrive
    <2>3. CASE ContactsArrive(call)
        <3>1. people' = people \/ people' = {call.arg}
            BY <1>1, <2>3 DEF ContactsArrive, Good
        <3>2. call.arg \in Clients
            BY <1>1, <2>3 DEF ContactsArrive, Typed
        <3> QED
            BY <1>3, <2>1, <2>2, <3>1, <3>2 DEF ModalTyped
    <2>4. CASE ~ContactsArrive(call)
        <3>1. people' = people \/ people' = {}
            BY <2>4 DEF ListLoaded, AllLoaded, Moved, Saved, Deleted, AfterSave, Closed, TasksArrive,
                        TaskSaved, modal
        <3> QED
            BY <1>3, <2>1, <2>2, <3>1 DEF ModalTyped
    <2> QED
        BY <2>3, <2>4
<1>8. FlagsTyped'
    <2>1. muddled' = muddled /\ loading' \in {loading, FALSE} /\ fetching' \in {fetching, FALSE}
        BY DEF ListLoaded, AllLoaded, Moved, Saved, Deleted, AfterSave, Closed, TasksArrive, TaskSaved,
               ContactsArrive, board, modal
    <2> QED
        BY <1>3, <2>1 DEF FlagsTyped
<1> QED
    BY <1>4, <1>5, <1>6, <1>7, <1>8 DEF TypeInv

LEMMA TypesFail ==
    ASSUME BoardInv, TypeInv, Fails, acts' \in 0..MaxActs
    PROVE  TypeInv'
<1> SUFFICES ASSUME NEW call \in InFlight,
                 \/ LoadFails(call) \/ MoveFails(call) \/ SaveFails(call)
                 \/ TasksFail(call) \/ TaskFails(call) \/ ContactsFail(call)
             PROVE  TypeInv'
    BY DEF Fails
<1>1. calls' = Settled(call)
    BY DEF LoadFails, MoveFails, SaveFails, TasksFail, TaskFails, ContactsFail
<1>2. AllTyped(calls')
    BY <1>1, TypedLess DEF TypeInv
<1>3. /\ UNCHANGED <<todo, shown, scope, query, drag, draft>> /\ busy' \subseteq busy
      /\ people' \in {people, {}} /\ loading' \in {loading, FALSE}
      /\ fetching' \in {fetching, FALSE}
    BY DEF LoadFails, MoveFails, SaveFails, TasksFail, TaskFails, ContactsFail, stores, board, modal
<1>4. muddled' \in BOOLEAN
    BY DEF LoadFails, MoveFails, SaveFails, TasksFail, TaskFails, ContactsFail, Lost, TypeInv,
           FlagsTyped
<1> QED
    BY <1>2, <1>3, <1>4 DEF TypeInv, AllTyped, TasksTyped, BarTyped, ModalTyped, FlagsTyped

\* The modal opens, on top of what else is sent.
LEMMA TypesOpened ==
    ASSUME TypeInv, acts' \in 0..MaxActs, NEW f \in Form, NEW bag, AllTyped(bag), Opened(f, bag),
           UNCHANGED <<todo, shown, scope, query, drag, loading, muddled>>,
           busy' \subseteq busy \cup {"tasks"}
    PROVE  TypeInv'
<1>1. AllTyped(calls')
    <2>1. CASE f.client = None
        <3>1. calls' = bag (+) EmptyBag
            BY <2>1 DEF Opened
        <3>2. DOMAIN calls' = DOMAIN bag
            BY <3>1, BagMore DEF EmptyBag
        <3> QED
            BY <3>2 DEF AllTyped
    <2>2. CASE f.client # None
        <3>1. PICK c : c = Call("contacts", None, f.client, None)
            OBVIOUS
        <3>2. Typed(c)
            BY <2>2, <3>1, CallIsTyped DEF Form, TaskChanges
        <3>3. calls' = bag (+) SetToBag({c})
            BY <2>2, <3>1 DEF Opened
        <3> QED
            BY <3>2, <3>3, TypedMore
    <2> QED
        BY <2>1, <2>2
<1>2. people' = {} /\ draft' = None /\ fetching' \in BOOLEAN
    BY DEF Opened
<1> QED
    BY <1>1, <1>2 DEF TypeInv, TasksTyped, BarTyped, ModalTyped, FlagsTyped

LEMMA TypesBoard ==
    ASSUME BoardInv, TypeInv, acts' \in 0..MaxActs,
           \/ \E sc \in {"ALL", "open"} : SetScope(sc)
           \/ \E p \in Projects : DragStart(p) \/ OpenExisting(p)
           \/ \E stage \in Stages : Drop(stage) \/ OpenNew(stage)
    PROVE  TypeInv'
<1> USE BoardAssumption
<1>1. ASSUME NEW sc \in {"ALL", "open"}, SetScope(sc)
      PROVE  TypeInv'
    BY <1>1 DEF SetScope, stores, modal, TypeInv, AllTyped, TasksTyped, BarTyped, ModalTyped, FlagsTyped
<1>2. ASSUME NEW p \in Projects, DragStart(p)
      PROVE  TypeInv'
    BY <1>2 DEF DragStart, stores, board, modal, TypeInv, AllTyped, TasksTyped, BarTyped, ModalTyped,
                FlagsTyped
<1>3. ASSUME NEW stage \in Stages, Drop(stage)
      PROVE  TypeInv'
    <2>1. PICK c : c = Call("move", drag, stage, cards)
        OBVIOUS
    <2>2. Typed(c)
        BY <2>1, CallIsTyped DEF TaskChanges
    <2>3. calls' = calls (+) SetToBag({c}) /\ muddled' \in BOOLEAN
        BY <1>3, <2>1 DEF Drop, Change, Asked, TypeInv, FlagsTyped
    <2>4. AllTyped(calls')
        BY <2>2, <2>3, TypedMore DEF TypeInv
    <2>5. UNCHANGED <<todo, shown, loading, scope, query, modal, busy>> /\ drag' = None
        BY <1>3 DEF Drop, stores
    <2> QED
        BY <2>3, <2>4, <2>5 DEF modal, TypeInv, TasksTyped, BarTyped, ModalTyped, FlagsTyped
<1>4. ASSUME NEW stage \in Stages, OpenNew(stage)
      PROVE  TypeInv'
    <2>1. PICK f : f = [id |-> None, stage |-> stage, client |-> None, contact |-> None]
        OBVIOUS
    <2>2. f \in Form
        BY <2>1 DEF Form
    <2>3. Opened(f, calls) /\ UNCHANGED <<stores, board, busy, drag, muddled>>
        BY <1>4, <2>1 DEF OpenNew
    <2> QED
        BY <2>2, <2>3, TypesOpened DEF TypeInv, stores, board
<1>5. ASSUME NEW p \in Projects, OpenExisting(p)
      PROVE  TypeInv'
    <2> DEFINE card == cards[p]
    <2>1. PICK f : f = [id |-> p, stage |-> card.stage, client |-> card.client,
                        contact |-> IF card.client # None /\ card.contact \in Clients
                                    THEN None ELSE card.contact]
        OBVIOUS
    <2>2. PICK c : c = Call("tasks", p, None, None)
        OBVIOUS
    <2>3. Card(card)
        BY <1>5 DEF OpenExisting, OnScreen, Filtered, BoardInv, AllCards
    <2>4. f \in Form
        BY <2>1, <2>3 DEF Card, Row, Form
    <2>5. Typed(c)
        BY <2>2, CallIsTyped DEF TaskChanges
    <2>6. PICK bag : bag = calls (+) SetToBag({c})
        OBVIOUS
    <2>7. AllTyped(bag)
        BY <2>5, <2>6, TypedMore DEF TypeInv
    <2>8. /\ Opened(f, bag) /\ busy' = busy \cup {"tasks"}
          /\ UNCHANGED <<stores, board, drag, muddled>>
        BY <1>5, <2>1, <2>2, <2>6 DEF OpenExisting, Asked
    <2> QED
        BY <2>4, <2>7, <2>8, TypesOpened DEF stores, board
<1> QED
    BY <1>1, <1>2, <1>3, <1>4, <1>5

LEMMA TypesQuery ==
    ASSUME BoardInv, TypeInv, QueryOpens, acts' \in 0..MaxActs
    PROVE  TypeInv'
<1> DEFINE card == cards[query]
           kept == form # None /\ form.client = card.client
<1>1. query \in DOMAIN cards /\ Card(card) /\ query \in Projects
    BY DEF QueryOpens, BoardInv, AllCards
<1>2. PICK c : c = Call("contacts", None, card.client, None)
    OBVIOUS
<1>3. PICK t : t = Call("tasks", query, None, None)
    OBVIOUS
<1>4. Typed(t) /\ (card.client # None => Typed(c))
    BY <1>1, <1>2, <1>3, CallIsTyped DEF TaskChanges, Card, Row
<1>5. PICK D, E : D = Unmounted(calls, {"tasks"}) /\ E = Unmounted(calls, {"tasks", "contacts"})
    OBVIOUS
<1>6. AllTyped(D) /\ AllTyped(E)
    BY <1>5, TypedUnmounted DEF TypeInv, BoardInv
<1>7. PICK B : B = IF kept THEN D
                   ELSE E (+) (IF card.client = None THEN EmptyBag ELSE SetToBag({c}))
    OBVIOUS
<1>8. AllTyped(B)
    <2>1. AllTyped(E (+) EmptyBag)
        BY <1>4, <1>6, TypedMore
    <2>2. card.client # None => AllTyped(E (+) SetToBag({c}))
        BY <1>4, <1>6, TypedMore
    <2> QED
        BY <1>6, <1>7, <2>1, <2>2
<1>9. /\ calls' = B (+) SetToBag({t})
      /\ UNCHANGED <<todo, shown, loading, scope, drag, muddled>>
      /\ query' = None /\ draft' = None /\ people' \in {people, {}}
      /\ fetching' = (fetching \/ (~kept /\ card.client # None))
      /\ busy' = busy \cup {"tasks"}
    BY <1>2, <1>3, <1>5, <1>7 DEF QueryOpens, stores
<1>10. AllTyped(calls')
    BY <1>4, <1>8, <1>9, TypedMore
<1> HIDE DEF kept
<1> QED
    BY <1>9, <1>10 DEF TypeInv, TasksTyped, BarTyped, ModalTyped, FlagsTyped

LEMMA TypesModal ==
    ASSUME BoardInv, TypeInv, acts' \in 0..MaxActs,
           \/ \E stage \in Stages : EditStage(stage)
           \/ Close \/ Save \/ Delete
           \/ \E k \in Clients \cup {None} : PickClient(k)
           \/ \E k \in Clients \cup {"typed"} : PickContact(k)
    PROVE  TypeInv'
<1>1. CASE (\E stage \in Stages : EditStage(stage))
           \/ (\E k \in Clients \cup {"typed"} : PickContact(k))
    BY <1>1 DEF EditStage, PickContact, stores, board, TypeInv, AllTyped, TasksTyped, BarTyped,
                ModalTyped, FlagsTyped
<1>2. CASE Close
    <2>1. /\ calls' = Unmounted(calls, {"tasks", "contacts"})
          /\ UNCHANGED <<stores, board, busy, drag, muddled>>
          /\ people' = {} /\ fetching' = FALSE /\ draft' = None
        BY <1>2 DEF Close, Closed
    <2>2. AllTyped(calls')
        BY <2>1, TypedUnmounted DEF TypeInv, BoardInv
    <2> QED
        BY <2>1, <2>2 DEF stores, board, TypeInv, TasksTyped, BarTyped, ModalTyped, FlagsTyped
<1>3. ASSUME NEW op \in Changes, NEW p, NEW arg, Change(Call(op, p, arg, None)),
             UNCHANGED <<stores, board, modal, drag>>, busy' = busy \cup {"project"}
      PROVE  TypeInv'
    <2>1. PICK c : c = Call(op, p, arg, None)
        OBVIOUS
    <2>2. Typed(c)
        BY <2>1, CallIsTyped DEF TaskChanges, Changes
    <2>3. calls' = calls (+) SetToBag({c}) /\ muddled' \in BOOLEAN
        BY <1>3, <2>1 DEF Change, Asked, TypeInv, FlagsTyped
    <2>4. AllTyped(calls')
        BY <2>2, <2>3, TypedMore DEF TypeInv
    <2> QED
        BY <1>3, <2>3, <2>4 DEF stores, board, modal, TypeInv, TasksTyped, BarTyped, ModalTyped,
                                FlagsTyped
<1>4. CASE Save
    BY <1>3, <1>4 DEF Save, Changes
<1>5. CASE Delete
    BY <1>3, <1>5 DEF Delete, Changes
<1>6. ASSUME NEW k \in Clients \cup {None}, PickClient(k)
      PROVE  TypeInv'
    <2>1. PICK c : c = Call("contacts", None, k, None)
        OBVIOUS
    <2>2. PICK B : B = Unmounted(calls, {"contacts"})
        OBVIOUS
    <2>3. AllTyped(B)
        BY <2>2, TypedUnmounted DEF TypeInv, BoardInv
    <2>4. /\ calls' = B (+) (IF k = None THEN EmptyBag ELSE SetToBag({c}))
          /\ people' \in {people, {}} /\ fetching' = (fetching \/ k # None)
          /\ UNCHANGED <<stores, board, draft, busy, drag, muddled>>
        BY <1>6, <2>1, <2>2 DEF PickClient
    <2>5. AllTyped(calls')
        <3>1. CASE k = None
            <4>1. DOMAIN calls' = DOMAIN B
                BY <2>4, <3>1, BagMore DEF EmptyBag
            <4> QED
                BY <2>3, <4>1 DEF AllTyped
        <3>2. CASE k # None
            <4>1. Typed(c)
                BY <2>1, <3>2, CallIsTyped DEF TaskChanges
            <4> QED
                BY <2>3, <2>4, <3>2, <4>1, TypedMore
        <3> QED
            BY <3>1, <3>2
    <2> QED
        BY <2>4, <2>5 DEF stores, board, TypeInv, TasksTyped, BarTyped, ModalTyped, FlagsTyped
<1> QED
    BY <1>1, <1>2, <1>4, <1>5, <1>6

LEMMA TypesTasks ==
    ASSUME BoardInv, TypeInv, acts' \in 0..MaxActs, TaskList \/ TaskForm
    PROVE  TypeInv'
<1>1. ASSUME NEW op \in TaskChanges, NEW p, NEW arg \in BOOLEAN, NEW id \in Tasks,
             calls' = Asked(Call(op, p, arg, id)), UNCHANGED <<stores, board, modal, drag, muddled>>,
             busy' = busy \cup {"task"}
      PROVE  TypeInv'
    <2>1. PICK c : c = Call(op, p, arg, id)
        OBVIOUS
    <2>2. Typed(c)
        BY <2>1, CallIsTyped DEF TaskChanges
    <2>3. calls' = calls (+) SetToBag({c})
        BY <1>1, <2>1 DEF Asked
    <2>4. AllTyped(calls')
        BY <2>2, <2>3, TypedMore DEF TypeInv
    <2> QED
        BY <1>1, <2>4 DEF stores, board, modal, TypeInv, TasksTyped, BarTyped, ModalTyped, FlagsTyped
<1>2. ASSUME NEW t \in Task, TaskToggle(t)
      PROVE  TypeInv'
    <2>1. t.id \in Tasks /\ (~t.done) \in BOOLEAN
        BY DEF Task
    <2> QED
        BY <1>1, <1>2, <2>1 DEF TaskToggle, TaskChanges
<1>3. ASSUME NEW done \in BOOLEAN, TaskSave(done)
      PROVE  TypeInv'
    <2>1. draft # None => draft \in Tasks
        BY DEF TypeInv, ModalTyped
    <2> QED
        BY <1>1, <1>3, <2>1 DEF TaskSave, TaskChanges
<1>4. ASSUME NEW t \in Task, TaskEdit(t) \/ TaskCancel
      PROVE  TypeInv'
    <2>1. draft' \in Tasks \cup {None}
        BY <1>4 DEF TaskEdit, TaskCancel, Task
    <2> QED
        BY <1>4, <2>1 DEF TaskEdit, TaskCancel, stores, board, TypeInv, AllTyped, TasksTyped,
                         BarTyped, ModalTyped, FlagsTyped
<1>5. CASE TaskCancel
    BY <1>5 DEF TaskCancel, stores, board, TypeInv, AllTyped, TasksTyped, BarTyped, ModalTyped,
                FlagsTyped
<1> QED
    BY <1>2, <1>3, <1>4, <1>5 DEF TaskList, TaskForm

LEMMA TypesNext == BoardInv /\ TypeInv /\ [Next]_vars => TypeInv'
<1> SUFFICES ASSUME BoardInv, TypeInv, [Next]_vars PROVE TypeInv'
    OBVIOUS
<1>0. acts \in 0..MaxActs /\ MaxActs \in Nat
    BY BoardAssumption DEF TypeInv, BarTyped
<1>1. CASE User /\ acts < MaxActs /\ acts' = acts + 1
    <2>1. acts' \in 0..MaxActs
        BY <1>0, <1>1
    <2>2. CASE OnBoard
        <3>1. "lead" \in Stages
            BY DEF Stages
        <3> QED
            BY <2>1, <2>2, <3>1, TypesBoard
            DEF OnBoard, Toolbar, ProjectCardView, Column, ListView, GanttView
    <2>3. CASE InModal
        BY <2>1, <2>3, TypesModal DEF InModal
    <2>4. CASE TaskList \/ TaskForm
        BY <2>1, <2>4, TypesTasks
    <2> QED
        BY <1>1, <2>2, <2>3, <2>4 DEF User
<1>2. CASE (Server \/ Arrives \/ Fails \/ QueryOpens) /\ UNCHANGED acts
    BY <1>0, <1>2, TypesServer, TypesArrive, TypesFail, TypesQuery
<1>3. CASE UNCHANGED vars
    BY <1>3 DEF vars, stores, board, modal, TypeInv, AllTyped, TasksTyped, BarTyped, ModalTyped,
                FlagsTyped
<1> QED
    BY <1>1, <1>2, <1>3 DEF Next

\* The page, its requests and the rows they read and write keep their types,
\* for any number of projects, tasks and clients: what an answer brings is what
\* the state it goes to may hold.
THEOREM TypeCorrect == Spec => []TypeOK
<1>1. Spec => []TypeInv
    BY TypesInit, TypesNext, BoardAlways, PTL DEF Spec
<1> QED
    BY <1>1, TypesFollow, BoardAlways, PTL

-----------------------------------------------------------------------------
\* Whatever modals are opened and closed while tasks are loaded and saved, a
\* task is listed under the project it belongs to (handleTaskSave,
\* handleTaskToggle and the effect that loads the tasks of form.id).
THEOREM TasksStayHome == Spec => []TasksOfProject
<1>1. BoardInv => TasksOfProject
    BY DEF BoardInv, TasksFit, TasksOfProject
<1> QED
    BY <1>1, BoardAlways, PTL

\* Neither the form nor a request on its way to the server links a project to
\* one client and to the contact of another, in whatever order contacts arrive
\* (the effects of ProjectModal with their isMounted flags).
THEOREM ContactsMatch == Spec => []ContactOfClient
<1>1. BoardInv => ContactOfClient
    BY DEF BoardInv, FormFits, AllGood, Good, Card, ContactOfClient, InFlight
<1> QED
    BY <1>1, BoardAlways, PTL

=============================================================================
