---------------------------- MODULE ProjectBoard ----------------------------
(***************************************************************************)
(* The projects page: the board of cards, the project modal with its       *)
(* contact selector and its task panel, and the requests they send.  Every *)
(* await is two steps, the server's and the page's, so that clicks and     *)
(* other answers come between.  The modal covers the page, but Escape and  *)
(* the backdrop close it while a request is under way.                     *)
(*                                                                         *)
(* Abstracted: of a project its stage, its client and its contact are      *)
(* kept; title and work type are taken as filled in.  A client has one     *)
(* contact, named as the client.  Of the filters, the open / all scope is  *)
(* kept; the kanban stands for the list and the timeline, which show the   *)
(* same cards and only open them.  A task is its project and whether it is *)
(* done (TaskAutomation has its automation).  Leaving the page ends the    *)
(* behaviour.                                                              *)
(***************************************************************************)
EXTENDS Integers, FiniteSets, Bags

CONSTANTS
    Projects, Existing,     \* project ids, and those stored at the start
    Tasks,                  \* task ids
    Clients,                \* clients, and the contact of each
    None,
    MaxActs                 \* bound: acts of the user

Stages == {"lead", "closed"}
Row    == [stage : Stages, client : Clients \cup {None},
           contact : Clients \cup {None, "typed"}]
Form   == [id : Projects \cup {None}, stage : Stages, client : Clients \cup {None},
           contact : Clients \cup {None, "typed"}]
Task   == [id : Tasks, proj : Projects, done : BOOLEAN]

ASSUME BoardAssumption ==
    /\ Existing \subseteq Projects /\ Clients # {} /\ Tasks # {}
    /\ None \notin Clients \cup Form
    /\ MaxActs \in Nat

VARIABLES
    rows,           \* the server's projects
    todo,           \* the server's tasks
    cards,          \* cards
    shown,          \* projectTasksByProjectId
    loading,        \* isLoading
    scope,          \* scopeFilter
    query,          \* the project that the address asks to open, until it is
    form,           \* form
    people,         \* clientContacts
    fetching,       \* isContactsLoading
    draft,          \* taskDraft.id, None for a new task
    busy,           \* those of isSaving, isTaskSaving, isTasksLoading that are set
    drag,           \* dragState
    calls,          \* requests under way, a bag
    muddled,        \* history: changes overlapped or an answer was lost
    acts            \* acts of the user so far

stores == <<rows, todo>>
board  == <<cards, shown, loading, scope, query>>
modal  == <<form, people, fetching, draft>>
vars   == <<stores, board, modal, busy, drag, calls, muddled, acts>>

With(f, k, v) == [x \in DOMAIN f \cup {k} |-> IF x = k THEN v ELSE f[x]]
Without(f, k) == [x \in DOMAIN f \ {k} |-> f[x]]
TasksOf(p)    == {t \in todo : t.proj = p}

-----------------------------------------------------------------------------
(* Requests *)

\* arg is what is sent; ctx what the handler has captured for its answer; live
\* tells whether the effect that sent it is still mounted.
Call(op, p, arg, ctx) == [op |-> op, proj |-> p, arg |-> arg, ctx |-> ctx,
                          live |-> TRUE, done |-> FALSE, ans |-> None]

InFlight      == DOMAIN calls
Asked(call)   == calls (+) SetToBag({call})
Settled(call) == calls (-) SetToBag({call})

Changes     == {"create", "update", "delete", "move"}
TaskChanges == {"new task", "edit task", "toggle task", "toggle edited"}
BoardOps    == Changes \cup {"load", "load tasks"}
BoardCalls  == {c \in InFlight : c.op \in BoardOps}

\* The cleanup of the effects `ops': isMounted = false.
Unmounted(bag, ops) ==
    LET ended == {c \in DOMAIN bag : c.op \in ops /\ c.live}
        dead  == {[c EXCEPT !.live = FALSE] : c \in ended}
    IN  [c \in DOMAIN bag \ ended |-> bag[c]]
            (+) [c \in dead |-> bag[[c EXCEPT !.live = TRUE]]]

\* A change of the board is sent; one more under way makes its result a race.
Change(call) ==
    /\ calls' = Asked(call)
    /\ muddled' = (muddled \/ BoardCalls # {})

\* An answer that is lost leaves the page without what the server stored.
Lost(call) == muddled' = (muddled \/ call.done)

Answered(call, ans) ==
    calls' = Settled(call) (+) SetToBag({[call EXCEPT !.done = TRUE, !.ans = ans]})

-----------------------------------------------------------------------------
(* The server *)

AnswersList(call) ==
    /\ call.op = "load" /\ ~call.done
    /\ Answered(call, rows)
    /\ UNCHANGED <<stores, board, modal, busy, drag, muddled>>

AnswersAllTasks(call) ==
    /\ call.op = "load tasks" /\ ~call.done
    /\ Answered(call, [p \in DOMAIN call.ctx |-> TasksOf(p)])
    /\ UNCHANGED <<stores, board, modal, busy, drag, muddled>>

AnswersTasks(call) ==
    /\ call.op = "tasks" /\ ~call.done
    /\ call.proj \in DOMAIN rows
    /\ Answered(call, TasksOf(call.proj))
    /\ UNCHANGED <<stores, board, modal, busy, drag, muddled>>

AnswersContacts(call) ==
    /\ call.op = "contacts" /\ ~call.done
    /\ Answered(call, {call.arg})
    /\ UNCHANGED <<stores, board, modal, busy, drag, muddled>>

\* POST, PATCH of all the fields of the form, PATCH of the stage.
Stores(call) ==
    LET p   == call.proj
        row == IF call.op = "move" THEN [rows[p] EXCEPT !.stage = call.arg]
               ELSE call.arg
    IN  /\ call.op \in {"create", "update", "move"} /\ ~call.done
        /\ (call.op = "create") <=> (p \notin DOMAIN rows)
        /\ rows' = With(rows, p, row)
        /\ Answered(call, row)
        /\ UNCHANGED <<todo, board, modal, busy, drag, muddled>>

Deletes(call) ==
    /\ call.op = "delete" /\ ~call.done
    /\ call.proj \in DOMAIN rows
    /\ rows' = Without(rows, call.proj)
    /\ todo' = todo \ TasksOf(call.proj)
    /\ Answered(call, None)
    /\ UNCHANGED <<board, modal, busy, drag, muddled>>

\* A task that is not of the project is not found.
StoresTask(call) ==
    LET old  == {t \in TasksOf(call.proj) : t.id = call.ctx}
        task == [id |-> call.ctx, proj |-> call.proj, done |-> call.arg]
    IN  /\ call.op \in TaskChanges /\ ~call.done
        /\ call.proj \in DOMAIN rows
        /\ IF call.op = "new task" THEN \A t \in todo : t.id # call.ctx
           ELSE old # {}
        /\ todo' = (todo \ old) \cup {task}
        /\ Answered(call, task)
        /\ UNCHANGED <<rows, board, modal, busy, drag, muddled>>

-----------------------------------------------------------------------------
(* Loading *)

\* The lists are there: the tasks of every project are asked for.
ListLoaded(call) ==
    /\ call.op = "load" /\ call.done
    /\ calls' = Settled(call) (+) SetToBag({Call("load tasks", None, None, call.ans)})
    /\ UNCHANGED <<stores, board, modal, busy, drag, muddled>>

AllLoaded(call) ==
    /\ call.op = "load tasks" /\ call.done
    /\ cards' = call.ctx
    /\ shown' = call.ans
    /\ loading' = FALSE
    /\ calls' = Settled(call)
    /\ UNCHANGED <<stores, scope, query, modal, busy, drag, muddled>>

LoadFails(call) ==
    /\ call.op \in {"load", "load tasks"}
    /\ loading' = FALSE
    /\ calls' = Settled(call)
    /\ muddled' = TRUE
    /\ UNCHANGED <<stores, cards, shown, scope, query, modal, busy, drag>>

-----------------------------------------------------------------------------
(* The board *)

Filtered == {p \in DOMAIN cards : scope = "ALL" \/ cards[p].stage # "closed"}

\* What the page renders: nothing of the board while it loads.
OnScreen == IF loading THEN {} ELSE Filtered

\* The modal covers the page.
Uncovered == form = None

\* The scope of the address, and clearFilters.
SetScope(sc) ==
    /\ Uncovered /\ scope # sc
    /\ scope' = sc
    /\ UNCHANGED <<stores, cards, shown, loading, query, modal, busy, drag, calls, muddled>>

DragStart(p) ==
    /\ Uncovered /\ p \in OnScreen
    /\ drag' = p
    /\ UNCHANGED <<stores, board, modal, busy, calls, muddled>>

\* handleDrop: the card moves at once, then the server is told.  Nothing
\* resets a drag that ended elsewhere.
Drop(stage) ==
    /\ Uncovered /\ OnScreen # {}
    /\ drag # None
    /\ cards' = IF drag \in DOMAIN cards THEN [cards EXCEPT ![drag].stage = stage]
                ELSE cards
    /\ drag' = None
    /\ Change(Call("move", drag, stage, cards))
    /\ UNCHANGED <<stores, shown, loading, scope, query, modal, busy>>

\* Mutant: a move that fails leaves the card where it was dropped.
MoveFailsSilently(call) ==
    /\ call.op = "move"
    /\ calls' = Settled(call) /\ Lost(call)
    /\ UNCHANGED <<stores, board, modal, busy, drag>>

\* setCards(current => current.map(...)).
Replaced(p, row) == IF p \in DOMAIN cards THEN [cards EXCEPT ![p] = row] ELSE cards

Moved(call) ==
    /\ call.op = "move" /\ call.done
    /\ cards' = Replaced(call.proj, call.ans)
    /\ calls' = Settled(call)
    /\ UNCHANGED <<stores, shown, loading, scope, query, modal, busy, drag, muddled>>

\* setCards(previousCards): the whole board as it was at the drop.
MoveFails(call) ==
    /\ call.op = "move"
    /\ cards' = call.ctx
    /\ calls' = Settled(call) /\ Lost(call)
    /\ UNCHANGED <<stores, shown, loading, scope, query, modal, busy, drag>>

-----------------------------------------------------------------------------
(* The modal *)

Opened(f, bag) ==
    /\ form' = f
    /\ draft' = None
    /\ people' = {}
    /\ fetching' = (f.client # None)
    /\ calls' = bag (+) (IF f.client = None THEN EmptyBag
                         ELSE SetToBag({Call("contacts", None, f.client, None)}))

\* openNewProject.
OpenNew(stage) ==
    /\ Uncovered
    /\ Opened([id |-> None, stage |-> stage, client |-> None, contact |-> None], calls)
    /\ UNCHANGED <<stores, board, busy, drag, muddled>>

\* openExistingProject, and the effects of the new modal: the task list and
\* the contacts are asked for, and the contact of a linked client, which is
\* not in the empty list of contacts, is cleared.
OpenExisting(p) ==
    /\ Uncovered /\ p \in OnScreen
    /\ LET card == cards[p] IN
       Opened([id |-> p, stage |-> card.stage, client |-> card.client,
               contact |-> IF card.client # None /\ card.contact \in Clients
                           THEN None ELSE card.contact],
              Asked(Call("tasks", p, None, None)))
    /\ busy' = busy \cup {"tasks"}
    /\ UNCHANGED <<stores, board, drag, muddled>>

\* The address names a project: once it is loaded its modal opens, in place
\* of the one the user may have open by then.  The modal stays mounted, so its
\* effects run only for what changes.
QueryOpens ==
    LET card == cards[query]
        kept == form # None /\ form.client = card.client
        bag  == IF kept THEN Unmounted(calls, {"tasks"})
                ELSE Unmounted(calls, {"tasks", "contacts"})
                     (+) (IF card.client = None THEN EmptyBag
                          ELSE SetToBag({Call("contacts", None, card.client, None)}))
    IN  /\ query # None /\ ~loading /\ query \in DOMAIN cards
        /\ form' = [id |-> query, stage |-> card.stage, client |-> card.client,
                    contact |-> IF card.client # None /\ card.contact \in Clients
                                   /\ card.contact \notin people /\ ~fetching
                                THEN None ELSE card.contact]
        /\ draft' = None /\ query' = None
        /\ people' = IF card.client = None THEN {} ELSE people
        /\ fetching' = (fetching \/ (~kept /\ card.client # None))
        /\ calls' = bag (+) SetToBag({Call("tasks", query, None, None)})
        /\ busy' = busy \cup {"tasks"}
        /\ UNCHANGED <<stores, cards, shown, loading, scope, drag, muddled>>

\* setForm(null): the modal is unmounted with its contacts, and form.id changes.
Closed ==
    /\ form' = None /\ people' = {} /\ fetching' = FALSE

\* closeProjectModal: by the button, the backdrop or Escape.
Close ==
    /\ form # None
    /\ Closed
    /\ draft' = None
    /\ calls' = Unmounted(calls, {"tasks", "contacts"})
    /\ UNCHANGED <<stores, board, busy, drag, muddled>>

EditStage(stage) ==
    /\ form # None /\ form.stage # stage
    /\ form' = [form EXCEPT !.stage = stage]
    /\ UNCHANGED <<stores, board, people, fetching, draft, busy, drag, calls, muddled>>

\* Another client: its contacts are asked for, the contact is cleared.
PickClient(k) ==
    /\ form # None /\ form.client # k
    /\ form' = [form EXCEPT !.client = k,
                            !.contact = IF k # None \/ @ \in Clients THEN None ELSE @]
    /\ people' = IF k = None THEN {} ELSE people
    /\ fetching' = (fetching \/ k # None)
    /\ calls' = Unmounted(calls, {"contacts"})
                (+) (IF k = None THEN EmptyBag
                     ELSE SetToBag({Call("contacts", None, k, None)}))
    /\ UNCHANGED <<stores, board, draft, busy, drag, muddled>>

\* The effect of the contact selector when a load ends: a contact that is not
\* among those of the linked client is cleared.
Cleared(contacts) ==
    IF form.client # None /\ form.contact \in Clients \ contacts
    THEN [form EXCEPT !.contact = None] ELSE form

\* Mutant: the contacts are taken whatever client is selected by now.
ContactsArriveLate(call) ==
    /\ call.op = "contacts" /\ call.done
    /\ calls' = Settled(call)
    /\ IF form # None
       THEN people' = call.ans /\ fetching' = FALSE /\ form' = Cleared(call.ans)
       ELSE UNCHANGED <<people, fetching, form>>
    /\ UNCHANGED <<stores, board, draft, busy, drag, muddled>>

ContactsArrive(call) ==
    /\ call.op = "contacts" /\ call.done
    /\ calls' = Settled(call)
    /\ IF call.live
       THEN people' = call.ans /\ fetching' = FALSE /\ form' = Cleared(call.ans)
       ELSE UNCHANGED <<people, fetching, form>>
    /\ UNCHANGED <<stores, board, draft, busy, drag, muddled>>

ContactsFail(call) ==
    /\ call.op = "contacts"
    /\ calls' = Settled(call)
    /\ IF call.live
       THEN people' = {} /\ fetching' = FALSE /\ form' = Cleared({})
       ELSE UNCHANGED <<people, fetching, form>>
    /\ UNCHANGED <<stores, board, draft, busy, drag, muddled>>

\* The contact selector of a linked client, and the free text without one.
PickContact(k) ==
    /\ form # None
    /\ IF form.client # None THEN ~fetching /\ k \in people ELSE k = "typed"
    /\ form.contact # k
    /\ form' = [form EXCEPT !.contact = k]
    /\ UNCHANGED <<stores, board, people, fetching, draft, busy, drag, calls, muddled>>

\* handleSave, with what it requires.
Save ==
    /\ form # None /\ "project" \notin busy
    /\ form.contact # None
    /\ busy' = busy \cup {"project"}
    /\ LET row == [stage |-> form.stage, client |-> form.client, contact |-> form.contact]
       IN  \/ form.id # None /\ Change(Call("update", form.id, row, None))
           \/ /\ form.id = None
              /\ \E p \in Projects \ DOMAIN rows :
                    /\ \A c \in InFlight : c.op = "create" => c.proj # p
                    /\ Change(Call("create", p, row, None))
    /\ UNCHANGED <<stores, board, modal, drag>>

\* handleDelete.
Delete ==
    /\ form # None /\ form.id # None /\ "project" \notin busy
    /\ busy' = busy \cup {"project"}
    /\ Change(Call("delete", form.id, None, None))
    /\ UNCHANGED <<stores, board, modal, drag>>

\* The answers close the modal, whichever project it shows by now.
AfterSave(call) ==
    /\ busy' = busy \ {"project"}
    /\ Closed
    /\ calls' = Unmounted(Settled(call), {"tasks", "contacts"})
    /\ UNCHANGED <<stores, loading, scope, query, draft, drag, muddled>>

Saved(call) ==
    /\ call.op \in {"create", "update"} /\ call.done
    /\ cards' = IF call.op = "create" THEN With(cards, call.proj, call.ans)
                ELSE Replaced(call.proj, call.ans)
    /\ UNCHANGED shown
    /\ AfterSave(call)

Deleted(call) ==
    /\ call.op = "delete" /\ call.done
    /\ cards' = Without(cards, call.proj)
    /\ shown' = Without(shown, call.proj)
    /\ AfterSave(call)

SaveFails(call) ==
    /\ call.op \in {"create", "update", "delete"}
    /\ busy' = busy \ {"project"}
    /\ calls' = Settled(call) /\ Lost(call)
    /\ UNCHANGED <<stores, board, modal, drag>>

-----------------------------------------------------------------------------
(* The tasks of the open project *)

ShownTasks(p) == IF p \in DOMAIN shown THEN shown[p] ELSE {}

\* The answer of loadProjectTasks, dropped when form.id has changed.
TasksArrive(call) ==
    /\ call.op = "tasks" /\ call.done
    /\ calls' = Settled(call)
    /\ IF call.live
       THEN shown' = With(shown, call.proj, call.ans) /\ busy' = busy \ {"tasks"}
       ELSE UNCHANGED <<shown, busy>>
    /\ UNCHANGED <<stores, cards, loading, scope, query, modal, drag, muddled>>

\* Mutant: an error leaves the list waiting.
TasksFailLoading(call) ==
    /\ call.op = "tasks"
    /\ calls' = Settled(call)
    /\ UNCHANGED <<stores, board, modal, busy, drag, muddled>>

TasksFail(call) ==
    /\ call.op = "tasks"
    /\ calls' = Settled(call)
    /\ busy' = IF call.live THEN busy \ {"tasks"} ELSE busy
    /\ UNCHANGED <<stores, board, modal, drag, muddled>>

PanelIdle == form # None /\ form.id # None /\ "task" \notin busy

TaskEdit(t) ==
    /\ PanelIdle /\ "tasks" \notin busy
    /\ t \in ShownTasks(form.id)
    /\ draft' = t.id
    /\ UNCHANGED <<stores, board, form, people, fetching, busy, drag, calls, muddled>>

TaskCancel ==
    /\ PanelIdle /\ draft # None
    /\ draft' = None
    /\ UNCHANGED <<stores, board, form, people, fetching, busy, drag, calls, muddled>>

\* handleTaskSave: a new task, or the one in the draft.
TaskSave(done) ==
    /\ PanelIdle
    /\ busy' = busy \cup {"task"}
    /\ \/ draft # None /\ calls' = Asked(Call("edit task", form.id, done, draft))
       \/ /\ draft = None
          /\ \E id \in Tasks \ {t.id : t \in todo} :
                calls' = Asked(Call("new task", form.id, done, id))
    /\ UNCHANGED <<stores, board, modal, drag, muddled>>

\* handleTaskToggle; its answer renews the draft of the task, if it was there.
TaskToggle(t) ==
    /\ PanelIdle /\ "tasks" \notin busy
    /\ t \in ShownTasks(form.id)
    /\ busy' = busy \cup {"task"}
    /\ calls' = Asked(Call(IF draft = t.id THEN "toggle edited" ELSE "toggle task",
                           form.id, ~t.done, t.id))
    /\ UNCHANGED <<stores, board, modal, drag, muddled>>

\* Mutant: the answer goes to the project that is open by now.
TaskSavedToForm(call) ==
    LET p == IF form = None THEN None ELSE form.id IN
    /\ call.op \in TaskChanges /\ call.done
    /\ shown' = IF p = None THEN shown ELSE With(shown, p, ShownTasks(p) \cup {call.ans})
    /\ busy' = busy \ {"task"}
    /\ calls' = Settled(call)
    /\ UNCHANGED <<stores, cards, loading, scope, query, modal, drag, muddled>>

\* The answer goes to the project it was asked for; saving ends the edit.
TaskSaved(call) ==
    LET p   == call.proj
        old == {t \in ShownTasks(p) : t.id = call.ctx}
    IN  /\ call.op \in TaskChanges /\ call.done
        /\ shown' = With(shown, p,
                         IF call.op = "new task" \/ old # {}
                         THEN (ShownTasks(p) \ old) \cup {call.ans}
                         ELSE ShownTasks(p))
        /\ draft' = CASE call.op = "toggle task"   -> draft
                      [] call.op = "toggle edited" -> call.ctx
                      [] OTHER                     -> None
        /\ busy' = busy \ {"task"}
        /\ calls' = Settled(call)
        /\ UNCHANGED <<stores, cards, loading, scope, query, form, people, fetching, drag, muddled>>

TaskFails(call) ==
    /\ call.op \in TaskChanges
    /\ busy' = busy \ {"task"}
    /\ calls' = Settled(call)
    /\ UNCHANGED <<stores, board, modal, drag, muddled>>

-----------------------------------------------------------------------------
Init ==
    /\ rows \in [Existing -> {[stage |-> "lead", client |-> None, contact |-> "typed"]}
                     \cup {[stage |-> "lead", client |-> k, contact |-> k] :
                              k \in {CHOOSE k \in Clients : TRUE}}]
    /\ \E p \in Existing :
          todo = {[id |-> CHOOSE t \in Tasks : TRUE, proj |-> p, done |-> FALSE]}
    /\ cards = <<>> /\ shown = <<>> /\ loading = TRUE
    /\ scope = "ALL" /\ query \in {None, CHOOSE p \in Existing : TRUE}
    /\ form = None /\ people = {} /\ fetching = FALSE /\ draft = None
    /\ busy = {} /\ drag = None
    /\ calls = SetToBag({Call("load", None, None, None)})
    /\ muddled = FALSE /\ acts = 0

Server == \E call \in InFlight :
             \/ AnswersList(call) \/ AnswersAllTasks(call) \/ AnswersTasks(call)
             \/ AnswersContacts(call)
             \/ Stores(call) \/ Deletes(call) \/ StoresTask(call)

Arrives == \E call \in InFlight :
             \/ ListLoaded(call) \/ AllLoaded(call)
             \/ Moved(call) \/ Saved(call) \/ Deleted(call)
             \/ TasksArrive(call) \/ TaskSaved(call) \/ ContactsArrive(call)

Fails == \E call \in InFlight :
             \/ LoadFails(call) \/ MoveFails(call) \/ SaveFails(call)
             \/ TasksFail(call) \/ TaskFails(call) \/ ContactsFail(call)

Toolbar == \/ \E sc \in {"ALL", "open"} : SetScope(sc)
           \/ OpenNew("lead")

\* The board's cards and columns; the list and the timeline only open projects.
ProjectCardView(p) == DragStart(p) \/ OpenExisting(p)
Column(stage)      == Drop(stage) \/ OpenNew(stage)
ListView(p)        == OpenExisting(p)
GanttView(p)       == OpenExisting(p)

OnBoard == \/ Toolbar
           \/ \E p \in Projects : ProjectCardView(p) \/ ListView(p) \/ GanttView(p)
           \/ \E stage \in Stages : Column(stage)

InModal == \/ \E s \in Stages : EditStage(s)
           \/ \E k \in Clients \cup {None} : PickClient(k)
           \/ \E k \in Clients \cup {"typed"} : PickContact(k)
           \/ Close \/ Save \/ Delete

TaskList == \E t \in Task : TaskEdit(t) \/ TaskToggle(t)
TaskForm == (\E d \in BOOLEAN : TaskSave(d)) \/ TaskCancel

User == OnBoard \/ InModal \/ TaskList \/ TaskForm

Next == \/ (Server \/ Arrives \/ Fails \/ QueryOpens) /\ UNCHANGED acts
        \/ User /\ acts < MaxActs /\ acts' = acts + 1

Spec == Init /\ [][Next]_vars

\* The browser settles every request sooner or later, with an answer or an error.
Fairness == WF_vars((Arrives \/ Fails) /\ UNCHANGED acts)

FairSpec == Spec /\ Fairness

-----------------------------------------------------------------------------
(* Properties *)

\* The types of the variables.
TypeOK ==
    /\ DOMAIN rows \subseteq Projects /\ \A p \in DOMAIN rows : rows[p] \in Row
    /\ todo \subseteq Task
    /\ DOMAIN cards \subseteq Projects /\ \A p \in DOMAIN cards : cards[p] \in Row
    /\ \A p \in DOMAIN shown : shown[p] \subseteq Task
    /\ scope \in {"ALL", "open"} /\ query \in Projects \cup {None}
    /\ form = None \/ form \in Form
    /\ people \subseteq Clients /\ draft \in Tasks \cup {None}
    /\ drag \in Projects \cup {None}
    /\ busy \subseteq {"project", "task", "tasks"}
    /\ {loading, fetching, muddled} \subseteq BOOLEAN
    /\ acts \in 0..MaxActs

\* As long as every change was answered before the next one was sent, and no
\* answer was lost, the board shows what is stored once nothing is under way:
\* after optimistic moves, moves that failed, saves and deletions.
QuietBoardIsAccurate == ~muddled /\ BoardCalls = {} => cards = rows

\* The tasks listed under a project are tasks of that project, whatever modal
\* was opened or closed while they were on their way.
TasksOfProject == \A p \in DOMAIN shown : \A t \in shown[p] : t.proj = p

\* A linked client and a contact of another client never meet in the form, nor
\* on their way to the server.
Matching(r) == r.client # None => r.contact \in {r.client, None}
ContactOfClient ==
    /\ form # None => Matching(form)
    /\ \A c \in InFlight : c.op \in {"create", "update"} => Matching(c.arg)

\* A page or a modal that says it is loading or saving stops doing so.
Waiting == \/ loading
           \/ busy \cap {"project", "task"} # {}
           \/ form # None /\ form.id # None /\ "tasks" \in busy
SpinnersStop == Waiting ~> ~Waiting

=============================================================================
