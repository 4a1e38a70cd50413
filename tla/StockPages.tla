----------------------------- MODULE StockPages -----------------------------
(***************************************************************************)
(* The catalog, the tasks workspace, the quick replies and the audit log,  *)
(* over RecordPage.  The catalog asks for its items again after every      *)
(* change and keeps isSaving until they are there; tasks and quick replies *)
(* are changed in the list.                                                *)
(*                                                                         *)
(* Abstracted: an item's value is whether it is active, a task's whether   *)
(* it is open, a quick reply's stands for its text.  The filters of the    *)
(* catalog and of the tasks, and their scopes, are one filter by value.    *)
(***************************************************************************)
EXTENDS RecordPage

-----------------------------------------------------------------------------
(* The catalog *)

\* The inline form of a quick reply does not cover the page; the others do.
Clear == \A f \in forms : page = "replies" /\ f.kind = "edit"

ItemSelect(r) ==
    /\ Clear /\ ~loading /\ r \in Visible /\ r.id # chosen
    /\ chosen' = r.id
    /\ UNCHANGED <<forms, picked, busy>> /\ Idle

\* selectedItem: the item chosen, unless it is not visible.
Selected == {r \in Visible : chosen \in {q.id : q \in Visible} => r.id = chosen}

\* openCreateModal and openEditModal; items are shown while others load.
ItemOpen(i) ==
    /\ Clear
    /\ \/ i = 0 /\ forms' = Opens("new", 0)
       \/ i \in {r.id : r \in Selected} /\ forms' = Opens("edit", i)
    /\ UNCHANGED <<work, busy>> /\ Idle

\* Mutant: the modal closes while its item is being saved.
ItemCloseAnyway ==
    /\ Shut({"new", "edit"}) # forms
    /\ forms' = Shut({"new", "edit"})
    /\ UNCHANGED <<work, busy>> /\ Idle

\* closeModal.
ItemClose ==
    /\ ~Is("saving") /\ Shut({"new", "edit"}) # forms
    /\ forms' = Shut({"new", "edit"})
    /\ UNCHANGED <<work, busy>> /\ Idle

\* handleSubmitForm, with the required fields filled in.
ItemSubmit ==
    /\ ~Is("saving")
    /\ \E f \in forms, v \in {"on", "off"} :
          /\ f.kind \in {"new", "edit"}
          /\ Sends(IF f.kind = "edit" THEN Call("update", {f.id}, v, "item")
                   ELSE Call("create", {}, v, "item"))
    /\ busy' = Flag("saving", 0)
    /\ UNCHANGED <<forms, work>>

\* handleDuplicateItem and handleToggleStatus, of an item as it is listed.
ItemCopy(r) ==
    /\ Clear /\ r \in Selected
    /\ Sends(Call("copy", {r.id}, r.val, "none"))
    /\ UNCHANGED <<forms, work, busy>>

ItemToggle(r) ==
    /\ Clear /\ r \in Selected
    /\ Sends(Call("update", {r.id}, IF r.val = "on" THEN "off" ELSE "on", "none"))
    /\ UNCHANGED <<forms, work, busy>>

\* All three go on with refreshCatalog; the first closes the modal before.
ItemStored(c) ==
    /\ c.op \in {"create", "update", "copy"} /\ c.done
    /\ Reloads(c, c.next)
    /\ forms' = IF c.next = "item" THEN Shut({"new", "edit"}) ELSE forms
    /\ UNCHANGED <<work, busy>>

ItemFails(c) ==
    /\ c.op \in {"create", "update", "copy"}
    /\ Lost(c)
    /\ busy' = (IF c.next = "item" THEN Unflag("saving") ELSE busy)
    /\ UNCHANGED forms

\* refreshCatalog settles, and the finally of handleSubmitForm.
ItemRefreshed(c) ==
    busy' = (IF c.next = "item" THEN Unflag("saving") ELSE busy) /\ UNCHANGED forms

\* The item chosen stays chosen if it is listed; else it is the first one.
ItemsArrive(c) ==
    LET ids == {r.id : r \in c.ans} IN
    /\ IsList(c)
    /\ Replaces(c, IF chosen \in ids THEN {chosen} ELSE IF ids = {} THEN {0} ELSE ids)
    /\ ItemRefreshed(c)

\* The first load empties the list when it fails.
ItemsFail(c) == ListFails(c, c.next = "first") /\ ItemRefreshed(c)

\* handleAddToProposal: the picker opens when the drafts have come, for the item
\* of whichever request comes last.
PickerAsk(i) ==
    /\ Clear /\ i \in {r.id : r \in Selected} /\ ~Is("propose")
    /\ Sends(Call("drafts", {i}, "none", "none"))
    /\ UNCHANGED <<forms, work, busy>>

DraftsSettle(c) ==
    /\ c.op = "drafts"
    /\ calls' = Settled(c)
    /\ \/ c.done /\ \E i \in c.ids : forms' = Opens("picker", i)
       \/ UNCHANGED forms
    /\ UNCHANGED <<page, server, list, work, busy, muddled>>

PickerClose ==
    /\ ~Is("propose") /\ Shut({"picker"}) # forms
    /\ forms' = Shut({"picker"})
    /\ UNCHANGED <<work, busy>> /\ Idle

\* handleCreateNewProposal and handleAddToExistingProposal.
Propose ==
    /\ ~Is("propose")
    /\ \E f \in forms : f.kind = "picker" /\ Sends(Call("propose", {f.id}, "none", "none"))
    /\ busy' = Flag("propose", 0)
    /\ UNCHANGED <<forms, work>>

\* router.push leaves the page.
Proposed(c) ==
    /\ c.op = "propose" /\ c.done
    /\ page' = "left"
    /\ calls' = Settled(c) /\ forms' = Shut({"picker"}) /\ busy' = Unflag("propose")
    /\ UNCHANGED <<server, list, work, muddled>>

ProposeFails(c) ==
    /\ c.op = "propose"
    /\ calls' = Settled(c)
    /\ busy' = Unflag("propose")
    /\ UNCHANGED <<page, server, list, forms, work, muddled>>

CatalogHead  == ItemOpen(0) \/ \E v \in Views : Clear /\ Filters(v)
CatalogTable == \E r \in rows : ItemSelect(r)
ItemDetail   == \E r \in rows :
                   ItemOpen(r.id) \/ ItemCopy(r) \/ ItemToggle(r) \/ PickerAsk(r.id)
ItemForm     == ItemSubmit \/ ItemClose
Picker       == Propose \/ PickerClose

CatalogActs == CatalogHead \/ CatalogTable \/ ItemDetail \/ ItemForm \/ Picker

CatalogArrivals(c) ==
    \/ ItemStored(c) \/ ItemFails(c) \/ ItemsArrive(c) \/ ItemsFail(c)
    \/ DraftsSettle(c) \/ Proposed(c) \/ ProposeFails(c)

-----------------------------------------------------------------------------
(* Tasks *)

\* selectedTask, whose panel covers the page.
TaskShown == {r \in rows : r.id = chosen}

TaskSelect(r) ==
    /\ ~loading /\ TaskShown = {} /\ r \in Visible
    /\ chosen' = r.id
    /\ UNCHANGED <<forms, picked, busy>> /\ Idle

TaskClose ==
    /\ TaskShown # {} /\ chosen' = 0
    /\ UNCHANGED <<forms, picked, busy>> /\ Idle

\* openProject, of a row or of the panel, leaves the page.
OpenProject(r) ==
    /\ r \in (IF TaskShown = {} THEN Visible ELSE TaskShown)
    /\ page' = "left"
    /\ UNCHANGED <<server, list, forms, work, busy, calls, muddled>>

\* toggleTaskStatus: updatingTaskId holds one task, and only its button is
\* disabled, so that a task is toggled again before its first answer when
\* another one was toggled in between.
TaskToggle(r) ==
    /\ ~loading /\ TaskShown = {} /\ r \in Visible /\ ~IsFor("task", r.id)
    /\ Sends(Call("update", {r.id}, IF r.val = "on" THEN "off" ELSE "on", "none"))
    /\ busy' = Flag("task", r.id)
    /\ UNCHANGED <<forms, work>>

\* It goes on: the answer replaces the task in the list.
TaskToggled(c) ==
    /\ c.op = "update" /\ c.done
    /\ Merges(c, {IF r.id \in c.ids THEN CHOOSE a \in c.ans : TRUE ELSE r : r \in rows})
    /\ busy' = Unflag("task") /\ muddled' = (muddled \/ Stale(c))
    /\ UNCHANGED <<forms, work>>

TaskFails(c) ==
    /\ c.op = "update" /\ Lost(c)
    /\ busy' = Unflag("task") /\ UNCHANGED forms

\* loadWorkspace.
TasksSettle(c) == \/ IsList(c) /\ Replaces(c, {chosen}) /\ UNCHANGED <<forms, busy>>
                  \/ ListFails(c, FALSE) /\ UNCHANGED <<forms, busy>>

TaskFilters == \E v \in Views : TaskShown = {} /\ Filters(v)
TaskTable   == \E r \in rows : TaskSelect(r) \/ TaskToggle(r)
TaskPanel   == TaskClose \/ \E r \in rows : OpenProject(r)

TaskActs == TaskFilters \/ TaskTable \/ TaskPanel

TaskArrivals(c) == TaskToggled(c) \/ TaskFails(c) \/ TasksSettle(c)

-----------------------------------------------------------------------------
(* Quick replies *)

\* "New Shortcut", the pencil and the bin of a reply; editing one reply ends
\* the editing of another.
ReplyOpen(i, kind) ==
    /\ Clear
    /\ IF kind = "new" THEN i = 0 ELSE ~loading /\ i \in Listed
    /\ kind # "new" => Open("edit", i) \notin forms
    /\ forms' = Opens(kind, i)
    /\ UNCHANGED <<work, busy>> /\ Idle

ReplyClose(kind) ==
    /\ Shut({kind}) # forms /\ forms' = Shut({kind})
    /\ kind = "edit" => Clear /\ ~loading
    /\ UNCHANGED <<work, busy>> /\ Idle

\* handleCreate, handleEdit and handleDelete, each with a flag of its own.
ReplySubmit(kind) ==
    /\ ~Is(kind)
    /\ kind = "edit" => Clear /\ ~loading
    /\ \E f \in forms, v \in {"on", "off"} :
          /\ f.kind = kind
          /\ Sends(CASE kind = "new"  -> Call("create", {}, v, kind)
                     [] kind = "edit" -> Call("update", {f.id}, v, kind)
                     [] OTHER -> Call("delete", {f.id}, "none", kind))
    /\ busy' = Flag(kind, 0)
    /\ UNCHANGED <<forms, work>>

\* create, update and remove of useQuickRepliesAdmin.
Changed(c) ==
    CASE c.op = "create" -> rows \cup c.ans
      [] c.op = "update" -> {IF r.id \in c.ids THEN CHOOSE a \in c.ans : TRUE ELSE r : r \in rows}
      [] OTHER -> {r \in rows : r.id \notin c.ids}

\* They go on, and close whatever form of the kind is open.
ReplyStored(c) ==
    /\ c.op \in {"create", "update", "delete"} /\ c.done
    /\ Merges(c, Changed(c))
    /\ forms' = Shut({c.next}) /\ busy' = Unflag(c.next)
    /\ muddled' = (muddled \/ Stale(c))
    /\ UNCHANGED work

ReplyFails(c) ==
    /\ c.op \in {"create", "update", "delete"} /\ Lost(c)
    /\ busy' = Unflag(c.next) /\ UNCHANGED forms

RepliesSettle(c) == \/ IsList(c) /\ Replaces(c, {chosen}) /\ UNCHANGED <<forms, busy>>
                    \/ ListFails(c, FALSE) /\ UNCHANGED <<forms, busy>>

ReplyActs ==
    \E kind \in {"new", "edit", "delete"} :
       \/ \E i \in Ids \cup {0} : ReplyOpen(i, kind)
       \/ ReplyClose(kind) \/ ReplySubmit(kind)

ReplyArrivals(c) == ReplyStored(c) \/ ReplyFails(c) \/ RepliesSettle(c)

-----------------------------------------------------------------------------
(* The audit log *)

\* The resource filter, the pages and "Refresh".
AuditActs == \E v \in Views : ChoosesView(v)

\* fetchLogs settles.
AuditArrivals(c) == \/ IsList(c) /\ Replaces(c, {chosen}) /\ UNCHANGED <<forms, busy>>
                    \/ ListFails(c, FALSE) /\ UNCHANGED <<forms, busy>>

=============================================================================
