---------------------------- MODULE PeoplePages ----------------------------
(***************************************************************************)
(* The pages of clients, users and roles, over RecordPage.  Clients are    *)
(* changed in the list; users and roles are asked for again after every    *)
(* change.  Escape closes a form while it is being saved, so that another  *)
(* one may be open when the answer comes.                                  *)
(*                                                                         *)
(* Abstracted: a client's value is its type, a user's is active, disabled  *)
(* or waiting for approval, a role's stands for its permissions; system    *)
(* roles and the filter of users by name are left out.                     *)
(***************************************************************************)
EXTENDS RecordPage

Bare == forms = {}

CloseForm(kinds) ==
    /\ forms # {} /\ forms' = Shut(kinds)
    /\ UNCHANGED <<work, busy>> /\ Idle

-----------------------------------------------------------------------------
(* Clients *)

ClientFilter(v) == Bare /\ v # view /\ ChoosesView(v)

ClientNew ==
    /\ Bare /\ forms' = Opens("new", 0)
    /\ UNCHANGED <<work, busy>> /\ Idle

\* ClientDetail's "edit", of the details shown.
ClientEdit ==
    /\ Bare /\ chosen # 0 /\ ~Is("detail")
    /\ forms' = Opens("edit", chosen)
    /\ UNCHANGED <<work, busy>> /\ Idle

\* ClientForm's submission, and handleSave up to its await; a new client keeps
\* the filter that loadClients was made for.
ClientSubmit ==
    /\ ~Is("saving")
    /\ \E f \in forms, v \in {"on", "off"} :
          Sends(IF f.kind = "edit" THEN Call("update", {f.id}, v, "none")
                ELSE Call("create", {}, v, view))
    /\ busy' = Flag("saving", 0)
    /\ UNCHANGED <<forms, work>>

\* Mutant: the list keeps its copy.
ClientSavedOnly(c) ==
    /\ c.op = "update" /\ c.done
    /\ Merges(c, rows)
    /\ \E r \in c.ans : chosen' = r.id
    /\ forms' = {} /\ busy' = Unflag("saving")
    /\ UNCHANGED <<picked, muddled>>

\* handleSave goes on: a client that was edited replaces its copy in the list,
\* whether it still is of the type chosen there or not.
ClientSaved(c) ==
    /\ c.op = "update" /\ c.done
    /\ \E r \in c.ans :
          /\ Merges(c, {IF q.id = r.id THEN r ELSE q : q \in rows})
          /\ chosen' = r.id
          /\ muddled' = \/ muddled \/ Stale(c)
                        \/ (r.id \in Listed) # (view \in {"all", r.val})
    /\ forms' = {} /\ busy' = Unflag("saving")
    /\ UNCHANGED picked

\* The list is awaited before the form is closed.
ClientCreated(c) ==
    /\ c.op = "create" /\ c.done
    /\ loading' = TRUE
    /\ calls' = Settled(c) (+) SetToBag({List(c.next, "client")})
    /\ UNCHANGED <<page, server, rows, view, forms, work, busy, muddled>>

ClientSaveFails(c) ==
    /\ c.op \in {"update", "create"}
    /\ Lost(c)
    /\ busy' = Unflag("saving") /\ UNCHANGED forms

\* What handleSave does after loadClients, which reports its own errors.
ClientListEnds(c) ==
    IF c.next = "client" THEN forms' = {} /\ busy' = Unflag("saving")
    ELSE UNCHANGED <<forms, busy>>

ClientsArrive(c) == IsList(c) /\ Replaces(c, {chosen}) /\ ClientListEnds(c)

ClientsFail(c) == ListFails(c, FALSE) /\ ClientListEnds(c)

\* selectClient.
ClientSelect(i) ==
    /\ Bare /\ ~loading /\ i \in Listed /\ i # chosen
    /\ Sends(Call("detail", {i}, "none", "none"))
    /\ busy' = Flag("detail", 0)
    /\ UNCHANGED <<forms, work>>

\* The details that arrive are shown, whichever were asked for last.
DetailSettles(c) ==
    /\ c.op = "detail"
    /\ \/ c.done /\ chosen' \in c.ids /\ UNCHANGED picked
       \/ UNCHANGED work
    /\ calls' = Settled(c)
    /\ busy' = Unflag("detail")
    /\ UNCHANGED <<page, server, list, forms, muddled>>

\* handleDelete, after the browser's confirmation.
ClientDelete ==
    /\ Bare /\ chosen # 0 /\ ~Is("detail")
    /\ Sends(Call("delete", {chosen}, "none", "none"))
    /\ UNCHANGED <<forms, work, busy>>

ClientDeleted(c) ==
    /\ c.op = "delete" /\ c.done
    /\ Merges(c, {r \in rows : r.id \notin c.ids})
    /\ chosen' = 0
    /\ UNCHANGED <<forms, picked, busy, muddled>>

ClientDeleteFails(c) ==
    /\ c.op = "delete" /\ Lost(c)
    /\ UNCHANGED <<forms, busy>>

ClientForm   == ClientSubmit \/ CloseForm({"new", "edit"})
ClientDetail == ClientEdit \/ ClientDelete

ClientActs ==
    \/ \E v \in Views : ClientFilter(v)
    \/ \E i \in Ids : ClientSelect(i)
    \/ ClientNew \/ ClientForm \/ ClientDetail

ClientArrivals(c) ==
    \/ ClientSaved(c) \/ ClientCreated(c) \/ ClientSaveFails(c)
    \/ ClientsArrive(c) \/ ClientsFail(c)
    \/ DetailSettles(c) \/ ClientDeleted(c) \/ ClientDeleteFails(c)

-----------------------------------------------------------------------------
(* Users *)

UserNew ==
    /\ Bare /\ forms' = Opens("new", 0)
    /\ UNCHANGED <<work, busy>> /\ Idle

\* The rows of the table, and those of the approval tab.
Active  == {r.id : r \in {q \in rows : q.val # "pending"}}
Waiting == Listed \ {r.id : r \in {q \in rows : q.val # "pending"}}

UserEdit(i) ==
    /\ Bare /\ ~loading /\ i \in Active
    /\ forms' = Opens("edit", i)
    /\ UNCHANGED <<work, busy>> /\ Idle

\* handleCreate and handleEdit, up to their awaits.
UserSubmit ==
    \E f \in forms, v \in {"on", "off"} :
       /\ ~Is(f.kind)
       /\ busy' = Flag(f.kind, 0)
       /\ Sends(IF f.kind = "edit" THEN Call("update", {f.id}, v, "edit")
                ELSE Call("create", {}, "on", "new"))
       /\ UNCHANGED <<forms, work>>

\* They go on: the form for new users, or the form of whichever user is edited
\* by now, is closed.
UserSaved(c) ==
    /\ c.op \in {"create", "update"} /\ c.next # "toggle" /\ c.done
    /\ Reloads(c, "none")
    /\ forms' = Shut({c.next}) /\ busy' = Unflag(c.next)
    /\ UNCHANGED work

UserSaveFails(c) ==
    /\ c.op \in {"create", "update"} /\ c.next # "toggle"
    /\ Lost(c)
    /\ busy' = Unflag(c.next) /\ UNCHANGED forms

\* toggleStatus, from the row as it is listed.
UserToggle(i) ==
    /\ Bare /\ ~loading
    /\ \E r \in rows :
          /\ r.id = i /\ r.val # "pending"
          /\ Sends(Call("update", {i}, IF r.val = "on" THEN "off" ELSE "on", "toggle"))
    /\ UNCHANGED <<forms, work, busy>>

\* handleApprove and handleReject: the flag remembers one user only.
UserReview(i, op) ==
    /\ Bare /\ ~loading /\ i \in Waiting /\ ~IsFor("review", i)
    /\ op \in {"approve", "reject"}
    /\ Sends(Call(op, {i}, IF op = "approve" THEN "on" ELSE "none", "review"))
    /\ busy' = Flag("review", i)
    /\ UNCHANGED <<forms, work>>

UserDelete(i) ==
    /\ Bare /\ ~loading /\ i \in Active /\ ~IsFor("delete", i)
    /\ Sends(Call("delete", {i}, "none", "delete"))
    /\ busy' = Flag("delete", i)
    /\ UNCHANGED <<forms, work>>

\* toggleStatus, handleApprove, handleReject and deleteUser go on.  A user who
\* is gone keeps the tick.
UserChanged(c) ==
    /\ c.op \in {"update", "approve", "reject", "delete"}
    /\ c.next \in {"toggle", "review", "delete"} /\ c.done
    /\ Reloads(c, "none")
    /\ busy' = Unflag(c.next)
    /\ UNCHANGED <<forms, work>>

UserChangeFails(c) ==
    /\ c.op \in {"update", "approve", "reject", "delete"}
    /\ c.next \in {"toggle", "review", "delete"}
    /\ Lost(c)
    /\ busy' = Unflag(c.next) /\ UNCHANGED forms

\* toggleSelect, toggleSelectAll and the cross of the bulk bar.
UserPick ==
    /\ Bare
    /\ \/ ~loading /\ \E i \in Active :
             picked' = IF i \in picked THEN picked \ {i} ELSE picked \cup {i}
       \/ picked' = IF Cardinality(picked) = Cardinality(Active) THEN {} ELSE Active
       \/ picked' = {}
    /\ UNCHANGED <<forms, chosen, busy>> /\ Idle

\* handleBulk, of the ticked users, listed or not.
UserBulk(action) ==
    /\ Bare /\ picked # {} /\ ~Is("bulk")
    /\ Sends(Call("bulk", picked, action, "none"))
    /\ busy' = Flag("bulk", 0)
    /\ UNCHANGED <<forms, work>>

UserBulkDone(c) ==
    /\ c.op = "bulk" /\ c.done
    /\ Reloads(c, "none")
    /\ picked' = {} /\ busy' = Unflag("bulk")
    /\ UNCHANGED <<forms, chosen>>

UserBulkFails(c) ==
    /\ c.op = "bulk" /\ Lost(c)
    /\ busy' = Unflag("bulk") /\ UNCHANGED forms

\* loadData's answers, once all have come.
UsersArrive(c) == IsList(c) /\ Replaces(c, {chosen}) /\ UNCHANGED <<forms, busy>>
UsersFail(c)   == ListFails(c, FALSE) /\ UNCHANGED <<forms, busy>>

UserForms == UserSubmit \/ CloseForm({"new", "edit"})

UserActs ==
    \/ UserNew \/ UserForms \/ UserPick
    \/ \E i \in Ids : \/ UserEdit(i) \/ UserToggle(i) \/ UserDelete(i)
                      \/ \E op \in {"approve", "reject"} : UserReview(i, op)
    \/ \E action \in {"on", "off", "none"} : UserBulk(action)

UserArrivals(c) ==
    \/ UserSaved(c) \/ UserSaveFails(c) \/ UserChanged(c) \/ UserChangeFails(c)
    \/ UserBulkDone(c) \/ UserBulkFails(c) \/ UsersArrive(c) \/ UsersFail(c)

-----------------------------------------------------------------------------
(* Roles *)

\* openCreate.
RoleNew ==
    /\ Bare /\ forms' = Opens("new", 0)
    /\ UNCHANGED <<work, busy>> /\ Idle

\* openEdit, and the bin of a role.
RoleOpen(i, kind) ==
    /\ Bare /\ ~loading /\ i \in Listed
    /\ forms' = Opens(kind, i)
    /\ UNCHANGED <<work, busy>> /\ Idle

\* handleSubmit.
RoleSubmit ==
    /\ ~Is("form")
    /\ \E f \in forms, v \in {"on", "off"} :
          /\ f.kind \in {"new", "edit"}
          /\ Sends(IF f.kind = "edit" THEN Call("update", {f.id}, v, "none")
                   ELSE Call("create", {}, v, "none"))
    /\ busy' = Flag("form", 0)
    /\ UNCHANGED <<forms, work>>

\* handleDelete, whose button stays enabled.
RoleDelete ==
    /\ \E f \in forms : f.kind = "delete" /\ Sends(Call("delete", {f.id}, "none", "none"))
    /\ UNCHANGED <<forms, work, busy>>

\* handleSubmit goes on: the form, whichever it is, is closed.
RoleSaved(c) ==
    /\ c.op \in {"create", "update"} /\ c.done
    /\ Reloads(c, "none")
    /\ forms' = Shut({"new", "edit"}) /\ busy' = Unflag("form")
    /\ UNCHANGED work

\* handleDelete goes on.
RoleDeleted(c) ==
    /\ c.op = "delete" /\ c.done
    /\ Reloads(c, "none")
    /\ forms' = Shut({"delete"})
    /\ UNCHANGED <<work, busy>>

\* The catch of each.
RoleFails(c) ==
    /\ c.op \in {"create", "update", "delete"}
    /\ Lost(c)
    /\ busy' = (IF c.op = "delete" THEN busy ELSE Unflag("form"))
    /\ UNCHANGED forms

RolesSettle(c) == \/ IsList(c) /\ Replaces(c, {chosen}) /\ UNCHANGED <<forms, busy>>
                  \/ ListFails(c, FALSE) /\ UNCHANGED <<forms, busy>>

RoleActs ==
    \/ RoleNew \/ RoleSubmit \/ RoleDelete \/ CloseForm({"new", "edit", "delete"})
    \/ \E i \in Ids, kind \in {"edit", "delete"} : RoleOpen(i, kind)

RoleArrivals(c) == RoleSaved(c) \/ RoleDeleted(c) \/ RoleFails(c) \/ RolesSettle(c)

=============================================================================
