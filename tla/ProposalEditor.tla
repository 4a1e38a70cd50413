--------------------------- MODULE ProposalEditor ---------------------------
(***************************************************************************)
(* The proposals page: the queue of proposals, the one selected in it, the *)
(* detail with its forms, and the requests between them and the server.    *)
(* Effects ask again for the queue and the detail whenever the selection   *)
(* changes, and the answers may change the selection.  The creation and    *)
(* the deletion modal cover the page and stay while what they asked for is *)
(* under way.                                                              *)
(*                                                                         *)
(* Abstracted: of a proposal, whether it is approved and whether it has    *)
(* service details, all proposals being services; a form is known by the   *)
(* proposal its fields came from.  Messages, totals and the spinners of    *)
(* the two loads are left out.                                             *)
(***************************************************************************)
EXTENDS Integers, Sequences, FiniteSets, Bags, SequencesExt, BagsExt

CONSTANTS
    Proposals,
    None,
    Existing,       \* the proposals there are at first, the newest update first
    MaxActs         \* bound: acts of the user

ASSUME EditorAssumption ==
    /\ None \notin Proposals \cup {"update", "create", "service"}
    /\ MaxActs \in Nat
    /\ Existing \in Seq(Proposals) \ {<<>>} /\ IsInjective(Existing)

VARIABLES
    stored,         \* the server's proposals, the newest update first
    approved,       \* those approved
    service,        \* those with service details
    requested,      \* ?proposalId=
    listed,         \* proposals
    selected,       \* selectedProposalId
    detail,         \* selectedProposal
    form,           \* the proposal proposalForm came from
    section,        \* ServiceDetailsSection: where its form came from, and
                    \* whether it takes the details for stored
    modal,          \* the open modal
    busy,           \* those of isUpdating, isCreating, saving that are set
    calls,          \* requests under way, a bag
    acts            \* acts of the user so far

server == <<stored, approved, service, requested>>
page   == <<listed, selected, detail, form, section, modal>>
vars   == <<server, page, busy, calls, acts>>

Contents(s)  == {s[i] : i \in DOMAIN s}
First(s)     == IF s = <<>> THEN None ELSE Head(s)
NoSection    == [of |-> None, saved |-> FALSE]

\* filter((q) => q.id !== p), of a list that names each proposal once.
Without(s, p) ==
    IF p \in Contents(s) THEN RemoveAt(s, CHOOSE i \in DOMAIN s : s[i] = p) ELSE s

-----------------------------------------------------------------------------
(* Requests *)

\* by: which of `busy' ends with it.  arg: what is sent, or what the closure of
\* loadProposals has captured.  seen: the selection in the handler's closure.
Call(op, p, arg, by) == [op |-> op, proj |-> p, arg |-> arg, by |-> by,
                         done |-> FALSE, ids |-> <<>>, svc |-> FALSE,
                         seen |-> None]

InFlight      == DOMAIN calls
Settled(call) == calls (-) SetToBag({call})

LoadDetail(p, by)  == Call("detail", p, None, by)
\* loadProposals(false), and loadProposals(true) that sees `seen' selected.
LoadFirst          == Call("list", None, "any", None)
LoadKeeping(s, by) == Call("list", None, s, by)

\* An awaiting handler goes on to its finally when its last request settles.
Finished(call) ==
    busy' = IF call.by # None /\ \A c \in DOMAIN Settled(call) : c.by # call.by
            THEN busy \ {call.by} ELSE busy

\* setSelectedProposalId, with the effects on it: loadProposals is another
\* function for another selection, so both loads run again.
Selects(p, bag) ==
    /\ selected' = p
    /\ calls' = IF p = selected THEN bag
                ELSE bag (+) SetToBag({LoadFirst} \cup
                             (IF p = None THEN {} ELSE {LoadDetail(p, None)}))

\* The detail is mounted while something is selected and loaded; its service
\* section takes its fields when it mounts and keeps them.
Mounts(s, d) ==
    section' = IF s = None \/ d.id = None THEN NoSection
               ELSE IF section.of = None THEN [of |-> d.id, saved |-> d.svc]
               ELSE section

-----------------------------------------------------------------------------
(* The server *)

Answered(call, ids, svc) ==
    calls' = Settled(call) (+)
             SetToBag({[call EXCEPT !.done = TRUE, !.ids = ids, !.svc = svc]})

AnswersList(call) ==
    /\ call.op = "list" /\ ~call.done
    /\ Answered(call, stored, FALSE)
    /\ UNCHANGED <<server, page, busy>>

AnswersDetail(call) ==
    /\ call.op = "detail" /\ ~call.done
    /\ call.proj \in Contents(stored)
    /\ Answered(call, <<>>, call.proj \in service)
    /\ UNCHANGED <<server, page, busy>>

\* PATCH of a proposal or of an item: the newest update comes first.
StoresUpdate(call) ==
    LET p == call.proj IN
    /\ call.op \in {"status", "meta", "item"} /\ ~call.done
    /\ p \in Contents(stored)
    /\ stored' = <<p>> \o Without(stored, p)
    /\ approved' = IF call.op # "status" THEN approved
                   ELSE IF call.arg = "approved" THEN approved \cup {p}
                   ELSE approved \ {p}
    /\ Answered(call, <<>>, p \in service)
    /\ UNCHANGED <<service, requested, page, busy>>

StoresNew(call) ==
    /\ call.op = "create" /\ ~call.done
    /\ call.proj \notin Contents(stored)
    /\ stored' = <<call.proj>> \o stored
    /\ Answered(call, <<>>, FALSE)
    /\ UNCHANGED <<approved, service, requested, page, busy>>

\* POST for the first service details, PATCH for later ones.
StoresService(call) ==
    /\ call.op \in {"post service", "patch service"} /\ ~call.done
    /\ call.proj \in Contents(stored)
    /\ (call.op = "patch service") <=> (call.proj \in service)
    /\ service' = service \cup {call.proj}
    /\ Answered(call, <<>>, TRUE)
    /\ UNCHANGED <<stored, approved, requested, page, busy>>

\* Approved proposals cannot be deleted.
Deletes(call) ==
    LET p == call.proj IN
    /\ call.op = "delete" /\ ~call.done
    /\ p \in Contents(stored) \ approved
    /\ stored' = Without(stored, p)
    /\ service' = service \ {p}
    /\ Answered(call, <<>>, FALSE)
    /\ UNCHANGED <<approved, requested, page, busy>>

-----------------------------------------------------------------------------
(* The two loads *)

\* Mutant: the effect runs at every answer, as with the list among its deps.
ListArrivesAgain(call) ==
    /\ call.op = "list" /\ call.done
    /\ listed' = call.ids
    /\ calls' = Settled(call) (+) SetToBag({LoadFirst})
    /\ selected' = First(call.ids)
    /\ Mounts(First(call.ids), detail)
    /\ Finished(call)
    /\ UNCHANGED <<server, detail, form, modal>>

\* loadProposals goes on: what is selected now depends on what was selected
\* when it was called.
ListArrives(call) ==
    LET next == IF call.arg = "any"
                THEN IF requested # None THEN requested ELSE First(call.ids)
                ELSE IF call.arg \in Contents(call.ids) THEN selected
                ELSE First(call.ids)
    IN  /\ call.op = "list" /\ call.done
        /\ listed' = call.ids
        /\ Selects(next, Settled(call))
        /\ Mounts(next, detail)
        /\ Finished(call)
        /\ UNCHANGED <<server, detail, form, modal>>

\* setSelectedProposal and setProposalForm, always together.
Shows(p, svc) ==
    /\ detail' = [id |-> p, svc |-> svc]
    /\ form' = p
    /\ Mounts(selected, detail')

\* Mutant: the detail is refreshed under a form that stays.
DetailKeepsForm(call) ==
    /\ call.op = "detail" /\ call.done
    /\ detail' = [id |-> call.proj, svc |-> call.svc]
    /\ form' = IF form = None THEN call.proj ELSE form
    /\ Mounts(selected, detail')
    /\ calls' = Settled(call) /\ Finished(call)
    /\ UNCHANGED <<server, listed, selected, modal>>

\* loadProposalDetail goes on, whatever is selected by now.
DetailArrives(call) ==
    /\ call.op = "detail" /\ call.done
    /\ Shows(call.proj, call.svc)
    /\ calls' = Settled(call) /\ Finished(call)
    /\ UNCHANGED <<server, listed, selected, modal>>

\* Both loads catch their errors.
LoadFails(call) ==
    /\ call.op \in {"list", "detail"}
    /\ calls' = Settled(call) /\ Finished(call)
    /\ UNCHANGED <<server, page>>

-----------------------------------------------------------------------------
(* What the user does *)

\* The detail is on screen.
DetailOpen == modal = None /\ selected # None /\ detail.id # None

Select(p) ==
    /\ modal = None
    /\ p \in Contents(listed) /\ p # selected
    /\ Selects(p, calls)
    /\ Mounts(p, detail)
    /\ UNCHANGED <<server, listed, detail, form, modal, busy>>

\* A handler starts, with the functions of the page as it is now.
Asks(call, work) ==
    /\ work \notin busy
    /\ busy' = busy \cup {work}
    /\ calls' = calls (+) SetToBag({[call EXCEPT !.seen = selected]})
    /\ UNCHANGED <<server, page>>

\* handleStatusChange.
ChangeStatus(status) ==
    DetailOpen /\ Asks(Call("status", detail.id, status, None), "update")

\* handleProposalMetaSave: the form goes to the proposal in the detail.
SaveForm ==
    DetailOpen /\ Asks(Call("meta", detail.id, form, None), "update")

\* handleItemUpdate, handleItemRemove.
ChangeItem ==
    DetailOpen /\ Asks(Call("item", detail.id, None, None), "update")

\* handleSave of the service section.
SaveService ==
    /\ DetailOpen /\ section.of # None
    /\ Asks(Call(IF section.saved THEN "patch service" ELSE "post service",
                 detail.id, section.of, None), "service")

OpenModal(m) ==
    /\ modal = None
    /\ m = "delete" => DetailOpen /\ "update" \notin busy
    /\ modal' = m
    /\ UNCHANGED <<server, listed, selected, detail, form, section, busy, calls>>

CloseModal ==
    /\ \/ modal = "create" /\ "create" \notin busy
       \/ modal = "delete" /\ "update" \notin busy
    /\ modal' = None
    /\ UNCHANGED <<server, listed, selected, detail, form, section, busy, calls>>

\* handleCreateProposal, once a title and a client are there.
Create ==
    /\ modal = "create"
    /\ \E p \in Proposals \ (Contents(stored) \cup {c.proj : c \in InFlight}) :
          Asks(Call("create", p, None, None), "create")

\* handleDeleteProposal; its closure has captured the queue.
Delete ==
    /\ modal = "delete" /\ detail.id # None
    /\ Asks([Call("delete", detail.id, None, None) EXCEPT !.ids = listed], "update")

-----------------------------------------------------------------------------
(* The answers *)

\* status and meta: both loads.  The detail is asked for the proposal that was
\* changed; the queue compares with the selection at the time of the click,
\* which is another one while the detail of a new selection is loading.
Updated(call) ==
    /\ call.op \in {"status", "meta"} /\ call.done
    /\ calls' = Settled(call) (+) SetToBag({LoadKeeping(call.seen, "update"),
                                            LoadDetail(call.proj, "update")})
    /\ UNCHANGED <<server, page, busy>>

ItemChanged(call) ==
    /\ call.op = "item" /\ call.done
    /\ Shows(call.proj, call.svc)
    /\ calls' = Settled(call) (+) SetToBag({LoadKeeping(call.seen, "update")})
    /\ UNCHANGED <<server, listed, selected, modal, busy>>

ServiceSaved(call) ==
    /\ call.op \in {"post service", "patch service"} /\ call.done
    /\ section' = IF section.of = None THEN section
                  ELSE [section EXCEPT !.saved = TRUE]
    /\ busy' = busy \ {"service"}
    /\ calls' = Settled(call)
    /\ UNCHANGED <<server, listed, selected, detail, form, modal>>

Created(call) ==
    /\ call.op = "create" /\ call.done
    /\ modal' = IF modal = "create" THEN None ELSE modal
    /\ Selects(call.proj, Settled(call) (+)
                   SetToBag({LoadKeeping(call.seen, "create"),
                             LoadDetail(call.proj, "create")}))
    /\ Mounts(call.proj, detail)
    /\ UNCHANGED <<server, listed, detail, form, busy>>

\* The queue as it was when the deletion was asked for, less the proposal.
Deleted(call) ==
    LET rest == Without(call.ids, call.proj) IN
    /\ call.op = "delete" /\ call.done
    /\ listed' = rest
    /\ detail' = [id |-> None, svc |-> FALSE]
    /\ form' = None
    /\ section' = NoSection
    /\ Selects(First(rest), Settled(call))
    /\ modal' = IF modal = "delete" THEN None ELSE modal
    /\ busy' = busy \ {"update"}
    /\ UNCHANGED server

\* Mutant: an error does not reach the finally.
FailsBusy(call) ==
    /\ call.op \notin {"list", "detail"}
    /\ calls' = Settled(call)
    /\ UNCHANGED <<server, page, busy>>

Work(op) == CASE op = "create" -> "create"
              [] op \in {"post service", "patch service"} -> "service"
              [] OTHER -> "update"

Fails(call) ==
    /\ call.op \notin {"list", "detail"}
    /\ busy' = busy \ {Work(call.op)}
    /\ calls' = Settled(call)
    /\ UNCHANGED <<server, page>>

-----------------------------------------------------------------------------
Init ==
    /\ stored = Existing
    /\ approved = {}
    /\ service \in {{}, {Head(stored)}}
    /\ requested \in {None, Last(stored)}
    /\ listed = <<>> /\ selected = requested
    /\ detail = [id |-> None, svc |-> FALSE] /\ form = None
    /\ section = NoSection /\ modal = None /\ busy = {}
    /\ calls = SetToBag({LoadFirst} \cup
                   (IF requested = None THEN {} ELSE {LoadDetail(requested, None)}))
    /\ acts = 0

Server == \E call \in InFlight :
             \/ AnswersList(call) \/ AnswersDetail(call)
             \/ StoresUpdate(call) \/ StoresNew(call) \/ StoresService(call)
             \/ Deletes(call)

Arrives == \E call \in InFlight :
             \/ ListArrives(call) \/ DetailArrives(call) \/ LoadFails(call)
             \/ Updated(call) \/ ItemChanged(call) \/ ServiceSaved(call)
             \/ Created(call) \/ Deleted(call) \/ Fails(call)

InDetail == \/ \E s \in {"approved", "draft"} : ChangeStatus(s)
            \/ SaveForm \/ ChangeItem \/ SaveService

User == \/ \E p \in Proposals : Select(p)
        \/ InDetail
        \/ \E m \in {"create", "delete"} : OpenModal(m)
        \/ CloseModal \/ Create \/ Delete

Next == \/ (Server \/ Arrives) /\ UNCHANGED acts
        \/ User /\ acts < MaxActs /\ acts' = acts + 1

Spec == Init /\ [][Next]_vars

\* The browser settles every request sooner or later, with an answer or an
\* error; the requests are the members of the finite bag.
FairSpec == Spec /\ WF_vars(Arrives /\ UNCHANGED acts)

-----------------------------------------------------------------------------
(* Properties *)

Ids == Proposals \cup {None}

\* The types of the variables: the queue names each proposal once, on the server
\* and on the screen.
TypeOK ==
    /\ stored \in Seq(Proposals) /\ IsInjective(stored)
    /\ approved \cup service \subseteq Proposals
    /\ listed \in Seq(Proposals) /\ IsInjective(listed)
    /\ {selected, requested, form} \subseteq Ids
    /\ detail \in [id : Ids, svc : BOOLEAN]
    /\ section \in [of : Ids, saved : BOOLEAN]
    /\ modal \in {None, "create", "delete"}
    /\ busy \subseteq {"update", "create", "service"}
    /\ acts \in 0..MaxActs

\* What is saved into a proposal are fields that came from it, however many
\* details and selections have passed while the requests were on their way.
FormGoesHome ==
    /\ detail.id # None => form = detail.id
    /\ \A c \in InFlight : c.op = "meta" => c.arg = c.proj

\* Loads that change the selection, and selections that start loads, come to
\* an end when the user stops.
LoadsEnd == <>[](calls = EmptyBag)

\* A button is disabled only while a request is under way whose end enables it
\* again, although an update goes on to two loads that other loads overtake.
BusyIsWorking ==
    \A w \in busy : \E c \in InFlight :
       IF c.op \in {"list", "detail"} THEN c.by = w ELSE Work(c.op) = w

\* A proposal chosen in the queue stays chosen while it exists, until the user
\* chooses another ("Escolha uma proposta na lista para ver os detalhes").
ChoiceIsKept ==
    [][selected' # selected /\ selected \in Contents(listed) \cap Contents(stored)
          => acts' # acts \/ \E c \in InFlight : c.op \in {"create", "delete"}]_vars

=============================================================================
