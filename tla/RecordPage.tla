----------------------------- MODULE RecordPage -----------------------------
(***************************************************************************)
(* What the pages of the back office have in common: a list of the records *)
(* the server keeps, forms and confirmations over it, and requests whose   *)
(* answers either change the list in place or make the page ask for it     *)
(* again.  The handlers of the single pages are in PeoplePages and         *)
(* StockPages, and BackOffice composes them.                               *)
(*                                                                         *)
(* Abstracted: of a record one value is kept, its status or its type.      *)
(* `view' stands for whatever the list is asked for with: a filter, a      *)
(* search, a page number.  One person works with the records, and own      *)
(* accounts are not among them.                                            *)
(***************************************************************************)
EXTENDS Integers, FiniteSets, Bags, BagsExt

CONSTANTS
    MaxRecords,     \* bound: records that are ever created
    MaxActs,        \* bound: acts of the user
    MaxWork         \* bound: requests under way when the user acts

ASSUME RecordAssumption ==
    MaxRecords \in Nat \ {0, 1} /\ MaxActs \in Nat /\ MaxWork \in Nat

VARIABLES
    page,       \* the page that is mounted, "left" afterwards
    stored,     \* the server's records
    made,       \* ids given out by the server so far
    rows,       \* the records the page lists
    view,       \* the filter, search or page number chosen
    loading,    \* loading, isLoading
    forms,      \* what is open: forms, confirmations, the proposal picker
    chosen,     \* the record chosen for its details, 0 for none
    picked,     \* the records with a tick
    busy,       \* flags such as isSaving that are set, with a record or 0
    calls,      \* requests under way, a bag
    muddled,    \* history: the list was overtaken or an answer was lost
    acts        \* acts of the user so far

server == <<stored, made>>
list   == <<rows, view, loading>>
work   == <<chosen, picked>>
vars   == <<page, server, list, forms, work, busy, calls, muddled, acts>>

Ids    == 1..MaxRecords
Values == {"on", "off", "pending"}
Views  == {"all", "on"}

Row(i, v) == [id |-> i, val |-> v]
Rows      == [id : Ids, val : Values]
Listed    == {r.id : r \in rows}

Matching(rs, v) == {r \in rs : v \in {"all", r.val}}

\* What the server lists, and what the page shows of its list: the catalog and
\* the tasks ask for everything, and filter it themselves.
Local   == page \in {"catalog", "tasks"}
Seen(v) == Matching({Row(i, stored[i]) : i \in DOMAIN stored}, v)
Visible == IF Local THEN Matching(rows, view) ELSE rows
AskFor  == IF Local THEN "all" ELSE view

\* UsersPage asks for the users and for those to be approved separately.
Parts == IF page = "users" THEN {"approved", "pending"} ELSE {"all"}
PartOf(r, p) == CASE p = "approved" -> r.val # "pending"
                  [] p = "pending" -> r.val = "pending"
                  [] OTHER -> TRUE

-----------------------------------------------------------------------------
(* Requests *)

\* next: what the handler that asked does with the answer.
Call(op, ids, val, next) ==
    [op |-> op, ids |-> ids, val |-> val, next |-> next,
     read |-> {}, ans |-> {}, done |-> FALSE, late |-> FALSE]

List(v, next) == Call("list", {}, v, next)
InFlight      == DOMAIN calls
Asked(c)      == calls (+) SetToBag({c})
Settled(c)    == calls (-) SetToBag({c})

\* Lists that have been read, in part, are older than what the page has now.
Late(c) == IF c.op = "list" /\ c.read # {} THEN [c EXCEPT !.late = TRUE] ELSE c

Times(d, bag) == IF d \in DOMAIN bag THEN bag[d] ELSE 0

\* Requests that become equal are counted together.
Overtaken(c) ==
    LET others == Settled(c)
    IN  [d \in {Late(e) : e \in DOMAIN others} |->
            Times(d, others) +
            (IF d.late THEN Times([d EXCEPT !.late = FALSE], others) ELSE 0)]

Flag(f, i) == {b \in busy : b.flag # f} \cup {[flag |-> f, id |-> i]}
Unflag(f)  == {b \in busy : b.flag # f}
Is(f)      == \E b \in busy : b.flag = f
IsFor(f, i) == [flag |-> f, id |-> i] \in busy

Open(kind, i) == [kind |-> kind, id |-> i]
Shut(kinds)   == {f \in forms : f.kind \notin kinds}
Opens(kind, i) == Shut({kind}) \cup {Open(kind, i)}

-----------------------------------------------------------------------------
(* The server *)

AnswersPart(c) ==
    /\ c.op = "list"
    /\ \E p \in Parts \ c.read :
          LET seen == {r \in Seen(c.val) : PartOf(r, p)}
          IN  calls' = Settled(c) (+)
                       SetToBag({[c EXCEPT !.read = @ \cup {p}, !.ans = @ \cup seen]})
    /\ UNCHANGED <<page, server, list, forms, work, busy, muddled>>

Answered(c, ans) ==
    /\ calls' = Settled(c) (+) SetToBag({[c EXCEPT !.done = TRUE, !.ans = ans]})
    /\ UNCHANGED <<page, list, forms, work, busy, muddled>>

\* POST of a record, or of a copy.
StoresNew(c) ==
    /\ c.op \in {"create", "copy"} /\ ~c.done /\ made < MaxRecords
    /\ c.ids \subseteq DOMAIN stored
    /\ made' = made + 1
    /\ stored' = [i \in DOMAIN stored \cup {made + 1} |->
                     IF i = made + 1 THEN c.val ELSE stored[i]]
    /\ Answered(c, {Row(made + 1, c.val)})

\* PATCH, enable, disable and approve.  Only a pending user is approved.
StoresValue(c) ==
    /\ c.op \in {"update", "approve"} /\ ~c.done
    /\ c.ids \subseteq DOMAIN stored
    /\ c.op = "approve" => \A i \in c.ids : stored[i] = "pending"
    /\ stored' = [i \in DOMAIN stored |-> IF i \in c.ids THEN c.val ELSE stored[i]]
    /\ UNCHANGED made
    /\ Answered(c, {Row(i, c.val) : i \in c.ids})

\* DELETE and reject.
StoresDeletion(c) ==
    /\ c.op \in {"delete", "reject"} /\ ~c.done
    /\ c.ids \subseteq DOMAIN stored
    /\ c.op = "reject" => \A i \in c.ids : stored[i] = "pending"
    /\ stored' = [i \in DOMAIN stored \ c.ids |-> stored[i]]
    /\ UNCHANGED made
    /\ Answered(c, {})

\* The bulk endpoint skips users it does not find.
StoresBulk(c) ==
    /\ c.op = "bulk" /\ ~c.done
    /\ stored' = IF c.val = "none" THEN [i \in DOMAIN stored \ c.ids |-> stored[i]]
                 ELSE [i \in DOMAIN stored |-> IF i \in c.ids THEN c.val ELSE stored[i]]
    /\ UNCHANGED made
    /\ Answered(c, {})

\* Details, draft proposals, a proposal.
AnswersOther(c) ==
    /\ c.op \in {"detail", "drafts", "propose"} /\ ~c.done
    /\ c.ids \subseteq DOMAIN stored
    /\ UNCHANGED server
    /\ Answered(c, {})

Server == \E c \in InFlight :
             \/ AnswersPart(c) \/ StoresNew(c) \/ StoresValue(c)
             \/ StoresDeletion(c) \/ StoresBulk(c) \/ AnswersOther(c)

-----------------------------------------------------------------------------
(* What the handlers are made of *)

IsList(c) == c.op = "list" /\ c.read = Parts

\* The list is replaced by an answer, and one of the records given is chosen.
Replaces(c, choices) ==
    /\ rows' = c.ans /\ chosen' \in choices
    /\ loading' = FALSE
    /\ calls' = Overtaken(c)
    /\ muddled' = (c.late \/ c.val # AskFor)
    /\ UNCHANGED <<page, server, view, picked>>

\* The list does not come; earlier answers may lack what it was asked for.
ListFails(c, emptied) ==
    /\ c.op = "list"
    /\ rows' = IF emptied THEN {} ELSE rows
    /\ chosen' = IF emptied THEN 0 ELSE chosen
    /\ loading' = FALSE /\ muddled' = TRUE
    /\ calls' = Overtaken(c)
    /\ UNCHANGED <<page, server, view, picked>>

\* The server has changed records, and the page does not know yet.
Changes == {d \in InFlight :
    d.done /\ d.op \in {"update", "approve", "delete", "reject", "bulk"}}

\* The server has changed the record again since it answered, and the page has
\* taken the answer about that before.
Stale(c) ==
    /\ ~(c.ans \subseteq Seen("all"))
    /\ ~\E d \in Changes \ {c} : d.ids \cap {r.id : r \in c.ans} # {}

\* An answer is taken into the list.
Merges(c, new) ==
    /\ rows' = new
    /\ calls' = Overtaken(c)
    /\ UNCHANGED <<page, server, view, loading>>

\* The page asks for the list again.
Reloads(c, next) ==
    /\ loading' = TRUE
    /\ calls' = Settled(c) (+) SetToBag({List(AskFor, next)})
    /\ UNCHANGED <<page, server, rows, view, muddled>>

\* A request failed; it may have been carried out.
Lost(c) ==
    /\ calls' = IF c.done THEN Overtaken(c) ELSE Settled(c)
    /\ muddled' = (muddled \/ (c.done /\ c.op # "detail" /\ c.op # "drafts"))
    /\ UNCHANGED <<page, server, list, work>>

\* A click sends a request, or sends none.
Sends(c) == calls' = Asked(c) /\ UNCHANGED <<page, server, list, muddled>>
Idle     == UNCHANGED <<page, server, list, calls, muddled>>

\* The page shows other records of its list.
Filters(v) ==
    /\ v # view /\ view' = v
    /\ UNCHANGED <<page, server, rows, loading, forms, work, busy, calls, muddled>>

\* The list is asked for with another filter.
ChoosesView(v) ==
    /\ view' = v /\ loading' = TRUE
    /\ calls' = Asked(List(v, "none"))
    /\ UNCHANGED <<page, server, rows, forms, work, busy, muddled>>

=============================================================================
