----------------------------- MODULE BackOffice -----------------------------
(***************************************************************************)
(* One page of the back office with its server: whichever page is mounted  *)
(* first, until the user leaves it.                                        *)
(***************************************************************************)
EXTENDS PeoplePages, StockPages

Pages == {"clients", "users", "roles", "catalog", "tasks", "replies", "audit"}

\* The list is asked for when a page is mounted.
Init ==
    /\ page \in Pages
    /\ stored = IF page = "users" THEN <<"on", "pending">> ELSE <<"on", "off">>
    /\ made = 2
    /\ rows = {} /\ view = "all" /\ loading = TRUE
    /\ forms = {} /\ chosen = 0 /\ picked = {} /\ busy = {}
    /\ calls = SetToBag({List("all", "first")})
    /\ muddled = FALSE /\ acts = 0

\* An answer or an error gets to the page.
Arrives ==
    \E c \in InFlight :
       \/ page = "clients" /\ ClientArrivals(c)
       \/ page = "users"   /\ UserArrivals(c)
       \/ page = "roles"   /\ RoleArrivals(c)
       \/ page = "catalog" /\ CatalogArrivals(c)
       \/ page = "tasks"   /\ TaskArrivals(c)
       \/ page = "replies" /\ ReplyArrivals(c)
       \/ page = "audit"   /\ AuditArrivals(c)

User ==
    \/ page = "clients" /\ ClientActs
    \/ page = "users"   /\ UserActs
    \/ page = "roles"   /\ RoleActs
    \/ page = "catalog" /\ CatalogActs
    \/ page = "tasks"   /\ TaskActs
    \/ page = "replies" /\ ReplyActs
    \/ page = "audit"   /\ AuditActs

Next == /\ page # "left"
        /\ \/ (Server \/ Arrives) /\ UNCHANGED acts
           \/ /\ acts < MaxActs /\ BagCardinality(calls) <= MaxWork
              /\ User /\ acts' = acts + 1

Spec == Init /\ [][Next]_vars

-----------------------------------------------------------------------------
(* Properties *)

\* The types of the variables.
TypeOK ==
    /\ page \in Pages \cup {"left"} /\ made \in Ids
    /\ DOMAIN stored \subseteq 1..made /\ \A i \in DOMAIN stored : stored[i] \in Values
    /\ rows \subseteq Rows /\ view \in Views /\ loading \in BOOLEAN
    /\ forms \subseteq [kind : {"new", "edit", "delete", "picker"}, id : Ids \cup {0}]
    /\ chosen \in Ids \cup {0} /\ picked \subseteq Ids
    /\ muddled \in BOOLEAN /\ acts \in 0..MaxActs

\* Once nothing is under way a page shows what the server keeps, for the filter
\* that is chosen: after creations, edits, deletions, approvals and bulk actions
\* that overlap in any order.  What may spoil it is named in muddled: a list that
\* was overtaken by a later one, or read before a change that is on the page
\* already, a list that failed, an answer that was lost or that comes after a
\* later one about its record, a client edited out of the filter.  The next list
\* heals each.
QuietPageIsAccurate ==
    page # "left" /\ calls = EmptyBag /\ ~muddled => Visible = Seen(view)

\* The modal of the catalog stays open, for the same item, until its item has
\* been saved or has failed to be: no answer closes a form but its own.
SavingFormStays ==
    page = "catalog" =>
    \A c \in InFlight : c.op \in {"create", "update"} /\ c.next = "item" =>
       Open(IF c.op = "create" THEN "new" ELSE "edit",
            IF c.op = "create" THEN 0 ELSE CHOOSE i \in c.ids : TRUE) \in forms

=============================================================================
