-------------------------- MODULE BackOfficeProofs --------------------------
(***************************************************************************)
(* What the pages of the back office keep to, for any number of records,   *)
(* acts and requests under way: a quiet page is accurate, and the modal of *)
(* the catalog stays while its item is being saved.                        *)
(***************************************************************************)
EXTENDS BackOffice, TLAPS

-----------------------------------------------------------------------------
(* The bag of requests under way *)

Counts(B) == \A e \in DOMAIN B : B[e] \in Nat \ {0}

\* One request more, and one less.
More(M, B, c) == M = B (+) SetToBag({c})
Less(M, B, c) == M = B (-) SetToBag({c})

\* What adding a request does to the bag, pointwise.
LEMMA Plus ==
    ASSUME NEW B, Counts(B), NEW c, NEW M, More(M, B, c)
    PROVE  /\ Counts(M) /\ \A e : e \in DOMAIN M <=> e \in DOMAIN B \/ e = c
           /\ \A e \in DOMAIN B : e # c => M[e] = B[e]
           /\ M[c] = 1 <=> c \notin DOMAIN B
<1> DEFINE S == SetToBag({c})
           D == B (+) S
<1>0. M = D
    BY DEF More
<1>1. DOMAIN S = {c} /\ S[c] = 1
    BY DEF SetToBag
<1> HIDE DEF S
<1>2. DOMAIN D = DOMAIN B \cup {c}
    BY <1>1 DEF (+), Times
<1>3. \A e \in DOMAIN D : D[e] = Times(e, B) + Times(e, S)
    BY <1>2 DEF (+), Times
<1>4. \A e \in DOMAIN B : e # c => D[e] = B[e]
    BY <1>1, <1>2, <1>3 DEF Times, Counts
<1>5. D[c] = (IF c \in DOMAIN B THEN B[c] + 1 ELSE 1)
    BY <1>1, <1>2, <1>3 DEF Times, Counts
<1> HIDE DEF D
<1>6. Counts(D)
    BY <1>2, <1>4, <1>5 DEF Counts
<1>7. D[c] = 1 <=> c \notin DOMAIN B
    BY <1>5 DEF Counts
<1> QED
    BY <1>0, <1>2, <1>4, <1>6, <1>7

\* What taking a request out does to the bag, pointwise.
LEMMA Minus ==
    ASSUME NEW B, Counts(B), NEW c \in DOMAIN B, NEW M, Less(M, B, c)
    PROVE  /\ Counts(M)
           /\ \A e : e \in DOMAIN M <=> e \in DOMAIN B /\ (e # c \/ B[c] # 1)
           /\ \A e \in DOMAIN B : e # c => M[e] = B[e]
<1> DEFINE S == SetToBag({c})
           D == B (-) S
           left == [e \in DOMAIN B |-> IF e \in DOMAIN S THEN B[e] - S[e] ELSE B[e]]
<1>0. M = D
    BY DEF Less
<1>1. DOMAIN S = {c} /\ S[c] = 1
    BY DEF SetToBag
<1> HIDE DEF S
<1>2. D = [e \in {d \in DOMAIN left : left[d] > 0} |-> left[e]]
    BY DEF (-)
<1>3. \A e \in DOMAIN B : e # c => left[e] = B[e]
    BY <1>1 DEF Counts
<1>4. left[c] = B[c] - 1
    BY <1>1 DEF Counts
<1>5. DOMAIN left = DOMAIN B
    OBVIOUS
<1> HIDE DEF left
<1>6. DOMAIN D = {e \in DOMAIN B : e # c \/ B[c] # 1}
    BY <1>2, <1>3, <1>4, <1>5 DEF Counts
<1>7. \A e \in DOMAIN D : D[e] = left[e]
    BY <1>2, <1>6
<1> HIDE DEF D
<1>8. Counts(D)
    BY <1>3, <1>4, <1>6, <1>7 DEF Counts
<1> QED
    BY <1>0, <1>3, <1>4, <1>6, <1>7, <1>8

-----------------------------------------------------------------------------
(* The invariant *)

Ops == {"list", "create", "copy", "update", "approve", "delete", "reject", "bulk",
        "detail", "drafts", "propose"}

Nexts == Views \cup
    {"first", "none", "item", "client", "new", "edit", "delete", "toggle", "review"}

CallType ==
    [op : Ops, ids : SUBSET (Ids \cup {0}), val : Values \cup {"all", "none"},
     next : Nexts, read : SUBSET {"approved", "pending", "all"},
     ans : SUBSET Rows, done : BOOLEAN, late : BOOLEAN]

\* What a request asks for, and what its answer says of the records; gone are
\* the ids of records that were deleted, and on is the page.  A client is created
\* with the view that will be asked for.
Sound(c, gone, on) ==
    /\ c \in CallType
    /\ c.op = "list" => c.val \in Views /\ (c.read = {} => c.ans = {})
    /\ c.op \in {"create", "copy", "update", "approve"} => c.val \in Values
    /\ c.op = "bulk" => c.val \in {"on", "off", "none"}
    /\ c.op = "create" /\ on = "clients" => c.next \in Views
    /\ c.op = "update" => \E i \in Ids \cup {0} : c.ids = {i}
    /\ c.op = "update" /\ c.done => c.ans = {Row(i, c.val) : i \in c.ids}
    /\ c.op = "create" /\ c.done => \E i \in Ids : c.ans = {Row(i, c.val)}
    /\ c.op \in {"delete", "reject"} /\ c.done => c.ans = {} /\ c.ids \subseteq gone

Gone    == 1..made \ DOMAIN stored
CallsInv == Counts(calls) /\ \A c \in InFlight : Sound(c, Gone, page)

\* The server has done these, and the page does not know yet.
Altered == UNION {d.ids : d \in Changes}
Creates == {d \in InFlight : d.done /\ d.op \in {"create", "copy"}}
Added   == UNION {{r.id : r \in d.ans} : d \in Creates}

\* What the server lists in the parts given.
Read(v, parts) == {r \in Seen(v) : \E p \in parts : PartOf(r, p)}

\* Rows that are those of the server, apart from what the page does not know yet.
Fits(rs, v, parts) ==
    /\ \A r \in rs : r.id \notin Altered => r \in Seen(v)
    /\ \A r \in Read(v, parts) : r.id \notin Altered \cup Added => r \in rs
    /\ parts = {"all"} /\ v = "all" => DOMAIN stored \ Added \subseteq {r.id : r \in rs}

Lists    == {c \in InFlight : c.op = "list"}
Alone(l) == Lists = {l} /\ calls[l] = 1

\* The answer to the only list that is asked for fits, as far as it has been read;
\* what the page lists fits once no list is asked for.
ListsFit == \A l \in Lists : Alone(l) /\ ~l.late => Fits(l.ans, l.val, l.read)
RowsFit  == Lists = {} /\ ~muddled => Fits(rows, AskFor, Parts)
ListInv  == page # "left" => ListsFit /\ RowsFit

\* One item at a time is saved, from a form that stays.
ItemCalls == {c \in InFlight : c.next = "item"}
NewForms  == \A f \in forms : f.kind = "new" => f.id = 0
HasForm(c) ==
    /\ c.op \in {"list", "create", "update"}
    /\ c.op = "create" => Open("new", 0) \in forms
    /\ c.op = "update" => \E i \in Ids \cup {0} : c.ids = {i} /\ Open("edit", i) \in forms
ItemInv ==
    page = "catalog" =>
    /\ NewForms
    /\ \A c \in ItemCalls : Is("saving") /\ ItemCalls = {c} /\ calls[c] = 1 /\ HasForm(c)

-----------------------------------------------------------------------------
(* Requests *)

\* A list that is asked for now has no answer yet.
LEMMA NewList ==
    ASSUME NEW v \in Views, NEW next \in Nexts, NEW gone, NEW on, NEW c, c = List(v, next)
    PROVE  /\ Sound(c, gone, on) /\ c.op = "list" /\ c.next = next
           /\ c.read = {} /\ c.ans = {} /\ ~c.done
<1>1. /\ c \in CallType /\ c.op = "list" /\ c.val = v /\ c.next = next
      /\ c.read = {} /\ c.ans = {} /\ ~c.done
    BY DEF List, Call, CallType, Ops, Views, Values
<1>2. Sound(c, gone, on)
    BY <1>1 DEF Sound
<1> QED
    BY <1>1, <1>2

\* Deletions by the server leave what is known of a request.
LEMMA MoreGone ==
    ASSUME NEW c, NEW gone, NEW more, NEW on, Sound(c, gone, on), gone \subseteq more
    PROVE  Sound(c, more, on)
BY DEF Sound

\* Marking a list as late changes nothing else of it.
LEMMA LateIsSound ==
    ASSUME NEW e, NEW gone, NEW on, Sound(e, gone, on)
    PROVE  /\ Sound(Late(e), gone, on) /\ Late(e).op = e.op /\ Late(e).next = e.next
           /\ Late(e).ids = e.ids
           /\ e.op # "list" => Late(e) = e
           /\ e.op = "list" => Late(e).late \/ Late(e).read = {}
           /\ Late(e) # e => ~e.late /\ Late(e).late /\ [Late(e) EXCEPT !.late = FALSE] = e
<1> PICK d : d = [e EXCEPT !.late = TRUE]
    OBVIOUS
<1>1. e \in CallType
    BY DEF Sound
<1>2. /\ d \in CallType /\ d.op = e.op /\ d.next = e.next /\ d.late /\ d.val = e.val
      /\ d.read = e.read /\ d.ans = e.ans /\ d.ids = e.ids /\ d.done = e.done
    BY <1>1 DEF CallType
<1>3. e.late => d = e
    BY <1>1 DEF CallType
<1>4. ~e.late => [d EXCEPT !.late = FALSE] = e
    BY <1>1 DEF CallType
<1>5. CASE e.op = "list" /\ e.read # {}
    <2>1. Late(e) = d
        BY <1>5 DEF Late
    <2>2. Sound(d, gone, on)
        BY <1>2, <1>5 DEF Sound
    <2>3. e.late \in BOOLEAN
        BY <1>1 DEF CallType
    <2> QED
        BY <1>2, <1>3, <1>4, <1>5, <2>1, <2>2, <2>3
<1>6. CASE ~(e.op = "list" /\ e.read # {})
    BY <1>6 DEF Late
<1> QED
    BY <1>5, <1>6

\* What is left of the requests when one of them is over.
LEMMA SettledSound ==
    ASSUME CallsInv, NEW c \in InFlight, NEW B, B = Settled(c)
    PROVE  /\ Counts(B)
           /\ \A e : e \in DOMAIN B <=> e \in InFlight /\ (e # c \/ calls[c] # 1)
           /\ \A e \in InFlight : e # c => B[e] = calls[e]
           /\ \A e \in DOMAIN B : Sound(e, Gone, page)
<1>1. Counts(calls) /\ c \in DOMAIN calls /\ Less(B, calls, c)
    BY DEF CallsInv, Settled, InFlight, Less
<1>2. /\ Counts(B)
      /\ \A e : e \in DOMAIN B <=> e \in DOMAIN calls /\ (e # c \/ calls[c] # 1)
      /\ \A e \in DOMAIN calls : e # c => B[e] = calls[e]
    BY <1>1, Minus
<1> QED
    BY <1>2 DEF CallsInv, InFlight

\* What is left of them when an answer overtakes the lists read before.
LEMMA OvertakenSound ==
    ASSUME CallsInv, NEW c \in InFlight
    PROVE  /\ Counts(Overtaken(c))
           /\ DOMAIN Overtaken(c) = {Late(e) : e \in DOMAIN Settled(c)}
           /\ \A d \in DOMAIN Overtaken(c) : Sound(d, Gone, page)
<1> PICK D : D = Settled(c)
    OBVIOUS
<1>1. Counts(D) /\ \A e \in DOMAIN D : Sound(e, Gone, page)
    BY SettledSound
<1>2. DOMAIN Overtaken(c) = {Late(e) : e \in DOMAIN D}
    BY DEF Overtaken
<1>3. \A x : Times(x, D) \in Nat /\ (x \in DOMAIN D => Times(x, D) # 0)
    BY <1>1 DEF Counts, Times
<1>4. ASSUME NEW e \in DOMAIN D
      PROVE  Overtaken(c)[Late(e)] \in Nat \ {0} /\ Sound(Late(e), Gone, page)
    <2> PICK d : d = Late(e)
        OBVIOUS
    <2>1. Sound(d, Gone, page) /\ (d # e => d.late /\ [d EXCEPT !.late = FALSE] = e)
        BY <1>1, LateIsSound
    <2> PICK f : f = [d EXCEPT !.late = FALSE]
        OBVIOUS
    <2>2. Overtaken(c)[d] = Times(d, D) + (IF d.late THEN Times(f, D) ELSE 0)
        BY DEF Overtaken
    <2>3. Times(d, D) \in Nat /\ Times(f, D) \in Nat
        BY <1>3
    <2>4. Times(d, D) # 0 \/ (d.late /\ Times(f, D) # 0)
        BY <1>3, <2>1
    <2>5. Overtaken(c)[d] \in Nat \ {0}
        BY <2>2, <2>3, <2>4
    <2> QED
        BY <2>1, <2>5
<1> QED
    BY <1>2, <1>4 DEF Counts

\* What is left of the other requests when a list or an answer is taken.
LEMMA OvertakenLists ==
    ASSUME CallsInv, NEW c \in InFlight, calls' = Overtaken(c)
    PROVE  /\ \A l \in Lists' : l.late \/ (l.read = {} /\ l.ans = {})
           /\ Lists' = {} => Lists \subseteq {c} /\ (c \in Lists => calls[c] = 1)
           /\ \A d \in InFlight \ {c} : d.op # "list" => d \in InFlight'
           /\ \A d \in InFlight' : d.op # "list" => d \in InFlight
<1> PICK D : D = Settled(c)
    OBVIOUS
<1>1. \A e : e \in DOMAIN D <=> e \in InFlight /\ (e # c \/ calls[c] # 1)
    BY SettledSound
<1>2. InFlight' = {Late(e) : e \in DOMAIN D}
    BY OvertakenSound DEF InFlight
<1>3. \A e \in InFlight : /\ Late(e).op = e.op
                          /\ e.op # "list" => Late(e) = e
                          /\ e.op = "list" => Late(e).late \/ Late(e).read = {}
                          /\ Sound(Late(e), Gone, page)
    BY LateIsSound DEF CallsInv
<1>4. \A e \in InFlight : e.op = "list" /\ Late(e).read = {} => Late(e).ans = {}
    BY <1>3 DEF Sound
<1>5. \A l \in Lists' : l.late \/ (l.read = {} /\ l.ans = {})
    BY <1>1, <1>2, <1>3, <1>4 DEF Lists
<1>6. \A e \in DOMAIN D : e.op = "list" => Late(e) \in Lists'
    BY <1>1, <1>2, <1>3 DEF Lists
<1>7. \A d \in InFlight \ {c} : d.op # "list" => d \in InFlight'
    BY <1>1, <1>2, <1>3
<1>8. \A d \in InFlight' : d.op # "list" => d \in InFlight
    BY <1>1, <1>2, <1>3
<1>9. Lists' = {} => Lists \subseteq {c} /\ (c \in Lists => calls[c] = 1)
    BY <1>1, <1>6 DEF Lists
<1> QED
    BY <1>5, <1>7, <1>8, <1>9

\* Sending a request.
LEMMA AskedKeeps ==
    ASSUME CallsInv, UNCHANGED <<page, server>>, NEW d, Sound(d, Gone, page), calls' = Asked(d)
    PROVE  /\ CallsInv' /\ InFlight' = InFlight \cup {d}
           /\ \A e \in InFlight : e # d => calls'[e] = calls[e]
           /\ calls'[d] = 1 <=> d \notin InFlight
<1>1. Gone' = Gone
    BY DEF server, Gone
<1>2. Counts(calls) /\ More(calls', calls, d)
    BY DEF CallsInv, Asked, More
<1>3. /\ Counts(calls') /\ \A e : e \in DOMAIN calls' <=> e \in DOMAIN calls \/ e = d
      /\ \A e \in DOMAIN calls : e # d => calls'[e] = calls[e]
      /\ calls'[d] = 1 <=> d \notin DOMAIN calls
    BY <1>2, Plus
<1>4. InFlight' = InFlight \cup {d}
    BY <1>3 DEF InFlight
<1> QED
    BY <1>1, <1>3, <1>4 DEF CallsInv, InFlight

\* A request is over.
LEMMA SettledKeeps ==
    ASSUME CallsInv, UNCHANGED <<page, server>>, NEW c \in InFlight,
           calls' = Settled(c) \/ calls' = Overtaken(c)
    PROVE  CallsInv'
<1>1. Gone' = Gone
    BY DEF server, Gone
<1>2. Counts(calls') /\ \A e \in InFlight' : Sound(e, Gone, page)
    BY SettledSound, OvertakenSound DEF InFlight
<1> QED
    BY <1>1, <1>2 DEF CallsInv

\* One request in the place of another.
LEMMA Replaced ==
    ASSUME CallsInv, NEW c \in InFlight, NEW d, calls' = Settled(c) (+) SetToBag({d})
    PROVE  /\ Counts(calls')
           /\ InFlight' = {e \in InFlight : e # c \/ calls[c] # 1} \cup {d}
           /\ \A e \in InFlight : e # c /\ e # d => calls'[e] = calls[e]
           /\ calls'[d] = 1 <=> ~(d \in InFlight /\ (d # c \/ calls[c] # 1))
<1> PICK B : B = Settled(c)
    OBVIOUS
<1>1. /\ Counts(B)
      /\ \A e : e \in DOMAIN B <=> e \in InFlight /\ (e # c \/ calls[c] # 1)
      /\ \A e \in InFlight : e # c => B[e] = calls[e]
    BY SettledSound
<1>2. More(calls', B, d)
    BY DEF More
<1>3. /\ Counts(calls') /\ \A e : e \in DOMAIN calls' <=> e \in DOMAIN B \/ e = d
      /\ \A e \in DOMAIN B : e # d => calls'[e] = B[e]
      /\ calls'[d] = 1 <=> d \notin DOMAIN B
    BY <1>1, <1>2, Plus
<1>4. InFlight' = DOMAIN B \cup {d}
    BY <1>3 DEF InFlight
<1>5. calls'[d] = 1 <=> d \notin DOMAIN B
    BY <1>1, <1>3 DEF Counts
<1> QED
    BY <1>1, <1>3, <1>4, <1>5

\* One request in the place of another, with what is known of each.
LEMMA ReplacedKeeps ==
    ASSUME CallsInv, page' = page, NEW c \in InFlight, Gone \subseteq Gone', NEW d,
           Sound(d, Gone', page), calls' = Settled(c) (+) SetToBag({d})
    PROVE  /\ CallsInv'
           /\ InFlight' = {e \in InFlight : e # c \/ calls[c] # 1} \cup {d}
           /\ \A e \in InFlight : e # c /\ e # d => calls'[e] = calls[e]
           /\ calls'[d] = 1 <=> ~(d \in InFlight /\ (d # c \/ calls[c] # 1))
<1>1. /\ Counts(calls')
      /\ InFlight' = {e \in InFlight : e # c \/ calls[c] # 1} \cup {d}
      /\ \A e \in InFlight : e # c /\ e # d => calls'[e] = calls[e]
      /\ calls'[d] = 1 <=> ~(d \in InFlight /\ (d # c \/ calls[c] # 1))
    BY Replaced
<1>2. \A e \in InFlight : Sound(e, Gone', page)
    BY MoreGone DEF CallsInv
<1> QED
    BY <1>1, <1>2 DEF CallsInv

-----------------------------------------------------------------------------
(* The list and its answers *)

\* What the server does leaves the rest as it was.
LEMMA FitsKept ==
    ASSUME NEW rs, NEW v, NEW parts, Fits(rs, v, parts),
           Altered \subseteq Altered', Added \subseteq Added',
           \A i \in DOMAIN stored \ Altered' : i \in DOMAIN stored' /\ stored'[i] = stored[i],
           \A i \in DOMAIN stored' \ (Altered' \cup Added') :
              i \in DOMAIN stored /\ stored'[i] = stored[i],
           DOMAIN stored' \ Added' \subseteq DOMAIN stored
    PROVE  Fits(rs, v, parts)'
<1>1. \A i, x : Row(i, x).id = i /\ Row(i, x).val = x
    BY DEF Row
<1>2. \A r : r \in Seen(v) <=> /\ \E i \in DOMAIN stored : r = Row(i, stored[i])
                               /\ v \in {"all", r.val}
    BY DEF Seen, Matching
<1>3. \A r : r \in Seen(v)' <=> /\ \E i \in DOMAIN stored' : r = Row(i, stored'[i])
                                /\ v \in {"all", r.val}
    BY DEF Seen, Matching
<1>4. \A r \in rs : r.id \notin Altered' => r \in Seen(v)'
    BY <1>1, <1>2, <1>3 DEF Fits
<1>5. \A r \in Seen(v)' : r.id \notin Altered' \cup Added' => r \in Seen(v)
    BY <1>1, <1>2, <1>3
<1>6. \A r \in Read(v, parts)' : r.id \notin Altered' \cup Added' => r \in rs
    BY <1>5 DEF Fits, Read
<1>7. parts = {"all"} /\ v = "all" => DOMAIN stored' \ Added' \subseteq {r.id : r \in rs}
    BY DEF Fits
<1> QED
    BY <1>4, <1>6, <1>7 DEF Fits

\* A list that was just asked for: its answer has not been read.
LEMMA FreshList ==
    ASSUME NEW l, l \in Lists', l.read = {}, l.ans = {}
    PROVE  ListInv'
<1>1. Fits(l.ans, l.val, l.read)'
    BY DEF Fits, Read
<1> QED
    BY <1>1 DEF ListInv, ListsFit, RowsFit, Alone

\* Steps that add no answer to a list and none to the page.
LEMMA ListsKept ==
    ASSUME ListInv, page' = page, page # "left", rows' = rows, AskFor' = AskFor,
           muddled => muddled',
           Lists' = Lists, \A l \in Lists : calls'[l] = calls[l],
           Altered \subseteq Altered', Added \subseteq Added',
           \A i \in DOMAIN stored \ Altered' : i \in DOMAIN stored' /\ stored'[i] = stored[i],
           \A i \in DOMAIN stored' \ (Altered' \cup Added') :
              i \in DOMAIN stored /\ stored'[i] = stored[i],
           DOMAIN stored' \ Added' \subseteq DOMAIN stored
    PROVE  ListInv'
<1>1. ASSUME NEW l \in Lists', Alone(l)', ~l.late
      PROVE  Fits(l.ans, l.val, l.read)'
    <2>1. Fits(l.ans, l.val, l.read)
        BY <1>1 DEF ListInv, ListsFit, Alone
    <2> QED
        BY <2>1, FitsKept
<1>2. ASSUME Lists' = {}, ~muddled'
      PROVE  Fits(rows, AskFor, Parts)'
    <2> PICK rs, v, parts : rs = rows /\ v = AskFor /\ parts = Parts
        OBVIOUS
    <2>1. Fits(rs, v, parts)
        BY <1>2 DEF ListInv, RowsFit
    <2>2. Fits(rs, v, parts)'
        BY <2>1, FitsKept
    <2>3. rs = rows' /\ v = AskFor' /\ parts = Parts'
        BY DEF Parts
    <2> QED
        BY <2>2, <2>3 DEF Fits, Read
<1> QED
    BY <1>1, <1>2 DEF ListInv, ListsFit, RowsFit

\* Taking a list or an answer leaves no other list that could be taken for new.
LEMMA OvertakenFits ==
    ASSUME CallsInv, NEW c \in InFlight, calls' = Overtaken(c), RowsFit'
    PROVE  ListInv'
<1>1. \A l \in Lists' : l.late \/ (l.read = {} /\ l.ans = {})
    BY OvertakenLists
<1>2. ASSUME NEW l \in Lists', l.read = {}, l.ans = {}
      PROVE  Fits(l.ans, l.val, l.read)'
    BY <1>2 DEF Fits, Read
<1> QED
    BY <1>1, <1>2 DEF ListInv, ListsFit

-----------------------------------------------------------------------------
(* What the handlers are made of *)

\* Nothing is sent and nothing is taken in.
LEMMA IdleKeeps ==
    ASSUME CallsInv, ListInv, page # "left", Idle
    PROVE  CallsInv' /\ ListInv'
<1>1. /\ InFlight' = InFlight /\ Altered' = Altered /\ Added' = Added /\ Lists' = Lists
      /\ calls' = calls /\ stored' = stored /\ page' = page /\ rows' = rows
      /\ AskFor' = AskFor /\ muddled' = muddled /\ Gone' = Gone
    BY DEF Idle, server, list, InFlight, Altered, Changes, Added, Creates, Lists, AskFor,
           Local, Gone
<1>2. CallsInv'
    BY <1>1 DEF CallsInv
<1> QED
    BY <1>1, <1>2, ListsKept

\* A request that is no list is sent.
LEMMA SendsKeeps ==
    ASSUME CallsInv, ListInv, page # "left", NEW d, Sound(d, Gone, page), d.op # "list", ~d.done,
           Sends(d)
    PROVE  CallsInv' /\ ListInv'
<1>1. /\ calls' = Asked(d) /\ stored' = stored /\ page' = page /\ rows' = rows
      /\ AskFor' = AskFor /\ muddled' = muddled /\ UNCHANGED <<page, server>>
    BY DEF Sends, server, list, AskFor, Local
<1>2. /\ CallsInv' /\ InFlight' = InFlight \cup {d}
      /\ \A e \in InFlight : e # d => calls'[e] = calls[e]
    BY <1>1, AskedKeeps
<1>4. Lists' = Lists /\ \A l \in Lists : calls'[l] = calls[l]
    BY <1>2 DEF Lists
<1>5. Altered' = Altered /\ Added' = Added
    BY <1>2 DEF Altered, Changes, Added, Creates
<1> QED
    BY <1>1, <1>2, <1>4, <1>5, ListsKept

\* The list is asked for with another filter.
LEMMA ChoosesViewKeeps ==
    ASSUME CallsInv, NEW v \in Views, ChoosesView(v)
    PROVE  CallsInv' /\ ListInv'
<1> PICK l : l = List(v, "none")
    OBVIOUS
<1>1. Sound(l, Gone, page) /\ l.op = "list" /\ l.read = {} /\ l.ans = {}
    BY NewList DEF Nexts
<1>2. calls' = Asked(l) /\ UNCHANGED <<page, server>>
    BY DEF ChoosesView
<1>3. CallsInv' /\ l \in InFlight'
    BY <1>1, <1>2, AskedKeeps
<1>4. l \in Lists'
    BY <1>1, <1>3 DEF Lists
<1> QED
    BY <1>1, <1>3, <1>4, FreshList

\* The list is asked for in the place of a request that was answered.
LEMMA AsksAgain ==
    ASSUME CallsInv, NEW c \in InFlight, NEW v \in Views, NEW next \in Nexts,
           calls' = Settled(c) (+) SetToBag({List(v, next)}), UNCHANGED <<page, server>>
    PROVE  CallsInv' /\ ListInv'
<1> PICK l : l = List(v, next)
    OBVIOUS
<1>1. Sound(l, Gone, page) /\ l.op = "list" /\ l.read = {} /\ l.ans = {}
    BY NewList
<1>2. Gone' = Gone
    BY DEF Gone, server
<1>3. CallsInv' /\ l \in InFlight'
    BY <1>1, <1>2, ReplacedKeeps
<1>4. l \in Lists'
    BY <1>1, <1>3 DEF Lists
<1> QED
    BY <1>1, <1>3, <1>4, FreshList

\* A request that brings nothing to the list is over.
LEMMA SettlesQuietly ==
    ASSUME CallsInv, ListInv, page # "left", NEW c \in InFlight,
           c.op \in {"detail", "drafts", "propose"} \/ (c.op # "list" /\ ~c.done),
           calls' = Settled(c), UNCHANGED <<page, server, rows, view>>, muddled => muddled'
    PROVE  CallsInv' /\ ListInv'
<1>1. /\ stored' = stored /\ page' = page /\ rows' = rows /\ AskFor' = AskFor
      /\ UNCHANGED <<page, server>>
    BY DEF server, AskFor, Local
<1>2. CallsInv'
    BY <1>1, SettledKeeps
<1>3. /\ InFlight' \subseteq InFlight /\ \A e \in InFlight : e # c => e \in InFlight'
      /\ \A e \in InFlight : e # c => calls'[e] = calls[e]
    BY SettledSound DEF InFlight
<1>4. Lists' = Lists /\ \A l \in Lists : calls'[l] = calls[l]
    BY <1>3 DEF Lists
<1>5. Altered' = Altered /\ Added' = Added
    BY <1>3 DEF Altered, Changes, Added, Creates
<1> QED
    BY <1>1, <1>2, <1>4, <1>5, ListsKept

\* A request failed.
LEMMA LostKeeps ==
    ASSUME CallsInv, ListInv, page # "left", NEW c \in InFlight, c.op # "list", Lost(c)
    PROVE  CallsInv' /\ ListInv'
<1>1. /\ UNCHANGED <<page, server, rows, view>> /\ (muddled => muddled')
      /\ c.done /\ c.op \notin {"detail", "drafts"} => muddled'
      /\ calls' = IF c.done THEN Overtaken(c) ELSE Settled(c)
    BY DEF Lost, list
<1>2. CASE ~c.done
    BY <1>1, <1>2, SettlesQuietly
<1>3. CASE c.done
    <2>1. calls' = Overtaken(c)
        BY <1>1, <1>3
    <2>2. CallsInv'
        BY <1>1, <2>1, SettledKeeps
    <2>3. ASSUME Lists' = {}, ~muddled' PROVE Fits(rows, AskFor, Parts)'
        <3>1. /\ Lists = {} /\ ~muddled /\ c.op \in {"detail", "drafts"}
              /\ \A d : d.op # "list" /\ d # c => (d \in InFlight <=> d \in InFlight')
            BY <1>1, <1>3, <2>1, <2>3, OvertakenLists DEF Lists
        <3>2. Fits(rows, AskFor, Parts)
            BY <3>1 DEF ListInv, RowsFit
        <3>3. Altered' = Altered /\ Added' = Added
            BY <3>1, <2>1, OvertakenLists DEF Altered, Changes, Added, Creates
        <3>4. UNCHANGED <<rows, stored, page>> /\ AskFor' = AskFor
            BY <1>1 DEF AskFor, Local, server
        <3> QED
            BY <3>2, <3>3, <3>4 DEF Fits, Read, Seen, Parts
    <2> QED
        BY <2>1, <2>2, <2>3, OvertakenFits DEF RowsFit
<1> QED
    BY <1>2, <1>3

\* The list does not come.
LEMMA ListFailsKeeps ==
    ASSUME CallsInv, NEW c \in InFlight, NEW emptied, ListFails(c, emptied)
    PROVE  CallsInv' /\ ListInv'
<1>1. calls' = Overtaken(c) /\ muddled' /\ UNCHANGED <<page, server>>
    BY DEF ListFails
<1>2. CallsInv' /\ RowsFit'
    BY <1>1, SettledKeeps DEF RowsFit
<1> QED
    BY <1>1, <1>2, OvertakenFits

\* A list that was read before, and after, no change the page knows of.
LEMMA ReplacesKeeps ==
    ASSUME CallsInv, ListInv, page # "left", NEW c \in InFlight, IsList(c),
           NEW choices, Replaces(c, choices)
    PROVE  CallsInv' /\ ListInv'
<1>1. /\ calls' = Overtaken(c) /\ muddled' = (c.late \/ c.val # AskFor) /\ rows' = c.ans
      /\ UNCHANGED <<page, stored, server, view>> /\ c.op = "list" /\ c.read = Parts
    BY DEF Replaces, IsList, server
<1>2. CallsInv'
    BY <1>1, SettledKeeps
<1>3. ASSUME Lists' = {}, ~muddled' PROVE Fits(rows, AskFor, Parts)'
    <2>0. c \in Lists
        BY <1>1 DEF Lists
    <2>6. Lists \subseteq {c} /\ calls[c] = 1
        BY <1>1, <1>3, <2>0, OvertakenLists
    <2>7. ~c.late /\ c.val = AskFor
        BY <1>1, <1>3
    <2>1. Alone(c) /\ c \in Lists /\ ~c.late /\ c.val = AskFor
        BY <2>0, <2>6, <2>7 DEF Alone
    <2>2. Fits(c.ans, c.val, c.read)
        BY <2>1 DEF ListInv, ListsFit
    <2>3. /\ \A d \in InFlight : d.op # "list" => d \in InFlight'
          /\ \A d \in InFlight' : d.op # "list" => d \in InFlight
        BY <1>1, OvertakenLists
    <2>4. Altered' = Altered /\ Added' = Added
        BY <2>3 DEF Altered, Changes, Added, Creates
    <2>5. AskFor' = AskFor /\ Parts' = Parts
        BY <1>1 DEF AskFor, Local, Parts
    <2> QED
        BY <1>1, <2>1, <2>2, <2>4, <2>5 DEF Fits, Read, Seen
<1> QED
    BY <1>1, <1>2, <1>3, OvertakenFits DEF RowsFit

\* The page shows other records of a list that has everything.
LEMMA FiltersKeeps ==
    ASSUME CallsInv, ListInv, page # "left", Local, NEW v, Filters(v)
    PROVE  CallsInv' /\ ListInv'
<1>1. /\ InFlight' = InFlight /\ Altered' = Altered /\ Added' = Added /\ Lists' = Lists
      /\ calls' = calls /\ stored' = stored /\ page' = page /\ rows' = rows
      /\ AskFor' = AskFor /\ muddled' = muddled /\ Gone' = Gone
    BY DEF Filters, server, InFlight, Altered, Changes, Added, Creates, Lists, AskFor,
           Local, Gone
<1>2. CallsInv'
    BY <1>1 DEF CallsInv
<1> QED
    BY <1>1, <1>2, ListsKept

-----------------------------------------------------------------------------
(* Answers taken into the list *)

\* What the page does not know yet, once an answer about one change is taken.
LEMMA TakenAnswer ==
    ASSUME CallsInv, ListInv, page # "left", NEW c \in InFlight, c.op # "list", c.done,
           calls' = Overtaken(c), UNCHANGED <<page, server, view>>, Lists' = {}, ~muddled
    PROVE  /\ Fits(rows, AskFor, Parts)
           /\ \A d \in Changes : d # c => d \in Changes'
           /\ \A i \in Altered : i \in Altered' \/ i \in c.ids
           /\ \A i \in Added :
                 i \in Added' \/ (c.op \in {"create", "copy"} /\ \E r \in c.ans : i = r.id)
           /\ UNCHANGED <<stored, page>> /\ AskFor' = AskFor /\ Parts' = Parts
           /\ \A v, parts : Read(v, parts)' = Read(v, parts)
<1>1. /\ \A d \in InFlight \ {c} : d.op # "list" => d \in InFlight'
      /\ Lists = {}
    BY OvertakenLists DEF Lists
<1>2. Fits(rows, AskFor, Parts)
    BY <1>1 DEF ListInv, RowsFit
<1>3. \A d \in Changes : d # c => d \in Changes'
    BY <1>1 DEF Changes
<1>4. \A d \in Creates : d # c => d \in Creates'
    BY <1>1 DEF Creates
<1>5. \A i \in Altered : i \in Altered' \/ i \in c.ids
    BY <1>3 DEF Altered
<1>6. \A i \in Added :
          i \in Added' \/ (c.op \in {"create", "copy"} /\ \E r \in c.ans : i = r.id)
    BY <1>4 DEF Added, Creates
<1>7. UNCHANGED <<stored, page>> /\ AskFor' = AskFor /\ Parts' = Parts
    BY DEF server, AskFor, Local, Parts
<1>8. \A v, parts : Read(v, parts)' = Read(v, parts)
    BY <1>7 DEF Read, Seen
<1> QED
    BY <1>2, <1>3, <1>5, <1>6, <1>7, <1>8

\* A row the server lists is a record as it is stored.
LEMMA SeenRows ==
    ASSUME NEW v, NEW r
    PROVE  r \in Seen(v) <=> /\ r.id \in DOMAIN stored /\ r = Row(r.id, stored[r.id])
                             /\ v \in {"all", r.val}
<1>1. \A i, x : Row(i, x).id = i
    BY DEF Row
<1> QED
    BY <1>1 DEF Seen, Matching

\* A record that was deleted is taken off.
LEMMA DeletionFits ==
    ASSUME CallsInv, ListInv, page # "left", NEW c \in InFlight, c.op = "delete", c.done,
           calls' = Overtaken(c), UNCHANGED <<page, server, view>>, Lists' = {}, ~muddled,
           rows' = {r \in rows : r.id \notin c.ids}
    PROVE  Fits(rows, AskFor, Parts)'
<1>1. c.ids \subseteq Gone /\ c.ans = {}
    BY DEF CallsInv, Sound
<1>2. /\ Fits(rows, AskFor, Parts)
      /\ \A i \in Altered : i \in Altered' \/ i \in c.ids
      /\ \A i \in Added : i \in Added'
      /\ UNCHANGED <<stored, page>> /\ AskFor' = AskFor /\ Parts' = Parts
      /\ Read(AskFor, Parts)' = Read(AskFor, Parts)
    BY TakenAnswer
<1>3. \A r \in rows' : r.id \notin Altered' => r \in Seen(AskFor)
    BY <1>2 DEF Fits
<1>4. \A r \in Read(AskFor, Parts) : r.id \notin Altered' \cup Added' => r \in rows'
    BY <1>1, <1>2, SeenRows DEF Fits, Read, Gone
<1>5. Parts = {"all"} /\ AskFor = "all" => DOMAIN stored \ Added' \subseteq {r.id : r \in rows'}
    BY <1>1, <1>2 DEF Fits, Gone
<1>6. Seen(AskFor)' = Seen(AskFor)
    BY <1>2 DEF Seen
<1> QED
    BY <1>2, <1>3, <1>4, <1>5, <1>6 DEF Fits

\* An answer that is not stale is what the server keeps, or is changed again by
\* a request whose answer is still to come.
LEMMA NotStale ==
    ASSUME NEW c \in InFlight, NEW a, c.ans = {a}, ~Stale(c),
           \A d \in Changes : d # c => d \in Changes'
    PROVE  a \in Seen("all") \/ a.id \in Altered'
BY DEF Stale, Altered

\* A record that was changed replaces its copy.
LEMMA UpdateFits ==
    ASSUME CallsInv, ListInv, page # "left", NEW c \in InFlight, c.op = "update", c.done,
           calls' = Overtaken(c), UNCHANGED <<page, server, view>>, Lists' = {}, ~muddled,
           ~Stale(c), NEW i, c.ids = {i}, NEW a, a = Row(i, c.val), c.ans = {a},
           rows' = {IF q.id = i THEN a ELSE q : q \in rows},
           \/ AskFor = "all" /\ Parts = {"all"}
           \/ i \in Listed <=> AskFor \in {"all", a.val}
    PROVE  Fits(rows, AskFor, Parts)'
<1>1. /\ Fits(rows, AskFor, Parts)
      /\ \A d \in Changes : d # c => d \in Changes'
      /\ \A j \in Altered : j \in Altered' \/ j = i
      /\ \A j \in Added : j \in Added'
      /\ UNCHANGED <<stored, page>> /\ AskFor' = AskFor /\ Parts' = Parts
      /\ Read(AskFor, Parts)' = Read(AskFor, Parts)
    BY TakenAnswer
<1>2. a.id = i /\ (a \in Seen("all") \/ i \in Altered')
    BY <1>1, NotStale DEF Row
<1>3. i \notin Altered' => i \in DOMAIN stored /\ a = Row(i, stored[i])
    BY <1>2, SeenRows
<1>4. i \in Listed => a \in rows'
    BY DEF Listed
<1>5. \A q \in rows : q.id # i => q \in rows'
    OBVIOUS
<1>6. \A r \in rows' : (r = a /\ i \in Listed) \/ (r \in rows /\ r.id # i)
    BY DEF Listed
<1>7. i \in Listed /\ i \notin Altered' => a \in Seen(AskFor)
    BY <1>2, <1>3, SeenRows
<1>8. \A r \in rows' : r.id \notin Altered' => r \in Seen(AskFor)
    BY <1>1, <1>2, <1>6, <1>7 DEF Fits
<1>9. ASSUME NEW r \in Read(AskFor, Parts), r.id \notin Altered' \cup Added'
      PROVE  r \in rows'
    <2>1. r \in Seen(AskFor)
        BY DEF Read
    <2>2. /\ r.id \in DOMAIN stored /\ r = Row(r.id, stored[r.id])
          /\ AskFor \in {"all", r.val}
        BY <2>1, SeenRows
    <2>3. CASE r.id # i
        BY <1>1, <1>5, <1>9, <2>3 DEF Fits
    <2>4. CASE r.id = i
        <3>1. r = a
            BY <1>3, <1>9, <2>2, <2>4
        <3>2. i \in Listed
            BY <1>1, <1>9, <2>2, <2>4, <3>1 DEF Fits, Listed
        <3> QED
            BY <1>4, <3>1, <3>2
    <2> QED
        BY <2>3, <2>4
<1>10. {r.id : r \in rows} \subseteq {r.id : r \in rows'}
    BY <1>2, <1>4, <1>5 DEF Listed
<1>11. Parts = {"all"} /\ AskFor = "all" => DOMAIN stored \ Added' \subseteq {r.id : r \in rows'}
    BY <1>1, <1>10 DEF Fits
<1>12. Seen(AskFor)' = Seen(AskFor)
    BY <1>1 DEF Seen
<1> QED
    BY <1>1, <1>8, <1>9, <1>11, <1>12 DEF Fits

\* A record that was created is added.
LEMMA CreationFits ==
    ASSUME CallsInv, ListInv, page # "left", NEW c \in InFlight, c.op = "create", c.done,
           calls' = Overtaken(c), UNCHANGED <<page, server, view>>, Lists' = {}, ~muddled,
           ~Stale(c), AskFor = "all", NEW a, c.ans = {a}, rows' = rows \cup {a}
    PROVE  Fits(rows, AskFor, Parts)'
<1>1. /\ Fits(rows, AskFor, Parts)
      /\ \A d \in Changes : d # c => d \in Changes'
      /\ \A j \in Added : j \in Added' \/ j = a.id
      /\ UNCHANGED <<stored, page>> /\ AskFor' = AskFor /\ Parts' = Parts
      /\ Read(AskFor, Parts)' = Read(AskFor, Parts)
    BY TakenAnswer
<1>2. c \notin Changes /\ \A j \in Altered : j \in Altered'
    BY <1>1 DEF Changes, Altered
<1>3. a \in Seen("all") \/ a.id \in Altered'
    BY <1>1, NotStale
<1>4. \A r \in rows' : r.id \notin Altered' => r \in Seen(AskFor)
    BY <1>1, <1>2, <1>3 DEF Fits
<1>5. \A r \in Read(AskFor, Parts) : r.id \notin Altered' \cup Added' => r \in rows'
    BY <1>1, <1>2, <1>3, SeenRows DEF Fits, Read
<1>6. Parts = {"all"} /\ AskFor = "all" => DOMAIN stored \ Added' \subseteq {r.id : r \in rows'}
    BY <1>1 DEF Fits
<1>7. Seen(AskFor)' = Seen(AskFor)
    BY <1>1 DEF Seen
<1> QED
    BY <1>1, <1>4, <1>5, <1>6, <1>7 DEF Fits

-----------------------------------------------------------------------------
(* The server *)

StoredOK == /\ made \in Ids /\ DOMAIN stored \subseteq 1..made
            /\ \A i \in DOMAIN stored : stored[i] \in Values

\* What an answer leaves of the other requests, and adds to what the page does
\* not know.
LEMMA AnsweredCalls ==
    ASSUME CallsInv, NEW c \in InFlight, c.op # "list", ~c.done, NEW ans \in SUBSET Rows,
           Answered(c, ans), Gone \subseteq Gone',
           c.op \in {"update", "approve"} => ans = {Row(i, c.val) : i \in c.ids},
           c.op = "create" => \E i \in Ids : ans = {Row(i, c.val)},
           c.op \in {"delete", "reject"} => ans = {} /\ c.ids \subseteq Gone'
    PROVE  /\ CallsInv'
           /\ Lists' = Lists /\ \A l \in Lists : calls'[l] = calls[l]
           /\ Altered \subseteq Altered' /\ Added \subseteq Added'
           /\ c.op \in {"update", "approve", "delete", "reject", "bulk"} => c.ids \subseteq Altered'
           /\ c.op \in {"create", "copy"} => \A r \in ans : r.id \in Added'
           /\ UNCHANGED <<page, rows, view, muddled>> /\ AskFor' = AskFor
<1> PICK d : d = [c EXCEPT !.done = TRUE, !.ans = ans]
    OBVIOUS
<1>1. Sound(c, Gone, page)
    BY DEF CallsInv
<1>2. /\ d \in CallType /\ d.op = c.op /\ d.ids = c.ids /\ d.val = c.val /\ d.next = c.next
      /\ d.done /\ d.ans = ans
    BY <1>1 DEF Sound, CallType
<1>3. Sound(d, Gone', page)
    BY <1>1, <1>2 DEF Sound
<1>4. calls' = Settled(c) (+) SetToBag({d}) /\ page' = page
    BY DEF Answered
<1>5. /\ CallsInv' /\ InFlight' = {e \in InFlight : e # c \/ calls[c] # 1} \cup {d}
      /\ \A e \in InFlight : e # c /\ e # d => calls'[e] = calls[e]
    BY <1>3, <1>4, ReplacedKeeps
<1>6. Lists' = Lists /\ \A l \in Lists : calls'[l] = calls[l]
    BY <1>2, <1>5 DEF Lists
<1>7. \A e \in Changes : e \in Changes'
    BY <1>5 DEF Changes
<1>8. \A e \in Creates : e \in Creates'
    BY <1>5 DEF Creates
<1>9. c.op \in {"update", "approve", "delete", "reject", "bulk"} => d \in Changes'
    BY <1>2, <1>5 DEF Changes
<1>10. c.op \in {"create", "copy"} => d \in Creates'
    BY <1>2, <1>5 DEF Creates
<1>11. Altered \subseteq Altered' /\ Added \subseteq Added'
    BY <1>7, <1>8 DEF Altered, Added
<1>12. c.op \in {"update", "approve", "delete", "reject", "bulk"} => c.ids \subseteq Altered'
    BY <1>2, <1>9 DEF Altered
<1>13. ASSUME c.op \in {"create", "copy"}, NEW r \in ans PROVE r.id \in Added'
    <2>1. d \in Creates' /\ r \in d.ans
        BY <1>2, <1>10, <1>13
    <2>2. r.id \in {q.id : q \in d.ans}
        BY <2>1
    <2> QED
        BY <2>1, <2>2 DEF Added
<1>14. UNCHANGED <<page, rows, view, muddled>> /\ AskFor' = AskFor
    BY DEF Answered, list, AskFor, Local
<1> QED
    BY <1>5, <1>6, <1>11, <1>12, <1>13, <1>14

\* What the server lists has the type of rows.
LEMMA SeenAreRows ==
    ASSUME StoredOK, NEW v
    PROVE  Seen(v) \subseteq Rows
<1>1. DOMAIN stored \subseteq Ids
    BY RecordAssumption DEF StoredOK, Ids
<1> SUFFICES ASSUME NEW r \in Seen(v) PROVE r \in Rows
    OBVIOUS
<1>2. r.id \in DOMAIN stored /\ r = Row(r.id, stored[r.id])
    BY SeenRows
<1>3. \A i \in Ids, x \in Values : Row(i, x) \in Rows
    BY DEF Row, Rows
<1> QED
    BY <1>1, <1>2, <1>3 DEF StoredOK

\* The server reads a part of a list.
LEMMA AnswersPartKeeps ==
    ASSUME CallsInv, ListInv, StoredOK, page # "left", NEW c \in InFlight, AnswersPart(c)
    PROVE  CallsInv' /\ ListInv' /\ StoredOK'
<1>0. PICK p, seen, d :
        /\ p \in Parts \ c.read
        /\ seen = {r \in Seen(c.val) : PartOf(r, p)}
        /\ d = [c EXCEPT !.read = @ \cup {p}, !.ans = @ \cup seen]
        /\ calls' = Settled(c) (+) SetToBag({d})
    BY DEF AnswersPart
<1>1. Sound(c, Gone, page) /\ c.op = "list"
    BY DEF CallsInv, AnswersPart
<1>2. UNCHANGED <<page, server, stored, rows, view, muddled>>
    BY DEF AnswersPart, server, list
<1>3. seen \subseteq Rows
    BY <1>0, SeenAreRows
<1>4. p \in {"approved", "pending", "all"}
    BY <1>0 DEF Parts
<1>5. /\ d \in CallType /\ d.op = c.op /\ d.ids = c.ids /\ d.val = c.val /\ d.next = c.next
      /\ d.done = c.done /\ d.late = c.late
      /\ d.ans = c.ans \cup seen /\ d.read = c.read \cup {p}
    BY <1>0, <1>1, <1>3, <1>4 DEF Sound, CallType
<1>6. Gone' = Gone
    BY <1>2 DEF Gone, server
<1>7. Sound(d, Gone', page)
    BY <1>1, <1>5, <1>6 DEF Sound
<1>8. /\ CallsInv' /\ InFlight' = {e \in InFlight : e # c \/ calls[c] # 1} \cup {d}
      /\ \A e \in InFlight : e # c /\ e # d => calls'[e] = calls[e]
      /\ calls'[d] = 1 <=> ~(d \in InFlight /\ (d # c \/ calls[c] # 1))
    <2>1. calls' = Settled(c) (+) SetToBag({d})
        BY <1>0
    <2>2. page' = page /\ Gone \subseteq Gone'
        BY <1>2, <1>6
    <2> QED
        BY <1>7, <2>1, <2>2, ReplacedKeeps
<1>9. d \in Lists'
    BY <1>1, <1>5, <1>8 DEF Lists
<1>10. ASSUME NEW l \in Lists', Alone(l)', ~l.late
       PROVE  Fits(l.ans, l.val, l.read)'
    <2>1. l = d /\ calls'[d] = 1 /\ Lists' = {d}
        BY <1>9, <1>10 DEF Alone
    <2>2. c # d
        BY <1>0, <1>5
    <2>3. \A e \in Lists : e = c
        BY <1>8, <2>1 DEF Lists
    <2>4. calls[c] = 1
        BY <1>1, <1>8, <2>1, <2>2 DEF Lists
    <2>5. Alone(c) /\ c \in Lists
        BY <1>1, <2>3, <2>4 DEF Lists, Alone
    <2>6. Fits(c.ans, c.val, c.read)
        BY <1>5, <1>10, <2>1, <2>5 DEF ListInv, ListsFit
    <2>7. Altered' = Altered /\ Added' = Added
        <3>1. \A e : e.op # "list" => (e \in InFlight' <=> e \in InFlight)
            BY <1>1, <1>5, <1>8
        <3>2. Changes' = Changes /\ Creates' = Creates
            BY <3>1 DEF Changes, Creates
        <3> QED
            BY <3>2 DEF Altered, Added
    <2>8. \A v, parts : Read(v, parts)' = Read(v, parts) /\ Seen(v)' = Seen(v)
        BY <1>2 DEF Read, Seen
    <2>9. \A r \in Read(c.val, d.read) : r \in Read(c.val, c.read) \/ r \in seen
        BY <1>0, <1>5 DEF Read
    <2>10. ASSUME d.read = {"all"}, c.val = "all"
           PROVE  DOMAIN stored \subseteq {r.id : r \in d.ans}
        <3>1. p = "all"
            BY <1>5, <2>10
        <3>2. \A i \in DOMAIN stored : Row(i, stored[i]) \in seen /\ Row(i, stored[i]).id = i
            BY <1>0, <2>10, <3>1 DEF PartOf, Seen, Matching, Row
        <3> QED
            BY <1>5, <3>2
    <2>11. \A r \in d.ans : r.id \notin Altered => r \in Seen(c.val)
        BY <1>0, <1>5, <2>6 DEF Fits
    <2>12. \A r \in Read(c.val, d.read) : r.id \notin Altered \cup Added => r \in d.ans
        BY <1>5, <2>6, <2>9 DEF Fits
    <2> QED
        BY <1>2, <1>5, <2>1, <2>7, <2>8, <2>10, <2>11, <2>12 DEF Fits
<1>11. ListInv'
    BY <1>9, <1>10 DEF ListInv, ListsFit, RowsFit
<1> QED
    BY <1>2, <1>8, <1>11 DEF StoredOK, server

\* The server stores a new record or a copy.
LEMMA StoresNewKeeps ==
    ASSUME CallsInv, ListInv, StoredOK, page # "left", NEW c \in InFlight, StoresNew(c)
    PROVE  CallsInv' /\ ListInv' /\ StoredOK'
<1> PICK n : n = made + 1
    OBVIOUS
<1> PICK ans : ans = {Row(n, c.val)}
    OBVIOUS
<1>1. /\ c.op \in {"create", "copy"} /\ c.op # "list" /\ ~c.done /\ made < MaxRecords
      /\ made' = n /\ Answered(c, ans)
      /\ stored' = [i \in DOMAIN stored \cup {n} |-> IF i = n THEN c.val ELSE stored[i]]
    BY DEF StoresNew
<1>2. n \in Ids /\ n \notin DOMAIN stored /\ made \in Nat
    BY <1>1, RecordAssumption DEF StoredOK, Ids
<1>3. c.val \in Values
    BY <1>1 DEF CallsInv, Sound
<1>4. ans \in SUBSET Rows
    BY <1>2, <1>3 DEF Rows, Row
<1>5. DOMAIN stored' = DOMAIN stored \cup {n} /\ \A i \in DOMAIN stored : stored'[i] = stored[i]
    BY <1>1, <1>2
<1>6. StoredOK'
    BY <1>1, <1>2, <1>3, <1>5 DEF StoredOK, Ids
<1>7. Gone \subseteq Gone'
    BY <1>1, <1>2, <1>5 DEF Gone
<1>8. /\ CallsInv'
      /\ Lists' = Lists /\ \A l \in Lists : calls'[l] = calls[l]
      /\ Altered \subseteq Altered' /\ Added \subseteq Added'
      /\ \A r \in ans : r.id \in Added'
      /\ UNCHANGED <<page, rows, view, muddled>> /\ AskFor' = AskFor
    BY <1>1, <1>2, <1>4, <1>7, AnsweredCalls
<1>9. n \in Added'
    BY <1>8 DEF Row
<1>10. ListInv'
    BY <1>5, <1>8, <1>9, ListsKept
<1> QED
    BY <1>6, <1>8, <1>10

\* The server changes a record.
LEMMA StoresValueKeeps ==
    ASSUME CallsInv, ListInv, StoredOK, page # "left", NEW c \in InFlight, StoresValue(c)
    PROVE  CallsInv' /\ ListInv' /\ StoredOK'
<1> PICK ans : ans = {Row(i, c.val) : i \in c.ids}
    OBVIOUS
<1>1. /\ c.op \in {"update", "approve"} /\ c.op # "list" /\ ~c.done
      /\ c.ids \subseteq DOMAIN stored /\ made' = made /\ Answered(c, ans)
      /\ stored' = [i \in DOMAIN stored |-> IF i \in c.ids THEN c.val ELSE stored[i]]
    BY DEF StoresValue
<1>2. c.val \in Values
    BY <1>1 DEF CallsInv, Sound
<1>3. DOMAIN stored \subseteq Ids
    BY RecordAssumption DEF StoredOK, Ids
<1>4. ans \in SUBSET Rows
    BY <1>1, <1>2, <1>3 DEF Rows, Row
<1>5. /\ DOMAIN stored' = DOMAIN stored
      /\ \A i \in DOMAIN stored : i \notin c.ids => stored'[i] = stored[i]
    BY <1>1
<1>6. StoredOK'
    BY <1>1, <1>2, <1>5 DEF StoredOK
<1>7. Gone \subseteq Gone'
    BY <1>1, <1>5 DEF Gone
<1>8. /\ CallsInv'
      /\ Lists' = Lists /\ \A l \in Lists : calls'[l] = calls[l]
      /\ Altered \subseteq Altered' /\ Added \subseteq Added' /\ c.ids \subseteq Altered'
      /\ UNCHANGED <<page, rows, view, muddled>> /\ AskFor' = AskFor
    BY <1>1, <1>4, <1>7, AnsweredCalls
<1>9. ListInv'
    BY <1>5, <1>8, ListsKept
<1> QED
    BY <1>6, <1>8, <1>9

\* The server deletes a record.
LEMMA StoresDeletionKeeps ==
    ASSUME CallsInv, ListInv, StoredOK, page # "left", NEW c \in InFlight, StoresDeletion(c)
    PROVE  CallsInv' /\ ListInv' /\ StoredOK'
<1>1. /\ c.op \in {"delete", "reject"} /\ c.op # "list" /\ ~c.done
      /\ c.ids \subseteq DOMAIN stored /\ made' = made /\ Answered(c, {})
      /\ stored' = [i \in DOMAIN stored \ c.ids |-> stored[i]]
    BY DEF StoresDeletion
<1>2. /\ DOMAIN stored' = DOMAIN stored \ c.ids
      /\ \A i \in DOMAIN stored : i \notin c.ids => stored'[i] = stored[i]
    BY <1>1
<1>3. StoredOK'
    BY <1>1, <1>2 DEF StoredOK
<1>4. Gone \subseteq Gone' /\ c.ids \subseteq Gone'
    BY <1>1, <1>2 DEF Gone, StoredOK
<1>5. /\ CallsInv'
      /\ Lists' = Lists /\ \A l \in Lists : calls'[l] = calls[l]
      /\ Altered \subseteq Altered' /\ Added \subseteq Added' /\ c.ids \subseteq Altered'
      /\ UNCHANGED <<page, rows, view, muddled>> /\ AskFor' = AskFor
    BY <1>1, <1>4, AnsweredCalls
<1>6. ListInv'
    BY <1>2, <1>5, ListsKept
<1> QED
    BY <1>3, <1>5, <1>6

\* The server changes or deletes the users it finds.
LEMMA StoresBulkKeeps ==
    ASSUME CallsInv, ListInv, StoredOK, page # "left", NEW c \in InFlight, StoresBulk(c)
    PROVE  CallsInv' /\ ListInv' /\ StoredOK'
<1>1. /\ c.op = "bulk" /\ ~c.done /\ made' = made /\ Answered(c, {})
      /\ stored' = IF c.val = "none" THEN [i \in DOMAIN stored \ c.ids |-> stored[i]]
                   ELSE [i \in DOMAIN stored |-> IF i \in c.ids THEN c.val ELSE stored[i]]
    BY DEF StoresBulk
<1>2. c.val \in {"on", "off", "none"}
    BY <1>1 DEF CallsInv, Sound
<1>3. /\ DOMAIN stored' \subseteq DOMAIN stored
      /\ \A i \in DOMAIN stored : i \notin c.ids => i \in DOMAIN stored' /\ stored'[i] = stored[i]
      /\ \A i \in DOMAIN stored' : stored'[i] \in {stored[i], "on", "off"}
    BY <1>1, <1>2
<1>4. StoredOK'
    BY <1>1, <1>3 DEF StoredOK, Values
<1>5. Gone \subseteq Gone'
    BY <1>1, <1>3 DEF Gone
<1>6. /\ CallsInv'
      /\ Lists' = Lists /\ \A l \in Lists : calls'[l] = calls[l]
      /\ Altered \subseteq Altered' /\ Added \subseteq Added' /\ c.ids \subseteq Altered'
      /\ UNCHANGED <<page, rows, view, muddled>> /\ AskFor' = AskFor
    BY <1>1, <1>5, AnsweredCalls
<1>7. ListInv'
    BY <1>3, <1>6, ListsKept
<1> QED
    BY <1>4, <1>6, <1>7

\* The server answers and stores nothing.
LEMMA AnswersOtherKeeps ==
    ASSUME CallsInv, ListInv, StoredOK, page # "left", NEW c \in InFlight, AnswersOther(c)
    PROVE  CallsInv' /\ ListInv' /\ StoredOK'
<1>1. /\ c.op \in {"detail", "drafts", "propose"} /\ ~c.done /\ Answered(c, {})
      /\ made' = made /\ stored' = stored
    BY DEF AnswersOther, server
<1>2. StoredOK' /\ Gone \subseteq Gone'
    BY <1>1 DEF StoredOK, Gone
<1>3. /\ CallsInv'
      /\ Lists' = Lists /\ \A l \in Lists : calls'[l] = calls[l]
      /\ Altered \subseteq Altered' /\ Added \subseteq Added'
      /\ UNCHANGED <<page, rows, view, muddled>> /\ AskFor' = AskFor
    BY <1>1, <1>2, AnsweredCalls
<1>4. ListInv'
    BY <1>1, <1>3, ListsKept
<1> QED
    BY <1>2, <1>3, <1>4

\* The server, whatever it does.
LEMMA ServerKeeps ==
    ASSUME CallsInv, ListInv, StoredOK, page # "left", Server
    PROVE  CallsInv' /\ ListInv' /\ StoredOK'
BY AnswersPartKeeps, StoresNewKeeps, StoresValueKeeps, StoresDeletionKeeps, StoresBulkKeeps,
   AnswersOtherKeeps DEF Server

-----------------------------------------------------------------------------
(* The pages: what all handlers keep *)

Forms == [kind : {"new", "edit", "delete", "picker"}, id : Ids \cup {0}]

\* The types of what the page keeps; the quick replies are never filtered.
PageOK ==
    /\ page \in Pages \cup {"left"} /\ rows \subseteq Rows /\ view \in Views
    /\ loading \in BOOLEAN /\ forms \subseteq Forms /\ chosen \in Ids \cup {0}
    /\ picked \subseteq Ids /\ muddled \in BOOLEAN
    /\ page = "replies" => view = "all"

Inv == StoredOK /\ PageOK /\ ListInv /\ (page # "left" => CallsInv)

\* What opens is a form.
LEMMA OpensForms ==
    ASSUME NEW kind \in {"new", "edit", "delete", "picker"}, NEW i \in Ids \cup {0},
           forms \subseteq Forms
    PROVE  Opens(kind, i) \subseteq Forms
BY DEF Opens, Shut, Open, Forms

\* What is shut leaves forms.
LEMMA ShutForms ==
    ASSUME NEW kinds, forms \subseteq Forms
    PROVE  Shut(kinds) \subseteq Forms
BY DEF Shut

\* A click sends a request that is no list.
LEMMA SendsNew ==
    ASSUME Inv, page # "left", NEW op \in Ops \ {"list"}, NEW ids \in SUBSET (Ids \cup {0}),
           NEW val \in Values \cup {"none"}, NEW next \in Nexts,
           op \in {"create", "copy", "update", "approve"} => val \in Values,
           op = "bulk" => val \in {"on", "off", "none"},
           op = "create" /\ page = "clients" => next \in Views,
           op = "update" => \E i \in Ids \cup {0} : ids = {i},
           Sends(Call(op, ids, val, next)), forms' \subseteq Forms, UNCHANGED work
    PROVE  Inv'
<1> PICK d : d = Call(op, ids, val, next)
    OBVIOUS
<1>1. d \in CallType /\ d.op = op /\ d.ids = ids /\ d.val = val /\ d.next = next /\ ~d.done
    BY DEF Call, CallType
<1>2. Sound(d, Gone, page)
    BY <1>1 DEF Sound, Ops
<1>3. CallsInv' /\ ListInv'
    BY <1>1, <1>2, SendsKeeps DEF Inv
<1> QED
    BY <1>3 DEF Inv, Sends, StoredOK, PageOK, server, list, work

\* A click sends nothing.
LEMMA IdleInv ==
    ASSUME Inv, page # "left", Idle, forms' \subseteq Forms, chosen' \in Ids \cup {0},
           picked' \subseteq Ids
    PROVE  Inv'
<1>1. CallsInv' /\ ListInv'
    BY IdleKeeps DEF Inv
<1> QED
    BY <1>1 DEF Inv, Idle, StoredOK, PageOK, server, list

\* Another filter, for a page that may have one.
LEMMA ChoosesViewInv ==
    ASSUME Inv, page \in Pages \ {"replies"}, NEW v \in Views, ChoosesView(v)
    PROVE  Inv'
<1>1. CallsInv' /\ ListInv'
    BY ChoosesViewKeeps DEF Inv, Pages
<1> QED
    BY <1>1 DEF Inv, ChoosesView, StoredOK, PageOK, server, work, Pages

\* Another filter over a list that has everything.
LEMMA FiltersInv ==
    ASSUME Inv, page \in {"catalog", "tasks"}, NEW v \in Views, Filters(v)
    PROVE  Inv'
<1>1. CallsInv' /\ ListInv'
    BY FiltersKeeps DEF Inv, Local
<1> QED
    BY <1>1 DEF Inv, Filters, StoredOK, PageOK, server, work

\* The list is asked for again after a change.
LEMMA ReloadsInv ==
    ASSUME Inv, page # "left", NEW c \in InFlight, NEW next \in Nexts, Reloads(c, next),
           forms' \subseteq Forms, chosen' \in Ids \cup {0}, picked' \subseteq Ids
    PROVE  Inv'
<1>1. AskFor \in Views
    BY DEF Inv, PageOK, AskFor, Views
<1>2. CallsInv' /\ ListInv'
    BY <1>1, AsksAgain DEF Inv, Reloads
<1> QED
    BY <1>2 DEF Inv, Reloads, StoredOK, PageOK, server

\* A request failed.
LEMMA LostInv ==
    ASSUME Inv, page # "left", NEW c \in InFlight, c.op # "list", Lost(c), forms' \subseteq Forms
    PROVE  Inv'
<1>1. CallsInv' /\ ListInv'
    BY LostKeeps DEF Inv
<1> QED
    BY <1>1 DEF Inv, Lost, StoredOK, PageOK, server, list, work

\* A list failed.
LEMMA ListFailsInv ==
    ASSUME Inv, page # "left", NEW c \in InFlight, NEW emptied, ListFails(c, emptied),
           forms' \subseteq Forms
    PROVE  Inv'
<1>1. CallsInv' /\ ListInv'
    BY ListFailsKeeps DEF Inv
<1> QED
    BY <1>1 DEF Inv, ListFails, StoredOK, PageOK, server

\* A list is taken.
LEMMA ReplacesInv ==
    ASSUME Inv, page # "left", NEW c \in InFlight, IsList(c),
           NEW choices \in SUBSET (Ids \cup {0}), Replaces(c, choices), forms' \subseteq Forms
    PROVE  Inv'
<1>1. CallsInv' /\ ListInv'
    BY ReplacesKeeps DEF Inv
<1>2. c.ans \subseteq Rows
    BY DEF Inv, CallsInv, Sound, CallType
<1> QED
    BY <1>1, <1>2 DEF Inv, Replaces, StoredOK, PageOK, server

\* A request that brings nothing to the list is over.
LEMMA SettlesInv ==
    ASSUME Inv, page # "left", NEW c \in InFlight, c.op \in {"detail", "drafts", "propose"},
           calls' = Settled(c), UNCHANGED <<page, server, list, muddled>>,
           forms' \subseteq Forms, chosen' \in Ids \cup {0}, picked' \subseteq Ids
    PROVE  Inv'
<1>1. CallsInv' /\ ListInv'
    BY SettlesQuietly DEF Inv, list
<1> QED
    BY <1>1 DEF Inv, StoredOK, PageOK, server, list

\* An answer is taken into the list.
LEMMA MergesInv ==
    ASSUME Inv, page # "left", NEW c \in InFlight, NEW new \in SUBSET Rows, Merges(c, new),
           muddled' \in BOOLEAN, Lists' = {} /\ ~muddled' => Fits(rows, AskFor, Parts)',
           forms' \subseteq Forms, chosen' \in Ids \cup {0}, picked' \subseteq Ids
    PROVE  Inv'
<1>1. calls' = Overtaken(c) /\ UNCHANGED <<page, server>>
    BY DEF Merges
<1>2. CallsInv' /\ ListInv'
    BY <1>1, SettledKeeps, OvertakenFits DEF Inv, RowsFit
<1> QED
    BY <1>2 DEF Inv, Merges, StoredOK, PageOK, server

\* Ids and views are names and numbers that requests may carry.
LEMMA Carried ==
    /\ \A v \in Views : v \in Nexts
    /\ "on" \in Values /\ "off" \in Values
    /\ \A i \in Ids \cup {0} : {i} \in SUBSET (Ids \cup {0})
BY DEF Nexts, Values

-----------------------------------------------------------------------------
(* Clients, users and roles *)

\* A form is closed.
LEMMA CloseFormKeeps ==
    ASSUME Inv, page # "left", NEW kinds, CloseForm(kinds)
    PROVE  Inv'
BY ShutForms, IdleInv DEF CloseForm, work, Inv, PageOK

\* What the user does on the clients page.
LEMMA ClientActsKeep ==
    ASSUME Inv, page = "clients", ClientActs
    PROVE  Inv'
<1>1. ASSUME NEW v \in Views, ClientFilter(v) PROVE Inv'
    BY <1>1, ChoosesViewInv DEF ClientFilter, Pages
<1>2. ASSUME NEW i \in Ids, ClientSelect(i) PROVE Inv'
    BY <1>2, Carried, SendsNew DEF ClientSelect, Ops, Nexts, Inv, PageOK
<1>3. CASE ClientNew
    BY <1>3, OpensForms, IdleInv DEF ClientNew, Inv, PageOK, work
<1>4. CASE ClientEdit
    BY <1>4, OpensForms, IdleInv DEF ClientEdit, Inv, PageOK, work
<1>5. CASE ClientSubmit
    <2>1. PICK f \in forms, v \in {"on", "off"} :
              Sends(IF f.kind = "edit" THEN Call("update", {f.id}, v, "none")
                    ELSE Call("create", {}, v, view))
        BY <1>5 DEF ClientSubmit
    <2>2. UNCHANGED <<forms, work>> /\ forms' \subseteq Forms /\ view \in Views \cap Nexts
        BY <1>5, Carried DEF ClientSubmit, Inv, PageOK
    <2>3. f.id \in Ids \cup {0} /\ v \in Values
        BY Carried DEF Inv, PageOK, Forms
    <2>4. CASE f.kind = "edit"
        BY <2>1, <2>2, <2>3, <2>4, Carried, SendsNew DEF Ops, Nexts
    <2>5. CASE f.kind # "edit"
        BY <2>1, <2>2, <2>3, <2>5, Carried, SendsNew DEF Ops
    <2> QED
        BY <2>4, <2>5
<1>6. CASE CloseForm({"new", "edit"})
    BY <1>6, CloseFormKeeps
<1>7. CASE ClientDelete
    BY <1>7, Carried, SendsNew DEF ClientDelete, Ops, Nexts, Inv, PageOK
<1> QED
    BY <1>1, <1>2, <1>3, <1>4, <1>5, <1>6, <1>7 DEF ClientActs, ClientForm, ClientDetail

\* An edited client replaces its copy.
LEMMA ClientSavedKeeps ==
    ASSUME Inv, page = "clients", NEW c \in InFlight, ClientSaved(c)
    PROVE  Inv'
<1>1. c.op = "update" /\ c.done /\ forms' = {} /\ UNCHANGED picked
    BY DEF ClientSaved
<1> PICK a \in c.ans :
        /\ Merges(c, {IF q.id = a.id THEN a ELSE q : q \in rows})
        /\ chosen' = a.id
        /\ muddled' = \/ muddled \/ Stale(c)
                      \/ (a.id \in Listed) # (view \in {"all", a.val})
    BY DEF ClientSaved
<1>2. PICK i \in Ids \cup {0} : c.ids = {i}
    BY <1>1 DEF Inv, CallsInv, Sound
<1>3. c.ans = {Row(j, c.val) : j \in c.ids} /\ c.ans \subseteq Rows
    BY <1>1 DEF Inv, CallsInv, Sound, CallType
<1>4. a = Row(i, c.val) /\ c.ans = {a} /\ a.id = i /\ a \in Rows /\ a.id \in Ids
    BY <1>2, <1>3 DEF Row, Rows
<1> PICK new : new = {IF q.id = a.id THEN a ELSE q : q \in rows}
    OBVIOUS
<1>5. new \in SUBSET Rows
    BY <1>4 DEF Inv, PageOK
<1>6. Merges(c, new) /\ calls' = Overtaken(c) /\ UNCHANGED <<page, server, view>> /\ rows' = new
    BY DEF Merges
<1>7. ASSUME Lists' = {}, ~muddled' PROVE Fits(rows, AskFor, Parts)'
    <2>1. ~muddled /\ ~Stale(c) /\ (a.id \in Listed <=> view \in {"all", a.val})
        BY <1>7
    <2>2. AskFor = view
        BY DEF AskFor, Local
    <2> QED
        BY <1>1, <1>2, <1>4, <1>6, <1>7, <2>1, <2>2, UpdateFits DEF Inv
<1>8. muddled' \in BOOLEAN
    OBVIOUS
<1> QED
    BY <1>1, <1>4, <1>5, <1>6, <1>7, <1>8, MergesInv DEF Forms, Inv, PageOK

\* A deleted client is taken off the list.
LEMMA ClientDeletedKeeps ==
    ASSUME Inv, page = "clients", NEW c \in InFlight, ClientDeleted(c)
    PROVE  Inv'
<1> PICK new : new = {r \in rows : r.id \notin c.ids}
    OBVIOUS
<1>1. /\ c.op = "delete" /\ c.done /\ Merges(c, new) /\ chosen' = 0
      /\ UNCHANGED <<forms, picked, busy, muddled>>
    BY DEF ClientDeleted
<1>2. calls' = Overtaken(c) /\ UNCHANGED <<page, server, view>> /\ rows' = new
    BY <1>1 DEF Merges
<1>3. ASSUME Lists' = {}, ~muddled' PROVE Fits(rows, AskFor, Parts)'
    BY <1>1, <1>2, <1>3, DeletionFits DEF Inv
<1> QED
    BY <1>1, <1>3, MergesInv DEF Inv, PageOK

\* What comes to the clients page.
LEMMA ClientArrivalsKeep ==
    ASSUME Inv, page = "clients", NEW c \in InFlight, ClientArrivals(c)
    PROVE  Inv'
<1>1. CASE ClientCreated(c)
    <2>1. c.next \in Views /\ "client" \in Nexts
        BY <1>1 DEF ClientCreated, Inv, CallsInv, Sound, Nexts
    <2>2. CallsInv' /\ ListInv'
        BY <1>1, <2>1, AsksAgain DEF ClientCreated, Inv
    <2> QED
        BY <1>1, <2>2 DEF ClientCreated, Inv, StoredOK, PageOK, server, work
<1>2. CASE ClientSaveFails(c)
    BY <1>2, LostInv DEF ClientSaveFails, Inv, PageOK
<1>3. CASE ClientsArrive(c)
    <2>1. forms' \subseteq Forms /\ {chosen} \in SUBSET (Ids \cup {0})
        BY <1>3 DEF ClientsArrive, ClientListEnds, Inv, PageOK, Forms
    <2> QED
        BY <1>3, <2>1, ReplacesInv DEF ClientsArrive
<1>4. CASE ClientsFail(c)
    <2>1. forms' \subseteq Forms
        BY <1>4 DEF ClientsFail, ClientListEnds, Inv, PageOK, Forms
    <2> QED
        BY <1>4, <2>1, ListFailsInv DEF ClientsFail
<1>5. CASE DetailSettles(c)
    <2>1. c.ids \subseteq Ids \cup {0}
        BY DEF Inv, CallsInv, Sound, CallType
    <2> QED
        BY <1>5, <2>1, SettlesInv DEF DetailSettles, work, Inv, PageOK
<1>6. CASE ClientDeleteFails(c)
    BY <1>6, LostInv DEF ClientDeleteFails, Inv, PageOK
<1> QED
    BY <1>1, <1>2, <1>3, <1>4, <1>5, <1>6, ClientSavedKeeps, ClientDeletedKeeps
    DEF ClientArrivals

\* What the fields of a request are, whoever asks.
LEMMA Fields ==
    ASSUME Inv, page # "left", NEW c \in InFlight
    PROVE  /\ c.next \in Nexts /\ c.ids \subseteq Ids \cup {0} /\ c.ans \subseteq Rows
           /\ "none" \in Nexts /\ {chosen} \in SUBSET (Ids \cup {0})
BY DEF Inv, CallsInv, Sound, CallType, Nexts, PageOK

\* What the user does on the users page.
LEMMA UserActsKeep ==
    ASSUME Inv, page = "users", UserActs
    PROVE  Inv'
<1>1. /\ forms \subseteq Forms /\ Active \subseteq Ids
      /\ chosen \in Ids \cup {0} /\ picked \subseteq Ids
    BY DEF Inv, PageOK, Active, Rows
<1>2. CASE UserNew
    BY <1>1, <1>2, OpensForms, IdleInv DEF UserNew, work
<1>3. CASE UserSubmit
    <2>1. PICK f \in forms, v \in {"on", "off"} :
              Sends(IF f.kind = "edit" THEN Call("update", {f.id}, v, "edit")
                    ELSE Call("create", {}, "on", "new"))
        BY <1>3 DEF UserSubmit
    <2>2. UNCHANGED <<forms, work>> /\ forms' \subseteq Forms
        BY <1>1, <1>3 DEF UserSubmit
    <2>3. f.id \in Ids \cup {0} /\ v \in Values
        BY <1>1, Carried DEF Forms
    <2>4. CASE f.kind = "edit"
        BY <2>1, <2>2, <2>3, <2>4, Carried, SendsNew DEF Ops, Nexts
    <2>5. CASE f.kind # "edit"
        BY <2>1, <2>2, <2>3, <2>5, Carried, SendsNew DEF Ops, Nexts
    <2> QED
        BY <2>4, <2>5
<1>4. CASE CloseForm({"new", "edit"})
    BY <1>4, CloseFormKeeps
<1>5. CASE UserPick
    <2>1. picked' \subseteq Ids /\ UNCHANGED <<forms, chosen>> /\ Idle
        BY <1>1, <1>5 DEF UserPick
    <2> QED
        BY <1>1, <2>1, IdleInv
<1>6. ASSUME NEW i \in Ids, UserEdit(i) PROVE Inv'
    BY <1>1, <1>6, OpensForms, IdleInv DEF UserEdit, work
<1>7. ASSUME NEW i \in Ids, UserToggle(i) PROVE Inv'
    <2>1. PICK v \in {"on", "off"} : Sends(Call("update", {i}, v, "toggle"))
        BY <1>7 DEF UserToggle
    <2> QED
        BY <1>1, <1>7, <2>1, Carried, SendsNew DEF UserToggle, Ops, Nexts
<1>8. ASSUME NEW i \in Ids, UserDelete(i) PROVE Inv'
    BY <1>1, <1>8, Carried, SendsNew DEF UserDelete, Ops, Nexts
<1>9. ASSUME NEW i \in Ids, NEW op, UserReview(i, op) PROVE Inv'
    <2>1. CASE op = "approve"
        BY <1>1, <1>9, <2>1, Carried, SendsNew DEF UserReview, Ops, Nexts
    <2>2. CASE op = "reject"
        BY <1>1, <1>9, <2>2, Carried, SendsNew DEF UserReview, Ops, Nexts
    <2> QED
        BY <1>9, <2>1, <2>2 DEF UserReview
<1>10. ASSUME NEW action \in {"on", "off", "none"}, UserBulk(action) PROVE Inv'
    BY <1>1, <1>10, Carried, SendsNew DEF UserBulk, Ops, Nexts
<1> QED
    BY <1>2, <1>3, <1>4, <1>5, <1>6, <1>7, <1>8, <1>9, <1>10 DEF UserActs, UserForms

\* What comes to the users page.
LEMMA UserArrivalsKeep ==
    ASSUME Inv, page = "users", NEW c \in InFlight, UserArrivals(c)
    PROVE  Inv'
<1>1. forms \subseteq Forms /\ chosen \in Ids \cup {0} /\ picked \subseteq Ids
    BY DEF Inv, PageOK
<1>2. CASE UserSaved(c)
    BY <1>1, <1>2, Fields, ShutForms, ReloadsInv DEF UserSaved, work
<1>3. CASE UserSaveFails(c)
    BY <1>1, <1>3, LostInv DEF UserSaveFails
<1>4. CASE UserChanged(c)
    BY <1>1, <1>4, Fields, ReloadsInv DEF UserChanged, work
<1>5. CASE UserChangeFails(c)
    BY <1>1, <1>5, LostInv DEF UserChangeFails
<1>6. CASE UserBulkDone(c)
    BY <1>1, <1>6, Fields, ReloadsInv DEF UserBulkDone
<1>7. CASE UserBulkFails(c)
    BY <1>1, <1>7, LostInv DEF UserBulkFails
<1>8. CASE UsersArrive(c)
    BY <1>1, <1>8, Fields, ReplacesInv DEF UsersArrive
<1>9. CASE UsersFail(c)
    BY <1>1, <1>9, ListFailsInv DEF UsersFail
<1> QED
    BY <1>2, <1>3, <1>4, <1>5, <1>6, <1>7, <1>8, <1>9 DEF UserArrivals

\* What the user does on the roles page.
LEMMA RoleActsKeep ==
    ASSUME Inv, page = "roles", RoleActs
    PROVE  Inv'
<1>1. forms \subseteq Forms /\ chosen \in Ids \cup {0} /\ picked \subseteq Ids
    BY DEF Inv, PageOK
<1>2. CASE RoleNew
    BY <1>1, <1>2, OpensForms, IdleInv DEF RoleNew, work
<1>3. CASE RoleSubmit
    <2>1. PICK f \in forms, v \in {"on", "off"} :
              Sends(IF f.kind = "edit" THEN Call("update", {f.id}, v, "none")
                    ELSE Call("create", {}, v, "none"))
        BY <1>3 DEF RoleSubmit
    <2>2. UNCHANGED <<forms, work>> /\ forms' \subseteq Forms
        BY <1>1, <1>3 DEF RoleSubmit
    <2>3. f.id \in Ids \cup {0} /\ v \in Values
        BY <1>1, Carried DEF Forms
    <2>4. CASE f.kind = "edit"
        BY <2>1, <2>2, <2>3, <2>4, Carried, SendsNew DEF Ops, Nexts
    <2>5. CASE f.kind # "edit"
        BY <2>1, <2>2, <2>3, <2>5, Carried, SendsNew DEF Ops, Nexts
    <2> QED
        BY <2>4, <2>5
<1>4. CASE RoleDelete
    <2>1. PICK f \in forms : Sends(Call("delete", {f.id}, "none", "none"))
        BY <1>4 DEF RoleDelete
    <2>2. {f.id} \in SUBSET (Ids \cup {0})
        BY <1>1 DEF Forms
    <2> QED
        BY <1>1, <1>4, <2>1, <2>2, SendsNew DEF RoleDelete, Ops, Nexts
<1>5. CASE CloseForm({"new", "edit", "delete"})
    BY <1>5, CloseFormKeeps
<1>6. ASSUME NEW i \in Ids, NEW kind \in {"edit", "delete"}, RoleOpen(i, kind) PROVE Inv'
    BY <1>1, <1>6, OpensForms, IdleInv DEF RoleOpen, work
<1> QED
    BY <1>2, <1>3, <1>4, <1>5, <1>6 DEF RoleActs

\* What comes to the roles page.
LEMMA RoleArrivalsKeep ==
    ASSUME Inv, page = "roles", NEW c \in InFlight, RoleArrivals(c)
    PROVE  Inv'
<1>1. forms \subseteq Forms /\ chosen \in Ids \cup {0} /\ picked \subseteq Ids
    BY DEF Inv, PageOK
<1>2. CASE RoleSaved(c)
    BY <1>1, <1>2, Fields, ShutForms, ReloadsInv DEF RoleSaved, work
<1>3. CASE RoleDeleted(c)
    BY <1>1, <1>3, Fields, ShutForms, ReloadsInv DEF RoleDeleted, work
<1>4. CASE RoleFails(c)
    BY <1>1, <1>4, LostInv DEF RoleFails
<1>5. CASE RolesSettle(c)
    BY <1>1, <1>5, Fields, ReplacesInv, ListFailsInv DEF RolesSettle
<1> QED
    BY <1>2, <1>3, <1>4, <1>5 DEF RoleArrivals

-----------------------------------------------------------------------------
(* The catalog, the tasks, the quick replies and the audit log *)

\* The types of what a click can be on.
LEMMA ListedRows ==
    ASSUME Inv
    PROVE  /\ forms \subseteq Forms /\ chosen \in Ids \cup {0} /\ picked \subseteq Ids
           /\ \A r \in rows : r.id \in Ids /\ r.val \in Values
           /\ Visible \subseteq rows /\ Selected \subseteq rows
BY DEF Inv, PageOK, Rows, Visible, Matching, Selected

\* What the user does on the catalog.
LEMMA CatalogActsKeep ==
    ASSUME Inv, page = "catalog", CatalogActs
    PROVE  Inv'
<1>1. /\ forms \subseteq Forms /\ chosen \in Ids \cup {0} /\ picked \subseteq Ids
      /\ \A r \in rows : r.id \in Ids /\ r.val \in Values
    BY ListedRows
<1>2. ASSUME NEW i \in Ids \cup {0}, ItemOpen(i) PROVE Inv'
    <2>1. forms' \subseteq Forms
        BY <1>1, <1>2, OpensForms DEF ItemOpen
    <2> QED
        BY <1>1, <1>2, <2>1, IdleInv DEF ItemOpen, work
<1>3. ASSUME NEW v \in Views, Filters(v) PROVE Inv'
    BY <1>3, FiltersInv
<1>4. ASSUME NEW r \in rows, ItemSelect(r) PROVE Inv'
    BY <1>1, <1>4, IdleInv DEF ItemSelect
<1>5. ASSUME NEW r \in rows, ItemCopy(r) PROVE Inv'
    <2>1. r.id \in Ids \cup {0} /\ r.val \in Values
        BY <1>1
    <2> QED
        BY <1>1, <1>5, <2>1, Carried, SendsNew DEF ItemCopy, Ops, Nexts
<1>6. ASSUME NEW r \in rows, ItemToggle(r) PROVE Inv'
    <2>1. PICK v \in {"on", "off"} : Sends(Call("update", {r.id}, v, "none"))
        BY <1>6 DEF ItemToggle
    <2>2. r.id \in Ids \cup {0} /\ v \in Values
        BY <1>1, Carried
    <2> QED
        BY <1>1, <1>6, <2>1, <2>2, Carried, SendsNew DEF ItemToggle, Ops, Nexts
<1>7. ASSUME NEW i \in Ids, PickerAsk(i) PROVE Inv'
    BY <1>1, <1>7, Carried, SendsNew DEF PickerAsk, Ops, Nexts
<1>8. CASE ItemSubmit
    <2>1. PICK f \in forms, v \in {"on", "off"} :
              Sends(IF f.kind = "edit" THEN Call("update", {f.id}, v, "item")
                    ELSE Call("create", {}, v, "item"))
        BY <1>8 DEF ItemSubmit
    <2>2. UNCHANGED <<forms, work>> /\ forms' \subseteq Forms
        BY <1>1, <1>8 DEF ItemSubmit
    <2>3. f.id \in Ids \cup {0} /\ v \in Values
        BY <1>1, Carried DEF Forms
    <2>4. CASE f.kind = "edit"
        BY <2>1, <2>2, <2>3, <2>4, Carried, SendsNew DEF Ops, Nexts
    <2>5. CASE f.kind # "edit"
        BY <2>1, <2>2, <2>3, <2>5, Carried, SendsNew DEF Ops, Nexts
    <2> QED
        BY <2>4, <2>5
<1>9. CASE ItemClose
    BY <1>1, <1>9, ShutForms, IdleInv DEF ItemClose, work
<1>10. CASE Propose
    <2>1. PICK f \in forms : Sends(Call("propose", {f.id}, "none", "none"))
        BY <1>10 DEF Propose
    <2>2. {f.id} \in SUBSET (Ids \cup {0})
        BY <1>1 DEF Forms
    <2> QED
        BY <1>1, <1>10, <2>1, <2>2, SendsNew DEF Propose, Ops, Nexts
<1>11. CASE PickerClose
    BY <1>1, <1>11, ShutForms, IdleInv DEF PickerClose, work
<1> QED
    BY <1>1, <1>2, <1>3, <1>4, <1>5, <1>6, <1>7, <1>8, <1>9, <1>10, <1>11
    DEF CatalogActs, CatalogHead, CatalogTable, ItemDetail, ItemForm, Picker

\* What comes to the catalog.
LEMMA CatalogArrivalsKeep ==
    ASSUME Inv, page = "catalog", NEW c \in InFlight, CatalogArrivals(c)
    PROVE  Inv'
<1>1. forms \subseteq Forms /\ chosen \in Ids \cup {0} /\ picked \subseteq Ids
    BY ListedRows
<1>2. CASE ItemStored(c)
    BY <1>1, <1>2, Fields, ShutForms, ReloadsInv DEF ItemStored, work
<1>3. CASE ItemFails(c)
    BY <1>1, <1>3, LostInv DEF ItemFails
<1>4. CASE ItemsArrive(c)
    <2> PICK ids : ids = {r.id : r \in c.ans}
        OBVIOUS
    <2> PICK choices : choices = IF chosen \in ids THEN {chosen}
                                 ELSE IF ids = {} THEN {0} ELSE ids
        OBVIOUS
    <2>1. IsList(c) /\ Replaces(c, choices) /\ forms' = forms
        BY <1>4 DEF ItemsArrive, ItemRefreshed
    <2>2. ids \subseteq Ids
        BY Fields DEF Rows
    <2>3. choices \in SUBSET (Ids \cup {0})
        BY <1>1, <2>2
    <2> QED
        BY <1>1, <2>1, <2>3, ReplacesInv
<1>5. CASE ItemsFail(c)
    BY <1>1, <1>5, ListFailsInv DEF ItemsFail, ItemRefreshed
<1>6. CASE DraftsSettle(c)
    <2>1. forms' \subseteq Forms
        BY <1>1, <1>6, Fields, OpensForms DEF DraftsSettle
    <2> QED
        BY <1>1, <1>6, <2>1, SettlesInv DEF DraftsSettle, work
<1>7. CASE Proposed(c)
    BY <1>1, <1>7, ShutForms DEF Proposed, Inv, PageOK, ListInv, StoredOK, server, list, work
<1>8. CASE ProposeFails(c)
    BY <1>1, <1>8, SettlesInv DEF ProposeFails, work
<1> QED
    BY <1>2, <1>3, <1>4, <1>5, <1>6, <1>7, <1>8 DEF CatalogArrivals

\* What the user does on the tasks page.
LEMMA TaskActsKeep ==
    ASSUME Inv, page = "tasks", TaskActs
    PROVE  Inv'
<1>1. /\ forms \subseteq Forms /\ chosen \in Ids \cup {0} /\ picked \subseteq Ids
      /\ \A r \in rows : r.id \in Ids /\ r.val \in Values
    BY ListedRows
<1>2. ASSUME NEW v \in Views, Filters(v) PROVE Inv'
    BY <1>2, FiltersInv
<1>3. ASSUME NEW r \in rows, TaskSelect(r) PROVE Inv'
    BY <1>1, <1>3, IdleInv DEF TaskSelect
<1>4. ASSUME NEW r \in rows, TaskToggle(r) PROVE Inv'
    <2>1. PICK v \in {"on", "off"} : Sends(Call("update", {r.id}, v, "none"))
        BY <1>4 DEF TaskToggle
    <2>2. r.id \in Ids \cup {0} /\ v \in Values
        BY <1>1, Carried
    <2> QED
        BY <1>1, <1>4, <2>1, <2>2, Carried, SendsNew DEF TaskToggle, Ops, Nexts
<1>5. CASE TaskClose
    BY <1>1, <1>5, IdleInv DEF TaskClose
<1>6. ASSUME NEW r, OpenProject(r) PROVE Inv'
    BY <1>6 DEF OpenProject, Inv, PageOK, ListInv, StoredOK, server, list, work
<1> QED
    BY <1>2, <1>3, <1>4, <1>5, <1>6 DEF TaskActs, TaskFilters, TaskTable, TaskPanel

\* The rows once an update is taken in, of the tasks and of the quick replies.
Updated(c) == {IF r.id \in c.ids THEN CHOOSE a \in c.ans : TRUE ELSE r : r \in rows}

\* The answer to an update is the one row of its record.
LEMMA UpdatedRows ==
    ASSUME Inv, page # "left", NEW c \in InFlight, c.op = "update", c.done
    PROVE  /\ Updated(c) \in SUBSET Rows
           /\ \E i \in Ids \cup {0}, a \in Rows :
                 /\ c.ids = {i} /\ a = Row(i, c.val) /\ c.ans = {a}
                 /\ Updated(c) = {IF q.id = i THEN a ELSE q : q \in rows}
<1>1. PICK i \in Ids \cup {0} : c.ids = {i}
    BY DEF Inv, CallsInv, Sound
<1>2. c.ans = {Row(j, c.val) : j \in c.ids} /\ c.ans \subseteq Rows
    BY DEF Inv, CallsInv, Sound, CallType
<1> PICK a : a = Row(i, c.val)
    OBVIOUS
<1>3. c.ans = {a} /\ a \in Rows
    BY <1>1, <1>2
<1>4. (CHOOSE x \in c.ans : TRUE) = a
    BY <1>3
<1>5. Updated(c) = {IF q.id = i THEN a ELSE q : q \in rows}
    BY <1>1, <1>4 DEF Updated
<1>6. Updated(c) \in SUBSET Rows
    BY <1>3, <1>5 DEF Inv, PageOK
<1> QED
    BY <1>1, <1>3, <1>5, <1>6

\* What comes to the tasks page.
LEMMA TaskArrivalsKeep ==
    ASSUME Inv, page = "tasks", NEW c \in InFlight, TaskArrivals(c)
    PROVE  Inv'
<1>1. forms \subseteq Forms /\ chosen \in Ids \cup {0} /\ picked \subseteq Ids
    BY ListedRows
<1>2. CASE TaskToggled(c)
    <2>1. /\ c.op = "update" /\ c.done /\ Merges(c, Updated(c))
          /\ muddled' = (muddled \/ Stale(c)) /\ UNCHANGED <<forms, work>>
        BY <1>2 DEF TaskToggled, Updated
    <2>7. Updated(c) \in SUBSET Rows
        BY <2>1, UpdatedRows
    <2>2. PICK i \in Ids \cup {0}, a \in Rows :
              /\ c.ids = {i} /\ a = Row(i, c.val) /\ c.ans = {a}
              /\ Updated(c) = {IF q.id = i THEN a ELSE q : q \in rows}
        BY <2>1, UpdatedRows
    <2>3. calls' = Overtaken(c) /\ UNCHANGED <<page, server, view>> /\ rows' = Updated(c)
        BY <2>1 DEF Merges
    <2>4. AskFor = "all" /\ Parts = {"all"}
        BY DEF AskFor, Local, Parts
    <2>5. ASSUME Lists' = {}, ~muddled' PROVE Fits(rows, AskFor, Parts)'
        <3>1. ~muddled /\ ~Stale(c)
            BY <2>1, <2>5
        <3>2. rows' = {IF q.id = i THEN a ELSE q : q \in rows}
            BY <2>2, <2>3
        <3> QED
            BY <2>1, <2>2, <2>3, <2>4, <2>5, <3>1, <3>2, UpdateFits DEF Inv
    <2>6. muddled' \in BOOLEAN
        BY <2>1
    <2> QED
        BY <1>1, <2>1, <2>5, <2>6, <2>7, MergesInv DEF work
<1>3. CASE TaskFails(c)
    BY <1>1, <1>3, LostInv DEF TaskFails
<1>4. CASE TasksSettle(c)
    BY <1>1, <1>4, Fields, ReplacesInv, ListFailsInv DEF TasksSettle
<1> QED
    BY <1>2, <1>3, <1>4 DEF TaskArrivals

\* What the user does on the quick replies.
LEMMA ReplyActsKeep ==
    ASSUME Inv, page = "replies", ReplyActs
    PROVE  Inv'
<1>1. /\ forms \subseteq Forms /\ chosen \in Ids \cup {0} /\ picked \subseteq Ids
      /\ \A r \in rows : r.id \in Ids /\ r.val \in Values
    BY ListedRows
<1> PICK kind \in {"new", "edit", "delete"} :
        \/ \E i \in Ids \cup {0} : ReplyOpen(i, kind)
        \/ ReplyClose(kind) \/ ReplySubmit(kind)
    BY DEF ReplyActs
<1>2. ASSUME NEW i \in Ids \cup {0}, ReplyOpen(i, kind) PROVE Inv'
    <2>1. forms' = Opens(kind, i) /\ UNCHANGED <<work, busy>> /\ Idle
        BY <1>2 DEF ReplyOpen
    <2> QED
        BY <1>1, <2>1, OpensForms, IdleInv DEF work
<1>3. CASE ReplyClose(kind)
    BY <1>1, <1>3, ShutForms, IdleInv DEF ReplyClose, work
<1>4. CASE ReplySubmit(kind)
    <2>1. PICK f \in forms, v \in {"on", "off"} :
              Sends(CASE kind = "new"  -> Call("create", {}, v, kind)
                      [] kind = "edit" -> Call("update", {f.id}, v, kind)
                      [] OTHER -> Call("delete", {f.id}, "none", kind))
        BY <1>4 DEF ReplySubmit
    <2>2. UNCHANGED <<forms, work>> /\ forms' \subseteq Forms
        BY <1>1, <1>4 DEF ReplySubmit
    <2>3. f.id \in Ids \cup {0} /\ v \in Values
        BY <1>1, Carried DEF Forms
    <2>4. CASE kind = "new"
        BY <2>1, <2>2, <2>3, <2>4, Carried, SendsNew DEF Ops, Nexts
    <2>5. CASE kind = "edit"
        BY <2>1, <2>2, <2>3, <2>5, Carried, SendsNew DEF Ops, Nexts
    <2>6. CASE kind = "delete"
        BY <2>1, <2>2, <2>3, <2>6, Carried, SendsNew DEF Ops, Nexts
    <2> QED
        BY <2>4, <2>5, <2>6
<1> QED
    BY <1>2, <1>3, <1>4

\* A quick reply that was created, edited or deleted is taken into the list.
LEMMA ReplyStoredKeeps ==
    ASSUME Inv, page = "replies", NEW c \in InFlight, ReplyStored(c)
    PROVE  Inv'
<1>1. /\ forms' \subseteq Forms /\ chosen' \in Ids \cup {0} /\ picked' \subseteq Ids
    BY ListedRows, ShutForms DEF ReplyStored, work
<1>2. /\ c.op \in {"create", "update", "delete"} /\ c.done /\ Merges(c, Changed(c))
      /\ muddled' = (muddled \/ Stale(c)) /\ muddled' \in BOOLEAN
    BY DEF ReplyStored
<1>3. calls' = Overtaken(c) /\ UNCHANGED <<page, server, view>> /\ rows' = Changed(c)
    BY <1>2 DEF Merges
<1>4. AskFor = "all" /\ Parts = {"all"}
    BY DEF AskFor, Local, Parts, Inv, PageOK
<1>5. Changed(c) \in SUBSET Rows /\ (Lists' = {} /\ ~muddled' => Fits(rows, AskFor, Parts)')
    <2>1. CASE c.op = "create"
        <3>1. PICK i \in Ids : c.ans = {Row(i, c.val)}
            BY <1>2, <2>1 DEF Inv, CallsInv, Sound
        <3> PICK a : a = Row(i, c.val)
            OBVIOUS
        <3>2. c.ans = {a} /\ Changed(c) = rows \cup {a}
            BY <2>1, <3>1 DEF Changed
        <3>3. Changed(c) \in SUBSET Rows
            BY <2>1, Fields DEF Changed, Inv, PageOK
        <3>4. ASSUME Lists' = {}, ~muddled' PROVE Fits(rows, AskFor, Parts)'
            <4>1. ~muddled /\ ~Stale(c)
                BY <1>2, <3>4
            <4> QED
                BY <1>2, <1>3, <1>4, <2>1, <3>2, <3>4, <4>1, CreationFits DEF Inv
        <3> QED
            BY <3>3, <3>4
    <2>2. CASE c.op = "update"
        <3>1. Changed(c) = Updated(c)
            BY <2>2 DEF Changed, Updated
        <3>2. Changed(c) \in SUBSET Rows
            BY <1>2, <2>2, <3>1, UpdatedRows
        <3>3. PICK i \in Ids \cup {0}, a \in Rows :
                  /\ c.ids = {i} /\ a = Row(i, c.val) /\ c.ans = {a}
                  /\ Updated(c) = {IF q.id = i THEN a ELSE q : q \in rows}
            BY <1>2, <2>2, UpdatedRows
        <3>4. ASSUME Lists' = {}, ~muddled' PROVE Fits(rows, AskFor, Parts)'
            <4>1. ~muddled /\ ~Stale(c)
                BY <1>2, <3>4
            <4>2. rows' = {IF q.id = i THEN a ELSE q : q \in rows}
                BY <1>3, <3>1, <3>3
            <4> QED
                BY <1>2, <1>3, <1>4, <2>2, <3>3, <3>4, <4>1, <4>2, UpdateFits DEF Inv
        <3> QED
            BY <3>2, <3>4
    <2>3. CASE c.op = "delete"
        <3>1. Changed(c) = {r \in rows : r.id \notin c.ids}
            BY <2>3 DEF Changed
        <3>2. Changed(c) \in SUBSET Rows
            BY <3>1 DEF Inv, PageOK
        <3>3. ASSUME Lists' = {}, ~muddled' PROVE Fits(rows, AskFor, Parts)'
            <4>1. ~muddled
                BY <1>2, <3>3
            <4> QED
                BY <1>2, <1>3, <2>3, <3>1, <3>3, <4>1, DeletionFits DEF Inv
        <3> QED
            BY <3>2, <3>3
    <2> QED
        BY <1>2, <2>1, <2>2, <2>3
<1> QED
    BY <1>1, <1>2, <1>5, MergesInv

\* What comes to the quick replies.
LEMMA ReplyArrivalsKeep ==
    ASSUME Inv, page = "replies", NEW c \in InFlight, ReplyArrivals(c)
    PROVE  Inv'
<1>1. forms \subseteq Forms /\ chosen \in Ids \cup {0} /\ picked \subseteq Ids
    BY ListedRows
<1>2. CASE ReplyFails(c)
    BY <1>1, <1>2, LostInv DEF ReplyFails
<1>3. CASE RepliesSettle(c)
    BY <1>1, <1>3, Fields, ReplacesInv, ListFailsInv DEF RepliesSettle
<1> QED
    BY <1>2, <1>3, ReplyStoredKeeps DEF ReplyArrivals

\* The audit log, which is only read.
LEMMA AuditKeeps ==
    ASSUME Inv, page = "audit", AuditActs \/ \E c \in InFlight : AuditArrivals(c)
    PROVE  Inv'
<1>1. forms \subseteq Forms /\ chosen \in Ids \cup {0} /\ picked \subseteq Ids
    BY ListedRows
<1>2. CASE AuditActs
    BY <1>2, ChoosesViewInv DEF AuditActs, Pages
<1>3. ASSUME NEW c \in InFlight, AuditArrivals(c) PROVE Inv'
    BY <1>1, <1>3, Fields, ReplacesInv, ListFailsInv DEF AuditArrivals
<1> QED
    BY <1>2, <1>3

-----------------------------------------------------------------------------
(* The theorems about the list *)

\* When a page is mounted its first list is asked for.
LEMMA InitInv ==
    ASSUME Init
    PROVE  Inv /\ acts \in 0..MaxActs
<1> PICK l : l = List("all", "first")
    OBVIOUS
<1>1. /\ Sound(l, Gone, page) /\ l.op = "list" /\ l.read = {} /\ l.ans = {}
    BY NewList DEF Views, Nexts
<1>2. calls = SetToBag({l})
    BY DEF Init
<1>3. Counts(calls) /\ InFlight = {l}
    BY <1>2 DEF SetToBag, Counts, InFlight
<1>4. CallsInv
    BY <1>1, <1>3 DEF CallsInv
<1>5. Lists = {l}
    BY <1>1, <1>3 DEF Lists
<1>6. Fits(l.ans, l.val, l.read)
    BY <1>1 DEF Fits, Read
<1>7. ListInv
    BY <1>5, <1>6 DEF ListInv, ListsFit, RowsFit
<1>8. DOMAIN stored = 1..2 /\ made = 2 /\ stored[1] \in Values /\ stored[2] \in Values
    BY DEF Init, Values
<1>9. made \in Ids
    BY <1>8, RecordAssumption DEF Ids
<1>10. StoredOK
    BY <1>8, <1>9 DEF StoredOK
<1>11. PageOK
    BY DEF Init, PageOK, Views
<1>12. acts \in 0..MaxActs
    BY RecordAssumption DEF Init
<1> QED
    BY <1>4, <1>7, <1>10, <1>11, <1>12 DEF Inv

\* The server disturbs nothing on the page.
LEMMA ServerInv ==
    ASSUME Inv, page # "left", Server
    PROVE  Inv'
<1>1. CallsInv' /\ ListInv' /\ StoredOK'
    BY ServerKeeps DEF Inv
<1>2. UNCHANGED <<page, list, forms, work, muddled>>
    BY DEF Server, AnswersPart, StoresNew, StoresValue, StoresDeletion, StoresBulk,
           AnswersOther, Answered
<1> QED
    BY <1>1, <1>2 DEF Inv, PageOK, list, work

\* Every step keeps the invariant.
LEMMA NextInv ==
    ASSUME Inv, Next
    PROVE  Inv'
<1>1. CASE Server
    BY <1>1, ServerInv DEF Next
<1>2. CASE Arrives
    BY <1>2, ClientArrivalsKeep, UserArrivalsKeep, RoleArrivalsKeep, CatalogArrivalsKeep,
       TaskArrivalsKeep, ReplyArrivalsKeep, AuditKeeps DEF Arrives
<1>3. CASE User
    BY <1>3, ClientActsKeep, UserActsKeep, RoleActsKeep, CatalogActsKeep, TaskActsKeep,
       ReplyActsKeep, AuditKeeps DEF User
<1> QED
    BY <1>1, <1>2, <1>3 DEF Next

\* So does a step that leaves the variables alone.
LEMMA StutterInv ==
    ASSUME Inv, UNCHANGED vars
    PROVE  Inv'
<1>1. UNCHANGED <<page, stored, made, rows, view, loading, forms, chosen, picked, calls,
                  muddled>>
    BY DEF vars, server, list, work
<1>2. StoredOK' /\ PageOK'
    BY <1>1 DEF Inv, StoredOK, PageOK
<1>3. InFlight' = InFlight /\ Gone' = Gone /\ Lists' = Lists /\ AskFor' = AskFor
    BY <1>1 DEF InFlight, Gone, Lists, AskFor, Local
<1>4. page # "left" => CallsInv'
    BY <1>1, <1>3 DEF Inv, CallsInv
<1>5. Altered' = Altered /\ Added' = Added
    BY <1>3 DEF Altered, Changes, Added, Creates
<1>6. page # "left" => ListInv'
    BY <1>1, <1>3, <1>5, ListsKept DEF Inv
<1> QED
    BY <1>1, <1>2, <1>4, <1>6 DEF Inv, ListInv

\* Once nothing is under way, a page that is not muddled lists what the server keeps.
LEMMA InvIsAccurate ==
    ASSUME Inv
    PROVE  QuietPageIsAccurate
<1> SUFFICES ASSUME page # "left", calls = EmptyBag, ~muddled
             PROVE  Visible = Seen(view)
    BY DEF QuietPageIsAccurate
<1>1. InFlight = {}
    BY DEF InFlight, EmptyBag, SetToBag
<1>2. Lists = {} /\ Altered = {} /\ Added = {}
    BY <1>1 DEF Lists, Altered, Changes, Added, Creates
<1>3. Fits(rows, AskFor, Parts)
    BY <1>2 DEF Inv, ListInv, RowsFit
<1>4. \A r : \E p \in Parts : PartOf(r, p)
    BY DEF Parts, PartOf
<1>5. rows = Seen(AskFor)
    BY <1>2, <1>3, <1>4 DEF Fits, Read
<1>6. CASE Local
    <2>1. rows = Seen("all")
        BY <1>5, <1>6 DEF AskFor
    <2>2. Visible = Matching(Seen("all"), view)
        BY <1>6, <2>1 DEF Visible
    <2>3. Matching(Seen("all"), view) = Seen(view)
        BY DEF Matching, Seen
    <2> QED
        BY <2>2, <2>3
<1>7. CASE ~Local
    BY <1>5, <1>7 DEF AskFor, Visible
<1> QED
    BY <1>6, <1>7

\* The types of the pages, of the server's records and of the acts.
THEOREM TypeCorrect == Spec => []TypeOK
<1> DEFINE IInv == Inv /\ acts \in 0..MaxActs
<1>1. Init => IInv
    BY InitInv
<1>2. IInv /\ [Next]_vars => IInv'
    <2> SUFFICES ASSUME IInv, [Next]_vars PROVE IInv'
        OBVIOUS
    <2>1. Inv'
        BY NextInv, StutterInv
    <2>2. acts' = acts \/ (acts < MaxActs /\ acts' = acts + 1)
        BY DEF Next, vars
    <2>3. acts' \in 0..MaxActs
        BY <2>2, RecordAssumption
    <2> QED
        BY <2>1, <2>3
<1>3. IInv => TypeOK
    BY DEF Inv, StoredOK, PageOK, Forms, TypeOK
<1> QED
    BY <1>1, <1>2, <1>3, PTL DEF Spec

\* A page shows what the server keeps, whatever creations, edits, deletions,
\* approvals and bulk actions overlapped, once nothing is under way and nothing
\* that muddled names has spoilt it.
THEOREM QuietPageAlways == Spec => []QuietPageIsAccurate
<1>1. Init => Inv
    BY InitInv
<1>2. Inv /\ [Next]_vars => Inv'
    BY NextInv, StutterInv
<1>3. Inv => QuietPageIsAccurate
    BY InvIsAccurate
<1> QED
    BY <1>1, <1>2, <1>3, PTL DEF Spec

-----------------------------------------------------------------------------
(* The modal of the catalog *)

\* The request that saves an item goes on, or its refresh comes after it.
OneItem ==
    \A d \in ItemCalls' :
       /\ ItemCalls' = {d} /\ calls'[d] = 1
       /\ \E e \in ItemCalls : d.op = "list" \/ (d.op = e.op /\ d.ids = e.ids)

\* The form of an item stays if its request goes on and no form for items is shut.
LEMMA ItemKeeps ==
    ASSUME ItemInv, page = "catalog", OneItem, NewForms', Is("saving") => Is("saving")',
           \A f \in forms : f.kind \in {"new", "edit"} => f \in forms'
    PROVE  ItemInv'
<1> SUFFICES ASSUME NEW d \in ItemCalls'
             PROVE  Is("saving")' /\ ItemCalls' = {d} /\ calls'[d] = 1 /\ HasForm(d)'
    BY DEF ItemInv
<1>1. ItemCalls' = {d} /\ calls'[d] = 1
    BY DEF OneItem
<1>2. PICK e \in ItemCalls : d.op = "list" \/ (d.op = e.op /\ d.ids = e.ids)
    BY DEF OneItem
<1>3. Is("saving") /\ HasForm(e)
    BY DEF ItemInv
<1>4. \A i : Open("new", i).kind = "new" /\ Open("edit", i).kind = "edit"
    BY DEF Open
<1>5. \A i : /\ Open("new", i) \in forms => Open("new", i) \in forms'
             /\ Open("edit", i) \in forms => Open("edit", i) \in forms'
    BY <1>4
<1>6. \A i : Open("new", i)' = Open("new", i) /\ Open("edit", i)' = Open("edit", i)
    BY DEF Open
<1>7. HasForm(d)'
    BY <1>2, <1>3, <1>5, <1>6 DEF HasForm
<1> QED
    BY <1>1, <1>3, <1>7

\* Requests for other things come and go beside that of the item.
LEMMA SameItem ==
    ASSUME ItemInv, page = "catalog", ItemCalls' = ItemCalls,
           \A e \in ItemCalls : calls'[e] = calls[e]
    PROVE  OneItem
BY DEF OneItem, ItemInv

\* A request for something else is sent.
LEMMA SendsItem ==
    ASSUME ItemInv, CallsInv, page = "catalog", NEW d, Sound(d, Gone, page), d.next # "item",
           Sends(d)
    PROVE  OneItem
<1>1. UNCHANGED <<page, server>> /\ calls' = Asked(d)
    BY DEF Sends
<1>2. InFlight' = InFlight \cup {d} /\ \A e \in InFlight : e # d => calls'[e] = calls[e]
    BY <1>1, AskedKeeps
<1>3. ItemCalls' = ItemCalls /\ \A e \in ItemCalls : calls'[e] = calls[e]
    BY <1>2 DEF ItemCalls
<1> QED
    BY <1>3, SameItem

\* A request is over, that of the item or another.
LEMMA SettlesItem ==
    ASSUME ItemInv, CallsInv, page = "catalog", NEW c \in InFlight, calls' = Settled(c)
    PROVE  OneItem /\ (c.next = "item" => ItemCalls' = {})
<1>1. /\ \A e : e \in DOMAIN calls' <=> e \in InFlight /\ (e # c \/ calls[c] # 1)
      /\ \A e \in InFlight : e # c => calls'[e] = calls[e]
    BY SettledSound
<1>2. InFlight' = {e \in InFlight : e # c \/ calls[c] # 1}
    BY <1>1 DEF InFlight
<1>3. CASE c.next = "item"
    <2>1. ItemCalls = {c} /\ calls[c] = 1
        BY <1>3 DEF ItemInv, ItemCalls
    <2>2. ItemCalls' = {}
        BY <1>2, <2>1 DEF ItemCalls
    <2> QED
        BY <2>2 DEF OneItem
<1>4. CASE c.next # "item"
    <2>1. ItemCalls' = ItemCalls /\ \A e \in ItemCalls : calls'[e] = calls[e]
        BY <1>1, <1>2, <1>4 DEF ItemCalls
    <2> QED
        BY <1>4, <2>1, SameItem
<1> QED
    BY <1>3, <1>4

\* An answer overtakes the lists read before; the refresh after a save may be one.
LEMMA OvertakesItem ==
    ASSUME ItemInv, CallsInv, page = "catalog", NEW c \in InFlight, calls' = Overtaken(c)
    PROVE  OneItem /\ (c.next = "item" => ItemCalls' = {})
<1> PICK D : D = Settled(c)
    OBVIOUS
<1>1. /\ \A e : e \in DOMAIN D <=> e \in InFlight /\ (e # c \/ calls[c] # 1)
      /\ \A e \in InFlight : e # c => D[e] = calls[e]
    BY SettledSound
<1>2. InFlight' = {Late(e) : e \in DOMAIN D}
    BY OvertakenSound DEF InFlight
<1>3. \A e \in InFlight :
         /\ Late(e).op = e.op /\ Late(e).next = e.next /\ Late(e).ids = e.ids
         /\ Late(e) # e => Late(e).late /\ [Late(e) EXCEPT !.late = FALSE] = e
    BY LateIsSound DEF CallsInv
<1>4. \A e \in InFlight : e.late \in BOOLEAN /\ e \in CallType
    BY DEF CallsInv, Sound, CallType
<1>5. CASE c.next = "item"
    <2>1. ItemCalls = {c} /\ calls[c] = 1
        BY <1>5 DEF ItemInv, ItemCalls
    <2>2. \A e \in DOMAIN D : e.next # "item"
        BY <1>1, <2>1 DEF ItemCalls
    <2>3. ItemCalls' = {}
        BY <1>1, <1>2, <1>3, <2>2 DEF ItemCalls
    <2> QED
        BY <2>3 DEF OneItem
<1>6. CASE c.next # "item"
    <2> SUFFICES ASSUME NEW d \in ItemCalls'
                 PROVE  /\ ItemCalls' = {d} /\ calls'[d] = 1
                        /\ \E e \in ItemCalls : d.op = e.op /\ d.ids = e.ids
        BY <1>6 DEF OneItem
    <2>1. PICK e \in DOMAIN D : d = Late(e)
        BY <1>2 DEF ItemCalls
    <2>2. e \in ItemCalls
        BY <1>1, <1>3, <2>1 DEF ItemCalls
    <2>3. ItemCalls = {e} /\ calls[e] = 1 /\ e # c
        BY <1>6, <2>2 DEF ItemInv, ItemCalls
    <2>4. ItemCalls' = {d}
        BY <1>1, <1>2, <1>3, <2>1, <2>3 DEF ItemCalls
    <2>5. D[e] = 1
        BY <1>1, <2>3 DEF ItemCalls
    <2>6. \A x \in DOMAIN D : x.next = "item" => x = e
        BY <1>1, <2>3 DEF ItemCalls
    <2> PICK f : f = [d EXCEPT !.late = FALSE]
        OBVIOUS
    <2>7. calls'[d] = Times(d, D) + (IF d.late THEN Times(f, D) ELSE 0)
        BY <2>1 DEF Overtaken
    <2>8. CASE d # e
        <3>1. d.late /\ f = e
            BY <1>1, <1>3, <2>1, <2>8
        <3>2. d \notin DOMAIN D
            BY <1>3, <1>1, <2>1, <2>3, <2>6, <2>8 DEF ItemCalls
        <3>3. Times(d, D) = 0 /\ Times(f, D) = 1
            BY <2>1, <2>5, <3>1, <3>2 DEF Times
        <3>4. calls'[d] = 1
            BY <2>7, <3>1, <3>3
        <3> QED
            BY <1>1, <1>3, <2>1, <2>2, <2>4, <3>4
    <2>9. CASE d = e
        <3>1. Times(d, D) = 1
            BY <2>1, <2>5, <2>9 DEF Times
        <3>2. d.late => f.next = "item" /\ f # e
            BY <1>4, <1>1, <2>1, <2>9, <2>3 DEF ItemCalls, CallType
        <3>3. d.late => Times(f, D) = 0
            BY <2>6, <3>2 DEF Times
        <3>4. calls'[d] = 1
            BY <2>7, <3>1, <3>3
        <3> QED
            BY <2>2, <2>4, <2>9, <3>4
    <2> QED
        BY <2>8, <2>9
<1> QED
    BY <1>5, <1>6

\* A request of the server's, or a refresh, in the place of another.
LEMMA ReplacesItem ==
    ASSUME ItemInv, CallsInv, page = "catalog", NEW c \in InFlight, NEW d, d.next = c.next,
           d.op = "list" \/ (d.op = c.op /\ d.ids = c.ids),
           calls' = Settled(c) (+) SetToBag({d})
    PROVE  OneItem
<1>1. /\ InFlight' = {e \in InFlight : e # c \/ calls[c] # 1} \cup {d}
      /\ \A e \in InFlight : e # c /\ e # d => calls'[e] = calls[e]
      /\ calls'[d] = 1 <=> ~(d \in InFlight /\ (d # c \/ calls[c] # 1))
    BY Replaced
<1>2. CASE c.next = "item"
    <2>1. ItemCalls = {c} /\ calls[c] = 1
        BY <1>2 DEF ItemInv, ItemCalls
    <2>2. ItemCalls' = {d}
        BY <1>1, <1>2, <2>1 DEF ItemCalls
    <2>3. calls'[d] = 1
        BY <1>1, <1>2, <2>1 DEF ItemCalls
    <2> QED
        BY <2>1, <2>2, <2>3 DEF OneItem
<1>3. CASE c.next # "item"
    <2>1. ItemCalls' = ItemCalls /\ \A e \in ItemCalls : calls'[e] = calls[e]
        BY <1>1, <1>3 DEF ItemCalls
    <2> QED
        BY <2>1, SameItem
<1> QED
    BY <1>2, <1>3

\* Steps that leave forms and flags alone.
LEMMA SameForms ==
    ASSUME ItemInv, page = "catalog", UNCHANGED <<forms, busy>>, OneItem
    PROVE  ItemInv'
<1>1. NewForms' /\ (Is("saving") => Is("saving")')
    BY DEF ItemInv, NewForms, Is
<1> QED
    BY <1>1, ItemKeeps

\* The server.
LEMMA ServerItem ==
    ASSUME ItemInv, CallsInv, page = "catalog", Server
    PROVE  ItemInv'
<1> PICK c \in InFlight :
        \/ AnswersPart(c) \/ StoresNew(c) \/ StoresValue(c)
        \/ StoresDeletion(c) \/ StoresBulk(c) \/ AnswersOther(c)
    BY DEF Server
<1>1. c \in CallType
    BY DEF CallsInv, Sound
<1>2. CASE AnswersPart(c)
    <2>1. PICK p : calls' = Settled(c) (+) SetToBag({[c EXCEPT !.read = @ \cup {p},
                     !.ans = @ \cup {r \in Seen(c.val) : PartOf(r, p)}]})
        BY <1>2 DEF AnswersPart
    <2> PICK d : d = [c EXCEPT !.read = @ \cup {p},
                     !.ans = @ \cup {r \in Seen(c.val) : PartOf(r, p)}]
        OBVIOUS
    <2>2. d.op = c.op /\ d.next = c.next /\ d.ids = c.ids
        BY <1>1 DEF CallType
    <2>3. OneItem
        BY <2>1, <2>2, ReplacesItem
    <2> QED
        BY <1>2, <2>3, SameForms DEF AnswersPart
<1>3. CASE ~AnswersPart(c)
    <2>1. PICK ans : Answered(c, ans)
        BY <1>3 DEF StoresNew, StoresValue, StoresDeletion, StoresBulk, AnswersOther
    <2> PICK d : d = [c EXCEPT !.done = TRUE, !.ans = ans]
        OBVIOUS
    <2>2. d.op = c.op /\ d.next = c.next /\ d.ids = c.ids
        BY <1>1 DEF CallType
    <2>3. calls' = Settled(c) (+) SetToBag({d})
        BY <2>1 DEF Answered
    <2>4. OneItem
        BY <2>2, <2>3, ReplacesItem
    <2> QED
        BY <2>1, <2>4, SameForms DEF Answered
<1> QED
    BY <1>2, <1>3

\* A request that has nothing to do with the modal.
LEMMA AsidesKeep ==
    ASSUME Inv, ItemInv, page = "catalog", NEW op \in Ops, NEW ids \in SUBSET (Ids \cup {0}),
           NEW val \in Values \cup {"none"}, op \in {"update", "copy", "drafts", "propose"},
           op \in {"copy", "update"} => val \in Values,
           op = "update" => \E i \in Ids \cup {0} : ids = {i},
           Sends(Call(op, ids, val, "none"))
    PROVE  OneItem
<1> PICK d : d = Call(op, ids, val, "none")
    OBVIOUS
<1>1. d \in CallType /\ d.op = op /\ d.ids = ids /\ d.val = val /\ d.next = "none" /\ ~d.done
    BY DEF Call, CallType, Nexts
<1>2. Sound(d, Gone, page)
    BY <1>1 DEF Sound
<1> QED
    BY <1>1, <1>2, SendsItem DEF Inv

\* The one item that is saved is that of the form.
LEMMA SubmitItem ==
    ASSUME Inv, ItemInv, page = "catalog", ItemSubmit
    PROVE  ItemInv'
<1>1. PICK f \in forms, v \in {"on", "off"} :
          /\ f.kind \in {"new", "edit"}
          /\ Sends(IF f.kind = "edit" THEN Call("update", {f.id}, v, "item")
                   ELSE Call("create", {}, v, "item"))
    BY DEF ItemSubmit
<1>2. f \in Forms /\ f.id \in Ids \cup {0} /\ v \in Values
    BY DEF Inv, PageOK, Forms, Values
<1> PICK d : d = IF f.kind = "edit" THEN Call("update", {f.id}, v, "item")
                 ELSE Call("create", {}, v, "item")
    OBVIOUS
<1>3. d \in CallType /\ d.next = "item" /\ d.val = v /\ ~d.done
    BY <1>2 DEF Call, CallType, Ops, Nexts
<1>4. IF f.kind = "edit" THEN d.op = "update" /\ d.ids = {f.id} ELSE d.op = "create"
    BY DEF Call
<1>5. Sound(d, Gone, page)
    BY <1>2, <1>3, <1>4 DEF Sound
<1>6. UNCHANGED <<page, server>> /\ calls' = Asked(d)
    BY <1>1 DEF Sends
<1>7. ItemCalls = {}
    BY DEF ItemSubmit, ItemInv
<1>8. InFlight' = InFlight \cup {d} /\ (calls'[d] = 1 <=> d \notin InFlight)
    BY <1>5, <1>6, AskedKeeps DEF Inv
<1>9. ItemCalls' = {d} /\ calls'[d] = 1
    BY <1>3, <1>7, <1>8 DEF ItemCalls
<1>10. Is("saving")'
    <2>1. [flag |-> "saving", id |-> 0] \in busy'
        BY DEF ItemSubmit, Flag
    <2>2. [flag |-> "saving", id |-> 0].flag = "saving"
        OBVIOUS
    <2> QED
        BY <2>1, <2>2 DEF Is
<1>11. forms' = forms
    BY DEF ItemSubmit
<1>12. NewForms'
    BY <1>11 DEF ItemInv, NewForms
<1>13. f = Open(f.kind, f.id)
    BY <1>2 DEF Forms, Open
<1>14. f.kind = "new" => f.id = 0
    BY DEF ItemInv, NewForms
<1>15. HasForm(d)'
    <2>1. CASE f.kind = "edit"
        <3>1. Open("edit", f.id) \in forms'
            BY <1>11, <1>13, <2>1
        <3> QED
            BY <1>2, <1>4, <2>1, <3>1 DEF HasForm, Open
    <2>2. CASE f.kind = "new"
        <3>1. Open("new", 0) \in forms'
            BY <1>11, <1>13, <1>14, <2>2
        <3> QED
            BY <1>4, <2>2, <3>1 DEF HasForm, Open
    <2> QED
        BY <1>1, <2>1, <2>2
<1> QED
    BY <1>9, <1>10, <1>12, <1>15 DEF ItemInv

\* What the user does on the catalog; the modal is not closed during a save.
LEMMA CatalogActsItem ==
    ASSUME Inv, ItemInv, page = "catalog", CatalogActs
    PROVE  ItemInv'
<1>1. /\ forms \subseteq Forms /\ chosen \in Ids \cup {0} /\ picked \subseteq Ids
      /\ \A r \in rows : r.id \in Ids /\ r.val \in Values
    BY ListedRows
<1>0. ASSUME UNCHANGED calls PROVE OneItem
    BY <1>0, SameItem DEF ItemCalls, InFlight
<1>2. ASSUME NEW i \in Ids \cup {0}, ItemOpen(i) PROVE ItemInv'
    <2>1. forms = {} /\ UNCHANGED <<calls, busy>>
        BY <1>2 DEF ItemOpen, Clear, Idle
    <2>2. forms' = {Open("new", 0)} \/ forms' = {Open("edit", i)}
        BY <1>2, <2>1 DEF ItemOpen, Opens, Shut
    <2>3. NewForms' /\ (Is("saving") => Is("saving")')
        BY <2>1, <2>2 DEF NewForms, Open, Is
    <2> QED
        BY <1>0, <2>1, <2>3, ItemKeeps
<1>3. ASSUME NEW v \in Views, Filters(v) PROVE ItemInv'
    BY <1>0, <1>3, SameForms DEF Filters
<1>4. ASSUME NEW r \in rows, ItemSelect(r) PROVE ItemInv'
    BY <1>0, <1>4, SameForms DEF ItemSelect, Idle
<1>5. ASSUME NEW r \in rows, ItemCopy(r) PROVE ItemInv'
    <2>1. r.id \in Ids \cup {0} /\ r.val \in Values
        BY <1>1
    <2>2. OneItem
        BY <1>5, <2>1, Carried, AsidesKeep DEF ItemCopy, Ops
    <2> QED
        BY <1>5, <2>2, SameForms DEF ItemCopy
<1>6. ASSUME NEW r \in rows, ItemToggle(r) PROVE ItemInv'
    <2>1. PICK v \in {"on", "off"} : Sends(Call("update", {r.id}, v, "none"))
        BY <1>6 DEF ItemToggle
    <2>2. r.id \in Ids \cup {0} /\ v \in Values
        BY <1>1, Carried
    <2>3. OneItem
        BY <2>1, <2>2, Carried, AsidesKeep DEF Ops
    <2> QED
        BY <1>6, <2>3, SameForms DEF ItemToggle
<1>7. ASSUME NEW i \in Ids, PickerAsk(i) PROVE ItemInv'
    <2>1. OneItem
        BY <1>7, Carried, AsidesKeep DEF PickerAsk, Ops
    <2> QED
        BY <1>7, <2>1, SameForms DEF PickerAsk
<1>8. CASE ItemClose
    <2>1. ItemCalls = {} /\ UNCHANGED <<calls, busy>>
        BY <1>8 DEF ItemClose, Idle, ItemInv
    <2>2. NewForms' /\ ItemCalls' = {}
        BY <1>8, <2>1 DEF ItemClose, Shut, ItemInv, NewForms, ItemCalls, InFlight
    <2> QED
        BY <2>2 DEF ItemInv
<1>9. CASE Propose
    <2>1. PICK f \in forms : Sends(Call("propose", {f.id}, "none", "none"))
        BY <1>9 DEF Propose
    <2>2. {f.id} \in SUBSET (Ids \cup {0})
        BY <1>1 DEF Forms
    <2>3. OneItem
        BY <2>1, <2>2, AsidesKeep DEF Ops
    <2>4. NewForms' /\ forms' = forms
        BY <1>9 DEF Propose, ItemInv, NewForms
    <2>5. Is("saving") => Is("saving")'
        BY <1>9 DEF Propose, Flag, Is
    <2> QED
        BY <2>3, <2>4, <2>5, ItemKeeps
<1>10. CASE PickerClose
    <2>1. UNCHANGED <<calls, busy>> /\ forms' = Shut({"picker"})
        BY <1>10 DEF PickerClose, Idle
    <2>2. NewForms' /\ (Is("saving") => Is("saving")')
        BY <2>1 DEF Shut, ItemInv, NewForms, Is
    <2>3. \A f \in forms : f.kind \in {"new", "edit"} => f \in forms'
        BY <2>1 DEF Shut
    <2> QED
        BY <1>0, <2>1, <2>2, <2>3, ItemKeeps
<1> QED
    BY <1>1, <1>2, <1>3, <1>4, <1>5, <1>6, <1>7, <1>8, <1>9, <1>10, SubmitItem
    DEF CatalogActs, CatalogHead, CatalogTable, ItemDetail, ItemForm, Picker

\* What comes to the catalog; only the answer for the item closes its modal.
LEMMA CatalogArrivalsItem ==
    ASSUME Inv, ItemInv, page = "catalog", NEW c \in InFlight, CatalogArrivals(c)
    PROVE  ItemInv'
<1>1. CallsInv
    BY DEF Inv
\* No item is being saved any more.
<1>2. ASSUME ItemCalls' = {}, forms' \subseteq forms PROVE ItemInv'
    BY <1>2 DEF ItemInv, NewForms
<1>3. ASSUME calls' = Settled(c) \/ calls' = Overtaken(c), UNCHANGED forms,
             busy' = (IF c.next = "item" THEN Unflag("saving") ELSE busy)
      PROVE  ItemInv'
    <2>1. OneItem /\ (c.next = "item" => ItemCalls' = {})
        BY <1>1, <1>3, SettlesItem, OvertakesItem
    <2> QED
        BY <1>2, <1>3, <2>1, SameForms
<1>4. CASE ItemStored(c)
    <2> PICK d : d = List(AskFor, c.next)
        OBVIOUS
    <2>1. calls' = Settled(c) (+) SetToBag({d}) /\ busy' = busy
        BY <1>4 DEF ItemStored, Reloads
    <2>2. d.next = c.next /\ d.op = "list"
        BY DEF List, Call
    <2>3. OneItem
        BY <1>1, <2>1, <2>2, ReplacesItem
    <2>4. CASE c.next # "item"
        BY <1>4, <2>3, <2>4, SameForms DEF ItemStored
    <2>5. CASE c.next = "item"
        <3>1. ItemCalls = {c} /\ calls[c] = 1 /\ Is("saving")
            BY <2>5 DEF ItemInv, ItemCalls
        <3>2. InFlight' = {e \in InFlight : e # c} \cup {d}
            BY <1>1, <2>1, <3>1, Replaced
        <3>3. ItemCalls' = {d}
            BY <2>2, <2>5, <3>1, <3>2 DEF ItemCalls
        <3>4. calls'[d] = 1
            BY <2>3, <3>3 DEF OneItem
        <3>5. NewForms'
            BY <1>4, <2>5 DEF ItemStored, Shut, ItemInv, NewForms
        <3>6. Is("saving")' /\ HasForm(d)'
            BY <2>1, <2>2, <3>1 DEF Is, HasForm
        <3> QED
            BY <3>3, <3>4, <3>5, <3>6 DEF ItemInv
    <2> QED
        BY <2>4, <2>5
<1>5. CASE ItemFails(c)
    BY <1>3, <1>5 DEF ItemFails, Lost
<1>6. CASE ItemsArrive(c)
    BY <1>3, <1>6 DEF ItemsArrive, Replaces, ItemRefreshed
<1>7. CASE ItemsFail(c)
    BY <1>3, <1>7 DEF ItemsFail, ListFails, ItemRefreshed
<1>8. CASE DraftsSettle(c)
    <2>1. OneItem /\ busy' = busy
        BY <1>1, <1>8, SettlesItem DEF DraftsSettle
    <2>2. forms' = forms \/ \E i : forms' = Opens("picker", i)
        BY <1>8 DEF DraftsSettle
    <2>3. \A f \in forms : f.kind \in {"new", "edit"} => f \in forms'
        BY <2>2 DEF Opens, Shut
    <2>4. NewForms' /\ (Is("saving") => Is("saving")')
        BY <2>1, <2>2 DEF Opens, Shut, Open, ItemInv, NewForms, Is
    <2> QED
        BY <2>1, <2>3, <2>4, ItemKeeps
<1>9. CASE Proposed(c)
    BY <1>9 DEF Proposed, ItemInv
<1>10. CASE ProposeFails(c)
    <2>1. OneItem /\ forms' = forms
        BY <1>1, <1>10, SettlesItem DEF ProposeFails
    <2>2. NewForms' /\ (Is("saving") => Is("saving")')
        BY <1>10, <2>1 DEF ProposeFails, Unflag, ItemInv, NewForms, Is
    <2> QED
        BY <2>1, <2>2, ItemKeeps
<1> QED
    BY <1>4, <1>5, <1>6, <1>7, <1>8, <1>9, <1>10 DEF CatalogArrivals

\* None of the blocks leaves the page, and no handler mounts another.
LEMMA BlocksStay ==
    ASSUME NEW c, NEW x,
           \/ Idle \/ Sends(c) \/ Filters(x) \/ ChoosesView(x) \/ Lost(c) \/ ListFails(c, x)
           \/ Replaces(c, x) \/ Merges(c, x) \/ Reloads(c, x)
    PROVE  page' = page
BY DEF Idle, Sends, Filters, ChoosesView, Lost, ListFails, Replaces, Merges, Reloads

\* No step mounts a page.
LEMMA PageStays ==
    ASSUME [Next]_vars
    PROVE  page' \in {page, "left"}
<1>1. CASE UNCHANGED vars
    BY <1>1 DEF vars
<1>2. CASE Server
    BY <1>2 DEF Server, AnswersPart, StoresNew, StoresValue, StoresDeletion, StoresBulk,
               AnswersOther, Answered
<1>3. ASSUME ClientActs PROVE page' = page
    BY <1>3, BlocksStay
    DEF ClientActs, ClientFilter, ClientSelect, ClientNew, ClientForm, ClientDetail,
        ClientSubmit, CloseForm, ClientEdit, ClientDelete
<1>4. ASSUME NEW c, ClientArrivals(c) PROVE page' = page
    BY <1>4, BlocksStay
    DEF ClientArrivals, ClientSaved, ClientCreated, ClientSaveFails, ClientsArrive,
        ClientsFail, DetailSettles, ClientDeleted, ClientDeleteFails
<1>5. ASSUME UserActs PROVE page' = page
    BY <1>5, BlocksStay
    DEF UserActs, UserNew, UserForms, UserPick, UserEdit, UserToggle, UserDelete, UserReview,
        UserBulk, UserSubmit, CloseForm
<1>6. ASSUME NEW c, UserArrivals(c) PROVE page' = page
    BY <1>6, BlocksStay
    DEF UserArrivals, UserSaved, UserSaveFails, UserChanged, UserChangeFails, UserBulkDone,
        UserBulkFails, UsersArrive, UsersFail
<1>7. ASSUME RoleActs PROVE page' = page
    BY <1>7, BlocksStay DEF RoleActs, RoleNew, RoleSubmit, RoleDelete, CloseForm, RoleOpen
<1>8. ASSUME NEW c, RoleArrivals(c) PROVE page' = page
    BY <1>8, BlocksStay DEF RoleArrivals, RoleSaved, RoleDeleted, RoleFails, RolesSettle
<1>9. ASSUME CatalogActs PROVE page' = page
    BY <1>9, BlocksStay
    DEF CatalogActs, CatalogHead, CatalogTable, ItemDetail, ItemForm, Picker, ItemOpen,
        ItemSelect, ItemCopy, ItemToggle, PickerAsk, ItemSubmit, ItemClose, Propose, PickerClose
<1>10. ASSUME NEW c, CatalogArrivals(c) PROVE page' \in {page, "left"}
    BY <1>10, BlocksStay
    DEF CatalogArrivals, ItemStored, ItemFails, ItemsArrive, ItemsFail, DraftsSettle,
        Proposed, ProposeFails
<1>11. ASSUME TaskActs PROVE page' \in {page, "left"}
    BY <1>11, BlocksStay
    DEF TaskActs, TaskFilters, TaskTable, TaskPanel, TaskSelect, TaskToggle, TaskClose,
        OpenProject
<1>12. ASSUME NEW c, TaskArrivals(c) PROVE page' = page
    BY <1>12, BlocksStay DEF TaskArrivals, TaskToggled, TaskFails, TasksSettle
<1>13. ASSUME ReplyActs PROVE page' = page
    BY <1>13, BlocksStay DEF ReplyActs, ReplyOpen, ReplyClose, ReplySubmit
<1>14. ASSUME NEW c, ReplyArrivals(c) PROVE page' = page
    BY <1>14, BlocksStay DEF ReplyArrivals, ReplyStored, ReplyFails, RepliesSettle
<1>15. ASSUME AuditActs PROVE page' = page
    BY <1>15, BlocksStay DEF AuditActs
<1>16. ASSUME NEW c, AuditArrivals(c) PROVE page' = page
    BY <1>16, BlocksStay DEF AuditArrivals
<1>17. CASE Arrives
    BY <1>4, <1>6, <1>8, <1>10, <1>12, <1>14, <1>16, <1>17 DEF Arrives
<1>18. CASE User
    BY <1>3, <1>5, <1>7, <1>9, <1>11, <1>13, <1>15, <1>18 DEF User
<1> QED
    BY <1>1, <1>2, <1>17, <1>18 DEF Next

\* Every step keeps the invariant of the modal.
LEMMA ItemStep ==
    ASSUME Inv, ItemInv, [Next]_vars
    PROVE  ItemInv'
<1>1. CASE page = "catalog"
    <2>1. CASE UNCHANGED vars
        <3>1. UNCHANGED <<calls, forms, busy>>
            BY <2>1 DEF vars
        <3>2. OneItem
            BY <1>1, <3>1, SameItem DEF ItemCalls, InFlight
        <3> QED
            BY <1>1, <3>1, <3>2, SameForms
    <2>2. CASE Next
        BY <1>1, <2>2, ServerItem, CatalogActsItem, CatalogArrivalsItem
        DEF Inv, Next, Arrives, User
    <2> QED
        BY <2>1, <2>2
<1>2. CASE page # "catalog"
    <2>1. page' \in {page, "left"}
        BY <1>2, PageStays
    <2> QED
        BY <1>2, <2>1 DEF ItemInv
<1> QED
    BY <1>1, <1>2

\* At first nothing is being saved.
LEMMA InitItem ==
    ASSUME Init
    PROVE  ItemInv
<1> PICK l : l = List("all", "first")
    OBVIOUS
<1>1. calls = SetToBag({l}) /\ l.next = "first" /\ forms = {}
    BY DEF Init, List, Call
<1>2. InFlight = {l}
    BY <1>1 DEF SetToBag, InFlight
<1> QED
    BY <1>1, <1>2 DEF ItemInv, ItemCalls, NewForms

\* No answer closes the modal of the catalog but that of the item that is being
\* saved, and the user does not close it meanwhile.
THEOREM SavingFormAlways == Spec => []SavingFormStays
<1> DEFINE IInv == Inv /\ ItemInv
<1>1. Init => IInv
    BY InitInv, InitItem
<1>2. IInv /\ [Next]_vars => IInv'
    BY NextInv, StutterInv, ItemStep
<1>3. IInv => SavingFormStays
    <2> SUFFICES ASSUME ItemInv, page = "catalog", NEW c \in ItemCalls,
                        c.op \in {"create", "update"}
                 PROVE  Open(IF c.op = "create" THEN "new" ELSE "edit",
                             IF c.op = "create" THEN 0 ELSE CHOOSE i \in c.ids : TRUE) \in forms
        BY DEF SavingFormStays, ItemCalls
    <2>1. HasForm(c)
        BY DEF ItemInv
    <2>2. CASE c.op = "create"
        BY <2>1, <2>2 DEF HasForm
    <2>3. CASE c.op = "update"
        <3>1. PICK i \in Ids \cup {0} : c.ids = {i} /\ Open("edit", i) \in forms
            BY <2>1, <2>3 DEF HasForm
        <3>2. (CHOOSE j \in c.ids : TRUE) = i
            BY <3>1
        <3> QED
            BY <2>3, <3>1, <3>2
    <2> QED
        BY <2>2, <2>3
<1> QED
    BY <1>1, <1>2, <1>3, PTL DEF Spec

=============================================================================
