----------------------- MODULE ConversationPanelProofs -----------------------
(***************************************************************************)
(* What the messages page keeps to, for any number of conversations,       *)
(* clients and acts: what is shown, sent and linked belongs to the         *)
(* conversation it was meant for.                                          *)
(***************************************************************************)
EXTENDS ConversationPanel, TLAPS

-----------------------------------------------------------------------------
(* The bag of requests under way *)

\* Settling leaves no request behind that was not there.
LEMMA BagLess ==
    ASSUME NEW B, NEW C
    PROVE  DOMAIN (B (-) C) \subseteq DOMAIN B
BY DEF (-)

\* Requests that are sent are added, and nothing else is.
LEMMA BagMore ==
    ASSUME NEW B, NEW S
    PROVE  DOMAIN (B (+) SetToBag(S)) = DOMAIN B \cup S
BY DEF (+), SetToBag

\* The bag the page starts with.
LEMMA BagOfSet ==
    ASSUME NEW S
    PROVE  IsABag(SetToBag(S)) /\ DOMAIN SetToBag(S) = S
BY DEF IsABag, SetToBag

-----------------------------------------------------------------------------
(* The invariant *)

\* The active conversation is listed, shown and without a badge.
ListInv ==
    /\ ref # None => ref = shown /\ ref \in listed /\ ref \notin badged
    /\ shown # None /\ viewers # None => viewers = shown

\* A request has the fields that Job gives it.
Shaped(j) == DOMAIN j = {"op", "to", "of", "done", "ans"}

\* What a request carries belongs where it goes; made is madeFor.
Good(j, made) ==
    /\ Shaped(j)
    /\ j.op \in {"file", "create client"} => j.to = j.of
    /\ j.op = "create client" /\ j.done => j.ans \in DOMAIN made /\ made[j.ans] = j.to
    /\ j.op = "link new" => j.of \in DOMAIN made /\ made[j.of] = j.to

AllGood(bag, made) == \A j \in DOMAIN bag : Good(j, made)

\* The file and the form are those of the conversation on screen.
FileFits == file # None => shown \in {None, file}
FormFits == form \in {None, shown}

PanelInv == ListInv /\ AllGood(work, madeFor) /\ FileFits /\ FormFits

-----------------------------------------------------------------------------
(* The list *)

LEMMA RelistKeeps ==
    ASSUME ListInv, NEW ids, NEW new, Relist(ids, new), UNCHANGED <<badged, viewers>>
    PROVE  ListInv' /\ shown' \in {shown, None}
BY DEF ListInv, Relist, SetActive

LEMMA ListEventsKeep ==
    ASSUME ListInv, ListEvents
    PROVE  ListInv' /\ shown' \in {shown, None}
<1>1. ASSUME NEW c \in Convs, NEW received, OnNewMessage(c, received)
      PROVE  ListInv' /\ shown' \in {shown, None}
    <2>1. CASE c \in listed
        BY <1>1, <2>1, RelistKeeps DEF OnNewMessage
    <2>2. CASE c \notin listed
        BY <1>1, <2>2 DEF OnNewMessage, ListInv
    <2> QED
        BY <2>1, <2>2
<1>2. ASSUME NEW c \in Convs, OnConversationNotification(c)
      PROVE  ListInv' /\ shown' \in {shown, None}
    BY <1>2 DEF OnConversationNotification, Notified, ListInv
<1>3. ASSUME NEW c \in Convs, OnPresenceUpdate(c)
      PROVE  ListInv' /\ shown' \in {shown, None}
    BY <1>3, ListAssumption DEF OnPresenceUpdate, ListInv
<1>4. CASE OnConversationUpdated
    BY <1>4 DEF OnConversationUpdated, list, ListInv
<1> QED
    BY <1>1, <1>2, <1>3, <1>4 DEF ListEvents

LEMMA ListArrivalsKeep ==
    ASSUME ListInv, ListArrivals
    PROVE  ListInv' /\ shown' \in {shown, None}
<1> SUFFICES ASSUME NEW req,
                 \/ ListArrives(req) \/ UpdateArrives(req)
                 \/ AssignmentOrDeletionArrives(req) \/ RequestFails(req)
             PROVE  ListInv' /\ shown' \in {shown, None}
    BY DEF ListArrivals
<1>1. CASE ListArrives(req) \/ UpdateArrives(req)
    BY <1>1, RelistKeeps DEF ListArrives, UpdateArrives
<1>2. CASE AssignmentOrDeletionArrives(req) \/ RequestFails(req)
    BY <1>2 DEF AssignmentOrDeletionArrives, RequestFails, list, ListInv
<1> QED
    BY <1>1, <1>2

-----------------------------------------------------------------------------
(* Requests *)

\* Requests that carry nothing of their own.
LEMMA JobIsGood ==
    ASSUME NEW op, op \notin {"file", "create client", "link new"},
           NEW to, NEW of, NEW made
    PROVE  Good(Job(op, to, of), made)
<1> DEFINE j == Job(op, to, of)
<1>1. Shaped(j) /\ j.op = op
    BY DEF Job, Shaped
<1> HIDE DEF j
<1>2. Good(j, made)
    BY <1>1 DEF Good
<1> QED
    BY <1>2 DEF j

\* Files and forms sent to where they come from.
LEMMA OwnJobIsGood ==
    ASSUME NEW op \in {"file", "create client"}, NEW c, NEW made
    PROVE  Good(Job(op, c, c), made)
<1> DEFINE j == Job(op, c, c)
<1>1. Shaped(j) /\ j.op = op /\ j.to = c /\ j.of = c /\ ~j.done
    BY DEF Job, Shaped
<1> HIDE DEF j
<1>2. Good(j, made)
    BY <1>1 DEF Good
<1> QED
    BY <1>2 DEF j

LEMMA EndedFits ==
    ASSUME NEW j, NEW made, AllGood(work, made)
    PROVE  AllGood(Ended(j), made)
BY BagLess DEF AllGood, Ended

LEMMA MoreFits ==
    ASSUME NEW bag, NEW made, AllGood(bag, made), NEW js, \A j \in js : Good(j, made)
    PROVE  AllGood(bag (+) SetToBag(js), made)
BY BagMore DEF AllGood

LEMMA SettlesFits ==
    ASSUME NEW j \in InFlight, NEW ans, NEW made, AllGood(work, made), Settles(j, ans),
           j.op # "create client"
    PROVE  AllGood(work', made)
<1> DEFINE d == [j EXCEPT !.done = TRUE, !.ans = ans]
<1>1. Good(j, made)
    BY DEF AllGood, InFlight
<1>2. Shaped(d) /\ d.op = j.op /\ d.to = j.to /\ d.of = j.of
    BY <1>1 DEF Good, Shaped
<1>3. work' = Ended(j) (+) SetToBag({d})
    BY DEF Settles
<1> HIDE DEF d
<1>4. Good(d, made)
    BY <1>1, <1>2 DEF Good
<1> QED
    BY <1>3, <1>4, EndedFits, MoreFits

\* The effects of another conversation only ask.
LEMMA FollowsFits ==
    ASSUME NEW c, NEW choice, NEW made, AllGood(work, made), Follows(c, choice)
    PROVE  AllGood(work', made) /\ form' = None
<1>1. CASE c = None
    BY <1>1 DEF Follows, AllGood
<1>2. CASE c # None
    <2> DEFINE js == {Job("detect", c, None)} \cup
                     (IF inbound THEN {Job("ai load", c, None)} ELSE {})
    <2>1. \A j \in js : Good(j, made)
        BY JobIsGood
    <2>2. work' = work (+) SetToBag(js)
        BY <1>2 DEF Follows, Begun
    <2> HIDE DEF js
    <2> QED
        BY <2>1, <2>2, MoreFits DEF Follows
<1> QED
    BY <1>1, <1>2

-----------------------------------------------------------------------------
LEMMA PanelInit == Init => PanelInv
<1> SUFFICES ASSUME Init PROVE PanelInv
    OBVIOUS
<1>1. AllGood(work, madeFor)
    <2> DEFINE js == IF shown = None THEN {}
                     ELSE {Job("detect", shown, None), Job("ai load", shown, None)}
    <2>1. \A j \in js : Good(j, madeFor)
        BY JobIsGood
    <2>2. work = SetToBag(js)
        BY DEF Init
    <2> HIDE DEF js
    <2> QED
        BY <2>1, <2>2, BagOfSet DEF AllGood
<1> QED
    BY <1>1 DEF Init, ListInit, PanelInv, ListInv, FileFits, FormFits

\* Steps that leave what is shown, chosen and typed alone.
LEMMA PageKept ==
    ASSUME PanelInv, UNCHANGED <<list, file, form, madeFor>>, AllGood(work', madeFor)
    PROVE  PanelInv'
BY DEF PanelInv, ListInv, AllGood, FileFits, FormFits, list

\* A step of the list, with its effects.
LEMMA ThenKeeps ==
    ASSUME PanelInv, Then(ListArrivals) \/ Then(ListEvents), UNCHANGED backend
    PROVE  PanelInv'
<1>1. ListInv' /\ shown' \in {shown, None}
    BY ListArrivalsKeep, ListEventsKeep DEF Then, PanelInv
<1>2. CASE shown' # shown
    <2>1. Follows(shown', suggested) /\ UNCHANGED <<file, madeFor>>
        BY <1>2 DEF Then, backend
    <2>2. AllGood(work', madeFor) /\ form' = None
        BY <2>1, FollowsFits DEF PanelInv
    <2> QED
        BY <1>1, <1>2, <2>1, <2>2 DEF PanelInv, FileFits, FormFits, AllGood
<1>3. CASE shown' = shown
    BY <1>1, <1>3 DEF Then, backend, panel, composer, contact, PanelInv, FileFits, FormFits, AllGood
<1> QED
    BY <1>2, <1>3

LEMMA ServerKeeps ==
    ASSUME PanelInv, Server
    PROVE  PanelInv'
<1>1. CASE ListServer /\ UNCHANGED <<backend, panel>>
    <2>1. UNCHANGED list
        BY <1>1 DEF ListServer, AnswersList, StoresUpdate, StoresDeletion
    <2> QED
        BY <1>1, <2>1, PageKept DEF backend, panel, composer, contact, PanelInv, AllGood
<1>2. ASSUME NEW j \in InFlight, AnswersDetect(j) \/ StoresLink(j), UNCHANGED <<remote, list, asked>>
      PROVE  PanelInv'
    <2>1. \E ans : Settles(j, ans)
        BY <1>2 DEF AnswersDetect, StoresLink
    <2>2. j.op # "create client"
        BY <1>2 DEF AnswersDetect, StoresLink
    <2>3. AllGood(work', madeFor)
        BY <2>1, <2>2, SettlesFits DEF PanelInv
    <2> QED
        BY <1>2, <2>3, PageKept DEF AnswersDetect, StoresLink, backend, composer, contact
<1>3. ASSUME NEW j \in InFlight, StoresClient(j), UNCHANGED <<remote, list, asked>>
      PROVE  PanelInv'
    <2>1. PICK k \in Clients \ (DOMAIN madeFor \cup {Known}) :
              madeFor' = Recorded(k, j.of) /\ Settles(j, k)
        BY <1>3 DEF StoresClient
    <2> DEFINE made == Recorded(k, j.of)
               d    == [j EXCEPT !.done = TRUE, !.ans = k]
    <2>2. /\ DOMAIN made = DOMAIN madeFor \cup {k} /\ made[k] = j.of
          /\ \A x \in DOMAIN madeFor : made[x] = madeFor[x]
        BY DEF Recorded
    <2>3. Good(j, madeFor) /\ j.op = "create client"
        BY <1>3 DEF PanelInv, AllGood, InFlight, StoresClient
    <2>4. Shaped(d) /\ d.op = j.op /\ d.to = j.to /\ d.of = j.of /\ d.ans = k
        BY <2>3 DEF Good, Shaped
    <2>5. work' = Ended(j) (+) SetToBag({d})
        BY <2>1 DEF Settles
    <2> HIDE DEF made, d
    <2>6. Good(d, made)
        BY <2>2, <2>3, <2>4 DEF Good
    <2>7. AllGood(work, made)
        BY <2>2 DEF PanelInv, AllGood, Good
    <2>8. AllGood(work', made)
        BY <2>5, <2>6, <2>7, EndedFits, MoreFits
    <2>9. madeFor' = made
        BY <2>1 DEF made
    <2> QED
        BY <1>3, <2>8, <2>9 DEF StoresClient, composer, contact, list, PanelInv, ListInv,
                                FileFits, FormFits, AllGood
<1> QED
    BY <1>1, <1>2, <1>3 DEF Server

-----------------------------------------------------------------------------
(* The page's own steps *)

\* Requests that carry nothing of their own are sent, if any.
LEMMA AsksKeeps ==
    ASSUME PanelInv, UNCHANGED <<list, madeFor>>, file' \in {None, file},
           form' \in {None, form, shown},
           NEW j, work' = work (+) SetToBag({j}), Good(j, madeFor)
    PROVE  PanelInv'
<1> DEFINE js == {j}
<1>2. work' = work (+) SetToBag(js) /\ \A k \in js : Good(k, madeFor)
    OBVIOUS
<1> HIDE DEF js
<1>1. AllGood(work', madeFor)
    BY <1>2, MoreFits DEF PanelInv
<1> QED
    BY <1>1 DEF PanelInv, ListInv, AllGood, FileFits, FormFits, list

\* A request is over, and another one may follow it.
LEMMA EndsKeeps ==
    ASSUME PanelInv, UNCHANGED <<list, madeFor>>, file' \in {None, file},
           form' \in {None, form}, NEW j,
           \/ work' = Ended(j)
           \/ \E js : work' = Ended(j) (+) SetToBag(js) /\ \A k \in js : Good(k, madeFor)
    PROVE  PanelInv'
<1>1. AllGood(Ended(j), madeFor)
    BY EndedFits DEF PanelInv
<1>2. AllGood(work', madeFor)
    <2>1. CASE work' = Ended(j)
        BY <1>1, <2>1
    <2>2. ASSUME NEW js, work' = Ended(j) (+) SetToBag(js), \A k \in js : Good(k, madeFor)
          PROVE  AllGood(work', madeFor)
        BY <1>1, <2>2, MoreFits
    <2> QED
        BY <2>1, <2>2
<1> QED
    BY <1>2 DEF PanelInv, ListInv, AllGood, FileFits, FormFits, list

LEMMA ArrivesKeeps ==
    ASSUME PanelInv, Arrives
    PROVE  PanelInv'
<1>1. CASE Then(ListArrivals) /\ UNCHANGED backend
    BY <1>1, ThenKeeps
<1>2. ASSUME NEW j \in InFlight,
             \/ FileSent(j) \/ UploadFails(j) \/ AudioSettles(j)
             \/ MicGranted(j) \/ MicDenied(j)
             \/ Suggests(j) \/ DetectFails(j) \/ HistoryArrives(j)
             \/ LinkFails(j) \/ UnlinkSettles(j) \/ RoutingSettles(j),
             UNCHANGED <<remote, list, asked, backend>>
      PROVE  PanelInv'
    <2>1. work' = Ended(j) /\ file' \in {None, file} /\ form' = form
        BY <1>2 DEF FileSent, UploadFails, AudioSettles, MicGranted, MicDenied, Suggests,
                    DetectFails,
                    HistoryArrives, LinkFails, UnlinkSettles, RoutingSettles,
                    composer, contact
    <2> QED
        BY <1>2, <2>1, EndsKeeps DEF backend
<1>3. ASSUME NEW j \in InFlight, Detected(j), UNCHANGED <<remote, list, asked, backend>>
      PROVE  PanelInv'
    <2> DEFINE js == IF j.ans = None THEN {} ELSE {Job("history", j.to, j.ans)}
    <2>1. \A k \in js : Good(k, madeFor)
        BY JobIsGood
    <2>2. work' = Ended(j) (+) SetToBag(js)
        BY <1>3 DEF Detected
    <2> HIDE DEF js
    <2> QED
        BY <1>3, <2>1, <2>2, EndsKeeps DEF Detected, composer, backend
<1>4. ASSUME NEW j \in InFlight, ClientCreated(j), UNCHANGED <<remote, list, asked, backend>>
      PROVE  PanelInv'
    <2> DEFINE d == Job("link new", j.to, j.ans)
    <2>1. j.ans \in DOMAIN madeFor /\ madeFor[j.ans] = j.to
        BY <1>4 DEF ClientCreated, PanelInv, AllGood, InFlight, Good
    <2>2. Shaped(d) /\ d.op = "link new" /\ d.to = j.to /\ d.of = j.ans
        BY DEF Job, Shaped
    <2> HIDE DEF d
    <2>3. Good(d, madeFor)
        BY <2>1, <2>2 DEF Good
    <2> DEFINE js == {d}
    <2>4. work' = Ended(j) (+) SetToBag(js) /\ \A k \in js : Good(k, madeFor)
        BY <1>4, <2>3 DEF ClientCreated, d
    <2> HIDE DEF js
    <2> QED
        BY <1>4, <2>4, EndsKeeps DEF ClientCreated, composer, contact, backend
<1>5. ASSUME NEW j \in InFlight, Linked(j), UNCHANGED <<remote, list, asked, backend>>
      PROVE  PanelInv'
    <2>1. CASE j.op = "link"
        <3> DEFINE js == {Job("link history", j.to, j.of)}
        <3>1. \A k \in js : Good(k, madeFor)
            BY JobIsGood
        <3>2. work' = Ended(j) (+) SetToBag(js)
            BY <1>5, <2>1 DEF Linked
        <3> HIDE DEF js
        <3> QED
            BY <1>5, <2>1, <3>1, <3>2, EndsKeeps DEF Linked, composer, backend
    <2>2. CASE j.op # "link"
        BY <1>5, <2>2, EndsKeeps DEF Linked, composer, backend
    <2> QED
        BY <2>1, <2>2
<1>6. ASSUME NEW j \in InFlight, Submitted(j) \/ SubmitFails(j), UNCHANGED backend
      PROVE  PanelInv'
    BY <1>6, EndsKeeps DEF Submitted, SubmitFails, composer, contact, backend
<1> QED
    BY <1>1, <1>2, <1>3, <1>4, <1>5, <1>6 DEF Arrives

LEMMA HappensKeeps ==
    ASSUME PanelInv, Happens
    PROVE  PanelInv'
<1>1. CASE Then(ListEvents) /\ UNCHANGED backend
    BY <1>1, ThenKeeps
<1>2. CASE Others /\ UNCHANGED <<backend, panel>>
    BY <1>2, PageKept DEF Others, CustomerWrites, ColleagueDeletes, backend, panel,
                          composer, contact, PanelInv
<1>3. ASSUME NEW new, NewestChanges(new), UNCHANGED <<remote, list, asked, backend>>
      PROVE  PanelInv'
    <2> DEFINE d == Job("ai load", shown, None)
    <2>1. Good(d, madeFor)
        BY JobIsGood
    <2>2. CASE new
        <3>1. work' = work (+) SetToBag({d})
            BY <1>3, <2>2 DEF NewestChanges, Begun
        <3> HIDE DEF d
        <3> QED
            BY <1>3, <2>1, <3>1, AsksKeeps DEF NewestChanges, composer, contact, backend
    <2>3. CASE ~new
        BY <1>3, <2>3, PageKept DEF NewestChanges, composer, contact, backend, PanelInv
    <2> QED
        BY <2>2, <2>3
<1> QED
    BY <1>1, <1>2, <1>3 DEF Happens

LEMMA SelectKeeps ==
    ASSUME PanelInv, NEW c, SelectConversation(c), UNCHANGED backend
    PROVE  PanelInv'
<1>1. ListInv' /\ shown' = c /\ file' = None
    BY DEF SelectConversation, Select, Opens, SetActive, ListInv
<1>2. CASE c # shown
    <2>1. AllGood(work', madeFor) /\ form' = None
        BY <1>2, FollowsFits DEF SelectConversation, PanelInv
    <2> QED
        BY <1>1, <2>1 DEF PanelInv, FileFits, FormFits, AllGood, backend
<1>3. CASE c = shown
    BY <1>1, <1>3 DEF SelectConversation, PanelInv, FileFits, FormFits, AllGood, backend,
                      contact
<1> QED
    BY <1>2, <1>3

LEMMA UserKeeps ==
    ASSUME PanelInv, User
    PROVE  PanelInv'
<1>1. ASSUME NEW c \in Convs, SelectConversation(c), UNCHANGED backend
      PROVE  PanelInv'
    BY <1>1, SelectKeeps
<1>2. ASSUME NEW op, Change(op), UNCHANGED <<panel, backend>>
      PROVE  PanelInv'
    BY <1>2, PageKept DEF Change, panel, composer, contact, backend, PanelInv
<1>3. ASSUME \/ RemoveFile \/ CancelRecording \/ CloseForm \/ TogglePicker \/ OpenForm
             \/ \E d \in Dialogs : CloseDialog(d),
             UNCHANGED <<remote, list, asked, backend>>
      PROVE  PanelInv'
    <2>1. UNCHANGED work /\ file' \in {None, file} /\ form' \in {None, form, shown}
        BY <1>3 DEF RemoveFile, CancelRecording, CloseForm, TogglePicker, OpenForm,
                    CloseDialog, composer, contact
    <2> QED
        BY <1>3, <2>1 DEF PanelInv, ListInv, AllGood, FileFits, FormFits, list, backend
<1>4. ASSUME ChooseFile, UNCHANGED <<remote, list, asked, backend>>
      PROVE  PanelInv'
    BY <1>4 DEF ChooseFile, PanelInv, ListInv, AllGood, FileFits, FormFits, list, backend,
                contact
<1>5. ASSUME SendFile, UNCHANGED <<remote, list, asked, backend>>
      PROVE  PanelInv'
    <2> DEFINE d == Job("file", shown, file)
    <2>1. Good(d, madeFor)
        BY <1>5, OwnJobIsGood DEF SendFile, PanelInv, FileFits
    <2>2. work' = work (+) SetToBag({d})
        BY <1>5 DEF SendFile, Begun
    <2> HIDE DEF d
    <2> QED
        BY <1>5, <2>1, <2>2, AsksKeeps DEF SendFile, composer, contact, backend
<1>6. ASSUME StopRecording, UNCHANGED <<remote, list, asked, backend>>
      PROVE  PanelInv'
    <2> DEFINE d == Job("audio", recorder, recorder)
    <2>1. Good(d, madeFor)
        BY JobIsGood
    <2>2. work' = work (+) SetToBag({d})
        BY <1>6 DEF StopRecording, Begun
    <2> HIDE DEF d
    <2> QED
        BY <1>6, <2>1, <2>2, AsksKeeps DEF StopRecording, contact, backend
<1>7. ASSUME StartRecording \/ Generate \/ LinkExisting \/ Unlink,
             UNCHANGED <<remote, list, asked, backend>>
      PROVE  PanelInv'
    <2>0. PICK op \in {"mic", "ai generate", "link", "unlink"} :
              \E of : work' = work (+) SetToBag({Job(op, shown, of)})
        BY <1>7 DEF StartRecording, Generate, LinkExisting, Unlink, Begun
    <2>1. PICK of : work' = work (+) SetToBag({Job(op, shown, of)})
        BY <2>0
    <2> DEFINE d == Job(op, shown, of)
    <2>2. Good(d, madeFor)
        BY JobIsGood
    <2>3. work' = work (+) SetToBag({d})
        BY <2>1
    <2> HIDE DEF d
    <2> QED
        BY <1>7, <2>2, <2>3, AsksKeeps DEF StartRecording, Generate, LinkExisting, Unlink,
                                           composer, contact, backend
<1>8. ASSUME CreateClient, UNCHANGED <<remote, list, asked, backend>>
      PROVE  PanelInv'
    <2> DEFINE d == Job("create client", shown, form)
    <2>1. Good(d, madeFor)
        BY <1>8, OwnJobIsGood DEF CreateClient, PanelInv, FormFits
    <2>2. work' = work (+) SetToBag({d})
        BY <1>8 DEF CreateClient, Begun
    <2> HIDE DEF d
    <2> QED
        BY <1>8, <2>1, <2>2, AsksKeeps DEF CreateClient, composer, contact, backend
<1>9. ASSUME NEW d, OpenDialog(d) \/ Submit(d), UNCHANGED <<remote, list, asked, backend>>
      PROVE  PanelInv'
    <2>1. CASE UNCHANGED work
        BY <1>9, <2>1, PageKept DEF OpenDialog, Submit, composer, contact, backend, PanelInv
    <2>2. CASE \E op \in {"routing", "submit"} : work' = work (+) SetToBag({Job(op, shown, d)})
        <3>1. PICK op \in {"routing", "submit"} : work' = work (+) SetToBag({Job(op, shown, d)})
            BY <2>2
        <3> DEFINE q == Job(op, shown, d)
        <3>2. Good(q, madeFor)
            BY JobIsGood
        <3>3. work' = work (+) SetToBag({q})
            BY <3>1
        <3> HIDE DEF q
        <3> QED
            BY <1>9, <3>2, <3>3, AsksKeeps DEF OpenDialog, Submit, composer, contact, backend
    <2> QED
        BY <1>9, <2>1, <2>2 DEF OpenDialog, Submit, Begun
<1>10. CASE dialogs = {} /\ OnPage /\ UNCHANGED backend
    BY <1>1, <1>2, <1>3, <1>4, <1>5, <1>6, <1>7, <1>8, <1>9, <1>10
    DEF OnPage, InHeader, InDetails, InList, InHistory, InComposer, InContact, InThread, InReplies
<1>11. CASE InDialog /\ UNCHANGED <<remote, list, asked, backend>>
    BY <1>3, <1>9, <1>11 DEF InDialog, CardDialog, TaskDialog, Dialogs
<1> QED
    BY <1>10, <1>11 DEF User

LEMMA PanelNext ==
    ASSUME PanelInv, [Next]_vars
    PROVE  PanelInv'
<1>1. CASE Next
    BY <1>1, ServerKeeps, ArrivesKeeps, HappensKeeps, UserKeeps DEF Next
<1>2. CASE UNCHANGED vars
    BY <1>2 DEF vars, list, backend, panel, composer, contact, PanelInv, ListInv, AllGood,
                FileFits, FormFits
<1> QED
    BY <1>1, <1>2

LEMMA PanelHolds == Spec => []PanelInv
<1>1. Init => PanelInv
    BY PanelInit
<1>2. PanelInv /\ [Next]_vars => PanelInv'
    BY PanelNext
<1> QED
    BY <1>1, <1>2, PTL DEF Spec

-----------------------------------------------------------------------------
(* Types *)

\* A request of the list brings conversations, those unread among them.
ReqTyped(r) ==
    /\ DOMAIN r = {"op", "conv", "done", "ids", "new"}
    /\ r.op = "list" /\ r.done => r.ids \subseteq Convs /\ r.new \subseteq r.ids

AllReqs(bag) == \A r \in DOMAIN bag : ReqTyped(r)

\* A request of the page is for a conversation and carries what fits it.
JobTyped(j) ==
    /\ Shaped(j)
    /\ j.op \in {"detect", "mic", "ai load", "ai generate", "create client", "link",
                "link new", "unlink"} => j.to \in Convs
    /\ j.op = "create client" => j.of \in Convs
    /\ j.op \in {"history", "link history", "link", "link new"} => j.of \in Clients
    /\ j.op = "unlink" => j.of = None
    /\ j.op = "routing" => j.of \in Dialogs
    /\ j.op = "detect" /\ j.done => j.ans \in Clients \cup {None}
    /\ j.op = "create client" /\ j.done => j.ans \in Clients

AllJobs(bag) == \A j \in DOMAIN bag : JobTyped(j)

ListTyped == ListTypes /\ AllReqs(asked)

BackendTyped == /\ linked \in [Convs -> Clients \cup {None}]
                /\ DOMAIN madeFor \subseteq Clients /\ Range(madeFor) \subseteq Convs
MediaTyped   == /\ {file, recorder, suggested} \subseteq Convs \cup {None}
                /\ recording \in BOOLEAN /\ inbound \in BOOLEAN
ContactTyped == /\ {client, history} \subseteq Clients \cup {None} /\ picker \in BOOLEAN
                /\ form \in Convs \cup {None}
Flags        == Dialogs \cup {"detect", "history", "link", "form", "routing",
                             "ai load", "ai generate"}
DialogTyped  == dialogs \subseteq Dialogs /\ busy \subseteq Flags

PageTyped == MediaTyped /\ ContactTyped /\ DialogTyped /\ AllJobs(work)

TypeInv == ListTyped /\ BackendTyped /\ PageTyped /\ acts \in 0..MaxActs

LEMMA TypesFollow == TypeInv => TypeOK
BY DEF TypeInv, ListTyped, BackendTyped, PageTyped, MediaTyped, ContactTyped, DialogTyped, Flags,
       TypeOK

\* A request as the list sends it.
LEMMA RequestIsTyped ==
    ASSUME NEW op, NEW c
    PROVE  ReqTyped(Request(op, c))
<1>1. PICK r : r = Request(op, c)
    OBVIOUS
<1>2. DOMAIN r = {"op", "conv", "done", "ids", "new"} /\ ~r.done
    BY <1>1 DEF Request
<1> QED
    BY <1>1, <1>2 DEF ReqTyped

LEMMA ReqsMore ==
    ASSUME NEW bag, AllReqs(bag), NEW r, ReqTyped(r)
    PROVE  AllReqs(bag (+) SetToBag({r}))
<1>1. DOMAIN (bag (+) SetToBag({r})) = DOMAIN bag \cup {r}
    BY BagMore
<1> QED
    BY <1>1 DEF AllReqs

LEMMA ReqsLess ==
    ASSUME NEW r, AllReqs(asked)
    PROVE  AllReqs(Without(r))
BY BagLess DEF AllReqs, Without

LEMMA ListServerTyped ==
    ASSUME ListTyped, ListServer
    PROVE  ListTyped'
<1> SUFFICES ASSUME NEW req \in Unsettled,
                    AnswersList(req) \/ StoresUpdate(req) \/ StoresDeletion(req)
             PROVE  ListTyped'
    BY DEF ListServer
<1>1. ReqTyped(req) /\ ListTypes /\ AllReqs(asked)
    BY DEF ListTyped, AllReqs, Unsettled
<1>2. ASSUME NEW ids, NEW new, Answered(req, ids, new),
             req.op = "list" => ids \subseteq Convs /\ new \subseteq ids
      PROVE  AllReqs(asked')
    <2>1. PICK d : d = [req EXCEPT !.done = TRUE, !.ids = ids, !.new = new]
        OBVIOUS
    <2>2. /\ DOMAIN d = {"op", "conv", "done", "ids", "new"}
          /\ d.op = req.op /\ d.ids = ids /\ d.new = new
        BY <1>1, <2>1 DEF ReqTyped
    <2>3. ReqTyped(d)
        BY <1>2, <2>2 DEF ReqTyped
    <2>4. asked' = Without(req) (+) SetToBag({d})
        BY <1>2, <2>1 DEF Answered
    <2> QED
        BY <1>1, <2>3, <2>4, ReqsLess, ReqsMore
<1>3. CASE AnswersList(req)
    <2>1. AllReqs(asked')
        BY <1>1, <1>2, <1>3 DEF AnswersList, ListTypes
    <2> QED
        BY <1>1, <1>3, <2>1 DEF AnswersList, remote, list, ListTyped, ListTypes
<1>4. CASE StoresUpdate(req)
    <2>1. AllReqs(asked')
        BY <1>2, <1>4 DEF StoresUpdate
    <2>2. waiting' \subseteq stored /\ UNCHANGED <<stored, list>>
        BY <1>1, <1>4 DEF StoresUpdate, ListTypes
    <2> QED
        BY <1>1, <2>1, <2>2 DEF list, ListTyped, ListTypes
<1>5. CASE StoresDeletion(req)
    <2>1. AllReqs(asked')
        BY <1>2, <1>5 DEF StoresDeletion
    <2> QED
        BY <1>1, <1>5, <2>1 DEF StoresDeletion, list, ListTyped, ListTypes
<1> QED
    BY <1>3, <1>4, <1>5

LEMMA RelistTyped ==
    ASSUME ListTypes, NEW ids \in SUBSET Convs, NEW new \in SUBSET ids, Relist(ids, new),
           UNCHANGED <<remote, badged, viewers>>
    PROVE  ListTypes'
BY DEF ListTypes, Relist, SetActive, remote

LEMMA ListEventsTyped ==
    ASSUME ListTyped, ListEvents
    PROVE  ListTyped'
<1>1. ListTypes /\ AllReqs(asked)
    BY DEF ListTyped
<1>2. AllReqs(Asking({FetchList}))
    BY <1>1, RequestIsTyped, ReqsMore DEF FetchList, Asking
<1>3. ASSUME NEW c \in Convs, NEW received, OnNewMessage(c, received)
      PROVE  ListTyped'
    <2>1. CASE c \in listed
        <3>1. PICK new : new = IF received THEN unread \cup {c} ELSE unread \ {c}
            OBVIOUS
        <3>2. listed \in SUBSET Convs /\ new \in SUBSET listed
            BY <1>1, <2>1, <3>1 DEF ListTypes
        <3>3. Relist(listed, new) /\ UNCHANGED <<asked, remote, badged, viewers>>
            BY <1>3, <2>1, <3>1 DEF OnNewMessage
        <3>4. ListTypes'
            BY <1>1, <3>2, <3>3, RelistTyped
        <3> QED
            BY <1>1, <3>3, <3>4 DEF ListTyped, AllReqs
    <2>2. CASE c \notin listed
        BY <1>1, <1>2, <1>3, <2>2 DEF OnNewMessage, remote, ListTyped, ListTypes
    <2> QED
        BY <2>1, <2>2
<1>4. ASSUME NEW c \in Convs, OnConversationNotification(c) \/ OnPresenceUpdate(c)
      PROVE  ListTyped'
    BY <1>1, <1>4 DEF OnConversationNotification, Notified, OnPresenceUpdate, remote, ListTyped,
                      ListTypes, AllReqs
<1>5. CASE OnConversationUpdated
    BY <1>1, <1>2, <1>5 DEF OnConversationUpdated, remote, list, ListTyped, ListTypes
<1> QED
    BY <1>3, <1>4, <1>5 DEF ListEvents

LEMMA ListArrivalsTyped ==
    ASSUME ListTyped, ListArrivals
    PROVE  ListTyped'
<1> SUFFICES ASSUME NEW req \in Unsettled,
                 \/ ListArrives(req) \/ UpdateArrives(req)
                 \/ AssignmentOrDeletionArrives(req) \/ RequestFails(req)
             PROVE  ListTyped'
    BY DEF ListArrivals
<1>1. ReqTyped(req) /\ ListTypes /\ AllReqs(asked) /\ AllReqs(Without(req))
    BY ReqsLess DEF ListTyped, AllReqs, Unsettled
<1>2. CASE ListArrives(req)
    <2>1. req.ids \in SUBSET Convs /\ req.new \in SUBSET req.ids
        BY <1>1, <1>2 DEF ListArrives, ReqTyped
    <2>2. ListTypes'
        BY <1>1, <1>2, <2>1, RelistTyped DEF ListArrives
    <2> QED
        BY <1>1, <1>2, <2>2 DEF ListArrives, ListTyped
<1>3. CASE UpdateArrives(req)
    <2>1. PICK new : new = (unread \ {req.conv}) \cup (req.new \cap listed)
        OBVIOUS
    <2>2. listed \in SUBSET Convs /\ new \in SUBSET listed
        BY <1>1, <2>1 DEF ListTypes
    <2>3. Relist(listed, new) /\ asked' = Without(req) /\ UNCHANGED <<remote, badged, viewers>>
        BY <1>3, <2>1 DEF UpdateArrives
    <2>4. ListTypes'
        BY <1>1, <2>2, <2>3, RelistTyped
    <2> QED
        BY <1>1, <2>3, <2>4 DEF ListTyped
<1>4. CASE AssignmentOrDeletionArrives(req)
    <2>1. AllReqs(asked')
        BY <1>1, <1>4, RequestIsTyped, ReqsMore DEF AssignmentOrDeletionArrives, FetchList
    <2> QED
        BY <1>1, <1>4, <2>1 DEF AssignmentOrDeletionArrives, remote, list, ListTyped, ListTypes
<1>5. CASE RequestFails(req)
    BY <1>1, <1>5 DEF RequestFails, remote, list, ListTyped, ListTypes
<1> QED
    BY <1>2, <1>3, <1>4, <1>5

LEMMA ListActsTyped ==
    ASSUME ListTyped,
           \/ Others
           \/ \E c \in Convs : Select(c)
           \/ \E op : Change(op)
    PROVE  ListTyped'
<1>1. ListTypes /\ AllReqs(asked)
    BY DEF ListTyped
<1>2. ASSUME NEW op, NEW c
      PROVE  AllReqs(Asking({Request(op, c)}))
    BY <1>1, RequestIsTyped, ReqsMore DEF Asking
<1>3. CASE Others
    BY <1>1, <1>3 DEF Others, CustomerWrites, ColleagueDeletes, list, ListTyped, ListTypes, AllReqs
<1>4. ASSUME NEW c \in Convs, Select(c)
      PROVE  ListTyped'
    <2>1. AllReqs(asked')
        BY <1>1, <1>2, <1>4 DEF Select, AllReqs
    <2> QED
        BY <1>1, <1>4, <2>1 DEF Select, Opens, SetActive, remote, ListTyped, ListTypes
<1>5. ASSUME NEW op, Change(op)
      PROVE  ListTyped'
    BY <1>1, <1>2, <1>5 DEF Change, remote, list, ListTyped, ListTypes
<1> QED
    BY <1>3, <1>4, <1>5

LEMMA ListKept ==
    ASSUME ListTyped, UNCHANGED <<remote, list, asked>>
    PROVE  ListTyped'
BY DEF ListTyped, ListTypes, AllReqs, remote, list

\* A request of the page, as it is sent.
LEMMA JobIsTyped ==
    ASSUME NEW op, NEW to, NEW of,
           op \in {"detect", "mic", "ai load", "ai generate", "create client", "link",
                   "link new", "unlink"} => to \in Convs,
           op = "create client" => of \in Convs,
           op \in {"history", "link history", "link", "link new"} => of \in Clients,
           op = "unlink" => of = None,
           op = "routing" => of \in Dialogs
    PROVE  JobTyped(Job(op, to, of))
<1>1. PICK j : j = Job(op, to, of)
    OBVIOUS
<1>2. Shaped(j) /\ j.op = op /\ j.to = to /\ j.of = of /\ ~j.done
    BY <1>1 DEF Job, Shaped
<1> QED
    BY <1>1, <1>2 DEF JobTyped

LEMMA JobsMore ==
    ASSUME NEW bag, AllJobs(bag), NEW js, \A j \in js : JobTyped(j)
    PROVE  AllJobs(bag (+) SetToBag(js))
BY BagMore DEF AllJobs

LEMMA JobsLess ==
    ASSUME AllJobs(work), NEW j
    PROVE  AllJobs(Ended(j))
BY BagLess DEF AllJobs, Ended

LEMMA SettlesTyped ==
    ASSUME AllJobs(work), NEW j \in InFlight, NEW ans, Settles(j, ans),
           j.op = "detect" => ans \in Clients \cup {None},
           j.op = "create client" => ans \in Clients
    PROVE  AllJobs(work')
<1>1. PICK d : d = [j EXCEPT !.done = TRUE, !.ans = ans]
    OBVIOUS
<1>2. JobTyped(j)
    BY DEF AllJobs, InFlight
<1>3. Shaped(d) /\ d.op = j.op /\ d.to = j.to /\ d.of = j.of /\ d.ans = ans
    BY <1>1, <1>2 DEF JobTyped, Shaped
<1>4. JobTyped(d)
    BY <1>2, <1>3 DEF JobTyped
<1>5. work' = Ended(j) (+) SetToBag({d}) /\ \A k \in {d} : JobTyped(k)
    BY <1>1, <1>4 DEF Settles
<1> QED
    BY <1>5, JobsLess, JobsMore

LEMMA FollowsTyped ==
    ASSUME PageTyped, NEW c \in Convs \cup {None}, NEW choice \in Convs \cup {None},
           Follows(c, choice), file' \in {None, file}
    PROVE  PageTyped'
<1>1. AllJobs(work')
    <2>1. CASE c = None
        BY <2>1 DEF Follows, PageTyped, AllJobs
    <2>2. CASE c # None
        <3> DEFINE js == {Job("detect", c, None)} \cup
                         (IF inbound THEN {Job("ai load", c, None)} ELSE {})
        <3>1. \A j \in js : JobTyped(j)
            BY <2>2, JobIsTyped
        <3>2. work' = work (+) SetToBag(js)
            BY <2>2 DEF Follows, Begun
        <3> HIDE DEF js
        <3> QED
            BY <3>1, <3>2, JobsMore DEF PageTyped
    <2> QED
        BY <2>1, <2>2
<1>2. MediaTyped'
    BY DEF Follows, PageTyped, MediaTyped
<1>3. ContactTyped'
    BY DEF Follows, PageTyped, ContactTyped
<1>4. DialogTyped'
    BY DEF Follows, PageTyped, DialogTyped, Flags
<1> QED
    BY <1>1, <1>2, <1>3, <1>4 DEF PageTyped, AllJobs

\* Steps of the list, with what follows from them.
LEMMA ThenTyped ==
    ASSUME ListTyped, ListTyped', PageTyped, NEW step, Then(step)
    PROVE  PageTyped'
<1>1. CASE shown' # shown
    BY <1>1, FollowsTyped DEF Then, ListTyped, ListTypes, PageTyped, MediaTyped
<1>2. CASE shown' = shown
    BY <1>2 DEF Then, panel, composer, ai, contact, PageTyped, MediaTyped, ContactTyped,
                DialogTyped, AllJobs
<1> QED
    BY <1>1, <1>2

LEMMA TypesInit == Init => TypeInv
<1> SUFFICES ASSUME Init PROVE TypeInv
    OBVIOUS
<1>1. ListTyped
    <2>1. AllReqs(asked)
        <3>1. asked = SetToBag({FetchList}) /\ ReqTyped(FetchList)
            BY RequestIsTyped DEF Init, ListInit, FetchList
        <3> QED
            BY <3>1, BagOfSet DEF AllReqs
    <2> QED
        BY <2>1, ListAssumption DEF Init, ListInit, ListTyped, ListTypes
<1>2. shown \in Convs \cup {None}
    BY <1>1 DEF ListTyped, ListTypes
<1>3. BackendTyped
    <2>1. linked \in [Convs -> Clients \cup {None}]
        BY PanelAssumption DEF Init
    <2>2. DOMAIN madeFor = {}
        <3>1. madeFor = <<>>
            BY DEF Init
        <3> QED
            BY <3>1
    <2>3. Range(madeFor) = {}
        BY <2>2 DEF Range
    <2> QED
        BY <2>1, <2>2, <2>3 DEF BackendTyped
<1>4. AllJobs(work)
    <2> DEFINE js == IF shown = None THEN {}
                     ELSE {Job("detect", shown, None), Job("ai load", shown, None)}
    <2>1. \A j \in js : JobTyped(j)
        BY <1>2, JobIsTyped
    <2>2. work = SetToBag(js)
        BY DEF Init
    <2> HIDE DEF js
    <2> QED
        BY <2>1, <2>2, BagOfSet DEF AllJobs
<1>5. MediaTyped /\ ContactTyped /\ DialogTyped
    <2>1. MediaTyped
        BY DEF Init, MediaTyped
    <2>2. ContactTyped
        BY DEF Init, ContactTyped
    <2>3. DialogTyped
        BY DEF Init, DialogTyped, Flags
    <2> QED
        BY <2>1, <2>2, <2>3
<1>6. acts \in 0..MaxActs
    <2>1. acts = 0 /\ MaxActs \in Nat
        BY PanelAssumption DEF Init
    <2> QED
        BY <2>1
<1> QED
    BY <1>1, <1>3, <1>4, <1>5, <1>6 DEF TypeInv, PageTyped

\* The types of all but the bound.
PageTypes == ListTyped /\ BackendTyped /\ PageTyped

LEMMA ServerTyped ==
    ASSUME PageTypes, Server
    PROVE  PageTypes'
<1>1. CASE ListServer /\ UNCHANGED <<backend, panel>>
    <2>1. ListTyped'
        BY <1>1, ListServerTyped DEF PageTypes
    <2> QED
        BY <1>1, <2>1 DEF PageTypes, backend, panel, composer, ai, contact, BackendTyped, PageTyped,
                          MediaTyped, ContactTyped, DialogTyped, AllJobs
<1>2. ASSUME NEW j \in InFlight, AnswersDetect(j) \/ StoresLink(j) \/ StoresClient(j),
             UNCHANGED <<remote, list, asked>>
      PROVE  PageTypes'
    <2>1. JobTyped(j) /\ BackendTyped /\ AllJobs(work)
        BY DEF PageTypes, PageTyped, AllJobs, InFlight
    <2>2. BackendTyped' /\ AllJobs(work')
        <3>1. CASE AnswersDetect(j)
            <4>1. linked[j.to] \in Clients \cup {None}
                BY <2>1, <3>1 DEF AnswersDetect, JobTyped, BackendTyped
            <4>2. AllJobs(work')
                BY <2>1, <3>1, <4>1, SettlesTyped DEF AnswersDetect
            <4> QED
                BY <2>1, <3>1, <4>2 DEF AnswersDetect, backend, BackendTyped
        <3>2. CASE StoresLink(j)
            <4>1. j.to \in Convs /\ j.of \in Clients \cup {None}
                BY <2>1, <3>2 DEF StoresLink, JobTyped
            <4>2. AllJobs(work')
                BY <2>1, <3>2, SettlesTyped DEF StoresLink
            <4> QED
                BY <2>1, <3>2, <4>1, <4>2 DEF StoresLink, BackendTyped
        <3>3. CASE StoresClient(j)
            <4>1. PICK k \in Clients : madeFor' = Recorded(k, j.of) /\ Settles(j, k)
                BY <3>3 DEF StoresClient
            <4>2. j.of \in Convs
                BY <2>1, <3>3 DEF StoresClient, JobTyped
            <4>3. DOMAIN madeFor' \subseteq Clients /\ Range(madeFor') \subseteq Convs
                BY <2>1, <4>1, <4>2 DEF Recorded, BackendTyped, Range
            <4>4. AllJobs(work')
                BY <2>1, <3>3, <4>1, SettlesTyped DEF StoresClient
            <4> QED
                BY <2>1, <3>3, <4>3, <4>4 DEF StoresClient, BackendTyped
        <3> QED
            BY <1>2, <3>1, <3>2, <3>3
    <2>3. UNCHANGED <<composer, ai, contact, dialogs, busy>>
        BY <1>2 DEF AnswersDetect, StoresLink, StoresClient
    <2>4. PageTyped'
        BY <2>2, <2>3 DEF PageTypes, composer, ai, contact, PageTyped, MediaTyped, ContactTyped,
                          DialogTyped, AllJobs
    <2> QED
        BY <1>2, <2>2, <2>4, ListKept DEF PageTypes
<1> QED
    BY <1>1, <1>2 DEF Server

\* A step of the page alone.
LEMMA PageSteps ==
    ASSUME PageTypes, UNCHANGED <<remote, list, asked, backend>>,
           MediaTyped', ContactTyped', DialogTyped', AllJobs(work')
    PROVE  PageTypes'
BY ListKept DEF PageTypes, PageTyped, backend, BackendTyped, AllJobs

\* A request is over, and others may follow it.
LEMMA EndsTyped ==
    ASSUME AllJobs(work), NEW j,
           \/ work' = Ended(j)
           \/ \E js : work' = Ended(j) (+) SetToBag(js) /\ \A k \in js : JobTyped(k)
    PROVE  AllJobs(work')
<1>1. AllJobs(Ended(j))
    BY JobsLess
<1> QED
    BY <1>1, JobsMore

LEMMA AnswerTyped ==
    ASSUME PageTypes, NEW j \in InFlight,
           \/ FileSent(j) \/ UploadFails(j) \/ AudioSettles(j)
           \/ MicGranted(j) \/ MicDenied(j)
           \/ Suggests(j) \/ Detected(j) \/ DetectFails(j) \/ HistoryArrives(j)
           \/ ClientCreated(j) \/ Linked(j) \/ LinkFails(j) \/ UnlinkSettles(j)
           \/ RoutingSettles(j),
           UNCHANGED <<remote, list, asked, backend>>
    PROVE  PageTypes'
<1>1. JobTyped(j) /\ AllJobs(work) /\ MediaTyped /\ ContactTyped /\ DialogTyped
    BY DEF PageTypes, PageTyped, AllJobs, InFlight
<1>2. CASE \/ FileSent(j) \/ UploadFails(j) \/ AudioSettles(j)
           \/ MicGranted(j) \/ MicDenied(j)
    <2>1. AllJobs(work')
        BY <1>1, <1>2, EndsTyped DEF FileSent, UploadFails, AudioSettles, MicGranted, MicDenied
    <2>2. MediaTyped'
        BY <1>1, <1>2 DEF FileSent, UploadFails, AudioSettles, MicGranted, MicDenied, composer,
                          ai, MediaTyped, JobTyped
    <2>3. ContactTyped' /\ DialogTyped'
        BY <1>1, <1>2 DEF FileSent, UploadFails, AudioSettles, MicGranted, MicDenied, contact,
                          ContactTyped, DialogTyped
    <2> QED
        BY <2>1, <2>2, <2>3, PageSteps
<1>3. CASE Suggests(j)
    <2>1. AllJobs(work')
        BY <1>1, <1>3, EndsTyped DEF Suggests
    <2>2. suggested' \in Convs \cup {None}
        BY <1>1, <1>3 DEF Suggests, JobTyped
    <2>3. MediaTyped' /\ ContactTyped' /\ DialogTyped'
        BY <1>1, <1>3, <2>2 DEF Suggests, composer, contact, MediaTyped, ContactTyped, DialogTyped
    <2> QED
        BY <2>1, <2>3, PageSteps
<1>4. CASE Detected(j)
    <2>1. j.ans \in Clients \cup {None} /\ j.to \in Convs
        BY <1>1, <1>4 DEF Detected, JobTyped
    <2>2. AllJobs(work')
        <3> DEFINE js == IF j.ans = None THEN {} ELSE {Job("history", j.to, j.ans)}
        <3>1. \A k \in js : JobTyped(k)
            BY <2>1, JobIsTyped
        <3>2. work' = Ended(j) (+) SetToBag(js)
            BY <1>4 DEF Detected
        <3> HIDE DEF js
        <3> QED
            BY <1>1, <3>1, <3>2, EndsTyped
    <2>3. MediaTyped' /\ ContactTyped'
        BY <1>1, <1>4, <2>1 DEF Detected, composer, ai, MediaTyped, ContactTyped
    <2>4. DialogTyped'
        BY <1>1, <1>4 DEF Detected, DialogTyped, Flags
    <2> QED
        BY <2>2, <2>3, <2>4, PageSteps
<1>5. CASE DetectFails(j) \/ HistoryArrives(j) \/ UnlinkSettles(j)
    <2>1. AllJobs(work')
        BY <1>1, <1>5, EndsTyped DEF DetectFails, HistoryArrives, UnlinkSettles
    <2>2. MediaTyped' /\ DialogTyped'
        BY <1>1, <1>5 DEF DetectFails, HistoryArrives, UnlinkSettles, composer, ai, MediaTyped,
                          DialogTyped
    <2>3. ContactTyped'
        BY <1>1, <1>5 DEF DetectFails, HistoryArrives, UnlinkSettles, ContactTyped, JobTyped
    <2> QED
        BY <2>1, <2>2, <2>3, PageSteps
<1>6. CASE ClientCreated(j)
    <2>1. j.to \in Convs /\ j.ans \in Clients
        BY <1>1, <1>6 DEF ClientCreated, JobTyped
    <2>2. AllJobs(work')
        <3> DEFINE js == {Job("link new", j.to, j.ans)}
        <3>1. \A k \in js : JobTyped(k)
            BY <2>1, JobIsTyped
        <3>2. work' = Ended(j) (+) SetToBag(js)
            BY <1>6 DEF ClientCreated
        <3> HIDE DEF js
        <3> QED
            BY <1>1, <3>1, <3>2, EndsTyped
    <2>3. MediaTyped' /\ ContactTyped' /\ DialogTyped'
        BY <1>1, <1>6 DEF ClientCreated, composer, ai, contact, MediaTyped, ContactTyped,
                          DialogTyped
    <2> QED
        BY <2>2, <2>3, PageSteps
<1>7. CASE Linked(j)
    <2>1. j.of \in Clients
        BY <1>1, <1>7 DEF Linked, JobTyped
    <2>2. AllJobs(work')
        <3> DEFINE js == {Job("link history", j.to, j.of)}
        <3>1. \A k \in js : JobTyped(k)
            BY <2>1, JobIsTyped
        <3>2. work' = Ended(j) (+) SetToBag(js) \/ work' = Ended(j)
            BY <1>7 DEF Linked
        <3> HIDE DEF js
        <3> QED
            BY <1>1, <3>1, <3>2, EndsTyped
    <2>3. MediaTyped' /\ ContactTyped'
        BY <1>1, <1>7, <2>1 DEF Linked, composer, ai, MediaTyped, ContactTyped
    <2>4. DialogTyped'
        BY <1>1, <1>7 DEF Linked, DialogTyped, Flags
    <2> QED
        BY <2>2, <2>3, <2>4, PageSteps
<1>8. CASE LinkFails(j) \/ RoutingSettles(j)
    <2>1. AllJobs(work')
        BY <1>1, <1>8, EndsTyped DEF LinkFails, RoutingSettles
    <2>2. MediaTyped' /\ ContactTyped'
        BY <1>1, <1>8 DEF LinkFails, RoutingSettles, composer, ai, contact, MediaTyped, ContactTyped
    <2>3. DialogTyped'
        BY <1>1, <1>8 DEF LinkFails, RoutingSettles, DialogTyped, JobTyped
    <2> QED
        BY <2>1, <2>2, <2>3, PageSteps
<1> QED
    BY <1>2, <1>3, <1>4, <1>5, <1>6, <1>7, <1>8

\* Submitted(j) and SubmitFails(j), which may go on to the list.
LEMMA SubmissionTyped ==
    ASSUME PageTypes, NEW j \in InFlight, Submitted(j) \/ SubmitFails(j), UNCHANGED backend
    PROVE  PageTypes'
<1>1. /\ AllReqs(asked) /\ ListTypes /\ BackendTyped
      /\ AllJobs(work) /\ MediaTyped /\ ContactTyped /\ DialogTyped
    BY DEF PageTypes, PageTyped, ListTyped
<1>2. AllJobs(work')
    BY <1>1, EndsTyped DEF Submitted, SubmitFails
<1>3. MediaTyped' /\ ContactTyped' /\ DialogTyped' /\ BackendTyped'
    BY <1>1 DEF Submitted, SubmitFails, composer, ai, contact, backend, MediaTyped, ContactTyped,
                DialogTyped, BackendTyped
<1>4. AllReqs(asked')
    <2>1. AllReqs(Asking({FetchList})) /\ AllReqs(Asking({Request("update", j.to)}))
        BY <1>1, RequestIsTyped, ReqsMore DEF Asking, FetchList
    <2> QED
        BY <1>1, <2>1 DEF Submitted, SubmitFails
<1>5. ListTypes'
    BY <1>1 DEF Submitted, SubmitFails, remote, list, ListTypes
<1> QED
    BY <1>2, <1>3, <1>4, <1>5 DEF PageTypes, PageTyped, ListTyped, AllReqs, AllJobs

LEMMA ArrivesTyped ==
    ASSUME PageTypes, Arrives
    PROVE  PageTypes'
<1>1. CASE Then(ListArrivals) /\ UNCHANGED backend
    <2>1. ListTyped'
        BY <1>1, ListArrivalsTyped DEF Then, PageTypes
    <2>2. PageTyped'
        BY <1>1, <2>1, ThenTyped DEF PageTypes
    <2> QED
        BY <1>1, <2>1, <2>2 DEF PageTypes, backend, BackendTyped
<1> QED
    BY <1>1, AnswerTyped, SubmissionTyped DEF Arrives

LEMMA HappensTyped ==
    ASSUME PageTypes, Happens
    PROVE  PageTypes'
<1>1. CASE Then(ListEvents) /\ UNCHANGED backend
    <2>1. ListTyped'
        BY <1>1, ListEventsTyped DEF Then, PageTypes
    <2>2. PageTyped'
        BY <1>1, <2>1, ThenTyped DEF PageTypes
    <2> QED
        BY <1>1, <2>1, <2>2 DEF PageTypes, backend, BackendTyped
<1>2. CASE Others /\ UNCHANGED <<backend, panel>>
    <2>1. ListTyped'
        BY <1>2, ListActsTyped DEF PageTypes
    <2> QED
        BY <1>2, <2>1 DEF PageTypes, backend, panel, composer, ai, contact, BackendTyped, PageTyped,
                          MediaTyped, ContactTyped, DialogTyped, AllJobs
<1>3. ASSUME NEW new \in BOOLEAN, NewestChanges(new), UNCHANGED <<remote, list, asked, backend>>
      PROVE  PageTypes'
    <2>1. /\ AllJobs(work) /\ MediaTyped /\ ContactTyped /\ DialogTyped
          /\ shown \in Convs
        BY <1>3 DEF PageTypes, PageTyped, ListTyped, ListTypes, NewestChanges
    <2>2. AllJobs(work')
        <3> DEFINE js == {Job("ai load", shown, None)}
        <3>1. \A k \in js : JobTyped(k)
            BY <2>1, JobIsTyped
        <3>2. work' = work (+) SetToBag(js) \/ work' = work
            BY <1>3 DEF NewestChanges, Begun
        <3> HIDE DEF js
        <3> QED
            BY <2>1, <3>1, <3>2, JobsMore
    <2>3. MediaTyped' /\ ContactTyped'
        BY <1>3, <2>1 DEF NewestChanges, composer, contact, MediaTyped, ContactTyped
    <2>4. DialogTyped'
        BY <1>3, <2>1 DEF NewestChanges, DialogTyped, Flags
    <2> QED
        BY <1>3, <2>2, <2>3, <2>4, PageSteps
<1> QED
    BY <1>1, <1>2, <1>3 DEF Happens

LEMMA SelectTyped ==
    ASSUME PageTypes, NEW c \in Convs, SelectConversation(c), UNCHANGED backend
    PROVE  PageTypes'
<1>1. ListTyped'
    BY ListActsTyped DEF SelectConversation, PageTypes
<1>2. PageTyped'
    <2>1. CASE c # shown
        BY <2>1, FollowsTyped DEF SelectConversation, PageTypes
    <2>2. CASE c = shown
        BY <2>2 DEF SelectConversation, contact, PageTypes, PageTyped, MediaTyped, ContactTyped,
                    DialogTyped, AllJobs
    <2> QED
        BY <2>1, <2>2
<1> QED
    BY <1>1, <1>2 DEF PageTypes, backend, BackendTyped

\* Acts that send nothing, and acts that send a request.
LEMMA QuietActTyped ==
    ASSUME PageTypes, UNCHANGED <<remote, list, asked, backend>>,
           \/ ChooseFile \/ RemoveFile \/ CancelRecording
           \/ OpenForm \/ CloseForm \/ TogglePicker
           \/ \E d \in Dialogs : CloseDialog(d)
    PROVE  PageTypes'
<1>1. /\ AllJobs(work) /\ MediaTyped /\ ContactTyped /\ DialogTyped
      /\ shown \in Convs \cup {None} /\ UNCHANGED work
    BY DEF PageTypes, PageTyped, ListTyped, ListTypes, ChooseFile, RemoveFile, CancelRecording,
           OpenForm, CloseForm, TogglePicker, CloseDialog
<1>2. AllJobs(work')
    BY <1>1
<1>3. MediaTyped'
    BY <1>1 DEF ChooseFile, RemoveFile, CancelRecording, OpenForm, CloseForm, TogglePicker,
                CloseDialog, composer, ai, MediaTyped
<1>4. ContactTyped'
    BY <1>1 DEF ChooseFile, RemoveFile, CancelRecording, OpenForm, CloseForm, TogglePicker,
                CloseDialog, contact, ContactTyped
<1>5. DialogTyped'
    BY <1>1 DEF ChooseFile, RemoveFile, CancelRecording, OpenForm, CloseForm, TogglePicker,
                CloseDialog, DialogTyped
<1> QED
    BY <1>2, <1>3, <1>4, <1>5, PageSteps

LEMMA SendingActTyped ==
    ASSUME PageTypes, UNCHANGED <<remote, list, asked, backend>>,
           \/ SendFile \/ StartRecording \/ StopRecording \/ Generate
           \/ CreateClient \/ LinkExisting \/ Unlink
           \/ \E d \in Dialogs : OpenDialog(d) \/ Submit(d)
    PROVE  PageTypes'
<1>1. /\ AllJobs(work) /\ MediaTyped /\ ContactTyped /\ DialogTyped
      /\ shown \in Convs \cup {None} /\ DOMAIN madeFor \subseteq Clients
    BY DEF PageTypes, PageTyped, BackendTyped, ListTyped, ListTypes
<1>2. ASSUME NEW op, NEW to, NEW of, JobTyped(Job(op, to, of)), work' = Begun({Job(op, to, of)})
      PROVE  AllJobs(work')
    <2> DEFINE js == {Job(op, to, of)}
    <2>1. (\A k \in js : JobTyped(k)) /\ work' = work (+) SetToBag(js)
        BY <1>2 DEF Begun
    <2> HIDE DEF js
    <2> QED
        BY <1>1, <2>1, JobsMore
<1>3. AllJobs(work')
    <2>1. CASE SendFile
        <3>1. JobTyped(Job("file", shown, file))
            BY <1>1, <2>1, JobIsTyped DEF SendFile
        <3>2. work' = Begun({Job("file", shown, file)})
            BY <2>1 DEF SendFile
        <3> QED
            BY <1>2, <3>1, <3>2
    <2>2. CASE StartRecording
        <3>1. JobTyped(Job("mic", shown, None))
            BY <1>1, <2>2, JobIsTyped DEF StartRecording
        <3>2. work' = Begun({Job("mic", shown, None)})
            BY <2>2 DEF StartRecording
        <3> QED
            BY <1>2, <3>1, <3>2
    <2>3. CASE StopRecording
        <3>1. JobTyped(Job("audio", recorder, recorder))
            BY JobIsTyped
        <3>2. work' = Begun({Job("audio", recorder, recorder)})
            BY <2>3 DEF StopRecording
        <3> QED
            BY <1>2, <3>1, <3>2
    <2>4. CASE Generate
        <3>1. JobTyped(Job("ai generate", shown, None))
            BY <1>1, <2>4, JobIsTyped DEF Generate
        <3>2. work' = Begun({Job("ai generate", shown, None)})
            BY <2>4 DEF Generate
        <3> QED
            BY <1>2, <3>1, <3>2
    <2>5. CASE CreateClient
        <3>1. shown \in Convs /\ form \in Convs
            BY <1>1, <2>5 DEF CreateClient, Unlinked, ContactTyped
        <3>2. JobTyped(Job("create client", shown, form))
            BY <3>1, JobIsTyped
        <3>3. work' = Begun({Job("create client", shown, form)})
            BY <2>5 DEF CreateClient
        <3> QED
            BY <1>2, <3>2, <3>3
    <2>6. CASE LinkExisting
        <3>1. PICK k \in Clients : work' = Begun({Job("link", shown, k)})
            BY <1>1, <2>6, PanelAssumption DEF LinkExisting
        <3>2. shown \in Convs
            BY <1>1, <2>6 DEF LinkExisting, Unlinked
        <3>3. JobTyped(Job("link", shown, k))
            BY <3>2, JobIsTyped
        <3> QED
            BY <1>2, <3>1, <3>3
    <2>7. CASE Unlink
        <3>1. JobTyped(Job("unlink", shown, None))
            BY <1>1, <2>7, JobIsTyped DEF Unlink
        <3>2. work' = Begun({Job("unlink", shown, None)})
            BY <2>7 DEF Unlink
        <3> QED
            BY <1>2, <3>1, <3>2
    <2>8. ASSUME NEW d \in Dialogs, OpenDialog(d) \/ Submit(d)
          PROVE  AllJobs(work')
        <3>1. JobTyped(Job("routing", shown, d)) /\ JobTyped(Job("submit", shown, d))
            BY <2>8, JobIsTyped
        <3>2. \/ UNCHANGED work
              \/ work' = Begun({Job("routing", shown, d)})
              \/ work' = Begun({Job("submit", shown, d)})
            BY <2>8 DEF OpenDialog, Submit
        <3> QED
            BY <1>1, <1>2, <3>1, <3>2
    <2> QED
        BY <2>1, <2>2, <2>3, <2>4, <2>5, <2>6, <2>7, <2>8
<1>4. MediaTyped'
    BY <1>1 DEF SendFile, StartRecording, StopRecording, Generate, CreateClient, LinkExisting,
                Unlink, OpenDialog, Submit, composer, ai, MediaTyped
<1>5. ContactTyped'
    BY <1>1 DEF SendFile, StartRecording, StopRecording, Generate, CreateClient, LinkExisting,
                Unlink, OpenDialog, Submit, contact, ContactTyped
<1>6. DialogTyped'
    BY <1>1 DEF SendFile, StartRecording, StopRecording, Generate, CreateClient, LinkExisting,
                Unlink, OpenDialog, Submit, DialogTyped, Flags
<1> QED
    BY <1>3, <1>4, <1>5, <1>6, PageSteps

LEMMA UserTyped ==
    ASSUME PageTypes, User
    PROVE  PageTypes'
<1>1. ASSUME NEW op, Change(op), UNCHANGED <<panel, backend>>
      PROVE  PageTypes'
    <2>1. ListTyped'
        BY <1>1, ListActsTyped DEF PageTypes
    <2> QED
        BY <1>1, <2>1 DEF PageTypes, backend, panel, composer, ai, contact, BackendTyped, PageTyped,
                          MediaTyped, ContactTyped, DialogTyped, AllJobs
<1>2. CASE dialogs = {} /\ OnPage /\ UNCHANGED backend
    <2>1. CASE InList \/ InHistory
        BY <1>2, <2>1, SelectTyped DEF InList, InHistory
    <2>2. CASE (InHeader \/ InDetails) /\ UNCHANGED panel
        BY <1>1, <1>2, <2>2 DEF InHeader, InDetails
    <2>3. CASE /\ InComposer \/ Generate \/ InContact \/ InThread \/ InReplies
               /\ UNCHANGED <<remote, list, asked>>
        BY <1>2, <2>3, QuietActTyped, SendingActTyped
        DEF InComposer, InContact, InThread, InReplies, Dialogs
    <2> QED
        BY <1>2, <2>1, <2>2, <2>3 DEF OnPage
<1>3. CASE InDialog /\ UNCHANGED <<remote, list, asked, backend>>
    BY <1>3, QuietActTyped, SendingActTyped DEF InDialog, CardDialog, TaskDialog, Dialogs
<1> QED
    BY <1>2, <1>3 DEF User

LEMMA TypesNext ==
    ASSUME TypeInv, [Next]_vars
    PROVE  TypeInv'
<1>1. CASE Next
    <2>1. PageTypes'
        BY <1>1, ServerTyped, ArrivesTyped, HappensTyped, UserTyped DEF Next, TypeInv, PageTypes
    <2>2. acts' \in 0..MaxActs
        BY <1>1, PanelAssumption DEF Next, TypeInv
    <2> QED
        BY <2>1, <2>2 DEF TypeInv, PageTypes
<1>2. CASE UNCHANGED vars
    <2>1. UNCHANGED <<remote, list, asked, backend, panel, acts>>
        BY <1>2 DEF vars
    <2> QED
        BY <2>1, ListKept DEF TypeInv, backend, panel, composer, ai, contact, BackendTyped, PageTyped,
                          MediaTyped, ContactTyped, DialogTyped, AllJobs
<1> QED
    BY <1>1, <1>2

\* The page never takes for a conversation, a client or a dialog what is none,
\* in whatever order requests and answers come (useConversations, the handlers
\* of the messages page).
THEOREM TypeCorrect == Spec => []TypeOK
<1>1. Init => TypeInv
    BY TypesInit
<1>2. TypeInv /\ [Next]_vars => TypeInv'
    BY TypesNext
<1>3. TypeInv => TypeOK
    BY TypesFollow
<1> QED
    BY <1>1, <1>2, <1>3, PTL DEF Spec

-----------------------------------------------------------------------------
(* The properties *)

\* The conversation the agent works in is listed, carries no badge, and shows
\* its own viewers (useConversations: setActive, the effect on the list, the
\* WebSocket events).
THEOREM ActiveStaysInOrder == Spec => []ActiveIsInOrder
<1>1. PanelInv => ActiveIsInOrder
    BY DEF PanelInv, ListInv, ActiveIsInOrder
<1> QED
    BY <1>1, PanelHolds, PTL

\* A file is sent to the conversation it was chosen in, also after uploads that
\* failed and selections made while they were under way
\* (handleSelectConversation drops the attachment).
THEOREM FilesStayHome == Spec => []FileGoesHome
<1>1. PanelInv => FileGoesHome
    BY DEF PanelInv, AllGood, Good, FileGoesHome, InFlight
<1> QED
    BY <1>1, PanelHolds, PTL

\* A client created from a contact is linked to this contact (the quick form
\* of the linked client section).
THEOREM NewClientsStayHome == Spec => []NewClientGoesHome
<1>1. PanelInv => NewClientGoesHome
    BY DEF PanelInv, AllGood, Good, NewClientGoesHome, InFlight
<1> QED
    BY <1>1, PanelHolds, PTL

=============================================================================
