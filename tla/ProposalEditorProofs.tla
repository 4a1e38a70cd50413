------------------------ MODULE ProposalEditorProofs ------------------------
(***************************************************************************)
(* What the proposals page keeps to, for any number of proposals and any   *)
(* number of the user's acts: fields go back to the proposal they came     *)
(* from, and a disabled button is waiting for a request.                   *)
(***************************************************************************)
EXTENDS ProposalEditor, SequenceTheorems, TLAPS

-----------------------------------------------------------------------------
(* The bag of requests under way *)

\* Settling leaves no request behind that was not there.
LEMMA BagLess ==
    ASSUME NEW B, NEW C
    PROVE  DOMAIN (B (-) C) \subseteq DOMAIN B
BY DEF (-)

\* Requests that are sent are added, and nothing else is.
LEMMA BagMore ==
    ASSUME NEW B, NEW S
    PROVE  DOMAIN (B (+) SetToBag(S)) = DOMAIN B \cup S
BY DEF (+), SetToBag

\* Settling a request leaves every other one.
LEMMA BagOthersStay ==
    ASSUME NEW B, IsABag(B), NEW x, NEW y \in DOMAIN B, y # x
    PROVE  y \in DOMAIN (B (-) SetToBag({x}))
BY DEF IsABag, (-), SetToBag

\* Settling and sending keep the bag a bag.
LEMMA BagLessIsBag ==
    ASSUME NEW B, IsABag(B), NEW x
    PROVE  IsABag(B (-) SetToBag({x}))
BY DEF IsABag, (-), SetToBag

LEMMA BagMoreIsBag ==
    ASSUME NEW B, IsABag(B), NEW S
    PROVE  IsABag(B (+) SetToBag(S))
BY DEF IsABag, (+), SetToBag

\* The bag the page starts with.
LEMMA BagOfSet ==
    ASSUME NEW S
    PROVE  IsABag(SetToBag(S)) /\ DOMAIN SetToBag(S) = S
BY DEF IsABag, SetToBag

-----------------------------------------------------------------------------
(* The invariant *)

\* A request has the fields that Call gives it.
Shaped(c) == DOMAIN c = {"op", "proj", "arg", "by", "done", "ids", "svc", "seen"}

IsLoad(c) == c.op \in {"list", "detail"}

\* Only loads remember a flag, and a form is sent to its own proposal.
Good(c) ==
    /\ Shaped(c)
    /\ ~IsLoad(c) => c.by = None
    /\ c.op = "meta" => c.arg = c.proj

\* The request c will clear the flag w, or hand it on to its loads.
Works(w, c) == IF IsLoad(c) THEN c.by = w ELSE Work(c.op) = w

Working(flags, bag) == \A w \in flags : \E c \in DOMAIN bag : Works(w, c)
AllGood(bag)        == IsABag(bag) /\ \A c \in DOMAIN bag : Good(c)
FormFits            == detail.id # None => form = detail.id

EditorInv ==
    /\ AllGood(calls)
    /\ Working(busy, calls)
    /\ busy \subseteq {"update", "create", "service"}
    /\ FormFits

-----------------------------------------------------------------------------
\* Requests that are made by Call, and answers to them.
LEMMA CallIsShaped ==
    ASSUME NEW op, NEW p, NEW arg, NEW by
    PROVE  /\ Shaped(Call(op, p, arg, by))
           /\ Call(op, p, arg, by).op = op /\ Call(op, p, arg, by).by = by
           /\ Call(op, p, arg, by).proj = p /\ Call(op, p, arg, by).arg = arg
BY DEF Call, Shaped

LEMMA CallIsGood ==
    ASSUME NEW op, op \notin {"list", "detail"}, NEW p, NEW arg, op = "meta" => arg = p
    PROVE  Good(Call(op, p, arg, None)) /\ Works(Work(op), Call(op, p, arg, None))
<1>1. ~IsLoad(Call(op, p, arg, None))
    BY CallIsShaped DEF IsLoad
<1> QED
    BY <1>1, CallIsShaped DEF Good, Works

LEMMA LoadsAreGood ==
    ASSUME NEW p, NEW by
    PROVE  /\ Good(LoadDetail(p, by)) /\ Good(LoadFirst) /\ Good(LoadKeeping(p, by))
           /\ IsLoad(LoadDetail(p, by)) /\ IsLoad(LoadKeeping(p, by))
           /\ LoadDetail(p, by).by = by /\ LoadKeeping(p, by).by = by
BY CallIsShaped DEF Good, IsLoad, LoadDetail, LoadFirst, LoadKeeping

\* An answer on its way is as good as the request, and works for the same flag.
LEMMA AnswerKeeps ==
    ASSUME NEW call \in InFlight, NEW ids, NEW svc, AllGood(calls), NEW flags,
           Working(flags, calls), Answered(call, ids, svc)
    PROVE  AllGood(calls') /\ Working(flags, calls')
<1> DEFINE d == [call EXCEPT !.done = TRUE, !.ids = ids, !.svc = svc]
<1>1. Good(call) /\ IsABag(calls)
    BY DEF AllGood, InFlight
<1>2. /\ Shaped(d)
      /\ d.op = call.op /\ d.by = call.by /\ d.arg = call.arg /\ d.proj = call.proj
    BY <1>1 DEF Good, Shaped
<1>3. Good(d) /\ \A w : Works(w, call) => Works(w, d)
    BY <1>1, <1>2 DEF Good, Works, IsLoad
<1> HIDE DEF d
<1>4. calls' = Settled(call) (+) SetToBag({d})
    BY DEF Answered, d
<1>5. IsABag(calls') /\ DOMAIN calls' = DOMAIN Settled(call) \cup {d}
    BY <1>1, <1>4, BagMore, BagLessIsBag, BagMoreIsBag DEF Settled
<1>6. /\ DOMAIN Settled(call) \subseteq DOMAIN calls
      /\ \A c \in DOMAIN calls : c # call => c \in DOMAIN Settled(call)
    BY <1>1, BagLess, BagOthersStay DEF Settled
<1> QED
    BY <1>3, <1>5, <1>6 DEF AllGood, Working

\* Settling a request and sending others keeps the requests good.
LEMMA SettledIsGood ==
    ASSUME NEW call, AllGood(calls)
    PROVE  AllGood(Settled(call))
BY BagLess, BagLessIsBag DEF AllGood, Settled

LEMMA MoreIsGood ==
    ASSUME NEW bag, AllGood(bag), NEW S, \A c \in S : Good(c)
    PROVE  AllGood(bag (+) SetToBag(S))
BY BagMore, BagMoreIsBag DEF AllGood

LEMMA MoreIsWorking ==
    ASSUME NEW bag, NEW flags, Working(flags, bag), NEW S
    PROVE  Working(flags, bag (+) SetToBag(S))
BY BagMore DEF Working

\* Finished clears the flag of a load that was the last one to work for it.
LEMMA FinishedIsWorking ==
    ASSUME NEW call \in InFlight, IsLoad(call), Finished(call), EditorInv
    PROVE  Working(busy', Settled(call)) /\ busy' \subseteq busy
<1>1. busy' \subseteq busy
    BY DEF Finished
<1>2. ASSUME NEW w \in busy'
      PROVE  \E c \in DOMAIN Settled(call) : Works(w, c)
    <2>1. PICK c \in DOMAIN calls : Works(w, c)
        BY <1>1, <1>2 DEF EditorInv, Working
    <2>2. w # None
        BY <1>1, <1>2, EditorAssumption DEF EditorInv
    <2>3. CASE c # call
        BY <2>1, <2>3, BagOthersStay DEF Settled, EditorInv, AllGood
    <2>4. CASE c = call
        <3>1. call.by = w
            BY <2>1, <2>4 DEF Works
        <3>2. PICK e \in DOMAIN Settled(call) : e.by = w
            BY <1>2, <2>2, <3>1 DEF Finished
        <3>3. e \in DOMAIN calls
            BY BagLess DEF Settled
        <3>4. IsLoad(e)
            BY <2>2, <3>2, <3>3 DEF EditorInv, AllGood, Good
        <3>5. QED
            BY <3>2, <3>4 DEF Works
    <2>5. QED
        BY <2>3, <2>4
<1> QED
    BY <1>1, <1>2 DEF Working

\* A request other than a load works for one flag: the others keep theirs.
LEMMA OthersStillWork ==
    ASSUME NEW call \in InFlight, ~IsLoad(call), EditorInv
    PROVE  Working(busy \ {Work(call.op)}, Settled(call))
BY BagOthersStay DEF Working, Works, Settled, EditorInv, AllGood, InFlight

-----------------------------------------------------------------------------
LEMMA EditorInit == Init => EditorInv
<1> SUFFICES ASSUME Init PROVE EditorInv
    OBVIOUS
<1>1. AllGood(calls)
    BY BagOfSet, LoadsAreGood DEF Init, AllGood
<1>2. QED
    BY <1>1 DEF Init, EditorInv, Working, FormFits

\* The server's steps leave the page alone.
LEMMA ServerKeeps ==
    ASSUME EditorInv, Server
    PROVE  EditorInv'
<1>1. PICK call \in InFlight :
          \/ AnswersList(call) \/ AnswersDetail(call)
          \/ StoresUpdate(call) \/ StoresNew(call) \/ StoresService(call)
          \/ Deletes(call)
    BY DEF Server
<1>2. PICK ids, svc : Answered(call, ids, svc)
    BY <1>1 DEF AnswersList, AnswersDetail, StoresUpdate, StoresNew, StoresService, Deletes
<1>3. UNCHANGED <<page, busy>>
    BY <1>1 DEF AnswersList, AnswersDetail, StoresUpdate, StoresNew, StoresService, Deletes
<1>4. AllGood(calls') /\ Working(busy, calls')
    BY <1>2, AnswerKeeps DEF EditorInv
<1> QED
    BY <1>3, <1>4 DEF EditorInv, FormFits, page, AllGood, Working

\* Selecting adds loads that work for no flag.
LEMMA SelectsKeeps ==
    ASSUME NEW p, NEW bag, Selects(p, bag), AllGood(bag), NEW flags, Working(flags, bag)
    PROVE  AllGood(calls') /\ Working(flags, calls')
<1>1. CASE p = selected
    BY <1>1 DEF Selects
<1>2. CASE p # selected
    BY <1>2, MoreIsGood, MoreIsWorking, LoadsAreGood DEF Selects
<1> QED
    BY <1>1, <1>2

LEMMA UserKeeps ==
    ASSUME EditorInv, User
    PROVE  EditorInv'
<1> USE DEF EditorInv
<1>1. ASSUME NEW call, NEW work \in {"update", "create", "service"}, Asks(call, work),
             Good(call), Works(work, call)
      PROVE  EditorInv'
    <2> DEFINE d == [call EXCEPT !.seen = selected]
    <2>1. /\ Shaped(d) /\ d.op = call.op /\ d.by = call.by
          /\ d.arg = call.arg /\ d.proj = call.proj
        BY <1>1 DEF Good, Shaped
    <2>2. calls' = calls (+) SetToBag({d})
        BY <1>1 DEF Asks
    <2> HIDE DEF d
    <2>3. Good(d) /\ Works(work, d)
        BY <1>1, <2>1 DEF Good, Works, IsLoad
    <2>4. AllGood(calls') /\ Working(busy, calls') /\ d \in DOMAIN calls'
        BY <2>2, <2>3, MoreIsGood, MoreIsWorking, BagMore
    <2> QED
        BY <1>1, <2>3, <2>4 DEF Asks, page, FormFits, Working, AllGood
<1>2. ASSUME NEW p \in Proposals, Select(p)
      PROVE  EditorInv'
    BY <1>2, SelectsKeeps DEF Select, FormFits, AllGood, Working
<1>3. ASSUME NEW status, ChangeStatus(status)
      PROVE  EditorInv'
    BY <1>1, <1>3, CallIsGood DEF ChangeStatus, Work
<1>4. CASE SaveForm
    BY <1>1, <1>4, CallIsGood DEF SaveForm, DetailOpen, FormFits, Work
<1>5. CASE ChangeItem
    BY <1>1, <1>5, CallIsGood DEF ChangeItem, Work
<1>6. CASE SaveService
    BY <1>1, <1>6, CallIsGood DEF SaveService, Work
<1>7. ASSUME NEW m, OpenModal(m) \/ CloseModal
      PROVE  EditorInv'
    BY <1>7 DEF OpenModal, CloseModal, FormFits, AllGood, Working
<1>8. CASE Create
    BY <1>1, <1>8, CallIsGood DEF Create, Work
<1>9. CASE Delete
    <2> DEFINE c == [Call("delete", detail.id, None, None) EXCEPT !.ids = listed]
    <2>1. Shaped(c) /\ c.op = "delete" /\ c.by = None
        BY DEF Call, Shaped
    <2> HIDE DEF c
    <2>2. Good(c) /\ Works("update", c)
        BY <2>1 DEF Good, IsLoad, Works, Work
    <2> QED
        BY <1>1, <1>9, <2>2 DEF Delete, c
<1> QED
    BY <1>2, <1>3, <1>4, <1>5, <1>6, <1>7, <1>8, <1>9 DEF User, InDetail

LEMMA ArrivesKeeps ==
    ASSUME EditorInv, Arrives
    PROVE  EditorInv'
<1> USE DEF EditorInv
<1> SUFFICES ASSUME NEW call \in InFlight,
                 \/ ListArrives(call) \/ DetailArrives(call) \/ LoadFails(call)
                 \/ Updated(call) \/ ItemChanged(call) \/ ServiceSaved(call)
                 \/ Created(call) \/ Deleted(call) \/ Fails(call)
             PROVE  EditorInv'
    BY DEF Arrives
<1>1. AllGood(Settled(call))
    BY SettledIsGood
<1>2. IsLoad(call) /\ Finished(call) => Working(busy', Settled(call)) /\ busy' \subseteq busy
    BY FinishedIsWorking
<1>3. ~IsLoad(call) => Working(busy \ {Work(call.op)}, Settled(call))
    BY OthersStillWork
<1>4. ASSUME NEW S, \A c \in S : Good(c), calls' = Settled(call) (+) SetToBag(S),
             \E c \in S : Works(Work(call.op), c), ~IsLoad(call), busy' = busy
      PROVE  AllGood(calls') /\ Working(busy', calls')
    <2>1. AllGood(calls') /\ Working(busy \ {Work(call.op)}, calls') /\ S \subseteq DOMAIN calls'
        BY <1>1, <1>3, <1>4, MoreIsGood, MoreIsWorking, BagMore
    <2> QED
        BY <1>4, <2>1 DEF Working
<1>5. CASE ListArrives(call)
    <2>1. IsLoad(call) /\ Finished(call) /\ \E next : Selects(next, Settled(call))
        BY <1>5 DEF ListArrives, IsLoad
    <2>2. AllGood(calls') /\ Working(busy', calls')
        BY <1>1, <1>2, <2>1, SelectsKeeps
    <2> QED
        BY <1>2, <1>5, <2>1, <2>2 DEF ListArrives, FormFits, AllGood, Working
<1>6. CASE DetailArrives(call)
    <2>1. IsLoad(call) /\ Finished(call) /\ calls' = Settled(call)
        BY <1>6 DEF DetailArrives, IsLoad
    <2>2. FormFits'
        BY <1>6 DEF DetailArrives, Shows, FormFits
    <2> QED
        BY <1>1, <1>2, <2>1, <2>2 DEF AllGood, Working
<1>7. CASE LoadFails(call)
    BY <1>1, <1>2, <1>7 DEF LoadFails, IsLoad, page, FormFits, AllGood, Working
<1>8. CASE Updated(call)
    <2> DEFINE S == {LoadKeeping(call.seen, "update"), LoadDetail(call.proj, "update")}
    <2>1. ~IsLoad(call) /\ Work(call.op) = "update"
        BY <1>8 DEF Updated, IsLoad, Work
    <2>2. (\A c \in S : Good(c)) /\ \E c \in S : Works("update", c)
        BY LoadsAreGood DEF Works
    <2>3. calls' = Settled(call) (+) SetToBag(S) /\ UNCHANGED <<page, busy>>
        BY <1>8 DEF Updated
    <2>4. AllGood(calls') /\ Working(busy', calls')
        BY <1>4, <2>1, <2>2, <2>3
    <2> QED
        BY <2>3, <2>4 DEF page, FormFits, AllGood, Working
<1>9. CASE ItemChanged(call)
    <2> DEFINE S == {LoadKeeping(call.seen, "update")}
    <2>1. ~IsLoad(call) /\ Work(call.op) = "update"
        BY <1>9 DEF ItemChanged, IsLoad, Work
    <2>2. (\A c \in S : Good(c)) /\ \E c \in S : Works("update", c)
        BY LoadsAreGood DEF Works
    <2>3. calls' = Settled(call) (+) SetToBag(S) /\ busy' = busy /\ FormFits'
        BY <1>9 DEF ItemChanged, Shows, FormFits
    <2>4. AllGood(calls') /\ Working(busy', calls')
        BY <1>4, <2>1, <2>2, <2>3
    <2> QED
        BY <2>3, <2>4 DEF AllGood, Working
<1>10. CASE ServiceSaved(call)
    <2>1. ~IsLoad(call) /\ Work(call.op) = "service"
        BY <1>10 DEF ServiceSaved, IsLoad, Work
    <2> QED
        BY <1>1, <1>3, <1>10, <2>1 DEF ServiceSaved, FormFits, AllGood, Working
<1>11. CASE Created(call)
    <2> DEFINE S   == {LoadKeeping(call.seen, "create"), LoadDetail(call.proj, "create")}
               bag == Settled(call) (+) SetToBag(S)
    <2>1. ~IsLoad(call) /\ Work(call.op) = "create"
        BY <1>11 DEF Created, IsLoad, Work
    <2>2. (\A c \in S : Good(c)) /\ \E c \in S : Works("create", c)
        BY LoadsAreGood DEF Works
    <2>3. Selects(call.proj, bag) /\ UNCHANGED <<detail, form, busy>>
        BY <1>11 DEF Created
    <2>4. AllGood(bag) /\ Working(busy \ {"create"}, bag) /\ S \subseteq DOMAIN bag
        BY <1>1, <1>3, <2>1, <2>2, MoreIsGood, MoreIsWorking, BagMore
    <2>5. Working(busy, bag)
        BY <2>2, <2>4 DEF Working
    <2>6. AllGood(calls') /\ Working(busy, calls')
        BY <2>3, <2>4, <2>5, SelectsKeeps
    <2> QED
        BY <2>3, <2>6 DEF FormFits, AllGood, Working
<1>12. CASE Deleted(call)
    <2>1. ~IsLoad(call) /\ Work(call.op) = "update"
        BY <1>12 DEF Deleted, IsLoad, Work
    <2>2. /\ \E p : Selects(p, Settled(call))
          /\ busy' = busy \ {"update"} /\ FormFits'
        BY <1>12 DEF Deleted, FormFits
    <2>3. AllGood(calls') /\ Working(busy', calls')
        BY <1>1, <1>3, <2>1, <2>2, SelectsKeeps
    <2> QED
        BY <2>2, <2>3 DEF AllGood, Working
<1>13. CASE Fails(call)
    <2>1. ~IsLoad(call)
        BY <1>13 DEF Fails, IsLoad
    <2> QED
        BY <1>1, <1>3, <1>13, <2>1 DEF Fails, page, FormFits, AllGood, Working
<1> QED
    BY <1>5, <1>6, <1>7, <1>8, <1>9, <1>10, <1>11, <1>12, <1>13

LEMMA EditorNext == EditorInv /\ [Next]_vars => EditorInv'
<1> SUFFICES ASSUME EditorInv, [Next]_vars PROVE EditorInv'
    OBVIOUS
<1>1. CASE Next
    BY <1>1, ServerKeeps, ArrivesKeeps, UserKeeps DEF Next
<1>2. CASE UNCHANGED vars
    BY <1>2 DEF vars, server, page, EditorInv, FormFits, AllGood, Working
<1> QED
    BY <1>1, <1>2

LEMMA EditorAlways == Spec => []EditorInv
BY EditorInit, EditorNext, PTL DEF Spec

-----------------------------------------------------------------------------
(* Types *)

Lists == {s \in Seq(Proposals) : IsInjective(s)}

\* A sequence less one element.
LEMMA RemoveAtProperties ==
    ASSUME NEW S, NEW s \in Seq(S), NEW i \in 1..Len(s)
    PROVE  /\ RemoveAt(s, i) \in Seq(S) /\ Len(RemoveAt(s, i)) = Len(s) - 1
           /\ \A j \in 1..Len(RemoveAt(s, i)) :
                 RemoveAt(s, i)[j] = s[IF j < i THEN j ELSE j + 1]
<1> DEFINE front == SubSeq(s, 1, i - 1)
           back  == SubSeq(s, i + 1, Len(s))
<1>1. PICK n \in Nat : n = Len(s)
    BY LenProperties
<1>2. i \in Nat /\ 1 <= i /\ i <= n
    BY <1>1
<1>3. \A j \in 1..n : s[j] \in S
    BY <1>1, ElementOfSeq
<1>4. /\ front \in Seq(S) /\ Len(front) = i - 1
      /\ \A j \in 1..(i - 1) : front[j] = s[j]
    <2>1. 1 \in Int /\ i - 1 \in Int /\ \A j \in 1..(i - 1) : s[j] \in S
        BY <1>2, <1>3
    <2>2. /\ front \in Seq(S) /\ Len(front) = IF 1 <= i - 1 THEN i - 1 - 1 + 1 ELSE 0
          /\ \A j \in 1..(i - 1 - 1 + 1) : front[j] = s[1 + j - 1]
        BY <2>1, SubSeqProperties
    <2> HIDE DEF front
    <2> QED
        BY <1>2, <2>2
<1>5. /\ back \in Seq(S) /\ Len(back) = n - i
      /\ \A j \in 1..(n - i) : back[j] = s[i + j]
    <2>1. i + 1 \in Int /\ n \in Int /\ \A j \in (i + 1)..n : s[j] \in S
        BY <1>2, <1>3
    <2>2. /\ back \in Seq(S) /\ Len(back) = IF i + 1 <= n THEN n - (i + 1) + 1 ELSE 0
          /\ \A j \in 1..(n - (i + 1) + 1) : back[j] = s[i + 1 + j - 1]
        BY <1>1, <2>1, SubSeqProperties
    <2> HIDE DEF back
    <2> QED
        BY <1>2, <2>2
<1> DEFINE t == front \o back
<1> HIDE DEF front, back
<1>6. /\ t \in Seq(S) /\ Len(t) = Len(front) + Len(back)
      /\ \A j \in 1..(Len(front) + Len(back)) :
            t[j] = IF j <= Len(front) THEN front[j] ELSE back[j - Len(front)]
    BY <1>4, <1>5, ConcatProperties
<1> HIDE DEF t
<1>7. Len(t) = n - 1
    BY <1>2, <1>4, <1>5, <1>6
<1>8. ASSUME NEW j \in 1..(n - 1)
      PROVE  t[j] = s[IF j < i THEN j ELSE j + 1]
    <2>1. CASE j < i
        BY <1>2, <1>4, <1>5, <1>6, <2>1
    <2>2. CASE ~(j < i)
        BY <1>2, <1>4, <1>5, <1>6, <2>2
    <2> QED
        BY <2>1, <2>2
<1>9. RemoveAt(s, i) = t
    BY DEF RemoveAt, t, front, back
<1> QED
    BY <1>1, <1>6, <1>7, <1>8, <1>9

\* A list less one proposal is a list of the others.
LEMMA WithoutIsList ==
    ASSUME NEW s \in Lists, NEW p
    PROVE  Without(s, p) \in Lists /\ p \notin Contents(Without(s, p))
<1>1. CASE p \notin Contents(s)
    BY <1>1 DEF Without
<1>2. CASE p \in Contents(s)
    <2> DEFINE i == CHOOSE j \in DOMAIN s : s[j] = p
               t == RemoveAt(s, i)
    <2>1. s \in Seq(Proposals) /\ DOMAIN s = 1..Len(s) /\ Len(s) \in Nat
        BY LenProperties DEF Lists
    <2>2. i \in 1..Len(s) /\ s[i] = p
        BY <1>2, <2>1 DEF Contents
    <2> HIDE DEF i
    <2>3. /\ t \in Seq(Proposals) /\ Len(t) = Len(s) - 1
          /\ \A j \in 1..Len(t) : t[j] = s[IF j < i THEN j ELSE j + 1]
        BY <2>1, <2>2, RemoveAtProperties
    <2>4. \A j, k \in 1..Len(s) : s[j] = s[k] => j = k
        BY DEF Lists, IsInjective
    <2> HIDE DEF t
    <2>5. \A j \in 1..Len(t) : (IF j < i THEN j ELSE j + 1) \in 1..Len(s) \ {i}
        BY <2>1, <2>2, <2>3
    <2>6. \A j, k \in 1..Len(t) : t[j] = t[k] => j = k
        BY <2>1, <2>2, <2>3, <2>4, <2>5
    <2>7. \A j \in 1..Len(t) : t[j] # p
        BY <2>2, <2>3, <2>4, <2>5
    <2>8. DOMAIN t = 1..Len(t)
        BY <2>3
    <2>9. t \in Lists /\ p \notin Contents(t)
        BY <2>3, <2>6, <2>7, <2>8 DEF Lists, IsInjective, Contents
    <2> QED
        BY <1>2, <2>9 DEF Without, t, i
<1> QED
    BY <1>1, <1>2

\* A proposal that is not in a list may be put before it.
LEMMA BeforeIsList ==
    ASSUME NEW s \in Lists, NEW p \in Proposals, p \notin Contents(s)
    PROVE  <<p>> \o s \in Lists
<1> DEFINE t == <<p>> \o s
<1>1. t \in Seq(Proposals) /\ Len(t) = Len(s) + 1 /\ t[1] = p
    BY DEF Lists
<1>2. \A j \in 2..Len(t) : t[j] = s[j - 1] /\ j - 1 \in 1..Len(s)
    BY DEF Lists
<1>3. \A j \in 1..Len(s) : s[j] # p
    BY DEF Contents, Lists
<1>4. \A j, k \in 1..Len(s) : s[j] = s[k] => j = k
    BY DEF Lists, IsInjective
<1> HIDE DEF t
<1>5. ASSUME NEW j \in 1..Len(t), NEW k \in 1..Len(t), t[j] = t[k]
      PROVE  j = k
    <2>1. CASE j = 1 \/ k = 1
        BY <1>1, <1>2, <1>3, <1>5, <2>1
    <2>2. CASE j # 1 /\ k # 1
        BY <1>1, <1>2, <1>4, <1>5, <2>2
    <2> QED
        BY <2>1, <2>2
<1>6. DOMAIN t = 1..Len(t)
    BY <1>1
<1>7. t \in Lists
    BY <1>1, <1>5, <1>6 DEF Lists, IsInjective
<1> QED
    BY <1>7 DEF t

LEMMA ListFacts ==
    /\ <<>> \in Lists
    /\ \A s \in Lists : First(s) \in Ids /\ Contents(s) \subseteq Proposals
BY DEF Lists, IsInjective, First, Ids, Contents

\* What a request may carry: a proposal to be created has an id of its own.
Typed(c) ==
    /\ c.proj \in Ids /\ (c.op = "create" => c.proj \in Proposals)
    /\ c.ids \in Lists /\ c.svc \in BOOLEAN

AllTyped(bag) == \A c \in DOMAIN bag : Typed(c)
TypeInv       == TypeOK /\ AllTyped(calls)

LEMMA CallIsTyped ==
    ASSUME NEW op, NEW p \in Ids, op = "create" => p \in Proposals, NEW arg, NEW by
    PROVE  Typed(Call(op, p, arg, by))
BY ListFacts DEF Call, Typed

LEMMA LoadsAreTyped ==
    ASSUME NEW by, NEW s
    PROVE  /\ Typed(LoadFirst) /\ Typed(LoadKeeping(s, by))
           /\ \A p \in Ids : Typed(LoadDetail(p, by))
BY CallIsTyped DEF LoadFirst, LoadKeeping, LoadDetail, Ids

LEMMA SettledIsTyped ==
    ASSUME AllTyped(calls), NEW call
    PROVE  AllTyped(Settled(call))
BY BagLess DEF AllTyped, Settled

LEMMA MoreIsTyped ==
    ASSUME NEW bag, AllTyped(bag), NEW S, \A c \in S : Typed(c)
    PROVE  AllTyped(bag (+) SetToBag(S))
BY BagMore DEF AllTyped

LEMMA AnswerIsTyped ==
    ASSUME EditorInv, AllTyped(calls), NEW call \in InFlight, NEW ids \in Lists,
           NEW svc \in BOOLEAN, Answered(call, ids, svc)
    PROVE  AllTyped(calls')
<1> DEFINE d == [call EXCEPT !.done = TRUE, !.ids = ids, !.svc = svc]
<1>1. Shaped(call) /\ Typed(call)
    BY DEF EditorInv, AllGood, Good, AllTyped, InFlight
<1>2. d.op = call.op /\ d.proj = call.proj /\ d.ids = ids /\ d.svc = svc
    BY <1>1 DEF Shaped
<1> HIDE DEF d
<1>3. Typed(d)
    BY <1>1, <1>2 DEF Typed
<1>4. calls' = Settled(call) (+) SetToBag({d})
    BY DEF Answered, d
<1> QED
    BY <1>3, <1>4, SettledIsTyped, MoreIsTyped

LEMMA SelectsIsTyped ==
    ASSUME NEW p \in Ids, NEW bag, AllTyped(bag), Selects(p, bag)
    PROVE  AllTyped(calls') /\ selected' = p
<1> DEFINE S == {LoadFirst} \cup (IF p = None THEN {} ELSE {LoadDetail(p, None)})
<1>1. \A c \in S : Typed(c)
    BY LoadsAreTyped
<1>2. calls' = bag \/ calls' = bag (+) SetToBag(S)
    BY DEF Selects
<1> HIDE DEF S
<1>3. AllTyped(calls')
    BY <1>1, <1>2, MoreIsTyped
<1> QED
    BY <1>3 DEF Selects

LEMMA MountsIsTyped ==
    ASSUME NEW s, NEW d \in [id : Ids, svc : BOOLEAN], Mounts(s, d),
           section \in [of : Ids, saved : BOOLEAN]
    PROVE  section' \in [of : Ids, saved : BOOLEAN]
BY DEF Mounts, NoSection, Ids

LEMMA ShowsIsTyped ==
    ASSUME TypeOK, NEW call, Typed(call), Shows(call.proj, call.svc)
    PROVE  /\ detail' \in [id : Ids, svc : BOOLEAN] /\ form' \in Ids
           /\ section' \in [of : Ids, saved : BOOLEAN]
<1>1. detail' \in [id : Ids, svc : BOOLEAN] /\ form' = call.proj /\ Mounts(selected, detail')
    BY DEF Shows, Typed
<1> QED
    BY <1>1, MountsIsTyped DEF TypeOK, Typed

LEMMA TypeInit == Init => TypeInv
<1> SUFFICES ASSUME Init PROVE TypeInv
    OBVIOUS
<1>1. Existing \in Lists /\ Existing # <<>>
    BY EditorAssumption DEF Lists
<1>2. Head(Existing) \in Proposals /\ Last(Existing) \in Proposals
    <2>1. Len(Existing) \in Nat /\ Len(Existing) # 0
        BY <1>1, EmptySeq, LenProperties DEF Lists
    <2>2. 1 \in 1..Len(Existing) /\ Len(Existing) \in 1..Len(Existing)
        BY <2>1
    <2>3. Existing[1] \in Proposals /\ Existing[Len(Existing)] \in Proposals
        BY <1>1, <2>2, ElementOfSeq DEF Lists
    <2> QED
        BY <1>1, <2>3, HeadTailProperties DEF Last, Lists
<1>3. AllTyped(calls)
    <2>1. DOMAIN calls = {LoadFirst} \cup
             (IF requested = None THEN {} ELSE {LoadDetail(requested, None)})
        BY BagOfSet DEF Init
    <2>2. requested \in Ids
        BY <1>2 DEF Init, Ids
    <2> QED
        BY <2>1, <2>2, LoadsAreTyped DEF AllTyped
<1>4. TypeOK
    BY <1>1, <1>2, ListFacts, EditorAssumption DEF Init, TypeOK, Lists, Ids, NoSection
<1> QED
    BY <1>3, <1>4 DEF TypeInv

\* A handler at work asks for its proposal and sets its flag.
LEMMA AsksIsTyped ==
    ASSUME TypeInv, NEW call, Shaped(call), Typed(call), NEW work \in {"update", "create", "service"},
           Asks(call, work), acts' \in 0..MaxActs
    PROVE  TypeInv'
<1> DEFINE d == [call EXCEPT !.seen = selected]
<1>1. d.op = call.op /\ d.proj = call.proj /\ d.ids = call.ids /\ d.svc = call.svc
    BY DEF Shaped
<1>2. calls' = calls (+) SetToBag({d})
    BY DEF Asks
<1> HIDE DEF d
<1>3. AllTyped(calls')
    BY <1>1, <1>2, MoreIsTyped DEF TypeInv, Typed
<1> QED
    BY <1>3 DEF TypeInv, TypeOK, Asks, server, page

LEMMA ServerTypes ==
    ASSUME EditorInv, TypeInv, Server, UNCHANGED acts
    PROVE  TypeInv'
<1> USE DEF TypeInv
<1> PICK call \in InFlight :
        \/ AnswersList(call) \/ AnswersDetail(call)
        \/ StoresUpdate(call) \/ StoresNew(call) \/ StoresService(call)
        \/ Deletes(call)
    BY DEF Server
<1>1. Typed(call) /\ stored \in Lists
    BY DEF AllTyped, InFlight, TypeOK, Lists
<1>2. CASE AnswersList(call)
    <2>1. AllTyped(calls')
        BY <1>1, <1>2, AnswerIsTyped DEF AnswersList
    <2> QED
        BY <1>2, <2>1 DEF AnswersList, TypeOK, server, page
<1>3. CASE AnswersDetail(call)
    <2>1. AllTyped(calls')
        <3>1. (call.proj \in service) \in BOOLEAN
            OBVIOUS
        <3>2. Answered(call, <<>>, call.proj \in service)
            BY <1>3 DEF AnswersDetail
        <3>3. PICK svc \in BOOLEAN : Answered(call, <<>>, svc)
            BY <3>1, <3>2, Zenon
        <3> QED
            BY <3>3, AnswerIsTyped, ListFacts
    <2> QED
        BY <1>3, <2>1 DEF AnswersDetail, TypeOK, server, page
<1>4. CASE StoresUpdate(call)
    <2>1. AllTyped(calls')
        <3>1. (call.proj \in service) \in BOOLEAN
            OBVIOUS
        <3>2. Answered(call, <<>>, call.proj \in service)
            BY <1>4 DEF StoresUpdate
        <3>3. PICK svc \in BOOLEAN : Answered(call, <<>>, svc)
            BY <3>1, <3>2, Zenon
        <3> QED
            BY <3>3, AnswerIsTyped, ListFacts
    <2>2. call.proj \in Proposals
        BY <1>1, <1>4, ListFacts DEF StoresUpdate
    <2>3. stored' \in Lists
        BY <1>1, <1>4, <2>2, WithoutIsList, BeforeIsList DEF StoresUpdate
    <2>4. approved' \subseteq Proposals
        BY <1>4, <2>2 DEF StoresUpdate, TypeOK
    <2> QED
        BY <1>4, <2>1, <2>3, <2>4 DEF StoresUpdate, TypeOK, Lists, page
<1>5. CASE StoresNew(call)
    <2>1. AllTyped(calls')
        BY <1>1, <1>5, AnswerIsTyped, ListFacts DEF StoresNew
    <2>2. stored' \in Lists
        BY <1>1, <1>5, BeforeIsList DEF StoresNew, Typed
    <2> QED
        BY <1>5, <2>1, <2>2 DEF StoresNew, TypeOK, Lists, page
<1>6. CASE StoresService(call)
    <2>1. AllTyped(calls')
        BY <1>1, <1>6, AnswerIsTyped, ListFacts DEF StoresService
    <2>2. service' \subseteq Proposals
        BY <1>1, <1>6, ListFacts DEF StoresService, TypeOK
    <2> QED
        BY <1>6, <2>1, <2>2 DEF StoresService, TypeOK, page
<1>7. CASE Deletes(call)
    <2>1. AllTyped(calls')
        BY <1>1, <1>7, AnswerIsTyped, ListFacts DEF Deletes
    <2>2. stored' \in Lists
        BY <1>1, <1>7, WithoutIsList DEF Deletes
    <2> QED
        BY <1>7, <2>1, <2>2 DEF Deletes, TypeOK, Lists, page
<1> QED
    BY <1>2, <1>3, <1>4, <1>5, <1>6, <1>7

LEMMA UserTypes ==
    ASSUME TypeInv, User, acts' \in 0..MaxActs
    PROVE  TypeInv'
<1>1. detail.id \in Ids /\ listed \in Lists
    BY DEF TypeInv, TypeOK, Lists
<1>2. ASSUME NEW p \in Proposals, Select(p)
      PROVE  TypeInv'
    <2>1. AllTyped(calls') /\ selected' \in Ids
        BY <1>2, SelectsIsTyped DEF Select, TypeInv, Ids
    <2>2. section' \in [of : Ids, saved : BOOLEAN]
        BY <1>2, MountsIsTyped DEF Select, TypeInv, TypeOK
    <2> QED
        BY <1>2, <2>1, <2>2 DEF Select, TypeInv, TypeOK, server
<1>3. ASSUME NEW status, ChangeStatus(status)
      PROVE  TypeInv'
    BY <1>1, <1>3, CallIsTyped, CallIsShaped, AsksIsTyped DEF ChangeStatus
<1>4. CASE SaveForm
    BY <1>1, <1>4, CallIsTyped, CallIsShaped, AsksIsTyped DEF SaveForm
<1>5. CASE ChangeItem
    BY <1>1, <1>5, CallIsTyped, CallIsShaped, AsksIsTyped DEF ChangeItem
<1>6. CASE SaveService
    BY <1>1, <1>6, CallIsTyped, CallIsShaped, AsksIsTyped DEF SaveService
<1>7. ASSUME NEW m \in {"create", "delete"}, OpenModal(m)
      PROVE  TypeInv'
    BY <1>7 DEF OpenModal, TypeInv, TypeOK, server
<1>8. CASE CloseModal
    BY <1>8 DEF CloseModal, TypeInv, TypeOK, server
<1>9. CASE Create
    <2>1. PICK p \in Proposals : Asks(Call("create", p, None, None), "create")
        BY <1>9 DEF Create
    <2> QED
        BY <2>1, CallIsTyped, CallIsShaped, AsksIsTyped DEF Ids
<1>10. CASE Delete
    <2> DEFINE c == [Call("delete", detail.id, None, None) EXCEPT !.ids = listed]
    <2>1. /\ c.op = "delete" /\ c.proj = detail.id /\ c.ids = listed /\ c.svc = FALSE
          /\ Shaped(c)
        BY DEF Call, Shaped
    <2>2. Asks(c, "update")
        BY <1>10 DEF Delete
    <2> HIDE DEF c
    <2>3. Typed(c)
        BY <1>1, <2>1 DEF Typed
    <2> QED
        BY <2>1, <2>2, <2>3, AsksIsTyped
<1> QED
    BY <1>2, <1>3, <1>4, <1>5, <1>6, <1>7, <1>8, <1>9, <1>10 DEF User, InDetail

LEMMA ArrivesTypes ==
    ASSUME TypeInv, Arrives, UNCHANGED acts
    PROVE  TypeInv'
<1> USE DEF TypeInv
<1> PICK call \in InFlight :
        \/ ListArrives(call) \/ DetailArrives(call) \/ LoadFails(call)
        \/ Updated(call) \/ ItemChanged(call) \/ ServiceSaved(call)
        \/ Created(call) \/ Deleted(call) \/ Fails(call)
    BY DEF Arrives
<1>1. Typed(call) /\ AllTyped(Settled(call))
    BY SettledIsTyped DEF AllTyped, InFlight
<1>2. Finished(call) => busy' \subseteq {"update", "create", "service"}
    BY DEF Finished, TypeOK
<1>3. CASE ListArrives(call)
    <2>1. PICK next \in Ids : Selects(next, Settled(call)) /\ Mounts(next, detail)
        BY <1>1, <1>3, ListFacts DEF ListArrives, Typed, TypeOK
    <2>2. AllTyped(calls') /\ selected' \in Ids
        BY <1>1, <2>1, SelectsIsTyped
    <2>3. section' \in [of : Ids, saved : BOOLEAN]
        BY <2>1, MountsIsTyped DEF TypeOK
    <2> QED
        BY <1>1, <1>2, <1>3, <2>2, <2>3 DEF ListArrives, TypeOK, Typed, Lists, server
<1>4. CASE DetailArrives(call)
    <2>1. Shows(call.proj, call.svc) /\ AllTyped(calls')
        BY <1>1, <1>4 DEF DetailArrives
    <2> QED
        BY <1>1, <1>2, <1>4, <2>1, ShowsIsTyped DEF DetailArrives, TypeOK, server
<1>5. CASE LoadFails(call)
    BY <1>1, <1>2, <1>5 DEF LoadFails, TypeOK, server, page
<1>6. CASE Updated(call)
    <2>1. AllTyped(calls')
        BY <1>1, <1>6, MoreIsTyped, LoadsAreTyped DEF Updated, Typed
    <2> QED
        BY <1>6, <2>1 DEF Updated, TypeOK, server, page
<1>7. CASE ItemChanged(call)
    <2>1. Shows(call.proj, call.svc) /\ AllTyped(calls')
        BY <1>1, <1>7, MoreIsTyped, LoadsAreTyped DEF ItemChanged
    <2> QED
        BY <1>1, <1>7, <2>1, ShowsIsTyped DEF ItemChanged, TypeOK, server
<1>8. CASE ServiceSaved(call)
    BY <1>1, <1>8 DEF ServiceSaved, TypeOK, server
<1>9. CASE Created(call)
    <2> DEFINE bag == Settled(call) (+) SetToBag({LoadKeeping(call.seen, "create"),
                                                  LoadDetail(call.proj, "create")})
    <2>1. AllTyped(bag)
        BY <1>1, MoreIsTyped, LoadsAreTyped DEF Typed
    <2>2. Selects(call.proj, bag) /\ Mounts(call.proj, detail)
        BY <1>9 DEF Created
    <2> HIDE DEF bag
    <2>3. AllTyped(calls') /\ selected' \in Ids
        BY <1>1, <2>1, <2>2, SelectsIsTyped DEF Typed
    <2>4. section' \in [of : Ids, saved : BOOLEAN]
        BY <2>2, MountsIsTyped DEF TypeOK
    <2> QED
        BY <1>9, <2>3, <2>4 DEF Created, TypeOK, server
<1>10. CASE Deleted(call)
    <2> DEFINE rest == Without(call.ids, call.proj)
    <2>1. rest \in Lists
        BY <1>1, WithoutIsList DEF Typed
    <2>2. Selects(First(rest), Settled(call)) /\ listed' = rest
        BY <1>10 DEF Deleted
    <2> HIDE DEF rest
    <2>3. AllTyped(calls') /\ selected' \in Ids
        BY <1>1, <2>1, <2>2, ListFacts, SelectsIsTyped
    <2> QED
        BY <1>10, <2>1, <2>2, <2>3 DEF Deleted, TypeOK, Lists, Ids, NoSection, server
<1>11. CASE Fails(call)
    BY <1>1, <1>11 DEF Fails, TypeOK, server, page
<1> QED
    BY <1>3, <1>4, <1>5, <1>6, <1>7, <1>8, <1>9, <1>10, <1>11

LEMMA TypeNext == EditorInv /\ TypeInv /\ [Next]_vars => TypeInv'
<1> SUFFICES ASSUME EditorInv, TypeInv, [Next]_vars PROVE TypeInv'
    OBVIOUS
<1>1. CASE Server /\ UNCHANGED acts
    BY <1>1, ServerTypes
<1>2. CASE Arrives /\ UNCHANGED acts
    BY <1>2, ArrivesTypes
<1>3. CASE User /\ acts < MaxActs /\ acts' = acts + 1
    <2>1. acts' \in 0..MaxActs
        BY <1>3, EditorAssumption DEF TypeInv, TypeOK
    <2> QED
        BY <1>3, <2>1, UserTypes
<1>4. CASE UNCHANGED vars
    BY <1>4 DEF vars, server, page, TypeInv, TypeOK, AllTyped
<1> QED
    BY <1>1, <1>2, <1>3, <1>4 DEF Next

\* The variables keep their types; in particular the queue names each proposal
\* once, on the server and on the screen, in whatever order updates, deletions
\* and loads arrive (handleDeleteProposal takes the proposal out of a queue
\* that it remembers).
THEOREM TypeCorrect == Spec => []TypeOK
<1>1. TypeInv => TypeOK
    BY DEF TypeInv
<1> QED
    BY <1>1, TypeInit, TypeNext, EditorAlways, PTL DEF Spec

-----------------------------------------------------------------------------
\* However many details and selections pass while requests are on their way,
\* what "save" sends to a proposal are fields that came from it
\* (handleProposalMetaSave).
THEOREM FieldsGoHome == Spec => []FormGoesHome
<1>1. EditorInv => FormGoesHome
    BY DEF EditorInv, FormGoesHome, FormFits, AllGood, Good, InFlight
<1> QED
    BY <1>1, EditorAlways, PTL

\* A button is disabled only while a request is under way that will enable it,
\* whichever loads overtake each other (the finally clauses).
THEOREM BusyWorks == Spec => []BusyIsWorking
<1>1. EditorInv => BusyIsWorking
    BY DEF EditorInv, BusyIsWorking, Working, Works, IsLoad, InFlight
<1> QED
    BY <1>1, EditorAlways, PTL

=============================================================================
