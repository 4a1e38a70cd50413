----------------------- MODULE ConversationViewProofs -----------------------
(***************************************************************************)
(* What the message list keeps to, for any number of conversations,        *)
(* messages, bubbles and requests: every message once and in order, one    *)
(* attempt for each sending not confirmed, and a socket subscribed to what *)
(* the tab tracks.                                                         *)
(***************************************************************************)
EXTENDS ConversationView, FiniteSetTheorems, TLAPS

-----------------------------------------------------------------------------
(* The invariant *)

\* Nothing is on the wire of a closed socket, and what the tab tracks is finite.
WireInv ==
    /\ link = "closed" => inbox = <<>> /\ outbox = <<>> /\ subs = {}
    /\ IsFiniteSet(tracked)

\* The tab tracks the conversation whose effect ran last, unless the effect of
\* another one is due.
TrackInv ==
    /\ active \in {None, shown}
    /\ shown \in {None, hydrated} /\ hydrated # None => hydrated \in tracked

\* Each bubble under way has its text, and its own request while it is sending.
Sends == {call \in InFlight : call.op = "send"}
SendInv ==
    /\ DOMAIN status \subseteq DOMAIN pending
    /\ \A k \in DOMAIN status : status[k] = "sending" => \E call \in Sends : call.temp = k
    /\ \A call \in Sends : /\ call.temp \in DOMAIN status /\ status[call.temp] = "sending"
                           /\ calls[call] = 1
    /\ \A a, b \in Sends : a.temp = b.temp => a = b

\* The messages on screen and in the cached copies.
Kept == {view[i] : i \in DOMAIN view}
            \cup UNION {{cache[c][i] : i \in DOMAIN cache[c]} : c \in Convs}

\* A bubble belongs to one conversation.
BubblesAreTold ==
    /\ \A m \in Kept : m.temp <= bubbles
    /\ \A m, n \in Kept : m.temp = n.temp /\ m.temp # 0 => m = n

\* No two positions of P hold the same message.
Distinct(ms, P) == \A i, j \in P : i # j => ms[i] # ms[j]

\* An answer brings stored messages, each once; that to a POST brings one.
GoodAnswer(call) ==
    call.done => /\ \A i \in DOMAIN call.ans : call.ans[i].temp = 0
                 /\ Distinct(call.ans, DOMAIN call.ans)
                 /\ call.op = "send" => Len(call.ans) = 1
AnswersAreGood == \A call \in InFlight : GoodAnswer(call)

ListInv == EachOnceInOrder /\ BubblesAreTold /\ AnswersAreGood

ViewInv ==
    /\ TypeOK /\ WireInv /\ SubscriptionsAgree /\ TrackInv
    /\ SendInv /\ AttemptsAreOwed /\ ListInv

-----------------------------------------------------------------------------
(* Positions in an order *)

\* R orders the positions P, strictly and totally.
Orders(R, P) ==
    /\ \A i \in P : <<i, i>> \notin R
    /\ \A i, j, k \in P : <<i, j>> \in R /\ <<j, k>> \in R => <<i, k>> \in R
    /\ \A i, j \in P : i = j \/ <<i, j>> \in R \/ <<j, i>> \in R

\* A later position has a higher rank.
LEMMA RankGrows ==
    ASSUME NEW P, IsFiniteSet(P), NEW R, Orders(R, P)
    PROVE  /\ \A i \in P : Rank(i, P, R) \in 0 .. Cardinality(P) - 1
           /\ \A i, j \in P : <<i, j>> \in R => Rank(i, P, R) < Rank(j, P, R)
           /\ \A i, j \in P : Rank(i, P, R) = Rank(j, P, R) => i = j
<1> DEFINE Below(i) == {j \in P : <<j, i>> \in R}
<1>1. ASSUME NEW i \in P
      PROVE  /\ IsFiniteSet(Below(i)) /\ Cardinality(Below(i)) \in Nat
             /\ IsFiniteSet(Below(i) \cup {i})
             /\ Cardinality(Below(i) \cup {i}) = Cardinality(Below(i)) + 1
    <2>1. i \notin Below(i) /\ Below(i) \in SUBSET P
        BY DEF Orders
    <2> HIDE DEF Below
    <2>2. IsFiniteSet(Below(i)) /\ Cardinality(Below(i)) \in Nat
        BY <2>1, FS_Subset, FS_CardinalityType
    <2>3. QED
        BY <2>1, <2>2, FS_AddElement
<1>2. ASSUME NEW i \in P PROVE Rank(i, P, R) \in 0 .. Cardinality(P) - 1
    <2>1. Below(i) \cup {i} \in SUBSET P
        OBVIOUS
    <2> HIDE DEF Below
    <2>2. Cardinality(Below(i) \cup {i}) <= Cardinality(P) /\ Cardinality(P) \in Nat
        BY <2>1, FS_Subset, FS_CardinalityType
    <2>3. Rank(i, P, R) = Cardinality(Below(i))
        BY DEF Rank, Below
    <2>4. QED
        BY <1>1, <2>2, <2>3
<1>3. ASSUME NEW i \in P, NEW j \in P, <<i, j>> \in R
      PROVE  Rank(i, P, R) < Rank(j, P, R)
    <2>1. Below(i) \cup {i} \in SUBSET Below(j)
        BY <1>3 DEF Orders
    <2>2. Rank(i, P, R) = Cardinality(Below(i)) /\ Rank(j, P, R) = Cardinality(Below(j))
        BY DEF Rank
    <2> HIDE DEF Below
    <2>3. Cardinality(Below(i) \cup {i}) <= Cardinality(Below(j))
        BY <1>1, <2>1, FS_Subset
    <2>4. Cardinality(Below(i)) \in Nat /\ Cardinality(Below(j)) \in Nat
        BY <1>1
    <2>5. Cardinality(Below(i) \cup {i}) = Cardinality(Below(i)) + 1
        BY <1>1
    <2>6. QED
        BY <2>2, <2>3, <2>4, <2>5
<1>4. ASSUME NEW i \in P, NEW j \in P, Rank(i, P, R) = Rank(j, P, R)
      PROVE  i = j
    <2>1. Rank(i, P, R) \in Int /\ Rank(j, P, R) \in Int
        BY <1>2
    <2>2. <<i, j>> \notin R /\ <<j, i>> \notin R
        BY <1>3, <1>4, <2>1
    <2>3. QED
        BY <2>2 DEF Orders
<1>5. QED
    BY <1>2, <1>3, <1>4

\* Every rank is taken, by one position.
LEMMA RankIsTaken ==
    ASSUME NEW P, IsFiniteSet(P), NEW R, Orders(R, P),
           NEW k \in 1..Cardinality(P)
    PROVE  \E i \in P : Rank(i, P, R) = k - 1
<1> DEFINE n == Cardinality(P)
           T == 0 .. n - 1
           f == [i \in P |-> Rank(i, P, R)]
<1>1. n \in Nat
    BY FS_CardinalityType
<1> HIDE DEF n
<1>2. IsFiniteSet(T) /\ Cardinality(T) = n
    BY <1>1, FS_Interval
<1>a. \A i \in P : Rank(i, P, R) \in 0 .. Cardinality(P) - 1
    BY RankGrows
<1>b. \A i, j \in P : Rank(i, P, R) = Rank(j, P, R) => i = j
    BY RankGrows
<1>3. f \in [P -> T]
    BY <1>a DEF n
<1>4. \A i, j \in P : f[i] = f[j] => i = j
    BY <1>b
<1>5. f \in Injection(P, T)
    BY <1>3, <1>4 DEF Injection, IsInjective
<1> HIDE DEF f, T
<1>6. f \in Surjection(P, T)
    BY <1>2, <1>5, FS_Injection DEF n
<1>7. k - 1 \in T
    BY <1>1 DEF n, T
<1>8. QED
    BY <1>6, <1>7 DEF Surjection, f

\* What Arranged lists: each position of P once, in the order R.
LEMMA ArrangedFacts ==
    ASSUME NEW ms, NEW P, IsFiniteSet(P), NEW R, Orders(R, P)
    PROVE  \E f \in [1..Cardinality(P) -> P] :
              /\ Arranged(ms, P, R) = [k \in 1..Cardinality(P) |-> ms[f[k]]]
              /\ \A k, l \in 1..Cardinality(P) : k < l => <<f[k], f[l]>> \in R
              /\ \A i \in P : \E k \in 1..Cardinality(P) : f[k] = i
<1> DEFINE n == Cardinality(P)
           f == [k \in 1..n |-> CHOOSE i \in P : Rank(i, P, R) = k - 1]
<1>0. n \in Nat
    BY FS_CardinalityType
<1>1. \A k \in 1..n : f[k] \in P /\ Rank(f[k], P, R) = k - 1
    BY RankIsTaken
<1>2. f \in [1..n -> P]
    BY <1>1
<1>3. Arranged(ms, P, R) = [k \in 1..n |-> ms[f[k]]]
    BY DEF Arranged
<1> HIDE DEF f
<1>4. ASSUME NEW k \in 1..n, NEW l \in 1..n, k < l PROVE <<f[k], f[l]>> \in R
    <2>1. f[k] \in P /\ f[l] \in P /\ ~(Rank(f[l], P, R) <= Rank(f[k], P, R))
        BY <1>0, <1>1, <1>4
    <2>2. f[k] # f[l]
        BY <1>0, <1>1, <1>4
    <2>3. <<f[l], f[k]>> \notin R
        BY <1>0, <1>1, <1>4, <2>1, RankGrows
    <2>4. QED
        BY <2>1, <2>2, <2>3 DEF Orders
<1>5. ASSUME NEW i \in P PROVE \E k \in 1..n : f[k] = i
    <2>1. PICK r \in 0 .. n - 1 : Rank(i, P, R) = r
        BY RankGrows
    <2>2. r + 1 \in 1..n /\ f[r + 1] \in P /\ Rank(f[r + 1], P, R) = r
        BY <1>0, <1>1
    <2>3. i = f[r + 1]
        BY <2>1, <2>2, RankGrows
    <2>4. QED
        BY <2>2, <2>3
<1>6. QED
    BY <1>2, <1>3, <1>4, <1>5

-----------------------------------------------------------------------------
(* Lists of messages *)

\* A list with nothing in it is a list of messages.
LEMMA NoMessages == <<>> \in Seq(Messages)
OBVIOUS

LEMMA PositionsAreFinite ==
    ASSUME NEW ms \in Seq(Messages), NEW P \in SUBSET DOMAIN ms
    PROVE  IsFiniteSet(P) /\ Cardinality(P) \in Nat
<1>1. Len(ms) \in Nat /\ DOMAIN ms = 1..Len(ms)
    OBVIOUS
<1>2. IsFiniteSet(1..Len(ms))
    BY <1>1, FS_Interval
<1>3. QED
    BY <1>1, <1>2, FS_Subset, FS_CardinalityType

\* The number of a message, and what tells messages apart.
LEMMA MessageFacts ==
    /\ \A m \in Messages : m.seq \in Nat /\ m.temp \in 0..MaxBubbles /\ m.conv \in Convs
    /\ \A m \in Messages : m.temp = 0 => m.seq <= MaxMessages
    /\ \A m \in Messages : m.temp # 0 => m.seq = MaxMessages + m.temp
    /\ \A m, n \in Messages : m.temp = n.temp /\ m.conv = n.conv /\ m.temp # 0 => m = n
BY ViewAssumption DEF Messages, Stored, Bubble

\* The order of sort, of any positions of a list.
LEMMA BeforeOrders ==
    ASSUME NEW ms \in Seq(Messages), NEW P \in SUBSET DOMAIN ms
    PROVE  Orders(Before(ms, P), P)
<1>1. \A i \in P : i \in Nat /\ ms[i].seq \in Nat
    BY MessageFacts
<1>2. \A i, j \in P : <<i, j>> \in Before(ms, P) <=>
            \/ ms[i].seq < ms[j].seq
            \/ ms[i].seq = ms[j].seq /\ i < j
    BY DEF Before
<1>3. QED
    BY <1>1, <1>2 DEF Orders

\* Some messages of a list, sorted: the same messages, in order.
LEMMA SortedPart ==
    ASSUME NEW ms \in Seq(Messages), NEW P \in SUBSET DOMAIN ms,
           NEW all, all = Arranged(ms, P, Before(ms, P))
    PROVE  /\ all \in Seq(Messages)
           /\ \A k \in DOMAIN all : \E i \in P : all[k] = ms[i]
           /\ Distinct(ms, P) => InOrder(all)
<1> DEFINE n == Cardinality(P)
<1>1. IsFiniteSet(P) /\ n \in Nat /\ Orders(Before(ms, P), P)
    BY PositionsAreFinite, BeforeOrders
<1> HIDE DEF n
<1>2. PICK f \in [1..n -> P] :
        /\ all = [k \in 1..n |-> ms[f[k]]]
        /\ \A k, l \in 1..n : k < l => <<f[k], f[l]>> \in Before(ms, P)
    BY <1>1, ArrangedFacts DEF n
<1>3. \A k \in 1..n : f[k] \in P /\ all[k] = ms[f[k]] /\ all[k] \in Messages
    BY <1>2
<1>4. all \in Seq(Messages) /\ DOMAIN all = 1..n
    BY <1>1, <1>2, <1>3
<1>5. ASSUME Distinct(ms, P), NEW k \in 1..n, NEW l \in 1..n, k < l
      PROVE  all[k].seq <= all[l].seq /\ all[k] # all[l]
    <2>a. <<f[k], f[l]>> \in Before(ms, P)
        BY <1>2, <1>5
    <2>1. /\ f[k] # f[l]
          /\ ms[f[k]].seq < ms[f[l]].seq \/ ms[f[k]].seq = ms[f[l]].seq
        BY <2>a, <1>1, <1>3 DEF Before, Orders
    <2>2. ms[f[k]].seq \in Nat /\ ms[f[l]].seq \in Nat
        BY <1>3, MessageFacts
    <2>3. f[k] \in P /\ f[l] \in P /\ all[k] = ms[f[k]] /\ all[l] = ms[f[l]]
        BY <1>3
    <2>4. ms[f[k]] # ms[f[l]]
        BY <1>5, <2>1, <2>3 DEF Distinct
    <2>5. QED
        BY <2>1, <2>2, <2>3, <2>4
<1>6. QED
    BY <1>3, <1>4, <1>5 DEF InOrder

\* A list, sorted.
LEMMA SortedFacts ==
    ASSUME NEW ms \in Seq(Messages)
    PROVE  /\ Sorted(ms) \in Seq(Messages)
           /\ \A k \in DOMAIN Sorted(ms) : \E i \in DOMAIN ms : Sorted(ms)[k] = ms[i]
           /\ Distinct(ms, DOMAIN ms) => InOrder(Sorted(ms))
BY SortedPart DEF Sorted

\* A filtered list is in order if the list was.
LEMMA FilteredFacts ==
    ASSUME NEW ms \in Seq(Messages), NEW P \in SUBSET DOMAIN ms
    PROVE  /\ Filtered(ms, P) \in Seq(Messages)
           /\ \A k \in DOMAIN Filtered(ms, P) : \E i \in P : Filtered(ms, P)[k] = ms[i]
           /\ InOrder(ms) => InOrder(Filtered(ms, P))
<1> DEFINE n == Cardinality(P)
           R == {pair \in P \X P : pair[1] < pair[2]}
           kept == Filtered(ms, P)
<1>1. IsFiniteSet(P) /\ n \in Nat
    BY PositionsAreFinite
<1>2. Orders(R, P)
    BY DEF Orders
<1>3. kept = Arranged(ms, P, R)
    BY DEF Filtered
<1>4. \A i, j \in P : <<i, j>> \in R => i < j
    OBVIOUS
<1> HIDE DEF n, R, kept
<1>5. PICK f \in [1..n -> P] :
        /\ kept = [k \in 1..n |-> ms[f[k]]]
        /\ \A k, l \in 1..n : k < l => <<f[k], f[l]>> \in R
    BY <1>1, <1>2, <1>3, ArrangedFacts DEF n
<1>6. \A k \in 1..n : f[k] \in P /\ kept[k] = ms[f[k]] /\ kept[k] \in Messages
    BY <1>5
<1>7. kept \in Seq(Messages) /\ DOMAIN kept = 1..n
    BY <1>1, <1>5, <1>6
<1>8. InOrder(ms) => InOrder(kept)
    <2>1. ASSUME InOrder(ms), NEW k \in 1..n, NEW l \in 1..n, k < l
          PROVE  kept[k].seq <= kept[l].seq /\ kept[k] # kept[l]
        <3>1. f[k] < f[l] /\ f[k] \in DOMAIN ms /\ f[l] \in DOMAIN ms
            BY <1>4, <1>5, <2>1
        <3>2. QED
            BY <1>6, <2>1, <3>1 DEF InOrder
    <2>2. QED
        BY <1>7, <2>1 DEF InOrder
<1>9. QED
    BY <1>6, <1>7, <1>8 DEF kept

\* The end of a list is in order if the list is.
LEMMA PartInOrder ==
    ASSUME NEW ms \in Seq(Messages), NEW a \in 1 .. Len(ms) + 1, NEW b \in 0..Len(ms)
    PROVE  /\ SubSeq(ms, a, b) \in Seq(Messages)
           /\ \A k \in DOMAIN SubSeq(ms, a, b) :
                \E i \in DOMAIN ms : SubSeq(ms, a, b)[k] = ms[i]
           /\ InOrder(ms) => InOrder(SubSeq(ms, a, b))
<1> DEFINE part == SubSeq(ms, a, b)
           n    == IF a <= b THEN b - a + 1 ELSE 0
<1>1. /\ part \in Seq(Messages) /\ DOMAIN part = 1..n
      /\ \A k \in 1..n : part[k] = ms[a + k - 1] /\ a + k - 1 \in DOMAIN ms
    OBVIOUS
<1> HIDE DEF part
<1>2. \A k, l \in 1..n : k < l => a + k - 1 < a + l - 1
    OBVIOUS
<1> HIDE DEF n
<1>3. InOrder(ms) => InOrder(part)
    BY <1>1, <1>2 DEF InOrder
<1>4. QED
    BY <1>1, <1>3 DEF part

\* What the cache keeps of a list is in order, without doubles.
LEMMA NormalizeFacts ==
    ASSUME NEW ms \in Seq(Messages)
    PROVE  /\ Normalize(ms) \in Seq(Messages) /\ InOrder(Normalize(ms))
           /\ \A k \in DOMAIN Normalize(ms) : \E i \in DOMAIN ms : Normalize(ms)[k] = ms[i]
<1> DEFINE once == {i \in DOMAIN ms : \A j \in DOMAIN ms : j < i => ms[j] # ms[i]}
           all  == Arranged(ms, once, Before(ms, once))
           cut  == IF Len(all) > CacheSize THEN Len(all) - CacheSize ELSE 0
<1>1. once \in SUBSET DOMAIN ms /\ Distinct(ms, once)
    BY DEF Distinct
<1>2. Normalize(ms) = SubSeq(all, cut + 1, Len(all))
    BY DEF Normalize
<1> HIDE DEF once
<1>3. /\ all \in Seq(Messages) /\ InOrder(all)
      /\ \A k \in DOMAIN all : \E i \in DOMAIN ms : all[k] = ms[i]
    BY <1>1, SortedPart
<1> HIDE DEF all
<1>4. cut + 1 \in 1 .. Len(all) + 1 /\ Len(all) \in 0..Len(all)
    BY <1>3, ViewAssumption
<1> HIDE DEF cut
<1> DEFINE part == SubSeq(all, cut + 1, Len(all))
<1>5. /\ part \in Seq(Messages) /\ InOrder(part)
      /\ \A k \in DOMAIN part : \E i \in DOMAIN all : part[k] = all[i]
    BY <1>3, <1>4, PartInOrder
<1> HIDE DEF part
<1>6. \A k \in DOMAIN part : \E i \in DOMAIN ms : part[k] = ms[i]
    BY <1>3, <1>5
<1>7. QED
    BY <1>2, <1>5, <1>6 DEF part

\* A page of what is stored: each message once, in order.
LEMMA FirstPageFacts ==
    ASSUME NEW c \in Convs, stored[c] \subseteq 1..MaxMessages
    PROVE  /\ FirstPage(c) \in Seq(Messages) /\ InOrder(FirstPage(c))
           /\ \A k \in DOMAIN FirstPage(c) : FirstPage(c)[k].temp = 0
<1> DEFINE S   == {Stored(c, n) : n \in stored[c]}
           all == SetToSeq(S)
<1>1. S \subseteq Messages /\ \A m \in S : m.temp = 0
    BY DEF Messages, Stored
<1>2. IsFiniteSet(S)
    <2>1. IsFiniteSet(1..MaxMessages)
        BY FS_Interval, ViewAssumption
    <2>2. IsFiniteSet(stored[c])
        BY <2>1, FS_Subset
    <2> DEFINE f == [n \in stored[c] |-> Stored(c, n)]
    <2>3. f \in Surjection(stored[c], S)
        BY DEF Surjection
    <2> HIDE DEF f, S
    <2>4. QED
        BY <2>2, <2>3, FS_Surjection
<1> HIDE DEF S
<1>3. Cardinality(S) \in Nat /\ ExistsBijection(1..Cardinality(S), S)
    BY <1>2, FS_CardinalityType
<1>4. all \in [1..Cardinality(S) -> S] /\ IsInjective(all)
    <2>1. PICK f \in [1..Cardinality(S) -> S] : IsInjective(f)
        BY <1>3 DEF ExistsBijection, Bijection, Injection
    <2>2. QED
        BY <2>1 DEF SetToSeq
<1>5. all \in Seq(Messages) /\ \A i \in DOMAIN all : all[i].temp = 0
    BY <1>1, <1>3, <1>4
<1>6. Distinct(all, DOMAIN all)
    BY <1>4 DEF Distinct, IsInjective
<1>7. FirstPage(c) = SubSeq(Sorted(all), 1,
                        IF Len(Sorted(all)) > PageSize THEN PageSize ELSE Len(Sorted(all)))
    BY DEF FirstPage, S
<1> HIDE DEF all
<1> DEFINE sort == Sorted(all)
           n    == IF Len(sort) > PageSize THEN PageSize ELSE Len(sort)
<1>8. /\ sort \in Seq(Messages) /\ InOrder(sort)
      /\ \A k \in DOMAIN sort : sort[k].temp = 0
    BY <1>5, <1>6, SortedFacts
<1>9. FirstPage(c) = SubSeq(sort, 1, n)
    BY <1>7
<1> HIDE DEF sort
<1>10. 1 \in 1 .. Len(sort) + 1 /\ n \in 0..Len(sort)
    BY <1>8, ViewAssumption
<1> HIDE DEF n
<1> DEFINE page == SubSeq(sort, 1, n)
<1>11. /\ page \in Seq(Messages) /\ InOrder(page)
       /\ \A k \in DOMAIN page : \E i \in DOMAIN sort : page[k] = sort[i]
    BY <1>8, <1>10, PartInOrder
<1> HIDE DEF page
<1>12. \A k \in DOMAIN page : page[k].temp = 0
    BY <1>8, <1>11
<1>13. QED
    BY <1>9, <1>11, <1>12 DEF page

\* A new bubble goes to the end.
LEMMA AppendedInOrder ==
    ASSUME NEW ms \in Seq(Messages), NEW m \in Messages, InOrder(ms),
           \A i \in DOMAIN ms : ms[i].seq < m.seq
    PROVE  /\ Append(ms, m) \in Seq(Messages) /\ InOrder(Append(ms, m))
           /\ \A i \in DOMAIN Append(ms, m) :
                Append(ms, m)[i] = m \/ \E j \in DOMAIN ms : Append(ms, m)[i] = ms[j]
<1> DEFINE more == Append(ms, m)
<1>1. /\ more \in Seq(Messages) /\ DOMAIN more = 1 .. Len(ms) + 1 /\ Len(ms) \in Nat
      /\ DOMAIN ms = 1..Len(ms)
      /\ \A i \in 1..Len(ms) : more[i] = ms[i]
      /\ more[Len(ms) + 1] = m
    OBVIOUS
<1>2. \A i \in DOMAIN ms : ms[i].seq \in Nat
    BY MessageFacts
<1>3. m.seq \in Nat
    BY MessageFacts
<1> HIDE DEF more
<1>4. ASSUME NEW i \in DOMAIN more, NEW j \in DOMAIN more, i < j
      PROVE  more[i].seq <= more[j].seq /\ more[i] # more[j]
    <2>1. i \in DOMAIN ms /\ more[i] = ms[i] /\ (j \in DOMAIN ms \/ j = Len(ms) + 1)
        BY <1>1, <1>4
    <2>2. CASE j \in DOMAIN ms
        BY <1>1, <1>4, <2>1, <2>2 DEF InOrder
    <2>3. CASE j = Len(ms) + 1
        BY <1>1, <1>2, <1>3, <2>1, <2>3
    <2>4. QED
        BY <2>1, <2>2, <2>3
<1>5. \A i \in DOMAIN more : more[i] = m \/ \E j \in DOMAIN ms : more[i] = ms[j]
    BY <1>1
<1>6. QED
    BY <1>1, <1>4, <1>5 DEF InOrder, more

-----------------------------------------------------------------------------
(* Requests *)

\* The bag of some requests.
LEMMA BagOf ==
    ASSUME NEW S
    PROVE  /\ IsABag(SetToBag(S)) /\ DOMAIN SetToBag(S) = S
           /\ \A x \in S : SetToBag(S)[x] = 1
BY DEF IsABag, SetToBag

\* Requests that are made come on top of the others.
LEMMA BagSum ==
    ASSUME NEW A, NEW B, IsABag(A), IsABag(B)
    PROVE  /\ IsABag(A (+) B) /\ DOMAIN (A (+) B) = DOMAIN A \cup DOMAIN B
BY DEF IsABag, (+)

LEMMA AskedCounts ==
    ASSUME NEW B, IsABag(B), NEW more, IsABag(more), calls' = B (+) more
    PROVE  /\ \A x \in DOMAIN B \ DOMAIN more : calls'[x] = B[x]
           /\ \A x \in DOMAIN more \ DOMAIN B : calls'[x] = more[x]
BY DEF IsABag, (+)

\* Settling a request leaves every other one, and one of several of its kind.
LEMMA BagSettled ==
    ASSUME NEW B, IsABag(B), NEW x
    PROVE  /\ IsABag(B (-) SetToBag({x})) /\ DOMAIN (B (-) SetToBag({x})) \subseteq DOMAIN B
           /\ \A y \in DOMAIN B \ {x} :
                y \in DOMAIN (B (-) SetToBag({x})) /\ (B (-) SetToBag({x}))[y] = B[y]
           /\ B[x] = 1 => x \notin DOMAIN (B (-) SetToBag({x}))
BY DEF IsABag, (-), SetToBag

\* A request that was made.
LEMMA CallIsTyped ==
    \A op \in {"fetch", "mark read", "send", "retry", "upload", "delete"}, c \in Convs, k \in 0..MaxBubbles :
        /\ Call(op, c, k) \in Calls /\ Call(op, c, k).done = FALSE
        /\ Call(op, c, k).op = op /\ Call(op, c, k).temp = k
BY NoMessages DEF Call, Calls

\* Requests made, on top of the bag of those under way.
LEMMA AskedKeeps ==
    ASSUME CallTypes, NEW B, IsABag(B), DOMAIN B \subseteq InFlight,
           NEW more, IsABag(more), DOMAIN more \subseteq Calls, calls' = B (+) more
    PROVE  CallTypes' /\ InFlight' = DOMAIN B \cup DOMAIN more
<1>1. IsABag(B (+) more) /\ DOMAIN (B (+) more) = DOMAIN B \cup DOMAIN more
    BY BagSum
<1>2. QED
    BY <1>1 DEF CallTypes, InFlight

\* A request that is settled or answered.
LEMMA SettledKeeps ==
    ASSUME CallTypes, NEW call \in InFlight
    PROVE  /\ IsABag(Settled(call)) /\ DOMAIN Settled(call) \subseteq InFlight
           /\ calls' = Settled(call) => CallTypes' /\ InFlight' \subseteq InFlight
<1>1. IsABag(Settled(call)) /\ DOMAIN Settled(call) \subseteq DOMAIN calls
    BY BagSettled DEF CallTypes, Settled
<1>2. QED
    BY <1>1 DEF CallTypes, InFlight

LEMMA AnsweredKeeps ==
    ASSUME CallTypes, NEW call \in InFlight, NEW ans \in Seq(Messages), Answered(call, ans)
    PROVE  /\ CallTypes'
           /\ InFlight' \subseteq InFlight \cup {[call EXCEPT !.done = TRUE, !.ans = ans]}
<1>1. [call EXCEPT !.done = TRUE, !.ans = ans] \in Calls
    BY DEF CallTypes, Calls
<1>2. IsABag(Settled(call)) /\ DOMAIN Settled(call) \subseteq InFlight
    BY SettledKeeps
<1>3. QED
    BY <1>1, <1>2, AskedKeeps, BagOf DEF Answered

-----------------------------------------------------------------------------
(* The types *)

LEMMA TypeInit == Init => TypeOK
<1> SUFFICES ASSUME Init PROVE TypeOK
    OBVIOUS
<1> USE ViewAssumption DEF Init
<1>1. ServerTypes /\ SocketTypes
    BY DEF ServerTypes, SocketTypes
<1>2. ListTypes
    BY NoMessages DEF ListTypes
<1>3. SendTypes
    BY DEF SendTypes
<1>4. CallTypes
    <2>1. EmptyBag = SetToBag({})
        BY DEF EmptyBag
    <2>2. IsABag(calls) /\ DOMAIN calls = {}
        BY <2>1, BagOf
    <2>3. QED
        BY <2>2 DEF CallTypes, InFlight
<1>5. QED
    BY <1>1, <1>2, <1>3, <1>4 DEF TypeOK

\* A list that is shown and saved.
LEMMA ShownIsTyped ==
    ASSUME ListTypes, NEW c \in Convs, NEW ms \in Seq(Messages), ShowAndSave(c, ms),
           UNCHANGED <<opened, requested>>
    PROVE  ListTypes'
BY NormalizeFacts DEF ListTypes, ShowAndSave, opened

LEMMA CachedIsTyped ==
    ASSUME ListTypes, NEW c \in Convs, ShowCached(c),
           {shown', active', hydrated'} \subseteq Convs \cup {None}
    PROVE  ListTypes'
BY DEF ListTypes, ShowCached

\* What is on the wire, when something is written or taken.
LEMMA WireTypes ==
    ASSUME SocketTypes
    PROVE  /\ \A events \in Seq(Events) : Pushed(events) \in Seq(Events)
           /\ \A frames \in Seq(Frames) : Written(frames) \in Seq(Frames)
           /\ inbox # <<>> => Head(inbox) \in Events /\ Tail(inbox) \in Seq(Events)
           /\ outbox # <<>> => Head(outbox) \in Frames /\ Tail(outbox) \in Seq(Frames)
<1> USE DEF SocketTypes
<1>1. \A events \in Seq(Events) : inbox \o events \in Seq(Events)
    OBVIOUS
<1>2. \A frames \in Seq(Frames) : outbox \o frames \in Seq(Frames)
    OBVIOUS
<1>3. QED
    BY <1>1, <1>2 DEF Pushed, Written

\* A message that is announced.
LEMMA EventIsTyped ==
    ASSUME NEW c \in Convs, NEW n \in 1..MaxMessages
    PROVE  /\ NewMessage(c, n) \in Seq(Events)
           /\ Deletion(c, n) \in Seq(Events)
           /\ <<>> \in Seq(Events)
<1>1. \A e \in Events : <<e>> \in Seq(Events)
    OBVIOUS
<1>2. <<>> \in Seq(Events)
    OBVIOUS
<1>3. \A type \in {"new_message", "message_deleted"} :
        [type |-> type, conv |-> c, seq |-> n] \in Events
    BY DEF Events
<1>4. QED
    BY <1>1, <1>2, <1>3 DEF NewMessage, Deletion

\* The server's tables.
LEMMA ServerTypesStep ==
    ASSUME TypeOK, [Next]_vars
    PROVE  ServerTypes'
<1> USE DEF TypeOK, ServerTypes
<1>1. CASE ServerReceives
    <2>1. Head(outbox).conv \in Convs
        BY <1>1, WireTypes DEF ServerReceives, Frames
    <2>2. QED
        BY <1>1, <2>1 DEF ServerReceives
<1>2. ASSUME NEW c \in Convs, MessageArrives(c) PROVE ServerTypes'
    BY <1>2, ViewAssumption DEF MessageArrives
<1>3. ASSUME NEW c \in Convs, NEW n \in stored[c], MessageDeleted(c, n) PROVE ServerTypes'
    BY <1>3 DEF MessageDeleted
<1>4. ASSUME NEW call \in InFlight, AnswersSend(call) PROVE ServerTypes'
    <2>1. call.conv \in Convs
        BY DEF CallTypes, Calls
    <2>2. QED
        BY <1>4, <2>1, ViewAssumption DEF AnswersSend
<1>d. ASSUME NEW call \in InFlight, AnswersDelete(call) PROVE ServerTypes'
    BY <1>d DEF AnswersDelete
<1>5. CASE Drop \/ Reload
    BY <1>5 DEF Drop, Reload
<1>6. CASE EventArrives \/ Hydrate \/ Connect \/ ActiveVanishes \/ Upload \/ Delete
           \/ UNCHANGED vars
    BY <1>6 DEF EventArrives, Hydrate, Connect, ActiveVanishes, Upload, Delete, server, vars
<1>t. ASSUME NEW t \in Texts, Send(t) PROVE ServerTypes'
    BY <1>t DEF Send, StartSend, server
<1>7. ASSUME NEW call \in InFlight,
             \/ AnswersFetch(call) \/ MarkReadSettles(call)
             \/ FetchSucceeds(call) \/ FetchFails(call) \/ SendSucceeds(call)
             \/ SendFails(call) \/ RetrySucceeds(call) \/ RetryFails(call)
             \/ UploadSucceeds(call) \/ UploadFails(call)
             \/ DeleteSucceeds(call) \/ DeleteFails(call)
      PROVE  ServerTypes'
    BY <1>7 DEF AnswersFetch, MarkReadSettles, FetchSucceeds, FetchFails, SendSucceeds,
                SendFails, RetrySucceeds, RetryFails, UploadSucceeds, UploadFails,
                DeleteSucceeds, DeleteFails, StartSend, server
<1>8. ASSUME NEW c \in Convs, NEW unread \in BOOLEAN, Click(c, unread) \/ FollowLink(c, unread)
      PROVE  ServerTypes'
    BY <1>8 DEF Click, FollowLink, Open, server
<1>9. ASSUME NEW j \in DOMAIN view, RetryBubble(j) \/ RetryStored(j) PROVE ServerTypes'
    BY <1>9 DEF RetryBubble, RetryStored, StartSend, server
<1>10. QED
    BY <1>1, <1>2, <1>3, <1>4, <1>d, <1>5, <1>6, <1>t, <1>7, <1>8, <1>9
    DEF Next, Server, Answers, User, Elsewhere

\* Frames that are written are frames.
LEMMA FramesAreTyped ==
    ASSUME NEW c \in Convs, NEW d \in Convs
    PROVE  /\ <<>> \in Seq(Frames)
           /\ <<Frame("subscribe", c)>> \in Seq(Frames)
           /\ <<Frame("unsubscribe", d)>> \in Seq(Frames)
           /\ \A f, g, h \in Seq(Frames) : f \o g \o h \in Seq(Frames)
<1>1. \A f \in Frames : <<f>> \in Seq(Frames)
    OBVIOUS
<1>2. Frame("subscribe", c) \in Frames /\ Frame("unsubscribe", d) \in Frames
    BY DEF Frame, Frames
<1>3. <<>> \in Seq(Frames) /\ \A f, g, h \in Seq(Frames) : f \o g \o h \in Seq(Frames)
    OBVIOUS
<1>4. QED
    BY <1>1, <1>2, <1>3

\* The frames of a click: the conversation that is left, then the new one, once
\* by the effect and once by the click itself.
LEMMA OpenFrames ==
    ASSUME TypeOK, NEW c \in Convs, NEW unread \in BOOLEAN, NEW effect \in BOOLEAN
    PROVE  (IF Left(c) = {} THEN <<>> ELSE <<Frame("unsubscribe", active)>>)
           \o (IF effect THEN <<Frame("subscribe", c)>> ELSE <<>>)
           \o (IF unread THEN <<>> ELSE <<Frame("subscribe", c)>>) \in Seq(Frames)
<1>1. Left(c) # {} => active \in Convs
    BY DEF TypeOK, ListTypes, Left
<1>2. Left(c) # {} => <<Frame("unsubscribe", active)>> \in Seq(Frames)
    BY <1>1, FramesAreTyped
<1>3. QED
    BY <1>2, FramesAreTyped

\* The socket.
LEMMA SocketTypesStep ==
    ASSUME TypeOK, WireInv, [Next]_vars
    PROVE  SocketTypes'
<1> USE DEF TypeOK
<1>a. /\ link \in {"open", "closed"} /\ tracked \subseteq Convs
      /\ inbox \in Seq(Events) /\ outbox \in Seq(Frames)
      /\ <<>> \in Seq(Events) /\ <<>> \in Seq(Frames)
    BY DEF SocketTypes
<1>1. CASE ServerReceives
    BY <1>1, <1>a, WireTypes DEF ServerReceives, SocketTypes
<1>2. ASSUME NEW c \in Convs, MessageArrives(c) PROVE SocketTypes'
    <2>1. last[c] + 1 \in 1..MaxMessages
        BY <1>2, ViewAssumption DEF MessageArrives, ServerTypes
    <2>2. inbox' \in Seq(Events)
        BY <1>2, <2>1, EventIsTyped, WireTypes DEF MessageArrives
    <2>3. QED
        BY <1>2, <1>a, <2>2 DEF MessageArrives, SocketTypes
<1>3. ASSUME NEW c \in Convs, NEW n \in stored[c], MessageDeleted(c, n) PROVE SocketTypes'
    <2>1. n \in 1..MaxMessages
        BY DEF ServerTypes
    <2>2. inbox' \in Seq(Events)
        BY <1>3, <2>1, EventIsTyped, WireTypes DEF MessageDeleted
    <2>3. QED
        BY <1>3, <1>a, <2>2 DEF MessageDeleted, SocketTypes
<1>4. ASSUME NEW call \in InFlight, AnswersSend(call) PROVE SocketTypes'
    <2>1. call.conv \in Convs
        BY DEF CallTypes, Calls
    <2>2. last[call.conv] + 1 \in 1..MaxMessages
        BY <1>4, <2>1, ViewAssumption DEF AnswersSend, ServerTypes
    <2>3. inbox' \in Seq(Events)
        BY <1>4, <2>1, <2>2, EventIsTyped, WireTypes DEF AnswersSend
    <2>4. QED
        BY <1>4, <1>a, <2>3 DEF AnswersSend, SocketTypes
<1>d. ASSUME NEW call \in InFlight, AnswersDelete(call) PROVE SocketTypes'
    <2>1. call.conv \in Convs
        BY DEF CallTypes, Calls
    <2>2. PICK n \in stored[call.conv] : inbox' = Pushed(Deletion(call.conv, n))
        BY <1>d DEF AnswersDelete
    <2>3. n \in 1..MaxMessages
        BY <2>1 DEF ServerTypes
    <2>4. inbox' \in Seq(Events)
        BY <2>1, <2>2, <2>3, EventIsTyped, WireTypes
    <2>5. QED
        BY <1>d, <1>a, <2>4 DEF AnswersDelete, SocketTypes
<1>5. CASE Drop \/ Reload
    BY <1>5, <1>a DEF Drop, Reload, SocketTypes, ListTypes
<1>6. CASE EventArrives
    BY <1>6, <1>a, WireTypes DEF EventArrives, SocketTypes
<1>7. CASE Hydrate
    <2>1. shown \in Convs
        BY <1>7 DEF Hydrate, ListTypes
    <2>2. QED
        BY <1>7, <1>a, <2>1, FramesAreTyped, WireTypes DEF Hydrate, SocketTypes
<1>8. CASE Connect
    <2>1. PICK ids \in SetToSeqs(tracked) :
            outbox' = [i \in DOMAIN ids |-> Frame("subscribe", ids[i])]
        BY <1>8 DEF Connect
    <2>2. Cardinality(tracked) \in Nat
        BY FS_CardinalityType DEF WireInv
    <2>3. ids \in [1..Cardinality(tracked) -> tracked]
        BY <2>1 DEF SetToSeqs
    <2>4. \A i \in 1..Cardinality(tracked) : Frame("subscribe", ids[i]) \in Frames
        BY <1>a, <2>3 DEF Frame, Frames
    <2>5. outbox' \in Seq(Frames)
        BY <2>1, <2>2, <2>3, <2>4
    <2>6. QED
        BY <1>8, <1>a, <2>5 DEF Connect, SocketTypes
<1>9. ASSUME NEW c \in Convs, NEW unread \in BOOLEAN, NEW effects \in BOOLEAN,
             Open(c, unread, effects)
      PROVE  SocketTypes'
    <2>1. outbox' \in Seq(Frames)
        BY <1>9, <1>a, OpenFrames, WireTypes DEF Open
    <2>2. tracked' \subseteq Convs
        BY <1>9, <1>a DEF Open
    <2>3. UNCHANGED <<link, inbox>>
        BY <1>9 DEF Open
    <2>4. QED
        BY <1>a, <2>1, <2>2, <2>3 DEF SocketTypes
<1>10. ASSUME NEW call \in InFlight, MarkReadSettles(call) PROVE SocketTypes'
    <2>1. call.conv \in Convs
        BY DEF CallTypes, Calls
    <2>2. outbox' \in Seq(Frames)
        BY <1>10, <2>1, FramesAreTyped, WireTypes DEF MarkReadSettles
    <2>3. QED
        BY <1>10, <1>a, <2>1, <2>2 DEF MarkReadSettles, SocketTypes
<1>11. CASE ActiveVanishes \/ Upload \/ Delete \/ UNCHANGED vars
    BY <1>11, <1>a DEF ActiveVanishes, Upload, Delete, socket, vars, SocketTypes
<1>t. ASSUME NEW t \in Texts, Send(t) PROVE SocketTypes'
    BY <1>t, <1>a DEF Send, StartSend, socket, SocketTypes
<1>12. ASSUME NEW call \in InFlight,
              \/ AnswersFetch(call) \/ FetchSucceeds(call) \/ FetchFails(call)
              \/ SendSucceeds(call) \/ SendFails(call)
              \/ RetrySucceeds(call) \/ RetryFails(call)
              \/ UploadSucceeds(call) \/ UploadFails(call)
              \/ DeleteSucceeds(call) \/ DeleteFails(call)
      PROVE  SocketTypes'
    BY <1>12, <1>a DEF AnswersFetch, FetchSucceeds, FetchFails, SendSucceeds, SendFails,
                 RetrySucceeds, RetryFails, UploadSucceeds, UploadFails, DeleteSucceeds,
                 DeleteFails, StartSend, socket, SocketTypes
<1>13. ASSUME NEW j \in DOMAIN view, RetryBubble(j) \/ RetryStored(j) PROVE SocketTypes'
    BY <1>13, <1>a DEF RetryBubble, RetryStored, StartSend, socket, SocketTypes
<1>14. QED
    BY <1>1, <1>2, <1>3, <1>4, <1>d, <1>5, <1>6, <1>7, <1>8, <1>9, <1>10, <1>11, <1>t,
       <1>12, <1>13
    DEF Next, Server, Answers, User, Elsewhere, Click, FollowLink

-----------------------------------------------------------------------------
(* What an action makes of the list *)

\* The list without one bubble.
LEMMA OthersFacts ==
    ASSUME view \in Seq(Messages), NEW k
    PROVE  /\ OthersThan(k) \in Seq(Messages)
           /\ \A j \in DOMAIN OthersThan(k) : \E i \in DOMAIN view :
                 OthersThan(k)[j] = view[i] /\ view[i].temp # k
           /\ InOrder(view) => InOrder(OthersThan(k))
<1> DEFINE P == {i \in DOMAIN view : view[i].temp # k}
<1>1. P \in SUBSET DOMAIN view /\ OthersThan(k) = Filtered(view, P)
    BY DEF OthersThan
<1>2. \A i \in P : i \in DOMAIN view /\ view[i].temp # k
    OBVIOUS
<1> HIDE DEF P
<1>3. QED
    BY <1>1, <1>2, FilteredFacts

\* The list with a stored message in the place of a bubble.
Replaced(k, real) == [j \in DOMAIN view |-> IF view[j].temp = k THEN real ELSE view[j]]

LEMMA ReplacedFacts ==
    ASSUME view \in Seq(Messages), NEW k, NEW real \in Messages
    PROVE  /\ Replaced(k, real) \in Seq(Messages)
           /\ \A j \in DOMAIN Replaced(k, real) :
                 Replaced(k, real)[j] = real \/ \E i \in DOMAIN view : Replaced(k, real)[j] = view[i]
<1>1. Len(view) \in Nat /\ DOMAIN view = 1..Len(view)
      /\ \A i \in DOMAIN view : view[i] \in Messages
    OBVIOUS
<1>2. Replaced(k, real) \in [1..Len(view) -> Messages]
    BY <1>1 DEF Replaced
<1>3. Replaced(k, real) \in Seq(Messages)
    BY <1>1, <1>2
<1>4. QED
    BY <1>3 DEF Replaced

LEMMA ReplacedIsDistinct ==
    ASSUME view \in Seq(Messages), NEW k \in Nat \ {0}, NEW real \in Messages,
           InOrder(view), BubblesAreTold, ~Contains(view, real)
    PROVE  Distinct(Replaced(k, real), DOMAIN Replaced(k, real))
<1>1. \A i, j \in DOMAIN view : i # j => view[i] # view[j]
    <2>1. \A i \in DOMAIN view : i \in Nat
        OBVIOUS
    <2>2. QED
        BY <2>1 DEF InOrder
<1>2. \A i \in DOMAIN view : view[i] # real
    BY DEF Contains
<1>3. \A i, j \in DOMAIN view : view[i].temp = k /\ view[j].temp = k => view[i] = view[j]
    BY DEF BubblesAreTold, Kept
<1>4. QED
    BY <1>1, <1>2, <1>3 DEF Distinct, Replaced

\* The typed answer of a POST that has answered.
LEMMA AnswerIsTyped ==
    ASSUME CallTypes, AnswersAreGood, NEW call \in InFlight, call.done
    PROVE  /\ call.conv \in Convs /\ call.ans \in Seq(Messages)
           /\ call.op = "send" => call.ans[1] \in Messages /\ call.ans[1].temp = 0
<1>1. call.conv \in Convs /\ call.ans \in Seq(Messages)
    BY DEF CallTypes, Calls
<1>2. call.op = "send" => 1 \in DOMAIN call.ans
    BY <1>1 DEF AnswersAreGood, GoodAnswer
<1>3. QED
    BY <1>1, <1>2 DEF AnswersAreGood, GoodAnswer

\* The bubble of an attempt that starts.
LEMMA BubbleIsTyped ==
    ASSUME SendTypes, NEW c \in Convs, bubbles + 1 <= MaxBubbles
    PROVE  /\ bubbles + 1 \in 1..MaxBubbles
           /\ Bubble(c, bubbles + 1) \in Messages
           /\ Bubble(c, bubbles + 1).temp = bubbles + 1
           /\ Bubble(c, bubbles + 1).seq = MaxMessages + bubbles + 1
<1>1. bubbles \in Nat
    BY DEF SendTypes
<1>2. bubbles + 1 \in 1..MaxBubbles
    BY <1>1, ViewAssumption
<1>3. Bubble(c, bubbles + 1).seq = MaxMessages + bubbles + 1
    BY <1>1, ViewAssumption DEF Bubble
<1>4. QED
    BY <1>2, <1>3 DEF Messages, Bubble

\* A list on screen, its copies and what else the tab shows.
LEMMA ListTypesStep ==
    ASSUME TypeOK, AnswersAreGood, [Next]_vars
    PROVE  ListTypes'
<1> USE DEF TypeOK
<1>a. /\ {shown, active, hydrated, requested} \subseteq Convs \cup {None}
      /\ view \in Seq(Messages) /\ cache \in [Convs -> Seq(Messages)]
    BY DEF ListTypes
<1>s. ASSUME NEW c \in Convs, NEW text, NEW ms \in Seq(Messages), NEW others, NEW marks,
             NEW asked, StartSend(c, text, ms, others, marks, asked)
      PROVE  ListTypes'
    <2>1. Bubble(c, bubbles + 1) \in Messages
        BY <1>s, BubbleIsTyped DEF StartSend
    <2>2. Append(ms, Bubble(c, bubbles + 1)) \in Seq(Messages)
        BY <2>1
    <2>3. ShowAndSave(c, Append(ms, Bubble(c, bubbles + 1)))
        BY <1>s DEF StartSend
    <2>4. UNCHANGED <<opened, requested>>
        BY <1>s DEF StartSend
    <2>5. QED
        BY <2>2, <2>3, <2>4, ShownIsTyped
<1>1. ASSUME NEW t \in Texts, Send(t) PROVE ListTypes'
    BY <1>1, <1>a, <1>s DEF Send
<1>l. ASSUME NEW call \in InFlight, UploadSucceeds(call) PROVE ListTypes'
    <2>1. call.conv \in Convs
        BY DEF CallTypes, Calls
    <2>2. QED
        BY <1>l, <2>1, <1>a, <1>s DEF UploadSucceeds
<1>d. ASSUME NEW call \in InFlight, DeleteSucceeds(call) PROVE ListTypes'
    <2>1. call.conv \in Convs
        BY DEF CallTypes, Calls
    <2>2. QED
        BY <1>d, <1>a, <2>1, CachedIsTyped DEF DeleteSucceeds, opened
<1>2. ASSUME NEW j \in DOMAIN view, RetryBubble(j) PROVE ListTypes'
    <2>1. view[j].conv \in Convs
        BY <1>a, MessageFacts
    <2>2. OthersThan(view[j].temp) \in Seq(Messages)
        BY <1>a, OthersFacts
    <2>3. QED
        BY <1>2, <2>1, <2>2, <1>s DEF RetryBubble
<1>3. ASSUME NEW call \in InFlight, SendSucceeds(call) PROVE ListTypes'
    <2> DEFINE real == call.ans[1]
    <2>1. call.conv \in Convs /\ real \in Messages
        BY <1>3, AnswerIsTyped DEF SendSucceeds
    <2>2. OthersThan(call.temp) \in Seq(Messages)
        BY <1>a, OthersFacts
    <2>3. Sorted(Replaced(call.temp, real)) \in Seq(Messages)
        BY <1>a, <2>1, ReplacedFacts, SortedFacts
    <2>4. UNCHANGED <<opened, requested>>
        BY <1>3 DEF SendSucceeds
    <2>5. ShowAndSave(call.conv, OthersThan(call.temp))
          \/ ShowAndSave(call.conv, Sorted(Replaced(call.temp, real)))
        BY <1>3 DEF SendSucceeds, Replaced
    <2> HIDE DEF real
    <2>6. QED
        BY <2>1, <2>2, <2>3, <2>4, <2>5, ShownIsTyped
<1>4. ASSUME NEW call \in InFlight, FetchSucceeds(call) PROVE ListTypes'
    <2>1. call.conv \in Convs /\ call.ans \in Seq(Messages)
        BY <1>4, AnswerIsTyped DEF FetchSucceeds
    <2>2. Sorted(call.ans) \in Seq(Messages)
        BY <2>1, SortedFacts
    <2>3. UNCHANGED <<opened, requested>>
        BY <1>4 DEF FetchSucceeds
    <2>4. CASE ShowAndSave(call.conv, Sorted(call.ans))
        BY <2>1, <2>2, <2>3, <2>4, ShownIsTyped
    <2>5. CASE UNCHANGED <<view, cache>>
        BY <2>3, <2>5, <1>a DEF ListTypes, opened
    <2>6. QED
        BY <1>4, <2>4, <2>5 DEF FetchSucceeds
<1>5. ASSUME NEW call \in InFlight, RetrySucceeds(call) PROVE ListTypes'
    <2>1. call.conv \in Convs
        BY DEF CallTypes, Calls
    <2>2. ShowAndSave(call.conv, view) /\ UNCHANGED <<opened, requested>>
        BY <1>5 DEF RetrySucceeds
    <2>3. QED
        BY <1>a, <2>1, <2>2, ShownIsTyped
<1>6. CASE EventArrives
    <2> DEFINE e == Head(inbox)
    <2>1. e.conv \in Convs /\ e.seq \in 1..MaxMessages
        BY <1>6, WireTypes DEF EventArrives, Events
    <2>2. UNCHANGED opened
        BY <1>6 DEF EventArrives
    <2>3. CASE Appended(e.conv, Stored(e.conv, e.seq)) /\ UNCHANGED requested
        <3>1. Stored(e.conv, e.seq) \in Messages
            BY <2>1 DEF Messages
        <3> DEFINE next == Sorted(Append(view, Stored(e.conv, e.seq)))
        <3>2. Append(view, Stored(e.conv, e.seq)) \in Seq(Messages)
            BY <1>a, <3>1
        <3>3. next \in Seq(Messages) /\ Normalize(next) \in Seq(Messages)
            BY <3>2, SortedFacts, NormalizeFacts
        <3>4. view' \in {view, next} /\ cache' \in {cache, [cache EXCEPT ![e.conv] = Normalize(next)]}
            BY <2>3 DEF Appended
        <3> HIDE DEF next, e
        <3>5. view' \in Seq(Messages) /\ cache' \in [Convs -> Seq(Messages)]
            BY <1>a, <3>3, <3>4
        <3>6. QED
            BY <1>a, <2>2, <2>3, <3>5 DEF ListTypes, opened
    <2>4. CASE ShowCached(e.conv)
        BY <1>a, <2>1, <2>2, <2>4, CachedIsTyped DEF opened
    <2>5. CASE UNCHANGED list
        BY <1>a, <2>2, <2>5 DEF ListTypes, opened, list
    <2>6. QED
        BY <1>6, <2>3, <2>4, <2>5 DEF EventArrives
<1>7. CASE Hydrate
    BY <1>7, <1>a, CachedIsTyped DEF Hydrate
<1>8. ASSUME NEW call \in InFlight, MarkReadSettles(call) PROVE ListTypes'
    <2>1. call.conv \in Convs
        BY DEF CallTypes, Calls
    <2>2. QED
        BY <1>8, <1>a, <2>1, CachedIsTyped DEF MarkReadSettles, opened
<1>9. ASSUME NEW c \in Convs, NEW unread \in BOOLEAN, NEW effects \in BOOLEAN,
             Open(c, unread, effects)
      PROVE  ListTypes'
    <2>1. {shown', active', hydrated'} \subseteq Convs \cup {None}
        BY <1>9, <1>a DEF Open, SetActive
    <2>2. ShowCached(c) \/ UNCHANGED list
        BY <1>9 DEF Open
    <2>3. QED
        BY <1>a, <2>1, <2>2, CachedIsTyped DEF ListTypes, list
<1>10. CASE Reload
    BY <1>10, <1>a, NoMessages DEF Reload, ListTypes
<1>11. CASE ActiveVanishes
    BY <1>11, <1>a DEF ActiveVanishes, SetActive, ListTypes, list
<1>12. ASSUME NEW call \in InFlight,
              \/ AnswersFetch(call) \/ AnswersSend(call) \/ FetchFails(call)
              \/ SendFails(call) \/ RetryFails(call) \/ AnswersDelete(call)
              \/ UploadFails(call) \/ DeleteFails(call)
       PROVE  ListTypes'
    BY <1>12, <1>a DEF AnswersFetch, AnswersSend, FetchFails, SendFails, RetryFails,
                 AnswersDelete, UploadFails, DeleteFails, opened, list, ListTypes
<1>13. ASSUME NEW c \in Convs,
              \/ MessageArrives(c)
              \/ \E n \in stored[c] : MessageDeleted(c, n)
       PROVE  ListTypes'
    BY <1>13, <1>a DEF MessageArrives, MessageDeleted, opened, list, ListTypes
<1>14. CASE ServerReceives \/ Connect \/ Drop \/ Upload \/ Delete \/ UNCHANGED vars
    BY <1>14, <1>a DEF ServerReceives, Connect, Drop, Upload, Delete, opened, list, vars, ListTypes
<1>15. ASSUME NEW j \in DOMAIN view, RetryStored(j) PROVE ListTypes'
    BY <1>15, <1>a DEF RetryStored, opened, list, ListTypes
<1>16. QED
    BY <1>1, <1>l, <1>d, <1>2, <1>3, <1>4, <1>5, <1>6, <1>7, <1>8, <1>9, <1>10, <1>11,
       <1>12, <1>13, <1>14, <1>15
    DEF Next, Server, Answers, User, Elsewhere, Click, FollowLink


\* The bookkeeping of a new attempt.
LEMMA StartTypes ==
    ASSUME SendTypes, NEW c, NEW text \in Payloads, NEW ms, NEW others, NEW marks,
           NEW asked, StartSend(c, text, ms, others, marks, asked),
           owed' \in [Payloads -> Nat],
           DOMAIN others \subseteq DOMAIN pending, \A x \in DOMAIN others : others[x] = pending[x],
           DOMAIN marks \subseteq DOMAIN status, \A x \in DOMAIN marks : marks[x] = status[x]
    PROVE  SendTypes'
<1> DEFINE k == bubbles + 1
<1>1. /\ bubbles' = k /\ k \in 1..MaxBubbles
      /\ pending' = With(others, k, text) /\ status' = With(marks, k, "sending")
    BY BubbleIsTyped, ViewAssumption DEF StartSend, SendTypes
<1>2. bubbles' \in 0..MaxBubbles
    BY <1>1
<1>3. DOMAIN status' \cup DOMAIN pending' \subseteq 1..bubbles'
    BY <1>1 DEF SendTypes, With
<1>4. ASSUME NEW x \in DOMAIN status' PROVE status'[x] \in {"sending", "failed"}
    BY <1>1 DEF SendTypes, With
<1>5. ASSUME NEW x \in DOMAIN pending' PROVE pending'[x] \in Payloads
    BY <1>1 DEF SendTypes, With
<1>6. QED
    BY <1>2, <1>3, <1>4, <1>5 DEF SendTypes

\* How many attempts a payload has.
Count(p, t) == Cardinality({k \in DOMAIN p : p[k] = t})

LEMMA CountWith ==
    ASSUME NEW p, IsFiniteSet(DOMAIN p), NEW k, k \notin DOMAIN p, NEW t
    PROVE  \A u : Count(With(p, k, t), u) = IF u = t THEN Count(p, u) + 1 ELSE Count(p, u)
<1> DEFINE q == With(p, k, t)
<1>1. DOMAIN q = DOMAIN p \cup {k} /\ q[k] = t /\ \A x \in DOMAIN p : q[x] = p[x]
    BY DEF With
<1> HIDE DEF q
<1>2. ASSUME NEW u PROVE Count(q, u) = IF u = t THEN Count(p, u) + 1 ELSE Count(p, u)
    <2> DEFINE S == {x \in DOMAIN p : p[x] = u}
               T == {x \in DOMAIN q : q[x] = u}
    <2>1. T = IF u = t THEN S \cup {k} ELSE S
        BY <1>1
    <2>2. S \in SUBSET DOMAIN p /\ k \notin S
        OBVIOUS
    <2>3. Count(p, u) = Cardinality(S) /\ Count(q, u) = Cardinality(T)
        BY DEF Count
    <2> HIDE DEF S, T
    <2>4. IsFiniteSet(S)
        BY <2>2, FS_Subset
    <2>5. Cardinality(S \cup {k}) = Cardinality(S) + 1
        BY <2>2, <2>4, FS_AddElement
    <2>6. QED
        BY <2>1, <2>3, <2>5
<1>3. QED
    BY <1>2 DEF q

LEMMA CountWithout ==
    ASSUME NEW p, IsFiniteSet(DOMAIN p), NEW k \in DOMAIN p
    PROVE  /\ \A u : Count(Without(p, k), u) = IF u = p[k] THEN Count(p, u) - 1 ELSE Count(p, u)
           /\ \A u : Count(p, u) \in Nat
           /\ Count(p, p[k]) > 0
<1> DEFINE q == Without(p, k)
<1>1. DOMAIN q = DOMAIN p \ {k} /\ \A x \in DOMAIN q : q[x] = p[x]
    BY DEF Without
<1> HIDE DEF q
<1>2. ASSUME NEW u
      PROVE  /\ Count(q, u) = IF u = p[k] THEN Count(p, u) - 1 ELSE Count(p, u)
             /\ Count(p, u) \in Nat /\ (u = p[k] => Count(p, u) > 0)
    <2> DEFINE S == {x \in DOMAIN p : p[x] = u}
               T == {x \in DOMAIN q : q[x] = u}
    <2>1. S = IF u = p[k] THEN T \cup {k} ELSE T
        BY <1>1
    <2>2. S \in SUBSET DOMAIN p /\ T \in SUBSET DOMAIN p /\ k \notin T
        BY <1>1
    <2>3. Count(p, u) = Cardinality(S) /\ Count(q, u) = Cardinality(T)
        BY DEF Count
    <2> HIDE DEF S, T
    <2>4. IsFiniteSet(S) /\ IsFiniteSet(T) /\ Cardinality(S) \in Nat /\ Cardinality(T) \in Nat
        BY <2>2, FS_Subset, FS_CardinalityType
    <2>5. Cardinality(T \cup {k}) = Cardinality(T) + 1
        BY <2>2, <2>4, FS_AddElement
    <2>6. QED
        BY <2>1, <2>3, <2>4, <2>5
<1>3. QED
    BY <1>2 DEF q

\* The sendings that are owed, when one begins, is confirmed or is tried again.
LEMMA OwedChanges ==
    ASSUME SendTypes, AttemptsAreOwed
    PROVE  /\ \A t \in Payloads :
                owed' = [owed EXCEPT ![t] = @ + 1] =>
                /\ owed' \in [Payloads -> Nat]
                /\ pending' = With(pending, bubbles + 1, t) => AttemptsAreOwed'
           /\ \A k \in DOMAIN pending :
                owed' = [owed EXCEPT ![pending[k]] = @ - 1] =>
                /\ owed' \in [Payloads -> Nat]
                /\ pending' = Without(pending, k) => AttemptsAreOwed'
           /\ \A k \in DOMAIN pending :
                /\ owed' = owed
                /\ pending' = With(Without(pending, k), bubbles + 1, pending[k])
                => AttemptsAreOwed'
<1>1. /\ owed \in [Payloads -> Nat] /\ \A k \in DOMAIN pending : pending[k] \in Payloads
      /\ DOMAIN pending \subseteq 1..bubbles /\ bubbles \in Nat
    BY DEF SendTypes
<1>2. bubbles + 1 \notin DOMAIN pending
    BY <1>1
<1>3. IsFiniteSet(1..bubbles)
    BY <1>1, FS_Interval
<1>4. IsFiniteSet(DOMAIN pending)
    BY <1>1, <1>3, FS_Subset
<1>5. /\ AttemptsAreOwed <=> \A u \in Payloads : Count(pending, u) = owed[u]
      /\ AttemptsAreOwed' <=> \A u \in Payloads : Count(pending', u) = owed'[u]
    BY DEF AttemptsAreOwed, Count
<1>6. ASSUME NEW t \in Payloads, owed' = [owed EXCEPT ![t] = @ + 1]
      PROVE  /\ owed' \in [Payloads -> Nat]
             /\ pending' = With(pending, bubbles + 1, t) => AttemptsAreOwed'
    <2>1. owed' \in [Payloads -> Nat]
        BY <1>1, <1>6
    <2>2. \A u \in Payloads : owed'[u] = IF u = t THEN owed[u] + 1 ELSE owed[u]
        BY <1>1, <1>6
    <2>3. \A u : Count(With(pending, bubbles + 1, t), u)
                  = IF u = t THEN Count(pending, u) + 1 ELSE Count(pending, u)
        BY <1>2, <1>4, CountWith
    <2>4. QED
        BY <1>5, <2>1, <2>2, <2>3
<1>7. ASSUME NEW k \in DOMAIN pending
      PROVE  /\ \A u : Count(Without(pending, k), u)
                       = IF u = pending[k] THEN Count(pending, u) - 1 ELSE Count(pending, u)
             /\ pending[k] \in Payloads /\ owed[pending[k]] > 0
    <2>1. /\ \A u : Count(Without(pending, k), u)
                     = IF u = pending[k] THEN Count(pending, u) - 1 ELSE Count(pending, u)
          /\ Count(pending, pending[k]) > 0
        BY <1>4, CountWithout
    <2>2. QED
        BY <1>1, <1>5, <2>1
<1>8. ASSUME NEW k \in DOMAIN pending, owed' = [owed EXCEPT ![pending[k]] = @ - 1]
      PROVE  /\ owed' \in [Payloads -> Nat]
             /\ pending' = Without(pending, k) => AttemptsAreOwed'
    <2>1. owed[pending[k]] \in Nat /\ owed[pending[k]] > 0 /\ pending[k] \in Payloads
        BY <1>1, <1>7
    <2>2. owed[pending[k]] - 1 \in Nat
        BY <2>1
    <2>3. owed' \in [Payloads -> Nat]
        BY <1>1, <1>8, <2>2
    <2>4. \A u \in Payloads : owed'[u] = IF u = pending[k] THEN owed[u] - 1 ELSE owed[u]
        BY <1>1, <1>8
    <2>5. QED
        BY <1>5, <1>7, <2>3, <2>4
<1>9. ASSUME NEW k \in DOMAIN pending, owed' = owed,
             pending' = With(Without(pending, k), bubbles + 1, pending[k])
      PROVE  AttemptsAreOwed'
    <2> DEFINE left == Without(pending, k)
    <2>1. DOMAIN left = DOMAIN pending \ {k}
        BY DEF Without
    <2>2. IsFiniteSet(DOMAIN left) /\ bubbles + 1 \notin DOMAIN left
        BY <1>2, <1>4, <2>1, FS_Subset
    <2>3. \A u : Count(left, u) = IF u = pending[k] THEN Count(pending, u) - 1 ELSE Count(pending, u)
        BY <1>7
    <2> HIDE DEF left
    <2>4. \A u : Count(With(left, bubbles + 1, pending[k]), u)
                  = IF u = pending[k] THEN Count(left, u) + 1 ELSE Count(left, u)
        BY <2>2, CountWith
    <2>5. \A u \in Payloads : Count(pending', u) = Count(pending, u)
        <3>1. \A u \in Payloads : Count(pending, u) \in Nat
            BY <1>1, <1>5
        <3>2. QED
            BY <1>9, <2>3, <2>4, <3>1 DEF left
    <2>6. QED
        BY <1>5, <1>9, <2>5
<1>10. QED
    BY <1>6, <1>8, <1>9

\* A payload has as many attempts as sendings that are not confirmed.
LEMMA OwedStep ==
    ASSUME TypeOK, SendInv, AttemptsAreOwed, [Next]_vars
    PROVE  AttemptsAreOwed'
<1> USE DEF TypeOK
<1>1. ASSUME NEW t \in Texts, Send(t) PROVE AttemptsAreOwed'
    BY <1>1, OwedChanges DEF Send, StartSend, Payloads
<1>2. ASSUME NEW call \in InFlight, UploadSucceeds(call) PROVE AttemptsAreOwed'
    BY <1>2, OwedChanges DEF UploadSucceeds, StartSend, Payloads
<1>3. ASSUME NEW j \in DOMAIN view, RetryBubble(j) PROVE AttemptsAreOwed'
    BY <1>3, OwedChanges DEF RetryBubble, StartSend
<1>4. ASSUME NEW call \in InFlight, SendSucceeds(call) PROVE AttemptsAreOwed'
    <2>1. call.temp \in DOMAIN pending
        BY <1>4 DEF SendSucceeds, SendInv, Sends
    <2>2. QED
        BY <1>4, <2>1, OwedChanges DEF SendSucceeds, Confirmed
<1>5. CASE Reload
    <2>1. pending' = <<>> /\ owed' = [t \in Payloads |-> 0]
        BY <1>5 DEF Reload
    <2>2. \A t : {k \in DOMAIN pending' : pending'[k] = t} = {}
        BY <2>1
    <2>3. QED
        BY <2>1, <2>2, FS_EmptySet DEF AttemptsAreOwed
<1>u. ASSUME UNCHANGED <<pending, owed>> PROVE AttemptsAreOwed'
    BY <1>u DEF AttemptsAreOwed
<1>6. CASE Drop \/ EventArrives \/ Hydrate \/ Connect \/ ActiveVanishes \/ ServerReceives
           \/ Upload \/ Delete \/ UNCHANGED vars
    BY <1>6, <1>u DEF Drop, EventArrives, Hydrate, Connect, ActiveVanishes, ServerReceives,
                 Upload, Delete, sends, vars
<1>7. ASSUME NEW call \in InFlight,
             \/ AnswersFetch(call) \/ AnswersSend(call) \/ AnswersDelete(call)
             \/ MarkReadSettles(call) \/ FetchSucceeds(call) \/ FetchFails(call)
             \/ SendFails(call) \/ RetrySucceeds(call) \/ RetryFails(call)
             \/ UploadFails(call) \/ DeleteSucceeds(call) \/ DeleteFails(call)
      PROVE  AttemptsAreOwed'
    BY <1>7, <1>u DEF AnswersFetch, AnswersSend, AnswersDelete, MarkReadSettles,
                 FetchSucceeds, FetchFails, SendFails, RetrySucceeds, RetryFails,
                 UploadFails, DeleteSucceeds, DeleteFails, sends
<1>8. ASSUME NEW c \in Convs, NEW unread \in BOOLEAN, NEW effects \in BOOLEAN,
             Open(c, unread, effects)
      PROVE  AttemptsAreOwed'
    BY <1>8, <1>u DEF Open, sends
<1>9. ASSUME NEW c \in Convs,
             MessageArrives(c) \/ \E n \in stored[c] : MessageDeleted(c, n)
      PROVE  AttemptsAreOwed'
    BY <1>9, <1>u DEF MessageArrives, MessageDeleted, sends
<1>10. ASSUME NEW j \in DOMAIN view, RetryStored(j) PROVE AttemptsAreOwed'
    BY <1>10, <1>u DEF RetryStored, sends
<1>11. QED
    BY <1>1, <1>2, <1>3, <1>4, <1>5, <1>6, <1>7, <1>8, <1>9, <1>10
    DEF Next, Server, Answers, User, Elsewhere, Click, FollowLink

\* The bubbles' bookkeeping.
LEMMA SendTypesStep ==
    ASSUME TypeOK, SendInv, AttemptsAreOwed, [Next]_vars
    PROVE  SendTypes'
<1> USE DEF TypeOK
<1>1. ASSUME NEW t \in Texts, Send(t) PROVE SendTypes'
    <2>1. t \in Payloads
        BY DEF Payloads
    <2>2. owed' \in [Payloads -> Nat]
        BY <1>1, <2>1, OwedChanges DEF Send
    <2>3. StartSend(shown, t, view, pending, status, calls)
        BY <1>1 DEF Send
    <2>4. QED
        BY <2>1, <2>2, <2>3, StartTypes
<1>l. ASSUME NEW call \in InFlight, UploadSucceeds(call) PROVE SendTypes'
    <2>1. Media \in Payloads
        BY DEF Payloads
    <2>2. owed' \in [Payloads -> Nat]
        BY <1>l, <2>1, OwedChanges DEF UploadSucceeds
    <2>3. StartSend(call.conv, Media, view, pending, status, Settled(call))
        BY <1>l DEF UploadSucceeds
    <2>4. QED
        BY <2>1, <2>2, <2>3, StartTypes
<1>2. ASSUME NEW j \in DOMAIN view, RetryBubble(j) PROVE SendTypes'
    <2>1. pending[view[j].temp] \in Payloads /\ owed' \in [Payloads -> Nat]
        BY <1>2 DEF SendTypes, RetryBubble
    <2> DEFINE others == Without(pending, view[j].temp)
               marks  == Without(status, view[j].temp)
    <2>2. /\ DOMAIN others \subseteq DOMAIN pending /\ \A x \in DOMAIN others : others[x] = pending[x]
          /\ DOMAIN marks \subseteq DOMAIN status /\ \A x \in DOMAIN marks : marks[x] = status[x]
        BY DEF Without
    <2>3. StartSend(view[j].conv, pending[view[j].temp], OthersThan(view[j].temp), others, marks,
                    calls)
        BY <1>2 DEF RetryBubble
    <2> HIDE DEF others, marks
    <2>4. QED
        BY <2>1, <2>2, <2>3, StartTypes
<1>3. ASSUME NEW call \in InFlight, SendSucceeds(call) PROVE SendTypes'
    <2>1. /\ status' = Without(status, call.temp) /\ pending' = Without(pending, call.temp)
          /\ bubbles' = bubbles
        BY <1>3 DEF SendSucceeds
    <2>2. /\ DOMAIN status' \subseteq DOMAIN status
          /\ DOMAIN pending' \subseteq DOMAIN pending
          /\ \A x \in DOMAIN status' : status'[x] = status[x]
          /\ \A x \in DOMAIN pending' : pending'[x] = pending[x]
        BY <2>1 DEF Without
    <2>3. ASSUME NEW x \in DOMAIN status' PROVE status'[x] \in {"sending", "failed"}
        BY <2>2 DEF SendTypes
    <2>4. ASSUME NEW x \in DOMAIN pending' PROVE pending'[x] \in Payloads
        BY <2>2 DEF SendTypes
    <2>5. call.temp \in DOMAIN pending
        BY <1>3 DEF SendSucceeds, SendInv, Sends
    <2>6. owed' \in [Payloads -> Nat]
        BY <1>3, <2>5, OwedChanges DEF SendSucceeds, Confirmed
    <2>7. QED
        BY <2>1, <2>2, <2>3, <2>4, <2>6 DEF SendTypes
<1>4. ASSUME NEW call \in InFlight, SendFails(call) PROVE SendTypes'
    <2>1. call.temp \in DOMAIN status
        BY <1>4 DEF SendFails, SendInv, Sends
    <2>2. QED
        BY <1>4, <2>1 DEF SendFails, SendTypes, With
<1>5. CASE Reload
    BY <1>5 DEF Reload, SendTypes
<1>6. CASE Drop \/ EventArrives \/ Hydrate \/ Connect \/ ActiveVanishes \/ ServerReceives
           \/ Upload \/ Delete \/ UNCHANGED vars
    BY <1>6 DEF Drop, EventArrives, Hydrate, Connect, ActiveVanishes, ServerReceives, Upload,
                Delete, sends, vars, SendTypes
<1>7. ASSUME NEW call \in InFlight,
             \/ AnswersFetch(call) \/ AnswersSend(call) \/ MarkReadSettles(call)
             \/ FetchSucceeds(call) \/ FetchFails(call)
             \/ RetrySucceeds(call) \/ RetryFails(call) \/ AnswersDelete(call)
             \/ UploadFails(call) \/ DeleteSucceeds(call) \/ DeleteFails(call)
      PROVE  SendTypes'
    BY <1>7 DEF AnswersFetch, AnswersSend, MarkReadSettles, FetchSucceeds, FetchFails,
                RetrySucceeds, RetryFails, AnswersDelete, UploadFails, DeleteSucceeds,
                DeleteFails, sends, SendTypes
<1>8. ASSUME NEW c \in Convs, NEW unread \in BOOLEAN, Click(c, unread) \/ FollowLink(c, unread)
      PROVE  SendTypes'
    BY <1>8 DEF Click, FollowLink, Open, sends, SendTypes
<1>9. ASSUME NEW c \in Convs,
             MessageArrives(c) \/ \E n \in stored[c] : MessageDeleted(c, n)
      PROVE  SendTypes'
    BY <1>9 DEF MessageArrives, MessageDeleted, sends, SendTypes
<1>10. ASSUME NEW j \in DOMAIN view, RetryStored(j) PROVE SendTypes'
    BY <1>10 DEF RetryStored, sends, SendTypes
<1>11. QED
    BY <1>1, <1>l, <1>2, <1>3, <1>4, <1>5, <1>6, <1>7, <1>8, <1>9, <1>10
    DEF Next, Server, Answers, User, Elsewhere

\* What an action that concerns no POST of a message makes of the requests under
\* way: the POSTs stay.
SendsStay  == Sends' = Sends /\ \A call \in Sends : calls'[call] = calls[call]
QuietCalls == CallTypes' /\ AnswersAreGood' /\ SendsStay

LEMMA AskedQuietly ==
    ASSUME CallTypes, AnswersAreGood, NEW B, IsABag(B), DOMAIN B \subseteq InFlight,
           \A call \in Sends : call \in DOMAIN B /\ B[call] = calls[call],
           NEW more, IsABag(more), DOMAIN more \subseteq Calls,
           \A call \in DOMAIN more : call.op # "send" /\ GoodAnswer(call),
           calls' = B (+) more
    PROVE  QuietCalls
<1>1. CallTypes' /\ InFlight' = DOMAIN B \cup DOMAIN more
    BY AskedKeeps
<1>2. AnswersAreGood'
    BY <1>1 DEF AnswersAreGood
<1>3. \A x \in DOMAIN B \ DOMAIN more : calls'[x] = B[x]
    BY AskedCounts
<1>4. \A call \in Sends : call \in DOMAIN B \ DOMAIN more
    BY DEF Sends
<1>5. SendsStay
    BY <1>1, <1>3, <1>4 DEF SendsStay, Sends
<1>6. QED
    BY <1>1, <1>2, <1>5 DEF QuietCalls

LEMMA SettledQuietly ==
    ASSUME CallTypes, AnswersAreGood, NEW call \in InFlight, call.op # "send"
    PROVE  /\ IsABag(Settled(call)) /\ DOMAIN Settled(call) \subseteq InFlight
           /\ \A x \in Sends : x \in DOMAIN Settled(call) /\ Settled(call)[x] = calls[x]
           /\ calls' = Settled(call) => QuietCalls
<1>1. \A x \in Sends : x \in DOMAIN calls \ {call}
    BY DEF Sends, InFlight
<1>2. \A x \in Sends : x \in DOMAIN Settled(call) /\ Settled(call)[x] = calls[x]
    BY <1>1, BagSettled DEF CallTypes, Settled
<1>3. /\ IsABag(Settled(call)) /\ DOMAIN Settled(call) \subseteq InFlight
      /\ calls' = Settled(call) => CallTypes'
    BY SettledKeeps
<1>4. ASSUME calls' = Settled(call) PROVE SendsStay /\ AnswersAreGood'
    BY <1>2, <1>3, <1>4 DEF SendsStay, Sends, InFlight, AnswersAreGood
<1>5. QED
    BY <1>2, <1>3, <1>4 DEF QuietCalls

\* One request made.
LEMMA AskedOnce ==
    ASSUME CallTypes, AnswersAreGood, NEW B, IsABag(B), DOMAIN B \subseteq InFlight,
           \A call \in Sends : call \in DOMAIN B /\ B[call] = calls[call],
           NEW x \in Calls, x.op # "send", GoodAnswer(x), calls' = B (+) SetToBag({x})
    PROVE  QuietCalls
<1> DEFINE more == SetToBag({x})
<1>1. IsABag(more) /\ DOMAIN more = {x} /\ calls' = B (+) more
    BY BagOf
<1> HIDE DEF more
<1>2. QED
    BY <1>1, AskedQuietly

\* The bag itself, when nothing is settled.
LEMMA AllUnderWay ==
    ASSUME CallTypes
    PROVE  /\ IsABag(calls) /\ DOMAIN calls \subseteq InFlight
           /\ \A call \in Sends : call \in DOMAIN calls /\ calls[call] = calls[call]
BY DEF CallTypes, InFlight, Sends

LEMMA OrderedIsDistinct ==
    ASSUME NEW ms \in Seq(Messages), InOrder(ms)
    PROVE  Distinct(ms, DOMAIN ms)
<1>1. \A i \in DOMAIN ms : i \in Nat
    OBVIOUS
<1>2. QED
    BY <1>1 DEF InOrder, Distinct

\* The actions that concern no POST of a message.
LEMMA QuietStep ==
    ASSUME TypeOK, AnswersAreGood
    PROVE  /\ \A call \in InFlight :
                (\/ AnswersFetch(call) \/ MarkReadSettles(call)
                 \/ FetchSucceeds(call) \/ FetchFails(call)
                 \/ RetrySucceeds(call) \/ RetryFails(call)
                 \/ AnswersDelete(call) \/ UploadFails(call)
                 \/ DeleteSucceeds(call) \/ DeleteFails(call)) => QuietCalls
           /\ \A c \in Convs, unread, effects \in BOOLEAN : Open(c, unread, effects) => QuietCalls
           /\ Hydrate \/ EventArrives \/ Upload \/ Delete => QuietCalls
           /\ \A j \in DOMAIN view : RetryStored(j) => QuietCalls
<1> USE DEF TypeOK
<1>a. \A call \in InFlight : call \in Calls /\ call.conv \in Convs
    BY DEF CallTypes, Calls
<1>b. \A op \in {"fetch", "mark read", "retry", "upload", "delete"}, c \in Convs :
        Call(op, c, 0) \in Calls /\ Call(op, c, 0).op # "send" /\ GoodAnswer(Call(op, c, 0))
    <2>1. 0 \in 0..MaxBubbles
        BY ViewAssumption
    <2>2. ASSUME NEW op \in {"fetch", "mark read", "retry", "upload", "delete"}, NEW c \in Convs
          PROVE  Call(op, c, 0) \in Calls
        BY <2>1, CallIsTyped
    <2>3. ASSUME NEW op \in {"fetch", "mark read", "retry", "upload", "delete"}, NEW c \in Convs
          PROVE  Call(op, c, 0).op # "send" /\ Call(op, c, 0).done = FALSE
        BY DEF Call
    <2>4. QED
        BY <2>2, <2>3 DEF GoodAnswer
<1>1. ASSUME NEW call \in InFlight, AnswersFetch(call) PROVE QuietCalls
    <2> DEFINE x == [call EXCEPT !.done = TRUE, !.ans = FirstPage(call.conv)]
    <2>1. call.op = "fetch" /\ call.conv \in Convs /\ stored[call.conv] \subseteq 1..MaxMessages
        BY <1>1, <1>a DEF AnswersFetch, ServerTypes
    <2> DEFINE page == FirstPage(call.conv)
    <2>2. /\ page \in Seq(Messages) /\ InOrder(page)
          /\ \A k \in DOMAIN page : page[k].temp = 0
        BY <2>1, FirstPageFacts
    <2>3. Distinct(page, DOMAIN page)
        BY <2>2, OrderedIsDistinct
    <2> HIDE DEF page
    <2>4. x.op = "fetch" /\ x.ans = page /\ x \in Calls
        BY <1>a, <2>1, <2>2 DEF page, Calls
    <2>5. calls' = Settled(call) (+) SetToBag({x})
        BY <1>1 DEF AnswersFetch, Answered
    <2> HIDE DEF x
    <2>6. GoodAnswer(x)
        BY <2>2, <2>3, <2>4 DEF GoodAnswer
    <2>7. x.op # "send" /\ call.op # "send"
        BY <2>1, <2>4
    <2>8. QED
        BY <2>4, <2>5, <2>6, <2>7, SettledQuietly, AskedOnce
<1>d. ASSUME NEW call \in InFlight, AnswersDelete(call) PROVE QuietCalls
    <2> DEFINE x == [call EXCEPT !.done = TRUE, !.ans = <<>>]
    <2>1. call.op = "delete"
        BY <1>d DEF AnswersDelete
    <2>2. x.op = "delete" /\ x.ans = <<>> /\ x \in Calls
        BY <1>a, <2>1, NoMessages DEF Calls
    <2>3. calls' = Settled(call) (+) SetToBag({x})
        BY <1>d DEF AnswersDelete, Answered
    <2> HIDE DEF x
    <2>4. GoodAnswer(x) /\ x.op # "send" /\ call.op # "send"
        BY <2>1, <2>2 DEF GoodAnswer, Distinct
    <2>5. QED
        BY <2>2, <2>3, <2>4, SettledQuietly, AskedOnce
<1>2. ASSUME NEW call \in InFlight, MarkReadSettles(call) \/ DeleteSucceeds(call)
      PROVE  QuietCalls
    <2>1. /\ call.op # "send" /\ call.conv \in Convs
          /\ calls' = Settled(call) (+) SetToBag({Call("fetch", call.conv, 0)})
        BY <1>2, <1>a DEF MarkReadSettles, DeleteSucceeds
    <2>2. QED
        BY <2>1, <1>b, SettledQuietly, AskedOnce
<1>3. ASSUME NEW call \in InFlight,
             \/ FetchSucceeds(call) \/ FetchFails(call)
             \/ RetrySucceeds(call) \/ RetryFails(call)
             \/ UploadFails(call) \/ DeleteFails(call)
      PROVE  QuietCalls
    <2>1. call.op # "send" /\ calls' = Settled(call)
        BY <1>3 DEF FetchSucceeds, FetchFails, RetrySucceeds, RetryFails, UploadFails, DeleteFails
    <2>2. QED
        BY <2>1, SettledQuietly
<1>4. ASSUME NEW op \in {"fetch", "mark read", "retry", "upload", "delete"}, NEW c \in Convs,
             calls' = Asked(Call(op, c, 0))
      PROVE  QuietCalls
    BY <1>4, <1>b, AllUnderWay, AskedOnce DEF Asked
<1>5. ASSUME UNCHANGED calls PROVE QuietCalls
    BY <1>5 DEF QuietCalls, CallTypes, AnswersAreGood, SendsStay, Sends, InFlight
<1>6. ASSUME NEW c \in Convs, NEW unread \in BOOLEAN, NEW effects \in BOOLEAN,
             Open(c, unread, effects)
      PROVE  QuietCalls
    <2> DEFINE x == Call("fetch", c, 0)
               y == Call(IF unread THEN "mark read" ELSE "fetch", c, 0)
               A == IF effects /\ hydrated # c THEN {x} ELSE {}
               more == SetToBag(A) (+) SetToBag({y})
    <2>1. x \in Calls /\ y \in Calls /\ x.op # "send" /\ y.op # "send"
          /\ GoodAnswer(x) /\ GoodAnswer(y)
        BY <1>b
    <2>2. calls' = calls (+) more
        BY <1>6 DEF Open
    <2> HIDE DEF x, y
    <2>3. A \subseteq {x}
        OBVIOUS
    <2> HIDE DEF A
    <2>4. /\ IsABag(SetToBag(A)) /\ DOMAIN SetToBag(A) = A
          /\ IsABag(SetToBag({y})) /\ DOMAIN SetToBag({y}) = {y}
        BY BagOf
    <2>5. IsABag(more) /\ DOMAIN more = A \cup {y}
        BY <2>4, BagSum
    <2> HIDE DEF more
    <2>6. \A call \in DOMAIN more : call \in Calls /\ call.op # "send" /\ GoodAnswer(call)
        BY <2>1, <2>3, <2>5
    <2>7. DOMAIN more \subseteq Calls
        BY <2>6
    <2>8. QED
        BY <2>2, <2>5, <2>6, <2>7, AllUnderWay, AskedQuietly
<1>7. CASE Hydrate
    BY <1>4, <1>7 DEF Hydrate, ListTypes
<1>l. CASE Upload \/ Delete
    BY <1>4, <1>l DEF Upload, Delete, ListTypes
<1>8. CASE EventArrives
    <2>1. Head(inbox).conv \in Convs
        BY <1>8, WireTypes DEF EventArrives, Events
    <2>2. calls' = Asked(Call("fetch", Head(inbox).conv, 0)) \/ UNCHANGED calls
        BY <1>8 DEF EventArrives
    <2>3. QED
        BY <2>1, <2>2, <1>4, <1>5
<1>9. ASSUME NEW j \in DOMAIN view, RetryStored(j) PROVE QuietCalls
    <2>1. view[j].conv \in Convs
        BY MessageFacts DEF ListTypes
    <2>2. QED
        BY <1>4, <1>9, <2>1 DEF RetryStored
<1>10. QED
    BY <1>1, <1>d, <1>2, <1>3, <1>6, <1>7, <1>l, <1>8, <1>9

-----------------------------------------------------------------------------
(* The attempts to send *)

\* What the attempts keep to, and what the requests hold.
SendKept == CallTypes /\ AnswersAreGood /\ SendInv

\* Nothing changes for the attempts.
LEMMA AttemptsStay ==
    ASSUME SendKept, QuietCalls, UNCHANGED sends
    PROVE  SendKept'
<1>1. status' = status /\ pending' = pending
    BY DEF sends
<1>2. SendInv'
    BY <1>1 DEF SendKept, QuietCalls, SendsStay, SendInv
<1>3. QED
    BY <1>2 DEF SendKept, QuietCalls

\* A new attempt, on top of the requests `asked'.
LEMMA AttemptStarts ==
    ASSUME SendTypes, SendKept, NEW c \in Convs, NEW text, NEW ms, NEW others, NEW marks,
           NEW asked, StartSend(c, text, ms, others, marks, asked),
           IsABag(asked), DOMAIN asked \subseteq InFlight,
           \A call \in Sends : call \in DOMAIN asked /\ asked[call] = calls[call],
           DOMAIN others \subseteq DOMAIN pending, \A x \in DOMAIN others : others[x] = pending[x],
           DOMAIN marks \subseteq DOMAIN status, \A x \in DOMAIN marks : marks[x] = status[x],
           DOMAIN marks \subseteq DOMAIN others,
           \A call \in Sends : call.temp \in DOMAIN marks
    PROVE  SendKept'
<1> DEFINE new == bubbles + 1
           post == Call("send", c, new)
<1>1. /\ pending' = With(others, new, text) /\ status' = With(marks, new, "sending")
      /\ calls' = asked (+) SetToBag({post}) /\ new \in 1..MaxBubbles
    BY BubbleIsTyped DEF StartSend
<1> HIDE DEF new
<1>2. post \in Calls /\ post.op = "send" /\ post.temp = new /\ post.done = FALSE
    <2>1. new \in 0..MaxBubbles
        BY <1>1
    <2>2. QED
        BY <2>1, CallIsTyped DEF Call
<1>3. new \notin DOMAIN status /\ new \notin DOMAIN pending
    BY DEF SendTypes, new
<1>4. post \notin InFlight
    BY <1>2, <1>3 DEF SendKept, SendInv, Sends
<1> HIDE DEF post
<1>5. /\ IsABag(SetToBag({post})) /\ DOMAIN SetToBag({post}) = {post}
      /\ SetToBag({post})[post] = 1
    BY BagOf
<1>6. CallTypes' /\ InFlight' = DOMAIN asked \cup {post}
    BY <1>1, <1>2, <1>5, AskedKeeps DEF SendKept
<1>7. Sends' = Sends \cup {post}
    BY <1>2, <1>6 DEF Sends
<1>8. calls'[post] = 1 /\ \A call \in Sends : calls'[call] = calls[call]
    <2> DEFINE more == SetToBag({post})
    <2>0. calls' = asked (+) more /\ IsABag(more) /\ DOMAIN more = {post} /\ more[post] = 1
        BY <1>1, <1>5
    <2> HIDE DEF more
    <2>1. /\ \A y \in DOMAIN asked \ DOMAIN more : calls'[y] = asked[y]
          /\ \A y \in DOMAIN more \ DOMAIN asked : calls'[y] = more[y]
        BY <2>0, AskedCounts
    <2>2. QED
        BY <1>4, <2>0, <2>1 DEF Sends
<1>9. AnswersAreGood'
    BY <1>2, <1>6 DEF AnswersAreGood, GoodAnswer, SendKept
<1>10. /\ DOMAIN status' = DOMAIN marks \cup {new} /\ DOMAIN pending' = DOMAIN others \cup {new}
       /\ status'[new] = "sending" /\ pending'[new] = text
       /\ \A y \in DOMAIN marks : status'[y] = status[y]
       /\ \A y \in DOMAIN others : pending'[y] = pending[y]
    BY <1>1, <1>3 DEF With
<1>11. SendInv'
    <2>1. DOMAIN status' \subseteq DOMAIN pending'
        BY <1>10
    <2>2. ASSUME NEW y \in DOMAIN status', status'[y] = "sending"
          PROVE  \E call \in Sends' : call.temp = y
        <3>1. CASE y = new
            BY <1>2, <1>7, <3>1
        <3>2. CASE y \in DOMAIN marks
            BY <1>7, <1>10, <2>2, <3>2 DEF SendKept, SendInv
        <3>3. QED
            BY <1>10, <3>1, <3>2
    <2>3. ASSUME NEW call \in Sends'
          PROVE  call.temp \in DOMAIN status' /\ status'[call.temp] = "sending" /\ calls'[call] = 1
        <3>1. CASE call = post
            BY <1>2, <1>8, <1>10, <3>1
        <3>2. CASE call \in Sends
            BY <1>8, <1>10, <3>2 DEF SendKept, SendInv
        <3>3. QED
            BY <1>7, <3>1, <3>2
    <2>4. ASSUME NEW a \in Sends', NEW b \in Sends', a.temp = b.temp PROVE a = b
        <3>1. \A y \in Sends : y.temp # new
            BY <1>3 DEF SendKept, SendInv
        <3>2. QED
            BY <1>2, <1>7, <2>4, <3>1 DEF SendKept, SendInv
    <2>5. QED
        BY <2>1, <2>2, <2>3, <2>4 DEF SendInv
<1>12. QED
    BY <1>6, <1>9, <1>11 DEF SendKept

\* The only request of an attempt is settled.
LEMMA AttemptSettles ==
    ASSUME SendKept, NEW call \in Sends, calls' = Settled(call)
    PROVE  /\ CallTypes' /\ AnswersAreGood'
           /\ Sends' = Sends \ {call} /\ \A x \in Sends' : calls'[x] = calls[x]
<1>1. call \in InFlight /\ calls[call] = 1
    BY DEF Sends, SendKept, SendInv
<1>2. CallTypes' /\ InFlight' \subseteq InFlight
    BY <1>1, SettledKeeps DEF SendKept
<1>3. /\ call \notin InFlight'
      /\ \A x \in InFlight \ {call} : x \in InFlight' /\ calls'[x] = calls[x]
    BY <1>1, BagSettled DEF SendKept, CallTypes, Settled, InFlight
<1>4. QED
    BY <1>2, <1>3 DEF Sends, AnswersAreGood, SendKept

LEMMA AttemptSucceeds ==
    ASSUME SendKept, NEW call \in InFlight, SendSucceeds(call)
    PROVE  SendKept'
<1>1. call \in Sends /\ calls' = Settled(call)
    BY DEF SendSucceeds, Sends
<1>2. /\ status' = Without(status, call.temp) /\ pending' = Without(pending, call.temp)
    BY DEF SendSucceeds
<1>3. /\ DOMAIN status' = DOMAIN status \ {call.temp}
      /\ DOMAIN pending' = DOMAIN pending \ {call.temp}
      /\ \A x \in DOMAIN status' : status'[x] = status[x]
      /\ \A x \in DOMAIN pending' : pending'[x] = pending[x]
    BY <1>2 DEF Without
<1>4. /\ CallTypes' /\ AnswersAreGood'
      /\ Sends' = Sends \ {call} /\ \A x \in Sends' : calls'[x] = calls[x]
    BY <1>1, AttemptSettles
<1>5. SendInv'
    BY <1>1, <1>3, <1>4 DEF SendInv, SendKept
<1>6. QED
    BY <1>4, <1>5 DEF SendKept

LEMMA AttemptFails ==
    ASSUME SendKept, NEW call \in InFlight, SendFails(call)
    PROVE  SendKept'
<1>1. call \in Sends /\ calls' = Settled(call) /\ pending' = pending
    BY DEF SendFails, Sends
<1>2. call.temp \in DOMAIN status
    BY <1>1 DEF SendKept, SendInv
<1>3. /\ DOMAIN status' = DOMAIN status /\ status'[call.temp] = "failed"
      /\ \A x \in DOMAIN status \ {call.temp} : status'[x] = status[x]
    BY <1>2 DEF With, SendFails
<1>4. /\ CallTypes' /\ AnswersAreGood'
      /\ Sends' = Sends \ {call} /\ \A x \in Sends' : calls'[x] = calls[x]
    BY <1>1, AttemptSettles
<1>5. SendInv'
    <2>1. \A x \in Sends' : x.temp # call.temp
        BY <1>1, <1>4 DEF SendInv, SendKept
    <2>2. QED
        BY <1>1, <1>3, <1>4, <2>1 DEF SendInv, SendKept
<1>6. QED
    BY <1>4, <1>5 DEF SendKept

\* The server answers the POST: the same request, answered.
LEMMA AttemptAnswered ==
    ASSUME TypeOK, SendKept, NEW call \in InFlight, AnswersSend(call)
    PROVE  SendKept'
<1> DEFINE m == Stored(call.conv, last[call.conv] + 1)
           post == [call EXCEPT !.done = TRUE, !.ans = <<m>>]
<1>1. call \in Sends /\ ~call.done /\ call \in Calls /\ call.conv \in Convs
    BY DEF AnswersSend, Sends, SendKept, CallTypes, Calls
<1>2. m \in Messages /\ m.temp = 0
    <2>1. last[call.conv] + 1 \in 1..MaxMessages
        BY <1>1, ViewAssumption DEF AnswersSend, TypeOK, ServerTypes
    <2>2. QED
        BY <1>1, <2>1 DEF Messages, Stored
<1> HIDE DEF m
<1>3. <<m>> \in Seq(Messages)
    BY <1>2
<1>4. post \in Calls /\ post.op = "send" /\ post.temp = call.temp /\ post.done /\ post.ans = <<m>>
    BY <1>1, <1>3 DEF Calls, Sends
<1>5. calls' = Settled(call) (+) SetToBag({post})
    BY DEF AnswersSend, Answered, m
<1> HIDE DEF post
<1>6. post \notin InFlight
    BY <1>1, <1>4 DEF SendKept, SendInv, Sends
<1>7. /\ IsABag(Settled(call)) /\ DOMAIN Settled(call) \subseteq InFlight
      /\ call \notin DOMAIN Settled(call)
      /\ \A y \in InFlight \ {call} : y \in DOMAIN Settled(call) /\ Settled(call)[y] = calls[y]
    BY <1>1, BagSettled DEF SendKept, CallTypes, Settled, InFlight, SendInv
<1>8. /\ IsABag(SetToBag({post})) /\ DOMAIN SetToBag({post}) = {post} /\ SetToBag({post})[post] = 1
    BY BagOf
<1>9. CallTypes' /\ InFlight' = DOMAIN Settled(call) \cup {post}
    BY <1>4, <1>5, <1>7, <1>8, AskedKeeps DEF SendKept
<1>10. calls'[post] = 1 /\ \A y \in Sends \ {call} : calls'[y] = calls[y]
    <2> DEFINE more == SetToBag({post})
               left == Settled(call)
    <2>0. /\ calls' = left (+) more /\ IsABag(more) /\ DOMAIN more = {post} /\ more[post] = 1
          /\ IsABag(left) /\ post \notin DOMAIN left
          /\ \A y \in InFlight \ {call} : y \in DOMAIN left /\ left[y] = calls[y]
        BY <1>5, <1>6, <1>7, <1>8
    <2> HIDE DEF more, left
    <2>1. /\ \A y \in DOMAIN left \ DOMAIN more : calls'[y] = left[y]
          /\ \A y \in DOMAIN more \ DOMAIN left : calls'[y] = more[y]
        BY <2>0, AskedCounts
    <2>2. QED
        BY <1>6, <2>0, <2>1 DEF Sends
<1>11. Sends' = (Sends \ {call}) \cup {post}
    BY <1>4, <1>7, <1>9 DEF Sends
<1>12. AnswersAreGood'
    <2>1. GoodAnswer(post)
        BY <1>2, <1>4 DEF GoodAnswer, Distinct
    <2>2. QED
        BY <1>7, <1>9, <2>1 DEF AnswersAreGood, SendKept
<1>13. status' = status /\ pending' = pending
    BY DEF AnswersSend, sends
<1>14. SendInv'
    BY <1>1, <1>4, <1>10, <1>11, <1>13 DEF SendInv, SendKept
<1>15. QED
    BY <1>9, <1>12, <1>14 DEF SendKept

LEMMA AttemptsForgotten ==
    ASSUME TypeOK, Reload
    PROVE  SendKept'
<1>1. status' = <<>> /\ pending' = <<>>
    BY DEF Reload
<1>2. EmptyBag = SetToBag({})
    BY DEF EmptyBag, SetToBag
<1>3. PICK S : calls' = SetToBag(S) /\ S \subseteq {Call("fetch", shown, 0)} /\ (S # {} => shown # None)
    BY <1>2 DEF Reload
<1>4. ASSUME NEW call \in S
      PROVE  call \in Calls /\ call.op # "send" /\ ~call.done
    <2>1. shown \in Convs /\ 0 \in 0..MaxBubbles
        BY <1>3, ViewAssumption DEF TypeOK, ListTypes
    <2>2. call = Call("fetch", shown, 0)
        BY <1>3
    <2>3. /\ Call("fetch", shown, 0) \in Calls /\ ~Call("fetch", shown, 0).done
          /\ Call("fetch", shown, 0).op = "fetch"
        BY <2>1, CallIsTyped DEF Call
    <2>4. QED
        BY <2>2, <2>3
<1>5. IsABag(calls') /\ InFlight' = S
    BY <1>3, BagOf DEF InFlight
<1>6. CallTypes' /\ AnswersAreGood' /\ Sends' = {}
    BY <1>4, <1>5 DEF CallTypes, AnswersAreGood, GoodAnswer, Sends
<1>7. QED
    BY <1>1, <1>6 DEF SendKept, SendInv


-----------------------------------------------------------------------------
(* The list, in order *)

ListKept == EachOnceInOrder /\ BubblesAreTold

\* What is on screen, and what the copies hold, are messages.
LEMMA KeptAreMessages ==
    ASSUME ListTypes
    PROVE  Kept \subseteq Messages
<1>1. \A i \in DOMAIN view : view[i] \in Messages
    BY DEF ListTypes
<1>2. \A c \in Convs : \A i \in DOMAIN cache[c] : cache[c][i] \in Messages
    <2>1. \A c \in Convs : cache[c] \in Seq(Messages)
        BY DEF ListTypes
    <2>2. QED
        BY <2>1
<1>3. QED
    BY <1>1, <1>2 DEF Kept

\* A list in order is shown and saved; S is what is new in it.
LEMMA SavedInOrder ==
    ASSUME ListTypes, EachOnceInOrder, NEW c \in Convs, NEW ms \in Seq(Messages), InOrder(ms),
           ShowAndSave(c, ms), NEW S, \A i \in DOMAIN ms : ms[i] \in Kept \cup S
    PROVE  EachOnceInOrder' /\ Kept' \subseteq Kept \cup S
<1> DEFINE copy == Normalize(ms)
<1>1. InOrder(copy) /\ \A k \in DOMAIN copy : \E i \in DOMAIN ms : copy[k] = ms[i]
    BY NormalizeFacts
<1>2. view' = ms /\ cache' = [cache EXCEPT ![c] = copy]
    BY DEF ShowAndSave
<1> HIDE DEF copy
<1>3. /\ cache'[c] = copy /\ \A d \in Convs \ {c} : cache'[d] = cache[d]
    BY <1>2 DEF ListTypes
<1>4. EachOnceInOrder'
    <2>1. InOrder(view')
        BY <1>2
    <2>2. \A d \in Convs : InOrder(cache'[d])
        BY <1>1, <1>3 DEF EachOnceInOrder
    <2>3. QED
        BY <2>1, <2>2 DEF EachOnceInOrder, InOrder
<1>5. ASSUME NEW m \in Kept' PROVE m \in Kept \cup S
    <2>1. CASE \E i \in DOMAIN view' : m = view'[i]
        BY <1>2, <2>1
    <2>2. CASE \E d \in Convs : \E i \in DOMAIN cache'[d] : m = cache'[d][i]
        <3>1. PICK d \in Convs : \E i \in DOMAIN cache'[d] : m = cache'[d][i]
            BY <2>2
        <3>2. CASE d = c
            BY <1>1, <1>3, <3>1, <3>2
        <3>3. CASE d # c
            <4>1. \E i \in DOMAIN cache[d] : m = cache[d][i]
                BY <1>3, <3>1, <3>3
            <4>2. QED
                BY <4>1 DEF Kept
        <3>4. QED
            BY <3>2, <3>3
    <2>3. QED
        BY <2>1, <2>2 DEF Kept
<1>6. QED
    BY <1>4, <1>5

\* A copy is shown.
LEMMA CopyInOrder ==
    ASSUME EachOnceInOrder, NEW c \in Convs, ShowCached(c)
    PROVE  EachOnceInOrder' /\ Kept' \subseteq Kept
BY DEF EachOnceInOrder, InOrder, ShowCached, Kept

\* Stored messages may be new; bubbles are not.
LEMMA BubblesStay ==
    ASSUME SendTypes, BubblesAreTold, UNCHANGED bubbles, NEW S, \A m \in S : m.temp = 0,
           Kept' \subseteq Kept \cup S
    PROVE  BubblesAreTold'
<1>1. bubbles' = bubbles /\ bubbles \in Nat
    BY DEF SendTypes
<1>2. \A m \in Kept' : m \in Kept \/ m.temp = 0
    OBVIOUS
<1>3. QED
    BY <1>1, <1>2 DEF BubblesAreTold

\* The bubble of a new attempt goes to the end of what is left of the list.
LEMMA StartInOrder ==
    ASSUME TypeOK, ListKept, NEW c \in Convs, NEW text, NEW ms \in Seq(Messages), InOrder(ms),
           \A i \in DOMAIN ms : ms[i] \in Kept, NEW others, NEW marks,
           NEW asked, StartSend(c, text, ms, others, marks, asked)
    PROVE  ListKept'
<1> USE DEF TypeOK
<1> DEFINE mine == Bubble(c, bubbles + 1)
           more == Append(ms, mine)
<1>1. /\ bubbles' = bubbles + 1 /\ bubbles + 1 <= MaxBubbles
      /\ ShowAndSave(c, more)
    BY DEF StartSend
<1>2. mine \in Messages /\ mine.temp = bubbles + 1 /\ mine.seq = MaxMessages + bubbles + 1
    BY <1>1, BubbleIsTyped
<1>3. bubbles \in Nat /\ MaxMessages \in Nat
    BY ViewAssumption DEF SendTypes
<1> HIDE DEF mine
<1>4. \A m \in Kept : m.temp <= bubbles /\ m.temp \in Nat /\ m.seq < mine.seq
    <2>1. ASSUME NEW m \in Kept PROVE m.temp <= bubbles /\ m.temp \in Nat /\ m.seq < mine.seq
        <3>1. m \in Messages /\ m.temp <= bubbles
            BY KeptAreMessages DEF ListKept, BubblesAreTold
        <3>2. m.seq \in Nat /\ m.temp \in Nat
              /\ (m.temp = 0 => m.seq <= MaxMessages)
              /\ (m.temp # 0 => m.seq = MaxMessages + m.temp)
            BY <3>1, MessageFacts
        <3>3. QED
            BY <1>2, <1>3, <3>1, <3>2
    <2>2. QED
        BY <2>1
<1>5. /\ more \in Seq(Messages) /\ InOrder(more)
      /\ \A i \in DOMAIN more : more[i] = mine \/ \E j \in DOMAIN ms : more[i] = ms[j]
    BY <1>2, <1>4, AppendedInOrder
<1> HIDE DEF more
<1>6. \A i \in DOMAIN more : more[i] \in Kept \cup {mine}
    BY <1>5
<1>7. EachOnceInOrder' /\ Kept' \subseteq Kept \cup {mine}
    BY <1>1, <1>5, <1>6, SavedInOrder DEF ListKept
<1>8. BubblesAreTold'
    BY <1>1, <1>2, <1>3, <1>4, <1>7 DEF ListKept, BubblesAreTold
<1>9. QED
    BY <1>7, <1>8 DEF ListKept

\* A stored message takes the place of its bubble.
LEMMA SentInOrder ==
    ASSUME TypeOK, ListKept, SendInv, AnswersAreGood, NEW call \in InFlight, SendSucceeds(call)
    PROVE  ListKept'
<1> USE DEF TypeOK
<1> DEFINE real == call.ans[1]
           rest == OthersThan(call.temp)
           new  == Sorted(Replaced(call.temp, real))
<1>1. call.conv \in Convs /\ real \in Messages /\ real.temp = 0
    BY AnswerIsTyped DEF SendSucceeds
<1>2. call.temp \in Nat \ {0}
    BY DEF SendSucceeds, SendInv, Sends, SendTypes
<1>3. view \in Seq(Messages) /\ InOrder(view) /\ \A i \in DOMAIN view : view[i] \in Kept
    BY DEF ListTypes, ListKept, EachOnceInOrder, Kept
<1>4. bubbles' = bubbles
    BY DEF SendSucceeds
<1>5. \/ ShowAndSave(call.conv, rest)
      \/ ~Contains(view, real) /\ ShowAndSave(call.conv, new)
    BY DEF SendSucceeds, Replaced
<1> HIDE DEF real
<1>6. /\ rest \in Seq(Messages) /\ InOrder(rest) /\ \A i \in DOMAIN rest : rest[i] \in Kept
    BY <1>3, OthersFacts
<1>7. ASSUME ~Contains(view, real)
      PROVE  /\ new \in Seq(Messages) /\ InOrder(new)
             /\ \A i \in DOMAIN new : new[i] \in Kept \cup {real}
    <2> DEFINE repl == Replaced(call.temp, real)
    <2>1. repl \in Seq(Messages) /\ \A i \in DOMAIN repl : repl[i] \in Kept \cup {real}
        BY <1>1, <1>3, ReplacedFacts
    <2>2. Distinct(repl, DOMAIN repl)
        BY <1>1, <1>2, <1>3, <1>7, ReplacedIsDistinct DEF ListKept
    <2>3. new = Sorted(repl)
        OBVIOUS
    <2> HIDE DEF repl, new
    <2>4. QED
        BY <2>1, <2>2, <2>3, SortedFacts
<1> HIDE DEF rest, new
<1>8. EachOnceInOrder' /\ Kept' \subseteq Kept \cup {real}
    <2>1. CASE ShowAndSave(call.conv, rest)
        <3>1. \A i \in DOMAIN rest : rest[i] \in Kept \cup {real}
            BY <1>6
        <3>2. QED
            BY <1>1, <1>6, <2>1, <3>1, SavedInOrder DEF ListKept
    <2>2. CASE ~Contains(view, real) /\ ShowAndSave(call.conv, new)
        BY <1>1, <1>7, <2>2, SavedInOrder DEF ListKept
    <2>3. QED
        BY <1>5, <2>1, <2>2
<1> DEFINE S == {real}
<1>9. (\A m \in S : m.temp = 0) /\ Kept' \subseteq Kept \cup S
    BY <1>1, <1>8
<1> HIDE DEF S
<1>10. QED
    BY <1>4, <1>8, <1>9, BubblesStay DEF ListKept

\* The answer of a fetch is shown, sorted.
LEMMA FetchedInOrder ==
    ASSUME TypeOK, ListKept, AnswersAreGood, NEW call \in InFlight, FetchSucceeds(call)
    PROVE  ListKept'
<1> USE DEF TypeOK
<1> DEFINE page == Sorted(call.ans)
           S    == {call.ans[i] : i \in DOMAIN call.ans}
<1>1. call.done /\ bubbles' = bubbles
    BY DEF FetchSucceeds, sends
<1>2. call.conv \in Convs /\ call.ans \in Seq(Messages)
    BY <1>1, AnswerIsTyped
<1>3. Distinct(call.ans, DOMAIN call.ans) /\ \A m \in S : m.temp = 0
    BY <1>1 DEF AnswersAreGood, GoodAnswer
<1>4. /\ page \in Seq(Messages) /\ InOrder(page)
      /\ \A k \in DOMAIN page : \E i \in DOMAIN call.ans : page[k] = call.ans[i]
    BY <1>2, <1>3, SortedFacts
<1>5. ShowAndSave(call.conv, page) \/ UNCHANGED <<view, cache>>
    BY DEF FetchSucceeds
<1> HIDE DEF page
<1>6. \A k \in DOMAIN page : page[k] \in Kept \cup S
    BY <1>4
<1> HIDE DEF S
<1>7. EachOnceInOrder' /\ Kept' \subseteq Kept \cup S
    <2>1. CASE ShowAndSave(call.conv, page)
        BY <1>2, <1>4, <1>6, <2>1, SavedInOrder DEF ListKept
    <2>2. CASE UNCHANGED <<view, cache>>
        BY <2>2 DEF ListKept, EachOnceInOrder, InOrder, Kept
    <2>3. QED
        BY <1>5, <2>1, <2>2
<1>8. QED
    BY <1>1, <1>3, <1>7, BubblesStay DEF ListKept

\* An event brings a message that is not there, or shows a copy.
LEMMA EventInOrder ==
    ASSUME TypeOK, ListKept, EventArrives
    PROVE  ListKept'
<1> USE DEF TypeOK
<1> DEFINE e == Head(inbox)
           m == Stored(e.conv, e.seq)
           next == Sorted(Append(view, m))
<1>1. e.conv \in Convs /\ e.seq \in 1..MaxMessages
    BY WireTypes DEF EventArrives, Events
<1>2. m \in Messages /\ m.temp = 0
    BY <1>1 DEF Messages, Stored
<1>3. bubbles' = bubbles
    BY DEF EventArrives, sends
<1>4. view \in Seq(Messages) /\ InOrder(view) /\ \A i \in DOMAIN view : view[i] \in Kept
    BY DEF ListTypes, ListKept, EachOnceInOrder, Kept
<1>5. \/ UNCHANGED <<view, cache>>
      \/ ShowCached(e.conv)
      \/ /\ ~Contains(view, m) /\ view' = next
         /\ cache' \in {cache, [cache EXCEPT ![e.conv] = Normalize(next)]}
    BY DEF EventArrives, Appended, list
<1> HIDE DEF e, m
<1>6. ASSUME ~Contains(view, m)
      PROVE  /\ next \in Seq(Messages) /\ InOrder(next)
             /\ \A i \in DOMAIN next : next[i] \in Kept \cup {m}
    <2> DEFINE more == Append(view, m)
    <2>1. /\ more \in Seq(Messages) /\ DOMAIN more = 1 .. Len(view) + 1 /\ Len(view) \in Nat
          /\ DOMAIN view = 1..Len(view)
          /\ \A i \in DOMAIN view : more[i] = view[i]
          /\ more[Len(view) + 1] = m
        BY <1>2, <1>4
    <2>2. \A i \in DOMAIN more : more[i] \in Kept \cup {m}
        BY <1>4, <2>1
    <2>3. \A i \in DOMAIN view : view[i] # m
        BY <1>6 DEF Contains
    <2>4. \A i, j \in DOMAIN view : i # j => view[i] # view[j]
        BY <1>4, OrderedIsDistinct DEF Distinct
    <2>5. next = Sorted(more)
        OBVIOUS
    <2> HIDE DEF more, next
    <2>6. Distinct(more, DOMAIN more)
        BY <2>1, <2>3, <2>4 DEF Distinct
    <2>7. QED
        BY <2>1, <2>2, <2>5, <2>6, SortedFacts
<1> HIDE DEF next
<1>7. EachOnceInOrder' /\ Kept' \subseteq Kept \cup {m}
    <2>1. CASE UNCHANGED <<view, cache>>
        BY <2>1 DEF ListKept, EachOnceInOrder, InOrder, Kept
    <2>2. CASE ShowCached(e.conv)
        BY <1>1, <2>2, CopyInOrder DEF ListKept
    <2>3. CASE /\ ~Contains(view, m) /\ view' = next /\ cache' = cache
        <3>1. EachOnceInOrder'
            BY <1>6, <2>3 DEF ListKept, EachOnceInOrder, InOrder
        <3>2. Kept' \subseteq Kept \cup {m}
            BY <1>6, <2>3 DEF Kept
        <3>3. QED
            BY <3>1, <3>2
    <2>4. CASE /\ ~Contains(view, m) /\ view' = next
               /\ cache' = [cache EXCEPT ![e.conv] = Normalize(next)]
        <3>1. ShowAndSave(e.conv, next)
            BY <2>4 DEF ShowAndSave
        <3>2. QED
            BY <1>1, <1>6, <2>4, <3>1, SavedInOrder DEF ListKept
    <2>5. QED
        BY <1>5, <2>1, <2>2, <2>3, <2>4
<1> DEFINE S == {m}
<1>8. (\A x \in S : x.temp = 0) /\ Kept' \subseteq Kept \cup S
    BY <1>2, <1>7
<1> HIDE DEF S
<1>9. QED
    BY <1>3, <1>7, <1>8, BubblesStay DEF ListKept


\* The list stays as it is, or a copy is shown.
LEMMA ListStays ==
    ASSUME SendTypes, ListKept, UNCHANGED bubbles,
           UNCHANGED <<view, cache>> \/ \E c \in Convs : ShowCached(c)
    PROVE  ListKept'
<1>1. EachOnceInOrder' /\ Kept' \subseteq Kept
    <2>1. CASE UNCHANGED <<view, cache>>
        BY <2>1 DEF ListKept, EachOnceInOrder, InOrder, Kept
    <2>2. CASE \E c \in Convs : ShowCached(c)
        BY <2>2, CopyInOrder DEF ListKept
    <2>3. QED
        BY <2>1, <2>2
<1>2. QED
    BY <1>1 DEF ListKept, BubblesAreTold

\* The attempts and the list, in every step.
LEMMA SendAndListStep ==
    ASSUME TypeOK, SendInv, ListInv, [Next]_vars
    PROVE  SendKept' /\ ListKept'
<1> USE DEF TypeOK
<1>a. SendKept /\ ListKept /\ AnswersAreGood
    BY DEF SendKept, ListInv, ListKept
<1>b. view \in Seq(Messages) /\ InOrder(view) /\ \A i \in DOMAIN view : view[i] \in Kept
    BY <1>a DEF ListTypes, ListKept, EachOnceInOrder, Kept
<1>1. ASSUME NEW t \in Texts, Send(t) PROVE SendKept' /\ ListKept'
    <2>1. /\ shown \in Convs
          /\ StartSend(shown, t, view, pending, status, calls)
        BY <1>1 DEF Send, ListTypes
    <2>2. /\ IsABag(calls) /\ DOMAIN calls \subseteq InFlight
          /\ \A call \in Sends : call \in DOMAIN calls /\ calls[call] = calls[call]
        BY AllUnderWay
    <2>3. DOMAIN status \subseteq DOMAIN pending /\ \A call \in Sends : call.temp \in DOMAIN status
        BY DEF SendInv
    <2>4. SendKept'
        BY <1>a, <2>1, <2>2, <2>3, AttemptStarts
    <2>5. ListKept'
        BY <1>a, <1>b, <2>1, StartInOrder
    <2>6. QED
        BY <2>4, <2>5
<1>l. ASSUME NEW call \in InFlight, UploadSucceeds(call) PROVE SendKept' /\ ListKept'
    <2>1. /\ call.conv \in Convs /\ call.op # "send"
          /\ StartSend(call.conv, Media, view, pending, status, Settled(call))
        BY <1>l DEF UploadSucceeds, CallTypes, Calls
    <2>2. /\ IsABag(Settled(call)) /\ DOMAIN Settled(call) \subseteq InFlight
          /\ \A x \in Sends : x \in DOMAIN Settled(call) /\ Settled(call)[x] = calls[x]
        BY <1>a, <2>1, SettledQuietly
    <2>3. DOMAIN status \subseteq DOMAIN pending /\ \A x \in Sends : x.temp \in DOMAIN status
        BY DEF SendInv
    <2>4. SendKept'
        BY <1>a, <2>1, <2>2, <2>3, AttemptStarts
    <2>5. ListKept'
        BY <1>a, <1>b, <2>1, StartInOrder
    <2>6. QED
        BY <2>4, <2>5
<1>2. ASSUME NEW j \in DOMAIN view, RetryBubble(j) PROVE SendKept' /\ ListKept'
    <2> DEFINE old    == view[j].temp
               others == Without(pending, old)
               marks  == Without(status, old)
    <2>1. /\ old \in DOMAIN status /\ old \in DOMAIN pending /\ status[old] = "failed"
          /\ StartSend(view[j].conv, pending[old], OthersThan(old), others, marks, calls)
        BY <1>2 DEF RetryBubble
    <2>2. /\ DOMAIN others = DOMAIN pending \ {old} /\ \A x \in DOMAIN others : others[x] = pending[x]
          /\ DOMAIN marks = DOMAIN status \ {old} /\ \A x \in DOMAIN marks : marks[x] = status[x]
        BY DEF Without
    <2>3. view[j].conv \in Convs
        BY <1>b, MessageFacts
    <2> HIDE DEF others, marks, old
    <2>4. DOMAIN marks \subseteq DOMAIN others
        BY <2>1, <2>2 DEF SendInv
    <2>5. /\ \A call \in Sends : call.temp \in DOMAIN marks
          /\ IsABag(calls) /\ DOMAIN calls \subseteq InFlight
          /\ \A call \in Sends : call \in DOMAIN calls /\ calls[call] = calls[call]
        BY <2>1, <2>2, AllUnderWay DEF SendInv
    <2>6. SendKept'
        BY <1>a, <2>1, <2>2, <2>3, <2>4, <2>5, AttemptStarts
    <2>7. /\ OthersThan(old) \in Seq(Messages) /\ InOrder(OthersThan(old))
          /\ \A i \in DOMAIN OthersThan(old) : OthersThan(old)[i] \in Kept
        BY <1>b, OthersFacts
    <2>8. ListKept'
        BY <1>a, <2>1, <2>3, <2>7, StartInOrder
    <2>9. QED
        BY <2>6, <2>8
<1>3. ASSUME NEW call \in InFlight, SendSucceeds(call) PROVE SendKept' /\ ListKept'
    BY <1>3, <1>a, AttemptSucceeds, SentInOrder
<1>4. ASSUME NEW call \in InFlight, SendFails(call) PROVE SendKept' /\ ListKept'
    <2>1. SendKept'
        BY <1>4, <1>a, AttemptFails
    <2>2. UNCHANGED <<bubbles, view, cache>>
        BY <1>4 DEF SendFails, list
    <2>3. QED
        BY <1>a, <2>1, <2>2, ListStays
<1>5. ASSUME NEW call \in InFlight, AnswersSend(call) PROVE SendKept' /\ ListKept'
    <2>1. SendKept'
        BY <1>5, <1>a, AttemptAnswered
    <2>2. UNCHANGED <<bubbles, view, cache>>
        BY <1>5 DEF AnswersSend, list, sends
    <2>3. QED
        BY <1>a, <2>1, <2>2, ListStays
<1>6. CASE Reload
    <2>1. SendKept'
        BY <1>6, AttemptsForgotten
    <2>2. cache' = cache /\ bubbles' = bubbles /\ (view' = <<>> \/ \E c \in Convs : view' = cache[c])
        BY <1>6 DEF Reload, ListTypes
    <2>3. EachOnceInOrder' /\ Kept' \subseteq Kept
        BY <1>a, <2>2 DEF ListKept, EachOnceInOrder, InOrder, Kept
    <2>4. ListKept'
        BY <1>a, <2>2, <2>3 DEF ListKept, BubblesAreTold
    <2>5. QED
        BY <2>1, <2>4
<1>q. ASSUME QuietCalls, UNCHANGED sends,
             UNCHANGED <<view, cache>> \/ \E c \in Convs : ShowCached(c)
      PROVE  SendKept' /\ ListKept'
    BY <1>a, <1>q, AttemptsStay, ListStays DEF sends
<1>u. UNCHANGED calls => QuietCalls
    BY <1>a DEF QuietCalls, CallTypes, AnswersAreGood, SendsStay, Sends, InFlight
<1>7. ASSUME NEW call \in InFlight, FetchSucceeds(call) PROVE SendKept' /\ ListKept'
    <2>0. QuietCalls
        BY <1>7, <1>a, QuietStep
    <2>1. UNCHANGED sends
        BY <1>7 DEF FetchSucceeds
    <2>2. QED
        BY <1>7, <1>a, <2>0, <2>1, AttemptsStay, FetchedInOrder
<1>8. ASSUME NEW call \in InFlight, RetrySucceeds(call) PROVE SendKept' /\ ListKept'
    <2>0. QuietCalls
        BY <1>8, <1>a, QuietStep
    <2>1. UNCHANGED sends
        BY <1>8 DEF RetrySucceeds
    <2>2. call.conv \in Convs /\ ShowAndSave(call.conv, view) /\ UNCHANGED bubbles
        BY <1>8 DEF RetrySucceeds, sends, CallTypes, Calls
    <2>3. EachOnceInOrder' /\ Kept' \subseteq Kept \cup {}
        BY <1>a, <1>b, <2>2, SavedInOrder DEF ListKept
    <2>4. ListKept'
        BY <1>a, <2>2, <2>3 DEF ListKept, BubblesAreTold
    <2>5. QED
        BY <1>a, <2>0, <2>1, <2>4, AttemptsStay
<1>9. CASE EventArrives
    <2>0. QuietCalls
        BY <1>9, <1>a, QuietStep
    <2>1. UNCHANGED sends
        BY <1>9 DEF EventArrives
    <2>2. QED
        BY <1>9, <1>a, <2>0, <2>1, AttemptsStay, EventInOrder
<1>10. ASSUME NEW call \in InFlight,
              \/ AnswersFetch(call) \/ FetchFails(call) \/ RetryFails(call)
              \/ AnswersDelete(call) \/ UploadFails(call) \/ DeleteFails(call)
       PROVE  SendKept' /\ ListKept'
    <2>1. QuietCalls
        BY <1>10, <1>a, QuietStep
    <2>2. UNCHANGED sends /\ UNCHANGED <<view, cache>>
        BY <1>10 DEF AnswersFetch, FetchFails, RetryFails, AnswersDelete, UploadFails,
                     DeleteFails, list
    <2>3. QED
        BY <1>q, <2>1, <2>2
<1>11. ASSUME NEW call \in InFlight, MarkReadSettles(call) \/ DeleteSucceeds(call)
       PROVE  SendKept' /\ ListKept'
    <2>1. QuietCalls
        BY <1>11, <1>a, QuietStep
    <2>2. call.conv \in Convs /\ ShowCached(call.conv) /\ UNCHANGED sends
        BY <1>11 DEF MarkReadSettles, DeleteSucceeds, CallTypes, Calls
    <2>3. QED
        BY <1>q, <2>1, <2>2
<1>12. ASSUME NEW c \in Convs, NEW unread \in BOOLEAN, NEW effects \in BOOLEAN,
              Open(c, unread, effects)
       PROVE  SendKept' /\ ListKept'
    <2>1. QuietCalls
        BY <1>12, <1>a, QuietStep
    <2>2. UNCHANGED sends /\ (ShowCached(c) \/ UNCHANGED <<view, cache>>)
        BY <1>12 DEF Open, list
    <2>3. QED
        BY <1>q, <2>1, <2>2
<1>13. CASE Hydrate
    <2>1. QuietCalls
        BY <1>13, <1>a, QuietStep
    <2>2. shown \in Convs /\ ShowCached(shown) /\ UNCHANGED sends
        BY <1>13 DEF Hydrate, ListTypes
    <2>3. QED
        BY <1>q, <2>1, <2>2
<1>14. ASSUME NEW j \in DOMAIN view, RetryStored(j) PROVE SendKept' /\ ListKept'
    <2>1. QuietCalls
        BY <1>14, <1>a, QuietStep
    <2>2. UNCHANGED sends /\ UNCHANGED <<view, cache>>
        BY <1>14 DEF RetryStored, list
    <2>3. QED
        BY <1>q, <2>1, <2>2
<1>n. CASE Upload \/ Delete
    <2>1. QuietCalls
        BY <1>n, <1>a, QuietStep
    <2>2. UNCHANGED sends /\ UNCHANGED <<view, cache>>
        BY <1>n DEF Upload, Delete, list
    <2>3. QED
        BY <1>q, <2>1, <2>2
<1>15. CASE ServerReceives \/ Connect \/ Drop \/ ActiveVanishes \/ UNCHANGED vars
    BY <1>15, <1>q, <1>u DEF ServerReceives, Connect, Drop, ActiveVanishes, list, sends, vars
<1>16. ASSUME NEW c \in Convs,
              MessageArrives(c) \/ \E n \in stored[c] : MessageDeleted(c, n)
       PROVE  SendKept' /\ ListKept'
    BY <1>16, <1>q, <1>u DEF MessageArrives, MessageDeleted, list, sends
<1>17. QED
    BY <1>1, <1>l, <1>2, <1>3, <1>4, <1>5, <1>6, <1>7, <1>8, <1>9, <1>10, <1>11, <1>12,
       <1>13, <1>14, <1>n, <1>15, <1>16
    DEF Next, Server, Answers, User, Elsewhere, Click, FollowLink


-----------------------------------------------------------------------------
(* The subscriptions *)

\* What WillBeSubscribed says, of any frames on the wire and subscriptions.
Will(frames, on, c) ==
    \/ \E i \in DOMAIN frames :
          /\ frames[i].conv = c /\ \A j \in DOMAIN frames : j > i => frames[j].conv # c
          /\ frames[i].type = "subscribe"
    \/ c \in on /\ \A i \in DOMAIN frames : frames[i].conv # c

LEMMA WillIs ==
    /\ \A c : WillBeSubscribed(c) <=> Will(outbox, subs, c)
    /\ \A c : WillBeSubscribed(c)' <=> Will(outbox', subs', c)
BY DEF WillBeSubscribed, IsLast, Will

\* One more frame decides about its conversation, and about no other.
LEMMA WillAppend ==
    ASSUME NEW frames \in Seq(Frames), NEW f \in Frames, NEW on, NEW c
    PROVE  Will(frames \o <<f>>, on, c) <=>
               IF f.conv = c THEN f.type = "subscribe" ELSE Will(frames, on, c)
<1> DEFINE n    == Len(frames)
           more == frames \o <<f>>
<1>1. /\ n \in Nat /\ DOMAIN frames = 1..n /\ DOMAIN more = 1 .. n + 1
      /\ \A i \in 1..n : more[i] = frames[i]
      /\ more[n + 1] = f
    OBVIOUS
<1> HIDE DEF n, more
<1>2. CASE f.conv = c
    <2>1. n + 1 \in DOMAIN more /\ \A j \in DOMAIN more : ~(j > n + 1)
        BY <1>1
    <2>2. \A i \in DOMAIN more : i # n + 1 => n + 1 > i
        BY <1>1
    <2>3. QED
        BY <1>1, <1>2, <2>1, <2>2 DEF Will, more
<1>3. CASE f.conv # c
    <2>1. \A i \in DOMAIN more : more[i].conv = c => i \in DOMAIN frames /\ more[i] = frames[i]
        BY <1>1, <1>3
    <2>2. \A i \in DOMAIN frames : i \in DOMAIN more /\ more[i] = frames[i]
        BY <1>1
    <2>3. Will(more, on, c) <=> Will(frames, on, c)
        BY <2>1, <2>2 DEF Will
    <2>4. QED
        BY <1>3, <2>3 DEF more
<1>4. QED
    BY <1>2, <1>3

\* A frame that may be written.
LEMMA WillMaybe ==
    ASSUME NEW frames \in Seq(Frames), NEW f \in Frames, NEW on, NEW some,
           some \in {<<>>, <<f>>}, NEW c
    PROVE  /\ frames \o some \in Seq(Frames)
           /\ Will(frames \o some, on, c) <=>
                 IF some # <<>> /\ f.conv = c THEN f.type = "subscribe"
                                              ELSE Will(frames, on, c)
<1>1. CASE some = <<>>
    <2>1. frames \o some = frames
        BY <1>1
    <2>2. QED
        BY <1>1, <2>1
<1>2. CASE some = <<f>>
    <2>1. frames \o <<f>> \in Seq(Frames) /\ <<f>> # <<>>
        OBVIOUS
    <2>2. QED
        BY <1>2, <2>1, WillAppend
<1>3. QED
    BY <1>1, <1>2

\* A frame that the server takes makes no difference to what will be.
LEMMA WillTaken ==
    ASSUME NEW frames \in Seq(Frames), frames # <<>>, NEW on, NEW on2, NEW c,
           on2 = IF Head(frames).type = "subscribe"
                 THEN on \cup {Head(frames).conv} ELSE on \ {Head(frames).conv}
    PROVE  Will(Tail(frames), on2, c) <=> Will(frames, on, c)
<1> DEFINE n    == Len(frames)
           rest == Tail(frames)
           f    == Head(frames)
<1>1. /\ n \in Nat /\ n > 0 /\ DOMAIN frames = 1..n /\ DOMAIN rest = 1 .. n - 1
      /\ \A i \in 1 .. n - 1 : rest[i] = frames[i + 1] /\ i + 1 \in 1..n
      /\ frames[1] = f /\ 1 \in 1..n
    <2>1. n \in Nat /\ n > 0 /\ DOMAIN frames = 1..n
        OBVIOUS
    <2>2. DOMAIN rest = 1 .. n - 1 /\ \A i \in 1 .. n - 1 : rest[i] = frames[i + 1]
        OBVIOUS
    <2>3. frames[1] = f
        OBVIOUS
    <2> HIDE DEF n, rest, f
    <2>4. 1 \in 1..n /\ \A i \in 1 .. n - 1 : i + 1 \in 1..n
        BY <2>1
    <2>5. QED
        BY <2>1, <2>2, <2>3, <2>4
<1>2. on2 = IF f.type = "subscribe" THEN on \cup {f.conv} ELSE on \ {f.conv}
    OBVIOUS
<1> HIDE DEF n, rest, f
<1>3. \A i \in 1..n : i # 1 => i - 1 \in 1 .. n - 1 /\ frames[i] = rest[i - 1]
    BY <1>1
<1>4. CASE \E i \in 1 .. n - 1 : rest[i].conv = c
    <2>1. Will(rest, on2, c) <=>
            \E i \in 1 .. n - 1 : /\ rest[i].conv = c
                                  /\ \A j \in 1 .. n - 1 : j > i => rest[j].conv # c
                                  /\ rest[i].type = "subscribe"
        BY <1>1, <1>4 DEF Will
    <2>2. Will(frames, on, c) <=>
            \E i \in 1..n : /\ frames[i].conv = c
                            /\ \A j \in 1..n : j > i => frames[j].conv # c
                            /\ frames[i].type = "subscribe"
        BY <1>1, <1>4 DEF Will
    <2>3. ASSUME NEW i \in 1 .. n - 1, rest[i].conv = c,
                 \A j \in 1 .. n - 1 : j > i => rest[j].conv # c,
                 rest[i].type = "subscribe"
          PROVE  \E k \in 1..n : /\ frames[k].conv = c
                                 /\ \A j \in 1..n : j > k => frames[j].conv # c
                                 /\ frames[k].type = "subscribe"
        <3>1. i + 1 \in 1..n /\ frames[i + 1] = rest[i]
            BY <1>1
        <3>2. ASSUME NEW j \in 1..n, j > i + 1 PROVE frames[j].conv # c
            <4>1. j - 1 \in 1 .. n - 1 /\ j - 1 > i /\ frames[j] = rest[j - 1]
                BY <1>1, <1>3, <3>2
            <4>2. QED
                BY <2>3, <4>1
        <3>3. QED
            BY <2>3, <3>1, <3>2
    <2>4. ASSUME NEW k \in 1..n, frames[k].conv = c,
                 \A j \in 1..n : j > k => frames[j].conv # c,
                 frames[k].type = "subscribe"
          PROVE  \E i \in 1 .. n - 1 : /\ rest[i].conv = c
                                       /\ \A j \in 1 .. n - 1 : j > i => rest[j].conv # c
                                       /\ rest[i].type = "subscribe"
        <3>1. k # 1
            <4>1. PICK i \in 1 .. n - 1 : rest[i].conv = c
                BY <1>4
            <4>2. i + 1 \in 1..n /\ i + 1 > 1 /\ frames[i + 1].conv = c
                BY <1>1, <4>1
            <4>3. QED
                BY <2>4, <4>2
        <3>2. k - 1 \in 1 .. n - 1 /\ frames[k] = rest[k - 1]
            BY <1>3, <3>1
        <3>3. ASSUME NEW j \in 1 .. n - 1, j > k - 1 PROVE rest[j].conv # c
            <4>1. j + 1 \in 1..n /\ j + 1 > k /\ frames[j + 1] = rest[j]
                BY <1>1, <3>3
            <4>2. QED
                BY <2>4, <4>1
        <3>4. QED
            BY <2>4, <3>2, <3>3
    <2>5. QED
        BY <2>1, <2>2, <2>3, <2>4 DEF rest
<1>5. CASE \A i \in 1 .. n - 1 : rest[i].conv # c
    <2>1. Will(rest, on2, c) <=> c \in on2
        BY <1>1, <1>5 DEF Will
    <2>2. \A i \in 1..n : frames[i].conv = c => i = 1
        BY <1>3, <1>5
    <2>3. CASE f.conv = c
        <3>1. \A j \in 1..n : j > 1 => frames[j].conv # c
            BY <2>2
        <3>2. Will(frames, on, c) <=> f.type = "subscribe"
            BY <1>1, <2>2, <2>3, <3>1 DEF Will
        <3>3. c \in on2 <=> f.type = "subscribe"
            BY <1>2, <2>3
        <3>4. QED
            BY <2>1, <3>2, <3>3 DEF rest
    <2>4. CASE f.conv # c
        <3>1. \A i \in 1..n : frames[i].conv # c
            BY <1>1, <2>2, <2>4
        <3>2. Will(frames, on, c) <=> c \in on
            BY <1>1, <3>1 DEF Will
        <3>3. c \in on2 <=> c \in on
            BY <1>2, <2>4
        <3>4. QED
            BY <2>1, <3>2, <3>3 DEF rest
    <2>5. QED
        BY <2>3, <2>4
<1>6. QED
    BY <1>4, <1>5


\* The wire is as it was, or the socket closes.
LEMMA WireStays ==
    ASSUME WireInv, SubscriptionsAgree,
           \/ UNCHANGED <<link, outbox, subs, tracked>>
           \/ /\ link' = "closed" /\ outbox' = <<>> /\ subs' = {}
              /\ tracked' = tracked \/ tracked' = {shown} \ {None},
           inbox' = inbox \/ link = "open" \/ link' = "closed",
           link' = "closed" => inbox' = <<>>
    PROVE  WireInv' /\ SubscriptionsAgree'
<1>1. CASE UNCHANGED <<link, outbox, subs, tracked>>
    <2>1. WireInv'
        BY <1>1 DEF WireInv
    <2>2. \A c : WillBeSubscribed(c)' <=> WillBeSubscribed(c)
        BY <1>1, WillIs
    <2>3. QED
        BY <1>1, <2>1, <2>2 DEF SubscriptionsAgree
<1>2. CASE link' = "closed" /\ outbox' = <<>> /\ subs' = {} /\ tracked' \in {tracked, {shown} \ {None}}
    <2>1. IsFiniteSet({shown}) /\ {shown} \ {None} \in SUBSET {shown}
        BY FS_Singleton
    <2>2. IsFiniteSet({shown} \ {None})
        BY <2>1, FS_Subset
    <2>3. QED
        BY <1>2, <2>2 DEF WireInv, SubscriptionsAgree
<1>3. QED
    BY <1>1, <1>2

\* Frames are written that agree with what becomes tracked.
LEMMA WireWritten ==
    ASSUME TypeOK, WireInv, SubscriptionsAgree, UNCHANGED <<link, inbox, subs>>,
           NEW frames \in Seq(Frames), outbox' = Written(frames),
           NEW c \in Convs, tracked' \subseteq tracked \cup {c},
           link = "open" =>
             \A d \in Convs : (Will(outbox, subs, d) <=> d \in tracked)
                              => (Will(outbox \o frames, subs, d) <=> d \in tracked')
    PROVE  WireInv' /\ SubscriptionsAgree'
<1>1. IsFiniteSet(tracked \cup {c})
    BY FS_AddElement DEF WireInv
<1>2. IsFiniteSet(tracked')
    BY <1>1, FS_Subset
<1>3. WireInv'
    BY <1>2 DEF WireInv, Written
<1>4. SubscriptionsAgree'
    BY WillIs DEF SubscriptionsAgree, Written
<1>5. QED
    BY <1>3, <1>4

\* A click: the conversation that is left, then the one that is opened.
LEMMA OpenWritten ==
    ASSUME TypeOK, WireInv, SubscriptionsAgree, NEW c \in Convs, NEW unread \in BOOLEAN,
           NEW effects \in BOOLEAN, Open(c, unread, effects)
    PROVE  WireInv' /\ SubscriptionsAgree'
<1> DEFINE left   == Left(c)
           effect == effects /\ hydrated # c
           leave  == Frame("unsubscribe", active)
           enter  == Frame("subscribe", c)
           first  == IF left = {} THEN <<>> ELSE <<leave>>
           second == IF effect THEN <<enter>> ELSE <<>>
           third  == IF unread THEN <<>> ELSE <<enter>>
<1>1. /\ UNCHANGED <<link, inbox, subs>>
      /\ outbox' = Written(first \o second \o third)
      /\ tracked' = (tracked \ left) \cup (IF effect \/ ~unread THEN {c} ELSE {})
    BY DEF Open, server
<1>2. left # {} => left = {active} /\ active \in Convs /\ active # c /\ leave \in Frames
    BY DEF Left, TypeOK, ListTypes, Frame, Frames
<1>3. enter \in Frames /\ enter.conv = c /\ enter.type = "subscribe"
      /\ leave.conv = active /\ leave.type = "unsubscribe"
    BY DEF Frame, Frames
<1>4. /\ first \in Seq(Frames) /\ second \in Seq(Frames) /\ third \in Seq(Frames)
      /\ first \o second \o third \in Seq(Frames)
    <2>1. \A f \in Frames : <<f>> \in Seq(Frames)
        OBVIOUS
    <2>2. <<>> \in Seq(Frames)
        OBVIOUS
    <2>3. first \in Seq(Frames) /\ second \in Seq(Frames) /\ third \in Seq(Frames)
        BY <1>2, <1>3, <2>1, <2>2
    <2> HIDE DEF first, second, third
    <2>4. QED
        BY <2>3
<1>5. ASSUME link = "open", NEW d \in Convs, Will(outbox, subs, d) <=> d \in tracked
      PROVE  Will(outbox \o (first \o second \o third), subs, d) <=> d \in tracked'
    <2>1. outbox \in Seq(Frames)
        BY DEF TypeOK, SocketTypes
    <2> DEFINE one == outbox \o first
               two == one \o second
    <2>2. outbox \o (first \o second \o third) = two \o third
        <3> HIDE DEF first, second, third
        <3>1. QED
            BY <1>4, <2>1
    <2>3. one \in Seq(Frames) /\ (Will(one, subs, d) <=> d \in tracked /\ d \notin left)
        <3>1. CASE left = {}
            <4>1. first = <<>> /\ one = outbox
                BY <2>1, <3>1
            <4>2. QED
                BY <1>5, <2>1, <3>1, <4>1
        <3>2. CASE left # {}
            <4>1. first = <<leave>> /\ leave \in Frames
                BY <1>2, <3>2
            <4> HIDE DEF first, leave
            <4>2. /\ one \in Seq(Frames)
                  /\ Will(one, subs, d) <=> IF leave.conv = d THEN leave.type = "subscribe"
                                                             ELSE Will(outbox, subs, d)
                BY <2>1, <4>1, WillAppend
            <4>3. QED
                BY <1>2, <1>3, <1>5, <3>2, <4>2
        <3>3. QED
            BY <3>1, <3>2
    <2> HIDE DEF one, enter
    <2>4. /\ two \in Seq(Frames)
          /\ Will(two, subs, d) <=> (effect /\ d = c) \/ Will(one, subs, d)
        <3>1. second \in {<<>>, <<enter>>} /\ (second # <<>> <=> effect)
            OBVIOUS
        <3> HIDE DEF second
        <3>2. QED
            BY <1>3, <2>3, <3>1, WillMaybe
    <2> HIDE DEF two
    <2>5. Will(two \o third, subs, d) <=> (~unread /\ d = c) \/ Will(two, subs, d)
        <3>1. third \in {<<>>, <<enter>>} /\ (third # <<>> <=> ~unread)
            OBVIOUS
        <3> HIDE DEF third
        <3>2. QED
            BY <1>3, <2>4, <3>1, WillMaybe
    <2>6. c \notin left
        BY DEF Left
    <2> HIDE DEF first, second, third, left, effect
    <2>7. QED
        BY <1>1, <2>2, <2>3, <2>4, <2>5, <2>6
<1>6. tracked' \subseteq tracked \cup {c}
    BY <1>1
<1> HIDE DEF first, second, third
<1>7. QED
    BY <1>1, <1>4, <1>5, <1>6, WireWritten

\* One conversation is subscribed to and tracked.
LEMMA OneWritten ==
    ASSUME TypeOK, WireInv, SubscriptionsAgree, UNCHANGED <<link, inbox, subs>>,
           NEW c \in Convs, outbox' = Written(<<Frame("subscribe", c)>>),
           tracked' = tracked \cup {c}
    PROVE  WireInv' /\ SubscriptionsAgree'
<1> DEFINE f == Frame("subscribe", c)
<1>1. f \in Frames /\ f.conv = c /\ f.type = "subscribe" /\ outbox' = Written(<<f>>)
    BY DEF Frame, Frames
<1>2. outbox \in Seq(Frames)
    BY DEF TypeOK, SocketTypes
<1> HIDE DEF f
<1>3. <<f>> \in Seq(Frames)
    BY <1>1
<1>4. \A d \in Convs : Will(outbox \o <<f>>, subs, d) <=> d = c \/ Will(outbox, subs, d)
    BY <1>1, <1>2, WillAppend
<1>5. QED
    BY <1>1, <1>3, <1>4, WireWritten

\* A new socket subscribes to everything that is tracked.
LEMMA ConnectWritten ==
    ASSUME WireInv, Connect
    PROVE  WireInv' /\ SubscriptionsAgree'
<1>1. PICK ids \in SetToSeqs(tracked) :
        outbox' = [i \in DOMAIN ids |-> Frame("subscribe", ids[i])]
    BY DEF Connect
<1> DEFINE n == Cardinality(tracked)
<1>2. n \in Nat /\ IsFiniteSet(1..n) /\ Cardinality(1..n) = n
    BY FS_CardinalityType, FS_Interval DEF WireInv
<1>3. ids \in Injection(1..n, tracked)
    BY <1>1 DEF SetToSeqs, Injection, IsInjective
<1> HIDE DEF n
<1>4. ids \in Surjection(1..n, tracked)
    BY <1>2, <1>3, FS_Injection DEF WireInv, n
<1>5. /\ link' = "open" /\ subs' = {} /\ tracked' = tracked
      /\ DOMAIN outbox' = 1..n
      /\ \A i \in 1..n : outbox'[i].conv = ids[i] /\ outbox'[i].type = "subscribe"
    BY <1>1, <1>3 DEF Connect, server, WireInv, Frame, Injection
<1>6. WireInv'
    BY <1>5 DEF WireInv
<1>7. ASSUME NEW c \in Convs PROVE Will(outbox', subs', c) <=> c \in tracked'
    <2>1. ASSUME c \in tracked PROVE Will(outbox', subs', c)
        <3>1. PICK i \in 1..n : ids[i] = c
            BY <1>4, <2>1 DEF Surjection
        <3>2. \A j \in 1..n : j > i => ids[j] # c
            BY <1>2, <1>3, <3>1 DEF Injection, IsInjective
        <3>3. QED
            BY <1>5, <3>1, <3>2 DEF Will
    <2>2. ASSUME Will(outbox', subs', c) PROVE c \in tracked
        <3>1. PICK i \in 1..n : ids[i] = c
            BY <1>5, <2>2 DEF Will
        <3>2. QED
            BY <1>3, <3>1 DEF Injection
    <2>3. QED
        BY <1>5, <2>1, <2>2
<1>8. SubscriptionsAgree'
    BY <1>7, WillIs DEF SubscriptionsAgree
<1>9. QED
    BY <1>6, <1>8


\* The wire and the subscriptions, in every step.
LEMMA WireStep ==
    ASSUME TypeOK, WireInv, SubscriptionsAgree, [Next]_vars
    PROVE  WireInv' /\ SubscriptionsAgree'
<1>a. inbox # <<>> \/ outbox # <<>> => link = "open"
    BY DEF WireInv, TypeOK, SocketTypes
<1>b. /\ \A events : Pushed(events) = inbox \/ link = "open"
      /\ link = "open" \/ (link = "closed" /\ inbox = <<>>)
    BY DEF Pushed, WireInv, TypeOK, SocketTypes
<1>1. CASE ServerReceives
    <2>1. /\ link = "open" /\ UNCHANGED <<link, inbox, tracked>> /\ outbox # <<>>
          /\ outbox \in Seq(Frames) /\ outbox' = Tail(outbox)
          /\ subs' = IF Head(outbox).type = "subscribe"
                     THEN subs \cup {Head(outbox).conv} ELSE subs \ {Head(outbox).conv}
        BY <1>1, <1>a DEF ServerReceives, TypeOK, SocketTypes
    <2>2. \A c : Will(outbox', subs', c) <=> Will(outbox, subs, c)
        BY <2>1, WillTaken
    <2>3. WireInv'
        BY <2>1 DEF WireInv
    <2>4. SubscriptionsAgree'
        BY <2>1, <2>2, WillIs DEF SubscriptionsAgree
    <2>5. QED
        BY <2>3, <2>4
<1>2. CASE Connect
    BY <1>2, ConnectWritten
<1>3. CASE Hydrate
    <2>1. shown \in Convs
        BY <1>3 DEF Hydrate, TypeOK, ListTypes
    <2>2. /\ UNCHANGED <<link, inbox, subs>> /\ tracked' = tracked \cup {shown}
          /\ outbox' = Written(<<Frame("subscribe", shown)>>)
        BY <1>3 DEF Hydrate, server
    <2>3. QED
        BY <2>1, <2>2, OneWritten
<1>4. ASSUME NEW call \in InFlight, MarkReadSettles(call)
      PROVE  WireInv' /\ SubscriptionsAgree'
    <2>1. call.conv \in Convs
        BY DEF TypeOK, CallTypes, Calls
    <2>2. /\ UNCHANGED <<link, inbox, subs>> /\ tracked' = tracked \cup {call.conv}
          /\ outbox' = Written(<<Frame("subscribe", call.conv)>>)
        BY <1>4 DEF MarkReadSettles, server
    <2>3. QED
        BY <2>1, <2>2, OneWritten
<1>5. ASSUME NEW c \in Convs, NEW unread \in BOOLEAN, NEW effects \in BOOLEAN,
             Open(c, unread, effects)
      PROVE  WireInv' /\ SubscriptionsAgree'
    BY <1>5, OpenWritten
<1>6. ASSUME NEW c \in Convs,
             MessageArrives(c) \/ \E n \in stored[c] : MessageDeleted(c, n)
      PROVE  WireInv' /\ SubscriptionsAgree'
    <2>1. /\ UNCHANGED <<link, outbox, subs, tracked>>
          /\ \E events : inbox' = Pushed(events)
        BY <1>6 DEF MessageArrives, MessageDeleted
    <2>2. QED
        BY <1>b, <2>1, WireStays
<1>7. ASSUME NEW call \in InFlight, AnswersSend(call) \/ AnswersDelete(call)
      PROVE  WireInv' /\ SubscriptionsAgree'
    <2>1. /\ UNCHANGED <<link, outbox, subs, tracked>>
          /\ \E events : inbox' = Pushed(events)
        BY <1>7 DEF AnswersSend, AnswersDelete
    <2>2. QED
        BY <1>b, <2>1, WireStays
<1>8. CASE EventArrives
    <2>1. link = "open" /\ UNCHANGED <<link, outbox, subs, tracked>>
        BY <1>8, <1>a DEF EventArrives, server
    <2>2. QED
        BY <2>1, WireStays
<1>9. CASE Drop \/ Reload
    BY <1>9, WireStays DEF Drop, Reload
<1>u. ASSUME UNCHANGED <<server, socket>> PROVE WireInv' /\ SubscriptionsAgree'
    <2>1. UNCHANGED <<link, outbox, subs, tracked, inbox>>
        BY <1>u DEF server, socket
    <2>2. QED
        BY <1>b, <2>1, WireStays
<1>10. CASE ActiveVanishes \/ Upload \/ Delete \/ UNCHANGED vars
    BY <1>10, <1>u DEF ActiveVanishes, Upload, Delete, vars
<1>t. ASSUME NEW t \in Texts, Send(t) PROVE WireInv' /\ SubscriptionsAgree'
    BY <1>t, <1>u DEF Send, StartSend
<1>11. ASSUME NEW call \in InFlight,
              \/ AnswersFetch(call) \/ FetchSucceeds(call) \/ FetchFails(call)
              \/ SendSucceeds(call) \/ SendFails(call)
              \/ RetrySucceeds(call) \/ RetryFails(call)
              \/ UploadSucceeds(call) \/ UploadFails(call)
              \/ DeleteSucceeds(call) \/ DeleteFails(call)
       PROVE  WireInv' /\ SubscriptionsAgree'
    BY <1>11, <1>u DEF AnswersFetch, FetchSucceeds, FetchFails, SendSucceeds, SendFails,
                 RetrySucceeds, RetryFails, UploadSucceeds, UploadFails, DeleteSucceeds,
                 DeleteFails, StartSend
<1>12. ASSUME NEW j \in DOMAIN view, RetryBubble(j) \/ RetryStored(j)
       PROVE  WireInv' /\ SubscriptionsAgree'
    BY <1>12, <1>u DEF RetryBubble, RetryStored, StartSend
<1>13. QED
    BY <1>1, <1>2, <1>3, <1>4, <1>5, <1>6, <1>7, <1>8, <1>9, <1>10, <1>t,
       <1>11, <1>12
    DEF Next, Server, Answers, User, Elsewhere, Click, FollowLink

\* What the tab tracks, in every step.
LEMMA TrackStep ==
    ASSUME TypeOK, TrackInv, [Next]_vars
    PROVE  TrackInv'
<1> USE DEF TrackInv
<1>1. ASSUME NEW c \in Convs, NEW unread \in BOOLEAN, NEW effects \in BOOLEAN,
             EffectsRan, Open(c, unread, effects)
      PROVE  TrackInv'
    <2>1. c \notin Left(c) /\ Left(c) \subseteq {active}
        BY DEF Left
    <2>2. /\ shown' = c /\ active' = c
          /\ \/ hydrated' = c /\ c \in tracked'
             \/ hydrated' = hydrated /\ tracked \ Left(c) \subseteq tracked'
        BY <1>1 DEF Open, SetActive
    <2>3. QED
        BY <1>1, <2>1, <2>2, ViewAssumption DEF EffectsRan
<1>2. CASE Hydrate
    BY <1>2 DEF Hydrate
<1>3. ASSUME NEW call \in InFlight, MarkReadSettles(call) PROVE TrackInv'
    BY <1>3 DEF MarkReadSettles, opened
<1>4. CASE ActiveVanishes
    BY <1>4 DEF ActiveVanishes, SetActive, EffectsRan, socket
<1>5. CASE Reload
    BY <1>5 DEF Reload
<1>u. ASSUME UNCHANGED <<opened, tracked>> PROVE TrackInv'
    BY <1>u DEF opened
<1>6. CASE \/ ServerReceives \/ Connect \/ EventArrives \/ Drop \/ Upload \/ Delete
           \/ UNCHANGED vars
    BY <1>6, <1>u DEF ServerReceives, Connect, EventArrives, Drop, Upload, Delete, socket, vars
<1>t. ASSUME NEW t \in Texts, Send(t) PROVE TrackInv'
    BY <1>t, <1>u DEF Send, StartSend, socket
<1>7. ASSUME NEW call \in InFlight,
             \/ AnswersFetch(call) \/ AnswersSend(call) \/ FetchSucceeds(call)
             \/ FetchFails(call) \/ SendSucceeds(call) \/ SendFails(call)
             \/ RetrySucceeds(call) \/ RetryFails(call) \/ AnswersDelete(call)
             \/ UploadSucceeds(call) \/ UploadFails(call)
             \/ DeleteSucceeds(call) \/ DeleteFails(call)
      PROVE  TrackInv'
    BY <1>7, <1>u DEF AnswersFetch, AnswersSend, FetchSucceeds, FetchFails, SendSucceeds,
                SendFails, RetrySucceeds, RetryFails, AnswersDelete, UploadSucceeds,
                UploadFails, DeleteSucceeds, DeleteFails, StartSend, socket
<1>8. ASSUME NEW c \in Convs,
             MessageArrives(c) \/ \E n \in stored[c] : MessageDeleted(c, n)
      PROVE  TrackInv'
    BY <1>8, <1>u DEF MessageArrives, MessageDeleted
<1>9. ASSUME NEW j \in DOMAIN view, RetryBubble(j) \/ RetryStored(j) PROVE TrackInv'
    BY <1>9, <1>u DEF RetryBubble, RetryStored, StartSend, socket
<1>10. QED
    BY <1>1, <1>2, <1>3, <1>4, <1>5, <1>6, <1>t, <1>7, <1>8, <1>9
    DEF Next, Server, Answers, User, Elsewhere, Click, FollowLink, UserMayAct

-----------------------------------------------------------------------------
(* The theorems *)

LEMMA ViewInit == Init => ViewInv
<1> SUFFICES ASSUME Init PROVE ViewInv
    OBVIOUS
<1>1. TypeOK
    BY TypeInit
<1>2. InFlight = {}
    BY DEF Init, InFlight, EmptyBag, SetToBag
<1>3. WireInv /\ SubscriptionsAgree /\ TrackInv
    BY FS_EmptySet DEF Init, WireInv, SubscriptionsAgree, TrackInv
<1>4. SendInv /\ AnswersAreGood
    BY <1>2 DEF Init, SendInv, Sends, AnswersAreGood
<1>o. AttemptsAreOwed
    <2>1. \A t : {k \in DOMAIN pending : pending[k] = t} = {}
        BY DEF Init
    <2>2. QED
        BY <2>1, FS_EmptySet DEF Init, AttemptsAreOwed
<1>5. view = <<>> /\ \A c \in Convs : cache[c] = <<>>
    BY DEF Init
<1>6. EachOnceInOrder /\ Kept = {}
    BY <1>5 DEF EachOnceInOrder, InOrder, Kept
<1>7. QED
    BY <1>1, <1>3, <1>4, <1>o, <1>6 DEF ViewInv, ListInv, BubblesAreTold

LEMMA ViewStep == ViewInv /\ [Next]_vars => ViewInv'
<1> SUFFICES ASSUME ViewInv, [Next]_vars PROVE ViewInv'
    OBVIOUS
<1>1. /\ TypeOK /\ WireInv /\ SubscriptionsAgree /\ TrackInv
      /\ SendInv /\ AttemptsAreOwed /\ ListInv /\ AnswersAreGood
    BY DEF ViewInv, ListInv
<1>2. SendKept' /\ ListKept'
    BY <1>1, SendAndListStep
<1>3. ServerTypes' /\ SocketTypes' /\ ListTypes' /\ SendTypes'
    BY <1>1, ServerTypesStep, SocketTypesStep, ListTypesStep, SendTypesStep
<1>4. acts' \in 0..MaxActs
    BY <1>1, ViewAssumption DEF Next, vars, TypeOK
<1>5. WireInv' /\ SubscriptionsAgree' /\ TrackInv' /\ AttemptsAreOwed'
    BY <1>1, WireStep, TrackStep, OwedStep
<1>6. TypeOK'
    BY <1>2, <1>3, <1>4 DEF TypeOK, SendKept
<1>7. QED
    BY <1>2, <1>5, <1>6 DEF ViewInv, ListInv, SendKept, ListKept

\* In every reachable state the list, its copies, the attempts to send and the
\* subscriptions fit together.
THEOREM ViewInvariant == Spec => []ViewInv
<1>1. Init => ViewInv
    BY ViewInit
<1>2. ViewInv /\ [Next]_vars => ViewInv'
    BY ViewStep
<1>3. QED
    BY <1>1, <1>2, PTL DEF Spec

\* The variables of useMessages, useWebSocket and their caches have their types.
THEOREM TypeCorrect == Spec => []TypeOK
<1>1. ViewInv => TypeOK
    BY DEF ViewInv
<1>2. QED
    BY <1>1, ViewInvariant, PTL

\* appendMessage, sendCore, fetchMessages and normalizeMessages keep every
\* message once and in order, on screen and in the cached copies, whichever
\* of the POST, the event and the fetch answers first.
THEOREM OnceInOrderAlways == Spec => []EachOnceInOrder
<1>1. ViewInv => EachOnceInOrder
    BY DEF ViewInv, ListInv
<1>2. QED
    BY <1>1, ViewInvariant, PTL

\* subscribe, unsubscribe and onopen of useWebSocket leave the server, when it
\* has read what is on the wire, with the subscriptions of subscribedRef.
THEOREM SubscriptionsAlwaysAgree == Spec => []SubscriptionsAgree
<1>1. ViewInv => SubscriptionsAgree
    BY DEF ViewInv
<1>2. QED
    BY <1>1, ViewInvariant, PTL

\* No order of clicks, links, lists and settled PATCHes leaves the conversation
\* on screen out of subscribedRef.
THEOREM ShownAlwaysTracked == Spec => []ShownIsTracked
<1>1. ViewInv => ShownIsTracked
    BY DEF ViewInv, TrackInv, ShownIsTracked
<1>2. QED
    BY <1>1, ViewInvariant, PTL

\* sendCore and retryMessage keep one attempt for every sending of the user,
\* a text's or a file's, until the server confirms it: none is lost to a failure
\* or a late upload, and a retry makes no second one of it.
THEOREM AttemptsAlwaysOwed == Spec => []AttemptsAreOwed
<1>1. ViewInv => AttemptsAreOwed
    BY DEF ViewInv
<1>2. QED
    BY <1>1, ViewInvariant, PTL

\* A bubble on screen has its POST under way or the text to retry: sendCore's
\* bookkeeping is never lost to a fetch, an event, a retry or another click.
THEOREM BubbleAlwaysHonest == Spec => []BubbleIsHonest
<1>1. ViewInv => BubbleIsHonest
    BY DEF ViewInv, SendInv, Sends, BubbleIsHonest
<1>2. QED
    BY <1>1, ViewInvariant, PTL


=============================================================================
