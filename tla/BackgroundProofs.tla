-------------------------- MODULE BackgroundProofs --------------------------
(***************************************************************************)
(* What the background work of the API process guarantees, the agent       *)
(* pipeline and the loop of the task automations.  Its lifespan starts     *)
(* both; they share none of the state that is modelled.                    *)
(***************************************************************************)
EXTENDS AgentWorker, TaskAutomation, TLAPS

-----------------------------------------------------------------------------
(* The agent pipeline, for every number of tasks, workers, failures and    *)
(* restarts, with both kinds of queue.  A task is in one place at a time:  *)
(* it waits, or one worker holds it, or it is over.                        *)

Among(t, q) == \E i \in DOMAIN q : q[i] = t
NoRepetition(q) == \A i, j \in DOMAIN q : q[i] = q[j] => i = j

Waits(t) == t \in posting \/ Among(t, queue)

\* Nobody was given the task yet.
Untouched(t) ==
    /\ replies[t] = 0 /\ failures[t] = 0
    /\ \A w \in Workers :
        Held(w) # t /\ <<w, t>> \notin pending /\ <<w, t>> \notin acking

\* A worker holds a task exactly while it works.
Working ==
    \A w \in Workers : Held(w) = None <=> worker[w].pc \in {"idle", "dead"}

TypeInv == TypeOK /\ Working

\* A task is in the queue, or on its way there, once.
WaitsOnce ==
    /\ NoRepetition(queue)
    /\ \A t \in posting : ~Among(t, queue)
    /\ \A t \in Tasks : Waits(t) => t \in arrived

\* What waits, or has not arrived, is nobody's work yet.
WaitingIsUntouched ==
    \A t \in Tasks : t \notin arrived \/ Waits(t) => Untouched(t)

\* What a worker holds has not failed, nor been answered unless it just was.
HeldIsNew ==
    \A w \in Busy :
        /\ failures[Held(w)] = 0
        /\ worker[w].pc \in {"taken", "announcing"} => replies[Held(w)] = 0

AckingIsFinished ==
    \A w \in Workers, t \in Tasks : <<w, t>> \in acking => t \in finished

PlacesInv ==
    /\ TypeInv /\ WaitsOnce /\ WaitingIsUntouched /\ HeldIsNew
    /\ AckingIsFinished
    /\ AutoReplyOnce /\ AckedAfterWork /\ NeverTriedAgain

PipelineInv == PlacesInv /\ Accounted

-----------------------------------------------------------------------------
(* The queue *)

\* A task put at the end of a queue is in it, with those that were.
LEMMA AppendFacts ==
    ASSUME NEW q \in Seq(Tasks), NEW t \in Tasks
    PROVE  /\ Append(q, t) \in Seq(Tasks)
           /\ \A u : Among(u, Append(q, t)) <=> u = t \/ Among(u, q)
           /\ NoRepetition(q) /\ ~Among(t, q) => NoRepetition(Append(q, t))
<1> DEFINE r == Append(q, t)
<1>1. r \in Seq(Tasks) /\ Len(r) = Len(q) + 1 /\ DOMAIN r = 1 .. Len(q) + 1
    OBVIOUS
<1>2. DOMAIN q = 1 .. Len(q) /\ Len(q) \in Nat
    OBVIOUS
<1>3. r[Len(q) + 1] = t /\ \A i \in DOMAIN q : r[i] = q[i]
    OBVIOUS
<1>4. \A i \in DOMAIN r : i \in DOMAIN q \/ i = Len(q) + 1
    BY <1>1, <1>2
<1>5. ASSUME NEW u PROVE Among(u, r) <=> u = t \/ Among(u, q)
    BY <1>1, <1>2, <1>3, <1>4 DEF Among
<1>6. ASSUME NoRepetition(q), ~Among(t, q) PROVE NoRepetition(r)
    BY <1>3, <1>4, <1>6 DEF NoRepetition, Among
<1>7. QED
    BY <1>1, <1>5, <1>6

\* The head of a queue leaves it.
LEMMA TailFacts ==
    ASSUME NEW q \in Seq(Tasks), q # <<>>
    PROVE  /\ Tail(q) \in Seq(Tasks) /\ Head(q) \in Tasks
           /\ \A u : Among(u, q) <=> u = Head(q) \/ Among(u, Tail(q))
           /\ NoRepetition(q) =>
                NoRepetition(Tail(q)) /\ ~Among(Head(q), Tail(q))
<1> DEFINE r == Tail(q)
<1>1. r \in Seq(Tasks) /\ Head(q) \in Tasks /\ Head(q) = q[1]
    OBVIOUS
<1>2. DOMAIN q = 1 .. Len(q) /\ Len(q) \in Nat \ {0} /\ DOMAIN r = 1 .. Len(q) - 1
    OBVIOUS
<1>3. \A i \in DOMAIN r : i + 1 \in DOMAIN q /\ r[i] = q[i + 1]
    BY <1>2
<1>4. \A j \in DOMAIN q : j = 1 \/ (\E i \in DOMAIN r : q[j] = r[i])
    <2>1. ASSUME NEW j \in DOMAIN q, j # 1
          PROVE  j - 1 \in DOMAIN r /\ (j - 1) + 1 = j
        BY <1>2, <2>1
    <2>2. QED
        BY <1>3, <2>1
<1>5. 1 \in DOMAIN q
    BY <1>2
<1>6. ASSUME NEW u PROVE Among(u, q) <=> u = Head(q) \/ Among(u, r)
    BY <1>1, <1>3, <1>4, <1>5 DEF Among
<1>7. ASSUME NoRepetition(q) PROVE NoRepetition(r) /\ ~Among(Head(q), r)
    <2>1. ASSUME NEW i \in DOMAIN r, NEW j \in DOMAIN r, r[i] = r[j] PROVE i = j
        <3>1. i + 1 = j + 1
            BY <1>3, <1>7, <2>1 DEF NoRepetition
        <3>2. QED
            BY <1>2, <3>1
    <2>2. ASSUME NEW i \in DOMAIN r PROVE r[i] # Head(q)
        <3>1. i + 1 # 1
            BY <1>2
        <3>2. QED
            BY <1>1, <1>3, <1>5, <1>7, <3>1 DEF NoRepetition
    <2>3. QED
        BY <2>1, <2>2 DEF NoRepetition, Among
<1>8. QED
    BY <1>1, <1>6, <1>7

\* What is left when a worker was given the head of the queue.
LEMMA RemainingFacts ==
    ASSUME TypeOK, WaitsOnce, NEW w \in Workers, NEW t \in Readable(w)
    PROVE  /\ t \in Tasks /\ Among(t, queue)
           /\ Remaining(t) \in Seq(Tasks) /\ NoRepetition(Remaining(t))
           /\ \A u : Among(u, Remaining(t)) <=> u # t /\ Among(u, queue)
<1>1. t \in Tasks /\ queue # <<>> /\ t = Head(queue) /\ queue \in Seq(Tasks)
    BY DEF Readable, TypeOK
<1>2. Remaining(t) = Tail(queue)
    BY <1>1 DEF Remaining
<1>3. /\ Tail(queue) \in Seq(Tasks)
      /\ \A u : Among(u, queue) <=> u = t \/ Among(u, Tail(queue))
      /\ NoRepetition(Tail(queue)) /\ ~Among(t, Tail(queue))
    BY <1>1, TailFacts DEF WaitsOnce
<1>4. QED
    BY <1>1, <1>2, <1>3, Zenon

-----------------------------------------------------------------------------
(* The types *)

\* Nothing is in the pipeline at the start.
LEMMA PipelineInit == Init => PipelineInv
<1> SUFFICES ASSUME Init PROVE PipelineInv
    OBVIOUS
<1> USE WorkerAssumption DEF Init, Resting, Held, Busy
<1>1. TypeInv
    BY DEF TypeInv, TypeOK, Working
<1>2. WaitsOnce /\ AckingIsFinished
    BY DEF WaitsOnce, NoRepetition, Among, Waits, AckingIsFinished
<1>3. WaitingIsUntouched /\ HeldIsNew
    BY DEF WaitingIsUntouched, Untouched, HeldIsNew
<1>4. AutoReplyOnce /\ AckedAfterWork /\ NeverTriedAgain /\ Accounted
    BY DEF AutoReplyOnce, AckedAfterWork, NeverTriedAgain, Accounted
<1>5. QED
    BY <1>1, <1>2, <1>3, <1>4 DEF PipelineInv, PlacesInv

\* The tasks held, when a process that is restarted loses them.
LEMMA LostAreTasks ==
    ASSUME TypeInv
    PROVE  /\ {Held(w) : w \in Busy} \subseteq Tasks
           /\ {queue[i] : i \in DOMAIN queue} \subseteq Tasks
<1>1. \A w \in Busy : Held(w) \in Tasks
    BY DEF TypeInv, TypeOK, Held, Busy
<1>2. \A i \in DOMAIN queue : queue[i] \in Tasks
    BY DEF TypeInv, TypeOK
<1>3. QED
    BY <1>1, <1>2

\* Every step keeps the types; a count of failures stays small because what is
\* processed has not failed before.
LEMMA TypeStep ==
    ASSUME PlacesInv, [Next]_vars PROVE TypeInv'
<1> USE WorkerAssumption
    DEF TypeInv, TypeOK, Working, Resting, Held, queues, history
<1>0. TypeInv /\ WaitsOnce
    BY DEF PlacesInv
<1>1. ASSUME NEW t \in Tasks, Enqueue(t) \/ Posted(t) \/ PostFails(t)
      PROVE  TypeInv'
    <2>1. CASE Enqueue(t)
        <3>0. Append(queue, t) \in Seq(Tasks)
            BY <1>0, AppendFacts
        <3>1. queue' \in Seq(Tasks) /\ posting' \subseteq Tasks /\ lost' \subseteq Tasks
            BY <1>0, <2>1, <3>0 DEF Enqueue
        <3>2. ~redis => posting' = {}
            BY <1>0, <2>1 DEF Enqueue
        <3>3. QED
            BY <1>0, <2>1, <3>1, <3>2 DEF Enqueue
    <2>2. CASE Posted(t)
        <3>1. redis
            BY <1>0, <2>2 DEF Posted
        <3>2. QED
            BY <1>0, <2>2, <3>1, AppendFacts DEF Posted
    <2>3. CASE PostFails(t)
        BY <1>0, <2>3 DEF PostFails
    <2>4. QED
        BY <1>1, <2>1, <2>2, <2>3
<1>2. ASSUME NEW w \in Workers, Get(w) PROVE TypeInv'
    <2>1. PICK t \in Readable(w) :
            Deliver(w, t) /\ pending' = Delivered(w, t) /\ queue' = Remaining(t)
        BY <1>2 DEF Get
    <2>2. t \in Tasks /\ queue' \in Seq(Tasks)
        BY <1>0, <2>1, RemainingFacts
    <2>3. pending' \subseteq Workers \X Tasks /\ (~redis => pending' = {})
        BY <1>0, <2>1, <2>2 DEF Delivered
    <2>4. t # None
        BY <2>2
    <2>5. QED
        BY <1>0, <1>2, <2>1, <2>2, <2>3, <2>4 DEF Get, Deliver
<1>3. ASSUME NEW w \in Workers, GetRaises(w) PROVE TypeInv'
    <2>1. queue' \in Seq(Tasks) /\ pending' \subseteq Workers \X Tasks
        <3>1. CASE UNCHANGED <<queue, pending>>
            BY <1>0, <3>1
        <3>2. ASSUME NEW t \in Readable(w), pending' = Delivered(w, t),
                     queue' = Remaining(t)
              PROVE  queue' \in Seq(Tasks) /\ pending' \subseteq Workers \X Tasks
            BY <1>0, <3>2, RemainingFacts DEF Delivered
        <3>3. QED
            BY <1>3, <3>1, <3>2 DEF GetRaises
    <2>2. QED
        BY <1>0, <1>3, <2>1 DEF GetRaises
<1>4. ASSUME NEW w \in Workers, Persist(w) PROVE TypeInv'
    <2>1. Held(w) \in Tasks /\ ConvOf[Held(w)] \in Conversations
        BY <1>0, <1>4 DEF Persist
    <2>2. suggestions' \in [Conversations -> Tasks \cup {None}]
        BY <1>0, <1>4, <2>1 DEF Persist
    <2>3. worker' = [worker EXCEPT ![w].pc = "announcing"]
        BY <1>4 DEF Persist
    <2>4. /\ Working'
          /\ worker' \in [Workers ->
                [pc : {"idle", "dead", "taken", "announcing", "replying"},
                 task : Tasks \cup {None}]]
        <3>1. worker[w].pc = "taken"
            BY <1>4 DEF Persist
        <3>2. Working'
            BY <1>0, <2>3, <3>1
        <3>3. worker \in [Workers ->
                [pc : {"idle", "dead", "taken", "announcing", "replying"},
                 task : Tasks \cup {None}]]
            BY <1>0
        <3> HIDE DEF TypeOK, Working, Held
        <3>4. QED
            BY <2>3, <3>2, <3>3
    <2>5. UNCHANGED <<redis, queues, failures, deadLetters, history>>
        BY <1>4 DEF Persist
    <2> HIDE DEF Working
    <2>6. QED
        BY <1>0, <2>2, <2>4, <2>5
<1>5. ASSUME NEW w \in Workers, AutoReply(w) PROVE TypeInv'
    <2>1. Held(w) \in Tasks
        BY <1>0, <1>5 DEF AutoReply
    <2>2. replies' \in [Tasks -> Nat]
        BY <1>0, <1>5, <2>1 DEF AutoReply
    <2>3. worker' = [worker EXCEPT ![w].pc = "replying"]
        BY <1>5 DEF AutoReply
    <2>4. /\ Working'
          /\ worker' \in [Workers ->
                [pc : {"idle", "dead", "taken", "announcing", "replying"},
                 task : Tasks \cup {None}]]
        BY <1>0, <1>5, <2>3 DEF AutoReply
    <2>5. QED
        BY <1>0, <1>5, <2>2, <2>4 DEF AutoReply
<1>6. ASSUME NEW w \in Workers, Succeeds(w) PROVE TypeInv'
    <2>1. Held(w) \in Tasks
        BY <1>0, <1>6 DEF Succeeds
    <2>2. QED
        BY <1>0, <1>6, <2>1 DEF Succeeds, TaskDone
<1>7. ASSUME NEW w \in Workers, Fails(w) PROVE TypeInv'
    <2>1. Held(w) \in Tasks /\ w \in Busy
        BY <1>0, <1>7 DEF Fails, Busy
    <2>2. failures[Held(w)] = 0
        BY <2>1 DEF PlacesInv, HeldIsNew
    <2>3. failures' \in [Tasks -> 0 .. MaxFailures]
        BY <1>0, <1>7, <2>1, <2>2 DEF Fails
    <2>4. deadLetters' \subseteq Tasks
        BY <1>0, <1>7, <2>1 DEF Fails
    <2>5. QED
        BY <1>0, <1>7, <2>1, <2>3, <2>4 DEF Fails, TaskDone
<1>8. ASSUME NEW w \in Workers, NEW t \in Tasks, Ack(w, t) PROVE TypeInv'
    BY <1>0, <1>8 DEF Ack
<1>9. ASSUME Restart, pending' \subseteq pending, cancelled' \subseteq Tasks
      PROVE  TypeInv'
    <2>1. lost' \subseteq Tasks
        <3>1. lost' \subseteq lost \cup posting \cup
                {Held(w) : w \in Busy} \cup {queue[i] : i \in DOMAIN queue}
            BY <1>9 DEF Restart
        <3>2. QED
            BY <1>0, <3>1, LostAreTasks
    <2>2. queue' \in Seq(Tasks)
        BY <1>0, <1>9 DEF Restart
    <2>3. restarts' \in 0 .. MaxRestarts
        BY <1>0, <1>9 DEF Restart
    <2>4. QED
        BY <1>0, <1>9, <2>1, <2>2, <2>3 DEF Restart
<1>10. CASE Crash
    BY <1>0, <1>9, <1>10 DEF Crash
<1>11. CASE Shutdown
    BY <1>0, <1>9, <1>11, LostAreTasks DEF Shutdown
<1>12. CASE UNCHANGED vars
    BY <1>0, <1>12 DEF vars
<1>13. QED
    BY <1>1, <1>2, <1>3, <1>4, <1>5, <1>6, <1>7, <1>8, <1>10, <1>11, <1>12
    DEF Next, Work

-----------------------------------------------------------------------------
(* Where a task is *)

\* The parts of the invariant that a step may disturb.
Places ==
    /\ WaitsOnce /\ WaitingIsUntouched /\ HeldIsNew /\ AckingIsFinished
    /\ AutoReplyOnce /\ AckedAfterWork /\ NeverTriedAgain

\* A message that arrives waits, or is lost.
LEMMA ProducerStep ==
    ASSUME PlacesInv, NEW t \in Tasks, Enqueue(t) \/ Posted(t) \/ PostFails(t)
    PROVE  Places'
<1> USE DEF PlacesInv, TypeInv, TypeOK, WaitsOnce, WaitingIsUntouched, HeldIsNew,
        AckingIsFinished, AutoReplyOnce, AckedAfterWork, NeverTriedAgain,
        Waits, Untouched, Held, Busy, queues, history
<1>1. CASE Enqueue(t)
    <2>1. ~Waits(t) /\ Untouched(t)
        BY <1>1 DEF Enqueue
    <2>2. \/ queue' = queue /\ posting' = posting \cup {t}
          \/ queue' = Append(queue, t) /\ posting' = posting
          \/ queue' = queue /\ posting' = posting
        BY <1>1 DEF Enqueue
    <2>3. /\ NoRepetition(Append(queue, t))
          /\ \A u : Among(u, Append(queue, t)) <=> u = t \/ Among(u, queue)
        BY <2>1, AppendFacts
    <2>4. /\ NoRepetition(queue')
          /\ \A u \in posting' : ~Among(u, queue')
          /\ \A u : u \in posting' \/ Among(u, queue') => u = t \/ Waits(u)
        BY <2>1, <2>2, <2>3
    <2>5. QED
        BY <1>1, <2>1, <2>4 DEF Enqueue, Places
<1>2. CASE Posted(t)
    <2>1. queue' = Append(queue, t) /\ posting' = posting \ {t} /\ ~Among(t, queue)
        BY <1>2 DEF Posted
    <2>2. /\ NoRepetition(queue')
          /\ \A u : Among(u, queue') <=> u = t \/ Among(u, queue)
        BY <2>1, AppendFacts
    <2>3. /\ NoRepetition(queue')
          /\ \A u \in posting' : ~Among(u, queue')
          /\ \A u : u \in posting' \/ Among(u, queue') => Waits(u)
        BY <1>2, <2>1, <2>2 DEF Posted
    <2>4. QED
        BY <1>2, <2>3 DEF Posted, Places
<1>3. CASE PostFails(t)
    BY <1>3 DEF PostFails, Places
<1>4. QED
    BY <1>1, <1>2, <1>3

\* What a worker takes is taken from the queue: nobody else is at work on it.
LEMMA TakeStep ==
    ASSUME PlacesInv, NEW w \in Workers, Get(w) \/ GetRaises(w)
    PROVE  Places'
<1> USE WorkerAssumption
    DEF PlacesInv, TypeInv, TypeOK, Working, WaitsOnce, WaitingIsUntouched,
        HeldIsNew, AckingIsFinished, AutoReplyOnce, AckedAfterWork,
        NeverTriedAgain, Waits, Untouched, Held, Busy, Resting, queues, history
<1>0. Held(w) = None
    BY DEF Get, GetRaises
<1>1. CASE Get(w)
    <2>1. PICK t \in Readable(w) :
            Deliver(w, t) /\ pending' = Delivered(w, t) /\ queue' = Remaining(t)
        BY <1>1 DEF Get
    <2>2. /\ t \in Tasks /\ Among(t, queue) /\ NoRepetition(queue')
          /\ \A u : Among(u, queue') <=> u # t /\ Among(u, queue)
        BY <2>1, RemainingFacts
    <2>3. worker' = [worker EXCEPT ![w] = [pc |-> "taken", task |-> t]]
        BY <2>1 DEF Deliver
    <2>4. \A x \in Workers, u \in Tasks :
            <<x, u>> \in pending' <=>
                <<x, u>> \in pending \/ (redis /\ x = w /\ u = t)
        BY <2>1 DEF Delivered
    <2>5. t # None /\ Untouched(t) /\ t \notin posting
        BY <2>2
    <2>6. WaitsOnce' /\ AckingIsFinished' /\ NeverTriedAgain'
        BY <1>1, <2>2 DEF Get
    <2>7. WaitingIsUntouched'
        BY <1>1, <2>2, <2>3, <2>4, <2>5 DEF Get
    <2>8. HeldIsNew' /\ AutoReplyOnce'
        <3>1. Held(w)' = t /\ \A x \in Workers : x # w => Held(x)' = Held(x)
            BY <2>3
        <3>2. UNCHANGED <<failures, finished, replies>>
            BY <1>1 DEF Get
        <3>3. HeldIsNew'
            BY <1>1, <2>3, <2>5, <3>1, <3>2 DEF Get
        <3>4. AutoReplyOnce'
            BY <3>2, <2>3, <2>5
        <3>5. QED
            BY <3>3, <3>4
    <2>9. AckedAfterWork'
        BY <1>1, <2>2, <2>3, <2>4, <2>5 DEF Get
    <2>10. QED
        BY <2>6, <2>7, <2>8, <2>9 DEF Places
<1>2. CASE GetRaises(w)
    <2>1. worker' = [worker EXCEPT ![w].pc = "dead"]
        BY <1>2 DEF GetRaises
    <2>2. \A x \in Workers :
            Held(x)' = Held(x) /\ (worker'[x].pc = worker[x].pc \/ Held(x) = None)
        BY <1>0, <2>1
    <2>3. CASE UNCHANGED <<queue, pending>>
        BY <1>2, <2>2, <2>3 DEF GetRaises, Places
    <2>4. ASSUME NEW t \in Readable(w), pending' = Delivered(w, t),
                 queue' = Remaining(t)
          PROVE  Places'
        <3>1. /\ t \in Tasks /\ Among(t, queue) /\ NoRepetition(queue')
              /\ \A u : Among(u, queue') <=> u # t /\ Among(u, queue)
            BY <2>4, RemainingFacts
        <3>2. \A x \in Workers, u \in Tasks :
                <<x, u>> \in pending' <=>
                    <<x, u>> \in pending \/ (redis /\ x = w /\ u = t)
            BY <2>4, <3>1 DEF Delivered
        <3>3. WaitsOnce'
            BY <1>2, <3>1 DEF GetRaises
        <3>4. t \notin posting
            BY <3>1
        <3>5. WaitingIsUntouched'
            BY <1>2, <2>2, <3>1, <3>2, <3>4 DEF GetRaises
        <3>6. /\ AckingIsFinished' /\ NeverTriedAgain' /\ HeldIsNew'
              /\ AutoReplyOnce' /\ AckedAfterWork'
            BY <1>2, <2>2, <3>2 DEF GetRaises
        <3>7. QED
            BY <3>3, <3>5, <3>6 DEF Places
    <2>5. QED
        BY <1>2, <2>3, <2>4 DEF GetRaises
<1>3. QED
    BY <1>1, <1>2

\* A worker that is at work changes what it holds, and nobody else holds that.
LEMMA WorkStep ==
    ASSUME PlacesInv, NEW w \in Workers,
           Persist(w) \/ AutoReply(w) \/ Succeeds(w) \/ Fails(w)
    PROVE  Places'
<1> USE WorkerAssumption
    DEF PlacesInv, TypeInv, TypeOK, Working, WaitsOnce, WaitingIsUntouched,
        HeldIsNew, AckingIsFinished, AutoReplyOnce, AckedAfterWork,
        NeverTriedAgain, Waits, Untouched, Held, Busy, Resting, queues, history
<1> DEFINE t == Held(w)
<1>0. t \in Tasks /\ t # None /\ t \in arrived /\ ~Waits(t)
    <2>1. worker[w].pc \notin {"idle", "dead"}
        BY DEF Persist, AutoReply, Succeeds, Fails
    <2>2. t \in Tasks /\ t # None
        BY <2>1
    <2>3. QED
        BY <2>2
<1>1. CASE Persist(w)
    <2>1. worker' = [worker EXCEPT ![w].pc = "announcing"]
        BY <1>1 DEF Persist
    <2>2. QED
        BY <1>0, <1>1, <2>1 DEF Persist, Places
<1>2. CASE AutoReply(w)
    <2>1. /\ worker' = [worker EXCEPT ![w].pc = "replying"]
          /\ replies' = [replies EXCEPT ![t] = @ + 1] /\ replies[t] = 0
        BY <1>2 DEF AutoReply
    <2>2. WaitingIsUntouched' /\ HeldIsNew' /\ AutoReplyOnce'
        BY <1>0, <1>2, <2>1 DEF AutoReply
    <2>3. WaitsOnce' /\ AckingIsFinished' /\ AckedAfterWork' /\ NeverTriedAgain'
        BY <1>0, <1>2, <2>1 DEF AutoReply
    <2>4. QED
        BY <2>2, <2>3 DEF Places
<1>3. ASSUME /\ worker' = [worker EXCEPT ![w] = [pc |-> "idle", task |-> None]]
             /\ TaskDone(w)
             /\ finished' = finished \cup {t}
             /\ failures' \in [Tasks -> 0 .. 1]
             /\ \A u \in Tasks : u # t => failures'[u] = failures[u]
             /\ MaxFailures > 1 => deadLetters' = {}
             /\ arrived' = arrived /\ replies' = replies /\ redis' = redis
      PROVE  Places'
    <2>1. WaitsOnce'
        BY <1>3 DEF TaskDone
    <2>2. NeverTriedAgain'
        <3>1. ASSUME NEW u \in Tasks PROVE failures'[u] <= 1
            <4>1. failures'[u] \in 0 .. 1
                BY <1>3
            <4>2. QED
                BY <4>1
        <3>2. QED
            BY <1>3, <3>1
    <2>3. AutoReplyOnce'
        BY <1>0, <1>3
    <2>4. \A x \in Workers, u \in Tasks :
            <<x, u>> \in acking' => <<x, u>> \in acking \/ (x = w /\ u = t)
        BY <1>3 DEF TaskDone
    <2>5. WaitingIsUntouched' /\ HeldIsNew'
        BY <1>0, <1>3, <2>4 DEF TaskDone
    <2>6. AckingIsFinished' /\ AckedAfterWork'
        BY <1>0, <1>3, <2>4 DEF TaskDone
    <2>7. QED
        BY <2>1, <2>2, <2>3, <2>5, <2>6 DEF Places
<1>4. CASE Succeeds(w)
    BY <1>0, <1>3, <1>4 DEF Succeeds
<1>5. CASE Fails(w)
    <2>1. failures[t] = 0
        BY <1>0
    <2>2. /\ failures' \in [Tasks -> 0 .. 1]
          /\ \A u \in Tasks : u # t => failures'[u] = failures[u]
          /\ MaxFailures > 1 => deadLetters' = {}
        BY <1>0, <1>5, <2>1 DEF Fails
    <2>3. QED
        BY <1>3, <1>5, <2>2 DEF Fails
<1>6. QED
    BY <1>1, <1>2, <1>4, <1>5

\* A restart makes every worker idle and takes nothing out of the stream that
\* was not delivered.
LEMMA RestartStep ==
    ASSUME PlacesInv, Restart, pending' \subseteq pending
    PROVE  Places'
<1> USE WorkerAssumption
    DEF PlacesInv, TypeInv, TypeOK, Working, WaitsOnce, WaitingIsUntouched,
        HeldIsNew, AckingIsFinished, AutoReplyOnce, AckedAfterWork,
        NeverTriedAgain, Waits, Untouched, Held, Busy, Resting, Restart
<1>1. queue' = queue \/ queue' = <<>>
    OBVIOUS
<1>2. \A w \in Workers : Held(w)' = None
    OBVIOUS
<1>3. NoRepetition(queue') /\ \A u : Among(u, queue') => Among(u, queue)
    BY <1>1 DEF NoRepetition, Among
<1>4. WaitsOnce' /\ AckingIsFinished' /\ NeverTriedAgain'
    BY <1>3
<1>5. WaitingIsUntouched'
    BY <1>2, <1>3
<1>6. HeldIsNew' /\ AutoReplyOnce' /\ AckedAfterWork'
    BY <1>2
<1>7. QED
    BY <1>4, <1>5, <1>6 DEF Places

\* Every step keeps each task in its place.
LEMMA PlacesStep ==
    ASSUME PlacesInv, [Next]_vars PROVE PlacesInv'
<1>1. SUFFICES Places'
    BY TypeStep DEF PlacesInv, Places
<1>2. ASSUME NEW w \in Workers, NEW t \in Tasks, Ack(w, t) PROVE Places'
    BY <1>2
    DEF Ack, Places, PlacesInv, TypeInv, TypeOK, Working, WaitsOnce, Waits,
        WaitingIsUntouched, Untouched, HeldIsNew, AckingIsFinished,
        AutoReplyOnce, AckedAfterWork, NeverTriedAgain, Held, Busy, history
<1>3. CASE UNCHANGED vars
    BY <1>3
    DEF vars, queues, history, Places, PlacesInv, WaitsOnce, Waits, Held, Busy,
        WaitingIsUntouched, Untouched, HeldIsNew, AckingIsFinished,
        AutoReplyOnce, AckedAfterWork, NeverTriedAgain
<1>4. CASE Crash
    BY <1>4, RestartStep DEF Crash
<1>5. CASE Shutdown
    BY <1>5, RestartStep DEF Shutdown
<1>6. QED
    BY <1>2, <1>3, <1>4, <1>5, ProducerStep, TakeStep, WorkStep DEF Next, Work

-----------------------------------------------------------------------------
(* What has become of a message *)

\* The ways Accounted names for a task to be somewhere.
Tracked(t) ==
    \/ t \in posting \/ Among(t, queue)
    \/ \E w \in Workers : Held(w) = t \/ <<w, t>> \in pending
    \/ t \in finished \cup lost \cup cancelled

\* Accounted says that what arrived is tracked.
LEMMA AccountedIsTracked ==
    Accounted <=> \A t \in arrived : Tracked(t)
BY DEF Accounted, Tracked, Among

\* A step of the queue or of a worker loses track of nothing.
LEMMA TrackedStep ==
    ASSUME PlacesInv, [Next]_vars, NEW t \in Tasks, t \in arrived, Tracked(t)
    PROVE  Tracked(t)'
<1> USE DEF Tracked, Held, queues, history
<1>0. TypeOK /\ WaitsOnce /\ Working
    BY DEF PlacesInv, TypeInv
<1>1. ASSUME NEW u \in Tasks, Enqueue(u) \/ Posted(u) \/ PostFails(u)
      PROVE  Tracked(t)'
    <2>1. CASE (Enqueue(u) \/ Posted(u)) /\ queue' = Append(queue, u)
        <3>1. \A v : Among(v, queue') <=> v = u \/ Among(v, queue)
            BY <1>0, <2>1, AppendFacts DEF TypeOK
        <3>2. QED
            BY <2>1, <3>1 DEF Enqueue, Posted
    <2>2. CASE Enqueue(u) /\ queue' = queue
        BY <2>2 DEF Enqueue
    <2>3. CASE PostFails(u)
        BY <2>3 DEF PostFails
    <2>4. QED
        BY <1>1, <2>1, <2>2, <2>3 DEF Enqueue, Posted
<1>2. ASSUME NEW w \in Workers, Get(w) PROVE Tracked(t)'
    <2>1. PICK u \in Readable(w) :
            Deliver(w, u) /\ pending' = Delivered(w, u) /\ queue' = Remaining(u)
        BY <1>2 DEF Get
    <2>2. \A v : Among(v, queue') <=> v # u /\ Among(v, queue)
        BY <1>0, <2>1, RemainingFacts
    <2>3. Held(w)' = u /\ \A x \in Workers : x # w => Held(x)' = Held(x)
        BY <1>0, <2>1 DEF Deliver, TypeOK
    <2>4. Held(w) = None /\ t # None
        BY <1>0, <1>2, WorkerAssumption DEF Get, Working
    <2>5. QED
        BY <1>2, <2>1, <2>2, <2>3, <2>4 DEF Get, Delivered
<1>3. ASSUME NEW w \in Workers, GetRaises(w) PROVE Tracked(t)'
    <2>1. \A x \in Workers : Held(x)' = Held(x)
        BY <1>0, <1>3 DEF GetRaises, TypeOK
    <2>2. CASE UNCHANGED <<queue, pending>>
        BY <1>3, <2>1, <2>2 DEF GetRaises
    <2>3. ASSUME NEW u \in Readable(w), pending' = Delivered(w, u),
                 queue' = Remaining(u)
          PROVE  Tracked(t)'
        <3>1. \A v : Among(v, queue') <=> v # u /\ Among(v, queue)
            BY <1>0, <2>3, RemainingFacts
        <3>2. QED
            BY <1>3, <2>1, <2>3, <3>1 DEF GetRaises, Delivered
    <2>4. QED
        BY <1>3, <2>2, <2>3 DEF GetRaises
<1>4. ASSUME NEW w \in Workers, Persist(w) \/ AutoReply(w) PROVE Tracked(t)'
    <2>0. PICK pc \in {"announcing", "replying"} :
            worker' = [worker EXCEPT ![w].pc = pc]
        BY <1>4 DEF Persist, AutoReply
    <2>1. \A x \in Workers : Held(x)' = Held(x)
        BY <1>0, <2>0 DEF TypeOK
    <2>2. QED
        BY <1>4, <2>1 DEF Persist, AutoReply
<1>5. ASSUME NEW w \in Workers, Succeeds(w) \/ Fails(w) PROVE Tracked(t)'
    <2>1. \A x \in Workers : x # w => Held(x)' = Held(x)
        BY <1>0, <1>5 DEF Succeeds, Fails, TypeOK
    <2>2. QED
        BY <1>5, <2>1 DEF Succeeds, Fails, TaskDone
<1>6. ASSUME NEW w \in Workers, NEW u \in Tasks, Ack(w, u) PROVE Tracked(t)'
    BY <1>6 DEF Ack, PlacesInv, AckingIsFinished
<1>7. ASSUME Restart, cancelled \subseteq cancelled',
             \A w \in Workers : <<w, t>> \in pending =>
                <<w, t>> \in pending' \/ t \in finished \cup cancelled'
      PROVE  Tracked(t)'
    <2>1. CASE t \in posting
        BY <1>7, <2>1 DEF Restart
    <2>2. CASE Among(t, queue)
        <3>1. t \in {queue[i] : i \in DOMAIN queue}
            BY <2>2 DEF Among
        <3>2. QED
            BY <1>7, <2>2, <3>1 DEF Restart
    <2>3. ASSUME NEW w \in Workers, Held(w) = t PROVE Tracked(t)'
        <3>1. w \in Busy /\ t \in {Held(x) : x \in Busy}
            BY <2>3, WorkerAssumption DEF Busy
        <3>2. CASE redis
            <4>1. <<w, t>> \in pending
                BY <2>3, <3>1, <3>2 DEF PlacesInv, AckedAfterWork
            <4>2. QED
                BY <1>7, <4>1 DEF Restart
        <3>3. CASE ~redis
            BY <1>7, <3>1, <3>3 DEF Restart
        <3>4. QED
            BY <3>2, <3>3
    <2>4. ASSUME NEW w \in Workers, <<w, t>> \in pending PROVE Tracked(t)'
        BY <1>7, <2>4 DEF Restart
    <2>5. CASE t \in finished \cup lost \cup cancelled
        BY <1>7, <2>5 DEF Restart
    <2>6. QED
        BY <2>1, <2>2, <2>3, <2>4, <2>5
<1>8. CASE Crash
    BY <1>7, <1>8 DEF Crash
<1>9. CASE Shutdown
    <2>1. cancelled' = cancelled \cup {Held(w) : w \in Busy}
        BY <1>9 DEF Shutdown
    <2>2. ASSUME NEW w \in Workers, <<w, t>> \in pending
          PROVE  <<w, t>> \in pending' \/ t \in finished \cup cancelled'
        <3>1. PICK acked \in SUBSET (({<<x, Held(x)>> : x \in Busy} \cup acking)
                                    \cap pending) :
                pending' = pending \ acked
            BY <1>9 DEF Shutdown
        <3>2. CASE <<w, t>> \in acking
            BY <3>2 DEF PlacesInv, AckingIsFinished
        <3>3. ASSUME NEW x \in Busy, <<w, t>> = <<x, Held(x)>>
              PROVE  t \in cancelled'
            BY <2>1, <3>3
        <3>4. QED
            BY <2>2, <3>1, <3>2, <3>3
    <2>3. QED
        BY <1>7, <1>9, <2>1, <2>2 DEF Shutdown
<1>10. CASE UNCHANGED vars
    BY <1>10 DEF vars
<1>11. QED
    BY <1>1, <1>2, <1>3, <1>4, <1>5, <1>6, <1>8, <1>9, <1>10 DEF Next, Work

\* What arrives is tracked from its first moment.
LEMMA ArrivalStep ==
    ASSUME TypeOK, [Next]_vars, NEW t \in arrived', t \notin arrived
    PROVE  Tracked(t)'
<1> USE DEF queues, history
<1>1. PICK u \in Tasks : Enqueue(u)
    BY DEF Next, Work, Posted, PostFails, Get, GetRaises, Persist, AutoReply,
        Succeeds, Fails, Ack, Crash, Shutdown, Restart, vars
<1>2. t = u
    BY <1>1 DEF Enqueue
<1>3. CASE t \in posting' \cup lost'
    BY <1>3 DEF Tracked
<1>4. CASE queue' = Append(queue, t)
    BY <1>1, <1>2, <1>4, AppendFacts DEF Tracked, TypeOK
<1>5. QED
    BY <1>1, <1>2, <1>3, <1>4 DEF Enqueue

-----------------------------------------------------------------------------
(* The theorems *)

\* The invariant that the theorems below are read off from.
LEMMA PipelineInvariant == Spec => []PipelineInv
<1>1. PipelineInv /\ [Next]_vars => PipelineInv'
    <2> SUFFICES ASSUME PipelineInv, [Next]_vars PROVE PipelineInv'
        OBVIOUS
    <2>1. PlacesInv'
        BY PlacesStep DEF PipelineInv
    <2>2. \A t \in arrived' : Tracked(t)'
        <3>1. ASSUME NEW t \in arrived', t \in arrived PROVE Tracked(t)'
            <4>1. t \in Tasks /\ Tracked(t)
                BY <3>1, AccountedIsTracked
                DEF PipelineInv, PlacesInv, TypeInv, TypeOK
            <4>2. QED
                BY <3>1, <4>1, TrackedStep DEF PipelineInv
        <3>2. QED
            BY <3>1, ArrivalStep DEF PipelineInv, PlacesInv, TypeInv
    <2>3. Accounted'
        BY <2>2 DEF Accounted, Tracked, Among
    <2>4. QED
        BY <2>1, <2>3 DEF PipelineInv
<1>2. QED
    BY <1>1, PipelineInit, PTL DEF Spec

\* The queues, the workers and the counters keep their types.
THEOREM PipelineTypes == Spec => []TypeOK
<1>1. PipelineInv => TypeOK
    BY DEF PipelineInv, PlacesInv, TypeInv
<1>2. QED
    BY <1>1, PipelineInvariant, PTL

\* No message disappears: it is queued, at a worker, unacknowledged, processed,
\* or lost in one of the ways the model names.
THEOREM NothingVanishes == Spec => []Accounted
<1>1. PipelineInv => Accounted
    BY DEF PipelineInv
<1>2. QED
    BY <1>1, PipelineInvariant, PTL

\* A customer is answered automatically at most once for each message.
THEOREM AnsweredOnce == Spec => []AutoReplyOnce
<1>1. PipelineInv => AutoReplyOnce
    BY DEF PipelineInv, PlacesInv
<1>2. QED
    BY <1>1, PipelineInvariant, PTL

\* A stream entry stays unacknowledged while its worker is at work on it.
THEOREM AcknowledgedLast == Spec => []AckedAfterWork
<1>1. PipelineInv => AckedAfterWork
    BY DEF PipelineInv, PlacesInv
<1>2. QED
    BY <1>1, PipelineInvariant, PTL

\* Failures never add up, so the dead-letter stream is for ever empty when more
\* than one failure is allowed.
THEOREM NoSecondTry == Spec => []NeverTriedAgain
<1>1. PipelineInv => NeverTriedAgain
    BY DEF PipelineInv, PlacesInv
<1>2. QED
    BY <1>1, PipelineInvariant, PTL

-----------------------------------------------------------------------------
(* The automation loop, when one process runs it, for every number of      *)
(* tasks, projects and restarts.                                           *)

\* Only the API process starts the loop, and there is one of it.
OneRunner == \A r, s \in Runners : r = s

\* A loop executes a task exactly between its claim and its outcome.
HasTask ==
    \A r \in Runners :
        runner[r].current = NoTask <=> runner[r].pc \in {"asleep", "between"}

\* What a loop has done for the task it executes.
AtWork ==
    \A r \in Runners : runner[r].current # NoTask =>
        LET t == runner[r].current
        IN  /\ state[t] \in {"processing", "deleted"}
            /\ runner[r].pc = "claimed" => messages[t] = 0
            /\ runner[r].pc = "sending" => kind[t] = "send_message" /\ messages[t] = 1
            /\ runner[r].pc = "done" =>
                \/ kind[t] = "scheduled_action"
                \/ kind[t] = "send_message" /\ messages[t] = 1

\* What a pass still has to execute nobody has executed.
TodoIsUntouched ==
    \A r \in Runners : \A t \in runner[r].todo :
        state[t] \in {"scheduled", "deleted"}

\* A message is created for a claimed task only.
UnclaimedIsUnsent ==
    \A t \in ProjectTasks : state[t] \in {"absent", "scheduled"} => messages[t] = 0

LoopTypeInv == LoopTypes /\ HasTask

PassInv ==
    /\ LoopTypeInv
    /\ AtWork
    /\ TodoIsUntouched
    /\ UnclaimedIsUnsent
    /\ AtMostOneMessage
    /\ ProcessingIsExecuted
    /\ CompletedIsDone

-----------------------------------------------------------------------------
\* The tables are empty and the loops asleep at the start.
LEMMA PassInit == LoopInit => PassInv
<1> SUFFICES ASSUME LoopInit PROVE PassInv
    OBVIOUS
<1> USE AutomationAssumption DEF LoopInit, Asleep
<1>1. LoopTypeInv
    BY DEF LoopTypeInv, LoopTypes, HasTask, Kinds
<1>2. AtWork /\ TodoIsUntouched /\ UnclaimedIsUnsent
    BY DEF AtWork, TodoIsUntouched, UnclaimedIsUnsent
<1>3. AtMostOneMessage /\ ProcessingIsExecuted /\ CompletedIsDone
    BY DEF AtMostOneMessage, ProcessingIsExecuted, CompletedIsDone
<1>4. QED
    BY <1>1, <1>2, <1>3 DEF PassInv

\* Every step keeps the types, however many processes run the loop.
LEMMA LoopTypeStep == LoopTypeInv /\ [LoopNext]_loopvars => LoopTypeInv'
<1> SUFFICES ASSUME LoopTypeInv, [LoopNext]_loopvars PROVE LoopTypeInv'
    OBVIOUS
<1> USE AutomationAssumption
    DEF LoopTypeInv, LoopTypes, HasTask, row, past, Goto, AfterError, Asleep
<1>1. ASSUME NEW t \in ProjectTasks, NEW k \in Kinds, CreateTask(t, k) PROVE LoopTypeInv'
    BY <1>1 DEF CreateTask
<1>2. ASSUME NEW t \in ProjectTasks, ComesDue(t) PROVE LoopTypeInv'
    BY <1>2 DEF ComesDue
<1>3. ASSUME NEW t \in ProjectTasks, UpdateTask(t) PROVE LoopTypeInv'
    BY <1>3 DEF UpdateTask
<1>4. ASSUME NEW p \in Projects, DeleteProject(p) PROVE LoopTypeInv'
    BY <1>4 DEF DeleteProject
<1>5. ASSUME NEW r \in Runners, Pass(r) PROVE LoopTypeInv'
    <2>1. CASE SelectDue(r)
        <3>1. PICK D \in SUBSET ProjectTasks :
                runner' = [runner EXCEPT ![r] =
                    [pc |-> "between", todo |-> D, current |-> NoTask]]
            BY <2>1 DEF SelectDue
        <3>2. QED
            BY <2>1, <3>1 DEF SelectDue
    <2>2. ASSUME NEW t \in ProjectTasks, Claim(r, t) PROVE LoopTypeInv'
        <3>1. runner[r].todo \ {t} \in SUBSET ProjectTasks /\ t # NoTask
            OBVIOUS
        <3>2. QED
            BY <2>2, <3>1 DEF Claim
    <2>3. CASE RowGone(r)
        BY <2>3 DEF RowGone
    <2>4. CASE Send(r)
        <3>1. runner[r].current \in ProjectTasks
            BY <2>4 DEF Send
        <3>2. QED
            BY <2>4, <3>1 DEF Send
    <2>5. CASE Act(r)
        BY <2>5 DEF Act
    <2>6. CASE SendReturns(r)
        BY <2>6 DEF SendReturns
    <2>7. CASE Raises(r)
        BY <2>7 DEF Raises
    <2>8. CASE SessionBroken(r)
        <3>1. runner[r].current \in ProjectTasks
            BY <2>8 DEF SessionBroken
        <3>2. QED
            BY <2>8, <3>1 DEF SessionBroken
    <2>c. ASSUME NEW outcome \in {"completed", "failed"}, Conclude(r, outcome)
          PROVE LoopTypeInv'
        <3>1. PICK pc \in {"asleep", "between"} :
                NextTask(runner[r].todo) =
                    [pc |-> pc, todo |-> runner[r].todo, current |-> NoTask]
            BY DEF NextTask
        <3>2. runner' = [runner EXCEPT ![r] =
                [pc |-> pc, todo |-> runner[r].todo, current |-> NoTask]]
            BY <2>c, <3>1 DEF Conclude
        <3>3. state' \in [ProjectTasks -> {"absent", "scheduled", "processing",
                                    "completed", "failed", "deleted"}]
            BY <2>c DEF Conclude
        <3>4. QED
            BY <2>c, <3>2, <3>3 DEF Conclude
    <2>9. CASE Completes(r)
        BY <2>9, <2>c DEF Completes
    <2>10. CASE TaskFails(r)
        BY <2>10, <2>c DEF TaskFails
    <2>11. QED
        BY <1>5, <2>1, <2>2, <2>3, <2>4, <2>5, <2>6, <2>7, <2>8, <2>9, <2>10
        DEF Pass
<1>6. ASSUME NEW r \in Runners, Stop(r) PROVE LoopTypeInv'
    BY <1>6 DEF Stop
<1>7. CASE UNCHANGED loopvars
    BY <1>7 DEF loopvars
<1>8. QED
    BY <1>1, <1>2, <1>3, <1>4, <1>5, <1>6, <1>7 DEF LoopNext

\* The statuses of tasks, the types of the loops and of the counters.
THEOREM TypesAreCorrect == LoopSpec => []LoopTypes
<1>1. LoopInit => LoopTypeInv
    BY PassInit DEF PassInv
<1>2. LoopTypeInv => LoopTypes
    BY DEF LoopTypeInv
<1>3. QED
    BY <1>1, <1>2, LoopTypeStep, PTL DEF LoopSpec

-----------------------------------------------------------------------------
\* What the API does disturbs no pass: it creates rows, and deletes them.
LEMMA ApiStep ==
    ASSUME PassInv,
           \/ \E t \in ProjectTasks :
                (\E k \in Kinds : CreateTask(t, k)) \/ ComesDue(t) \/ UpdateTask(t)
           \/ \E p \in Projects : DeleteProject(p)
    PROVE  /\ AtWork' /\ TodoIsUntouched' /\ UnclaimedIsUnsent'
           /\ AtMostOneMessage' /\ ProcessingIsExecuted' /\ CompletedIsDone'
<1> USE AutomationAssumption
    DEF PassInv, LoopTypeInv, LoopTypes, HasTask, row, past, AtWork, TodoIsUntouched,
        UnclaimedIsUnsent, AtMostOneMessage, ProcessingIsExecuted, CompletedIsDone
<1> DEFINE Goal ==
        /\ AtWork' /\ TodoIsUntouched' /\ UnclaimedIsUnsent'
        /\ AtMostOneMessage' /\ ProcessingIsExecuted' /\ CompletedIsDone'
<1>1. ASSUME NEW t \in ProjectTasks, NEW k \in Kinds, CreateTask(t, k) PROVE Goal
    BY <1>1 DEF CreateTask
<1>2. ASSUME NEW t \in ProjectTasks, ComesDue(t) PROVE Goal
    BY <1>2 DEF ComesDue
<1>3. ASSUME NEW t \in ProjectTasks, UpdateTask(t) PROVE Goal
    BY <1>3 DEF UpdateTask
<1>4. ASSUME NEW p \in Projects, DeleteProject(p) PROVE Goal
    BY <1>4 DEF DeleteProject
<1>5. QED
    BY <1>1, <1>2, <1>3, <1>4

\* One step of the only loop: it claims what nobody touched, sends for what it
\* has claimed and stores the outcome of what it has done.
LEMMA PassStep ==
    ASSUME PassInv, OneRunner, NEW r \in Runners, Pass(r)
    PROVE  /\ AtWork' /\ TodoIsUntouched' /\ UnclaimedIsUnsent'
           /\ AtMostOneMessage' /\ ProcessingIsExecuted' /\ CompletedIsDone'
<1> USE AutomationAssumption
    DEF PassInv, LoopTypeInv, LoopTypes, HasTask, row, past, AtWork, TodoIsUntouched,
        UnclaimedIsUnsent, AtMostOneMessage, ProcessingIsExecuted, CompletedIsDone,
        Goto, AfterError, Asleep, Exists
<1> DEFINE Goal ==
        /\ AtWork' /\ TodoIsUntouched' /\ UnclaimedIsUnsent'
        /\ AtMostOneMessage' /\ ProcessingIsExecuted' /\ CompletedIsDone'
<1>0. \A s \in Runners : s = r
    BY DEF OneRunner
<1>1. CASE SelectDue(r)
    BY <1>0, <1>1 DEF SelectDue, DueNow
<1>2. ASSUME NEW t \in ProjectTasks, Claim(r, t) PROVE Goal
    BY <1>0, <1>2 DEF Claim
<1>3. CASE RowGone(r)
    BY <1>0, <1>3 DEF RowGone
<1>4. CASE Send(r)
    BY <1>0, <1>4 DEF Send
<1>5. CASE Act(r)
    BY <1>0, <1>5 DEF Act
<1>6. CASE SendReturns(r)
    BY <1>0, <1>6 DEF SendReturns
<1>7. CASE Raises(r)
    BY <1>0, <1>7 DEF Raises
<1>8. CASE SessionBroken(r)
    BY <1>0, <1>8 DEF SessionBroken
<1>9. CASE Completes(r)
    BY <1>0, <1>9 DEF Completes, Succeeded, Conclude, NextTask
<1>10. CASE TaskFails(r)
    BY <1>0, <1>10 DEF TaskFails, Conclude, NextTask
<1>11. QED
    BY <1>1, <1>2, <1>3, <1>4, <1>5, <1>6, <1>7, <1>8, <1>9, <1>10 DEF Pass

\* The end of a process in the middle of a task is recorded as such.
LEMMA StopStep ==
    ASSUME PassInv, OneRunner, NEW r \in Runners, Stop(r)
    PROVE  /\ AtWork' /\ TodoIsUntouched' /\ UnclaimedIsUnsent'
           /\ AtMostOneMessage' /\ ProcessingIsExecuted' /\ CompletedIsDone'
BY AutomationAssumption
   DEF OneRunner, Stop, PassInv, LoopTypeInv, LoopTypes, HasTask, row, AtWork, Asleep,
       TodoIsUntouched, UnclaimedIsUnsent, AtMostOneMessage,
       ProcessingIsExecuted, CompletedIsDone

\* Together they keep the invariant of the pass.
LEMMA PassInductive ==
    ASSUME OneRunner, PassInv, [LoopNext]_loopvars PROVE PassInv'
<1>1. LoopTypeInv'
    BY LoopTypeStep DEF PassInv
<1>2. CASE UNCHANGED loopvars
    BY <1>1, <1>2
    DEF PassInv, loopvars, row, past, AtWork, TodoIsUntouched, UnclaimedIsUnsent,
        AtMostOneMessage, ProcessingIsExecuted, CompletedIsDone
<1>3. CASE LoopNext
    BY <1>1, <1>3, ApiStep, PassStep, StopStep DEF LoopNext, PassInv
<1>4. QED
    BY <1>2, <1>3

\* The invariant that the theorems below are read off from.
LEMMA PassInvariant ==
    ASSUME OneRunner PROVE LoopSpec => []PassInv
<1>1. PassInv /\ [LoopNext]_loopvars => PassInv'
    BY PassInductive
<1>2. QED
    BY <1>1, PassInit, PTL DEF LoopSpec

\* A task sends at most one message, whatever restarts and deletions come
\* between its claim and its outcome.
THEOREM AtMostOnce ==
    ASSUME OneRunner PROVE LoopSpec => []AtMostOneMessage
<1>1. PassInv => AtMostOneMessage
    BY DEF PassInv
<1>2. QED
    BY <1>1, PassInvariant, PTL

\* Only a pass that was cut off leaves a task PROCESSING.
THEOREM ProcessingHasRunner ==
    ASSUME OneRunner PROVE LoopSpec => []ProcessingIsExecuted
<1>1. PassInv => ProcessingIsExecuted
    BY DEF PassInv
<1>2. QED
    BY <1>1, PassInvariant, PTL

\* COMPLETED is said only of what was done.
THEOREM CompletedWasDone ==
    ASSUME OneRunner PROVE LoopSpec => []CompletedIsDone
<1>1. PassInv => CompletedIsDone
    BY DEF PassInv
<1>2. QED
    BY <1>1, PassInvariant, PTL

\* No pass executes again what is COMPLETED or FAILED.
LEMMA OutcomeStep ==
    ASSUME PassInv, OneRunner, [LoopNext]_loopvars,
           NEW t \in ProjectTasks, state[t] \in {"completed", "failed"}
    PROVE  state'[t] \in {state[t], "deleted"} /\ messages'[t] = messages[t]
<1> USE DEF PassInv, LoopTypeInv, LoopTypes, HasTask, AtWork, TodoIsUntouched, row, past
<1> DEFINE Kept == state'[t] \in {state[t], "deleted"} /\ messages'[t] = messages[t]
<1>1. \A r \in Runners : t \notin runner[r].todo /\ t # runner[r].current
    BY AutomationAssumption
<1>2. ASSUME NEW u \in ProjectTasks, NEW k \in Kinds, CreateTask(u, k) PROVE Kept
    BY <1>2 DEF CreateTask
<1>3. ASSUME NEW u \in ProjectTasks, ComesDue(u) \/ UpdateTask(u) PROVE Kept
    BY <1>3 DEF ComesDue, UpdateTask
<1>4. ASSUME NEW p \in Projects, DeleteProject(p) PROVE Kept
    BY <1>4 DEF DeleteProject
<1>5. ASSUME NEW r \in Runners, Pass(r) PROVE Kept
    <2>1. CASE SelectDue(r) \/ RowGone(r) \/ Act(r) \/ SendReturns(r) \/ Raises(r)
                \/ SessionBroken(r)
        BY <2>1 DEF SelectDue, RowGone, Act, SendReturns, Raises, SessionBroken
    <2>2. ASSUME NEW u \in ProjectTasks, Claim(r, u) PROVE Kept
        BY <2>2, <1>1 DEF Claim
    <2>3. CASE Send(r)
        BY <2>3, <1>1 DEF Send
    <2>4. CASE Completes(r) \/ TaskFails(r)
        BY <2>4, <1>1 DEF Completes, TaskFails, Conclude
    <2>5. QED
        BY <1>5, <2>1, <2>2, <2>3, <2>4 DEF Pass
<1>6. ASSUME NEW r \in Runners, Stop(r) PROVE Kept
    BY <1>6 DEF Stop
<1>7. CASE UNCHANGED loopvars
    BY <1>7 DEF loopvars
<1>8. QED
    BY <1>2, <1>3, <1>4, <1>5, <1>6, <1>7 DEF LoopNext

\* The outcome of a task never changes, and nothing is sent after it.
THEOREM OutcomeStands ==
    ASSUME OneRunner PROVE LoopSpec => OutcomeIsFinal
<1>1. PassInv /\ [LoopNext]_loopvars =>
        [\A t \in ProjectTasks : state[t] \in {"completed", "failed"} =>
            state'[t] \in {state[t], "deleted"} /\ messages'[t] = messages[t]]_loopvars
    BY OutcomeStep
<1>2. QED
    BY <1>1, PassInvariant, PTL DEF LoopSpec, OutcomeIsFinal

=============================================================================
