---------------------------- MODULE AgentWorker ----------------------------
(***************************************************************************)
(* The agent pipeline: the queue of AgentTasks (an asyncio.Queue, or a     *)
(* Redis stream with a consumer group when REDIS_URL is set), the worker   *)
(* coroutines that drain it and the processor that runs the agent, stores  *)
(* its suggestions, announces them and may answer by itself.               *)
(***************************************************************************)
EXTENDS Naturals, Sequences, FiniteSets

CONSTANTS
    Tasks,          \* AgentTasks, one for each inbound message
    Conversations,
    ConvOf,         \* the conversation of each task
    Workers,        \* WORKER_CONCURRENCY coroutines, with fixed consumer ids
    Capacity,       \* WORKER_QUEUE_MAXSIZE of the asyncio.Queue
    MaxFailures,    \* REDIS_MAX_RETRIES
    MaxRestarts,    \* bound: times the process stops and starts again
    None

ASSUME WorkerAssumption ==
    /\ ConvOf \in [Tasks -> Conversations]
    /\ Capacity \in Nat /\ MaxRestarts \in Nat
    /\ MaxFailures \in Nat \ {0}
    /\ None \notin Tasks \cup Workers

VARIABLES
    redis,          \* whether REDIS_URL is set
    posting,        \* XADDs under way
    queue,          \* tasks no worker was given yet
    pending,        \* <<w, t>>: XPENDING, delivered and not acknowledged
    acking,         \* <<w, t>>: XACKs under way
    worker,         \* the worker coroutines
    failures,       \* _retry_counts
    deadLetters,    \* the stream <key>:dlq
    suggestions,    \* whose suggestions each conversation shows
    \* History.
    arrived,        \* messages stored, whose tasks were offered to the queue
    replies,        \* auto-replies handed to MessageService for each task
    finished,       \* tasks that were processed, well or not
    failed,         \* tasks whose processing raised
    lost,           \* tasks that no queue accepted, or that one kept in memory
    cancelled,      \* tasks a shutdown interrupted
    restarts

queues  == <<posting, queue, pending, acking>>
history == <<arrived, replies, finished, failed, lost, cancelled, restarts>>
vars    == <<redis, queues, worker, failures, deadLetters, suggestions, history>>

Resting == [pc |-> "idle", task |-> None]

Held(w) == worker[w].task
Busy == {w \in Workers : Held(w) # None}

-----------------------------------------------------------------------------
(* Producers *)

\* receive_from_channel has stored the message and calls put_nowait.
Enqueue(t) ==
    /\ t \notin arrived
    /\ arrived' = arrived \cup {t}
    /\ \/ /\ redis
          /\ posting' = posting \cup {t}
          /\ UNCHANGED <<queue, lost>>
       \/ /\ ~redis /\ Len(queue) < Capacity
          /\ queue' = Append(queue, t)
          /\ UNCHANGED <<posting, lost>>
       \/ /\ ~redis /\ Len(queue) >= Capacity
          /\ lost' = lost \cup {t}
          /\ UNCHANGED <<posting, queue>>
    /\ UNCHANGED <<redis, pending, acking, worker, failures, deadLetters,
                   suggestions, replies, finished, failed, cancelled, restarts>>

\* XADD, in whatever order the coroutines of put get through.
Posted(t) ==
    /\ t \in posting
    /\ posting' = posting \ {t}
    /\ queue' = Append(queue, t)
    /\ UNCHANGED <<redis, pending, acking, worker, failures, deadLetters,
                   suggestions, history>>

\* The exception of a put nobody awaits.
PostFails(t) ==
    /\ t \in posting
    /\ posting' = posting \ {t}
    /\ lost' = lost \cup {t}
    /\ UNCHANGED <<redis, queue, pending, acking, worker, failures,
                   deadLetters, suggestions, arrived, replies, finished,
                   failed, cancelled, restarts>>

-----------------------------------------------------------------------------
(* The worker loop *)

Deliver(w, t) ==
    worker' = [worker EXCEPT ![w] = [pc |-> "taken", task |-> t]]

\* Mutant: XREADGROUP with NOACK.
NotPending(w, t) == pending

\* Only Redis remembers whom it gave an entry to.
Delivered(w, t) == IF redis THEN pending \cup {<<w, t>>} ELSE pending

\* Mutant: a worker first reads its own pending entries ("0"), after a
\* restart, not only new ones.
OwnPendingToo(w) ==
    {t \in Tasks : (queue # <<>> /\ t = Head(queue)) \/ <<w, t>> \in pending}

\* Mutant: a worker reads on only when nothing of its own is unacknowledged.
NonePendingFirst(w) ==
    {t \in Tasks : queue # <<>> /\ t = Head(queue) /\ \A u \in Tasks : <<w, u>> \notin pending}

\* XREADGROUP ">": entries never delivered before; or asyncio.Queue.get.
Readable(w) == {t \in Tasks : queue # <<>> /\ t = Head(queue)}

Remaining(t) == IF queue # <<>> /\ t = Head(queue) THEN Tail(queue) ELSE queue

Get(w) ==
    /\ worker[w].pc = "idle"
    /\ \E t \in Readable(w) :
        /\ Deliver(w, t)
        /\ pending' = Delivered(w, t)
        /\ queue' = Remaining(t)
    /\ UNCHANGED <<redis, posting, acking, failures, deadLetters,
                   suggestions, history>>

\* Redis fails under get, before or after it has given an entry away.  The
\* call is outside the try of _worker, so the coroutine is gone until the
\* process restarts.
GetRaises(w) ==
    /\ redis /\ worker[w].pc = "idle"
    /\ worker' = [worker EXCEPT ![w].pc = "dead"]
    /\ \/ UNCHANGED <<queue, pending>>
       \/ \E t \in Readable(w) :
            /\ pending' = Delivered(w, t)
            /\ queue' = Remaining(t)
    /\ UNCHANGED <<redis, posting, acking, failures, deadLetters, suggestions,
                   history>>

\* The agent has an answer: its suggestions replace those of the conversation,
\* unless the model gave none, and are then announced (an await).
Persist(w) ==
    LET t == Held(w)
    IN  /\ worker[w].pc = "taken"
        /\ \/ suggestions' = [suggestions EXCEPT ![ConvOf[t]] = t]
           \/ UNCHANGED suggestions
        /\ worker' = [worker EXCEPT ![w].pc = "announcing"]
        /\ UNCHANGED <<redis, queues, failures, deadLetters, history>>

\* After the announcement: the auto-reply, a confident answer only.
AutoReply(w) ==
    LET t == Held(w)
    IN  /\ worker[w].pc = "announcing"
        /\ replies' = [replies EXCEPT ![t] = @ + 1]
        /\ worker' = [worker EXCEPT ![w].pc = "replying"]
        /\ UNCHANGED <<redis, queues, failures, deadLetters, suggestions,
                       arrived, finished, failed, lost, cancelled, restarts>>

\* finally: task_done starts an XACK, after a success or a failure alike.
TaskDone(w) ==
    /\ acking' = IF redis THEN acking \cup {<<w, Held(w)>>} ELSE acking
    /\ UNCHANGED <<posting, queue, pending>>

Succeeds(w) ==
    /\ worker[w].pc \in {"announcing", "replying"}
    /\ finished' = finished \cup {Held(w)}
    /\ failures' = [failures EXCEPT ![Held(w)] = 0]
    /\ TaskDone(w)
    /\ worker' = [worker EXCEPT ![w] = Resting]
    /\ UNCHANGED <<redis, deadLetters, suggestions, arrived, replies,
                   failed, lost, cancelled, restarts>>

\* The agent, a commit or the announcement raises.  From the last failure
\* that is allowed on, the task is a dead letter, if Redis takes it.
Fails(w) ==
    LET t == Held(w)
        count == failures[t] + 1
        isDead == redis /\ count >= MaxFailures
    IN  /\ worker[w].pc \in {"taken", "announcing"}
        /\ finished' = finished \cup {t}
        /\ failed' = failed \cup {t}
        /\ failures' = [failures EXCEPT ![t] = IF isDead THEN 0 ELSE count]
        /\ \/ isDead /\ deadLetters' = deadLetters \cup {t}
           \/ UNCHANGED deadLetters
        /\ TaskDone(w)
        /\ worker' = [worker EXCEPT ![w] = Resting]
        /\ UNCHANGED <<redis, suggestions, arrived, replies, lost, cancelled,
                       restarts>>

\* XACK, which may fail and is not repeated.
Ack(w, t) ==
    /\ <<w, t>> \in acking
    /\ acking' = acking \ {<<w, t>>}
    /\ \/ pending' = pending \ {<<w, t>>}
       \/ UNCHANGED pending
    /\ UNCHANGED <<redis, posting, queue, worker, failures, deadLetters,
                   suggestions, history>>

-----------------------------------------------------------------------------
(* The process ends and is started again *)

\* What one process keeps in memory is gone; the Redis stream is not.
Restart ==
    /\ restarts < MaxRestarts
    /\ restarts' = restarts + 1
    /\ worker' = [w \in Workers |-> Resting]
    /\ failures' = [t \in Tasks |-> 0]
    /\ posting' = {}
    /\ acking' = {}
    /\ queue' = IF redis THEN queue ELSE <<>>
    /\ lost' = lost \cup posting \cup
        (IF redis THEN {}
         ELSE {Held(w) : w \in Busy} \cup {queue[i] : i \in DOMAIN queue})
    /\ UNCHANGED <<redis, deadLetters, suggestions, arrived, replies,
                   finished, failed>>

Crash ==
    /\ Restart
    /\ UNCHANGED <<pending, cancelled>>

\* stop_workers cancels the workers.  A cancelled worker runs its finally
\* clause, so the entry it was at work on may be acknowledged like a finished
\* one before the loop closes.
Shutdown ==
    LET interrupted == {<<w, Held(w)>> : w \in Busy}
    IN  /\ Restart
        /\ cancelled' = cancelled \cup {Held(w) : w \in Busy}
        /\ \E acked \in SUBSET ((interrupted \cup acking) \cap pending) :
            pending' = pending \ acked

-----------------------------------------------------------------------------
Init ==
    /\ redis \in BOOLEAN
    /\ posting = {} /\ queue = <<>> /\ pending = {} /\ acking = {}
    /\ worker = [w \in Workers |-> Resting]
    /\ failures = [t \in Tasks |-> 0]
    /\ deadLetters = {}
    /\ suggestions = [c \in Conversations |-> None]
    /\ arrived = {}
    /\ replies = [t \in Tasks |-> 0]
    /\ finished = {} /\ failed = {} /\ lost = {} /\ cancelled = {}
    /\ restarts = 0

Work(w) ==
    Get(w) \/ Persist(w) \/ AutoReply(w) \/ Succeeds(w) \/ Fails(w)

Next ==
    \/ \E t \in Tasks : Enqueue(t) \/ Posted(t) \/ PostFails(t)
    \/ \E w \in Workers : Work(w) \/ GetRaises(w) \/ \E t \in Tasks : Ack(w, t)
    \/ Crash \/ Shutdown

Spec == Init /\ [][Next]_vars

\* A ready coroutine runs; the calls of the model, the database and the channel
\* end, well or not.
FairSpec == Spec /\ \A w \in Workers : WF_vars(Work(w))

-----------------------------------------------------------------------------
(* Properties *)

\* The types of the pipeline, and what is under way is only so with Redis.
TypeOK ==
    /\ redis \in BOOLEAN
    /\ posting \subseteq Tasks /\ queue \in Seq(Tasks)
    /\ pending \subseteq Workers \X Tasks /\ acking \subseteq Workers \X Tasks
    /\ ~redis => posting = {} /\ pending = {} /\ acking = {}
    /\ worker \in [Workers ->
        [pc : {"idle", "dead", "taken", "announcing", "replying"},
         task : Tasks \cup {None}]]
    /\ failures \in [Tasks -> 0 .. MaxFailures]
    /\ deadLetters \subseteq Tasks
    /\ suggestions \in [Conversations -> Tasks \cup {None}]
    /\ replies \in [Tasks -> Nat]
    /\ arrived \cup finished \cup failed \cup lost \cup cancelled \subseteq Tasks
    /\ restarts \in 0 .. MaxRestarts

\* A message that arrived is queued, delivered and unacknowledged, processed,
\* or known to be lost; a crash of the process never makes an entry of the
\* stream disappear, only a shutdown that cancels its worker may.
Accounted ==
    \A t \in arrived :
        \/ t \in posting \/ \E i \in DOMAIN queue : queue[i] = t
        \/ \E w \in Workers : Held(w) = t \/ <<w, t>> \in pending
        \/ t \in finished \cup lost \cup cancelled

\* Whatever crashes and restarts, a customer is answered automatically at most
\* once for each message: an entry is delivered to one worker, once.
AutoReplyOnce ==
    /\ \A t \in Tasks : replies[t] <= 1
    /\ \A w, x \in Busy : Held(w) = Held(x) => w = x

\* A worker's entry is acknowledged only after it has let go of it.
AckedAfterWork ==
    \A w \in Busy : redis => <<w, Held(w)>> \in pending \ acking

\* No task is processed again after it failed, so its failures never add up:
\* when more than one is allowed, nothing becomes a dead letter.
NeverTriedAgain ==
    /\ \A t \in Tasks : failures[t] <= 1
    /\ MaxFailures > 1 => deadLetters = {}

\* A queued task is given to a worker, or goes with the process's memory,
\* unless every worker has died of an error of Redis: neither a task that fails
\* nor an XACK that does stops the worker that ran it.
TaskIsTaken ==
    \A t \in Tasks :
        (\E i \in DOMAIN queue : queue[i] = t) ~>
            \/ ~\E i \in DOMAIN queue : queue[i] = t
            \/ redis /\ \A w \in Workers : worker[w].pc = "dead"

\* What the comments say of the worker and TLC refutes (README, section 6).

\* "On repeated failure, sends the task to the dead-letter stream": a task
\* whose processing failed and that nobody will try again is a dead letter.
FailedIsDeadLetter ==
    \A t \in failed : redis =>
        \/ t \in deadLetters
        \/ \E i \in DOMAIN queue : queue[i] = t
        \/ \E w \in Workers : Held(w) = t \/ <<w, t>> \in pending

=============================================================================
