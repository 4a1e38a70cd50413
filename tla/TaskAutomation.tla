--------------------------- MODULE TaskAutomation ---------------------------
(***************************************************************************)
(* The automations of project tasks: every 30 seconds a background loop of *)
(* the API process selects the scheduled tasks that are due and executes   *)
(* them one after the other, while the API creates, edits and deletes      *)
(* tasks.  An action is the code up to the next commit, where another      *)
(* process may come in, or the next await, where another handler may.      *)
(***************************************************************************)
EXTENDS Naturals, FiniteSets

CONSTANTS
    ProjectTasks,   \* ids of rows of project_tasks, never reused
    Projects,
    ProjectOf,      \* the project of each task
    Runners,        \* processes whose lifespan started _task_automation_loop
    MaxStops,       \* bound: processes stopped or killed, then started again
    NoTask

ASSUME AutomationAssumption ==
    /\ ProjectOf \in [ProjectTasks -> Projects]
    /\ MaxStops \in Nat
    /\ NoTask \notin ProjectTasks

VARIABLES
    state,          \* automation_status, or that there is no such row (any more)
    kind,           \* what the task is to do: automation_type and its content
    linked,         \* whether the task has a source_conversation_id
    due,            \* automation_run_at <= now
    runner,         \* the loop of each process
    \* History.
    messages,       \* messages created for each task
    interrupted,    \* tasks whose pass ended before it could store an outcome
    stops

row      == <<state, kind, linked, due>>
past     == <<messages, interrupted, stops>>
loopvars == <<row, runner, past>>

\* Content or label empty: "malformed".
Kinds == {"send_message", "scheduled_action", "malformed"}

\* due_tasks still to execute, and the task being executed.
Asleep == [pc |-> "asleep", todo |-> {}, current |-> NoTask]

Exists(t) == state[t] \notin {"absent", "deleted"}

-----------------------------------------------------------------------------
(* The API *)

\* create_project_task, as the dashboard calls it.
CreateTask(t, k) ==
    /\ state[t] = "absent"
    /\ \A u \in ProjectTasks : ProjectOf[u] = ProjectOf[t] => state[u] # "deleted"
    /\ state' = [state EXCEPT ![t] = "scheduled"]
    /\ kind' = [kind EXCEPT ![t] = k]
    /\ \E b \in BOOLEAN : linked' = [linked EXCEPT ![t] = b]
    /\ UNCHANGED <<due, runner, past>>

ComesDue(t) ==
    /\ Exists(t) /\ ~due[t]
    /\ due' = [due EXCEPT ![t] = TRUE]
    /\ UNCHANGED <<state, kind, linked, runner, past>>

\* update_project_task: nothing of the automation but its conversation, so
\* what is scheduled cannot be called off.
UpdateTask(t) ==
    /\ Exists(t)
    /\ linked' = [linked EXCEPT ![t] = ~@]
    /\ UNCHANGED <<state, kind, due, runner, past>>

\* delete_project, with its tasks (delete-orphan).
DeleteProject(p) ==
    /\ \E t \in ProjectTasks : ProjectOf[t] = p /\ Exists(t)
    /\ state' = [t \in ProjectTasks |->
        IF ProjectOf[t] = p THEN "deleted" ELSE state[t]]
    /\ UNCHANGED <<kind, linked, due, runner, past>>

-----------------------------------------------------------------------------
(* run_due_task_automations_once *)

\* Mutant: takes up again what a crash left PROCESSING.
AlsoProcessing(t) == due[t] /\ state[t] \in {"scheduled", "processing"}

DueNow(t) == due[t] /\ state[t] = "scheduled"

SelectDue(r) ==
    /\ runner[r].pc = "asleep"
    /\ {t \in ProjectTasks : DueNow(t)} # {}
    /\ runner' = [runner EXCEPT ![r] =
        [pc |-> "between", todo |-> {t \in ProjectTasks : DueNow(t)}, current |-> NoTask]]
    /\ UNCHANGED <<row, past>>

\* The next of due_tasks becomes PROCESSING, whatever it is by now.
Claim(r, t) ==
    /\ runner[r].pc = "between" /\ t \in runner[r].todo
    /\ Exists(t)
    /\ state' = [state EXCEPT ![t] = "processing"]
    /\ runner' = [runner EXCEPT ![r].pc = "claimed", ![r].current = t,
                                ![r].todo = @ \ {t}]
    /\ UNCHANGED <<kind, linked, due, past>>

\* Mutant: the exception of one pass ends the loop.
Stopped == [Asleep EXCEPT !.pc = "stopped"]

\* What _task_automation_loop makes of an exception: it sleeps, and tries again.
AfterError == Asleep

\* An UPDATE of a row that is gone raises, and so does the next commit, in the
\* except clause, because nobody rolled back.  The pass ends.
RowGone(r) ==
    /\ \/ /\ runner[r].pc = "between"
          /\ \E t \in runner[r].todo : ~Exists(t)
       \/ /\ runner[r].pc \in {"claimed", "sending", "done", "raised"}
          /\ ~Exists(runner[r].current)
    /\ runner' = [runner EXCEPT ![r] = AfterError]
    /\ UNCHANGED <<row, past>>

Executable(t) ==
    \/ kind[t] = "scheduled_action"
    \/ kind[t] = "send_message" /\ linked[t]

Goto(r, pc) == runner' = [runner EXCEPT ![r].pc = pc]

\* send_from_dashboard without a key: the message is created, then dispatched
\* (an await).  A failed dispatch is no exception.
Send(r) ==
    LET t == runner[r].current
    IN  /\ runner[r].pc = "claimed" /\ Exists(t)
        /\ Executable(t) /\ kind[t] = "send_message"
        /\ messages' = [messages EXCEPT ![t] = @ + 1]
        /\ Goto(r, "sending")
        /\ UNCHANGED <<row, interrupted, stops>>

\* A scheduled_action has nothing to execute but its label.
Act(r) ==
    /\ runner[r].pc = "claimed" /\ Exists(runner[r].current)
    /\ Executable(runner[r].current) /\ kind[runner[r].current] = "scheduled_action"
    /\ Goto(r, "done")
    /\ UNCHANGED <<row, past>>

SendReturns(r) ==
    /\ runner[r].pc = "sending"
    /\ Goto(r, "done")
    /\ UNCHANGED <<row, past>>

\* One of the checks fails, or send_from_dashboard raises and leaves its session
\* usable: when the row cannot be refreshed or an announcement raises.
Raises(r) ==
    /\ \/ /\ runner[r].pc = "claimed" /\ Exists(runner[r].current)
          /\ kind[runner[r].current] # "scheduled_action"
          /\ ~Executable(runner[r].current)
       \/ runner[r].pc = "sending"
    /\ Goto(r, "raised")
    /\ UNCHANGED <<row, past>>

\* A commit inside send_from_dashboard fails, of the INSERT or of a message that
\* was deleted during its dispatch.  The session is shared and nobody rolls it
\* back, so the commit of FAILED raises as well and ends the pass.
SessionBroken(r) ==
    LET t == runner[r].current
    IN  /\ \/ /\ runner[r].pc = "claimed" /\ Exists(t)
              /\ Executable(t) /\ kind[t] = "send_message"
           \/ runner[r].pc = "sending"
        /\ interrupted' = interrupted \cup {t}
        /\ runner' = [runner EXCEPT ![r] = AfterError]
        /\ UNCHANGED <<row, messages, stops>>

\* The loop of a process that has only `todo` left.
NextTask(todo) ==
    [pc |-> IF todo = {} THEN "asleep" ELSE "between", todo |-> todo,
     current |-> NoTask]

\* Mutant: the except clause does not commit.
ConcludeOnSuccess(r, outcome) ==
    /\ Exists(runner[r].current)
    /\ state' = [state EXCEPT ![runner[r].current] =
        IF outcome = "completed" THEN outcome ELSE @]
    /\ runner' = [runner EXCEPT ![r] = NextTask(runner[r].todo)]
    /\ UNCHANGED <<kind, linked, due, past>>

\* The last commit of a task, before the next one of due_tasks.
Conclude(r, outcome) ==
    /\ Exists(runner[r].current)
    /\ state' = [state EXCEPT ![runner[r].current] = outcome]
    /\ runner' = [runner EXCEPT ![r] = NextTask(runner[r].todo)]
    /\ UNCHANGED <<kind, linked, due, past>>

\* Mutant: the exceptions of a task are only logged.
Ended(r) == runner[r].pc \in {"done", "raised"}

Succeeded(r) == runner[r].pc = "done"

Completes(r) == Succeeded(r) /\ Conclude(r, "completed")
TaskFails(r) == runner[r].pc = "raised" /\ Conclude(r, "failed")

\* The process is killed, or stopped: a cancelled loop leaves its except clause
\* aside, and the next process knows nothing of the pass.
Stop(r) ==
    /\ stops < MaxStops
    /\ stops' = stops + 1
    /\ interrupted' = interrupted \cup ({runner[r].current} \ {NoTask})
    /\ runner' = [runner EXCEPT ![r] = Asleep]
    /\ UNCHANGED <<row, messages>>

-----------------------------------------------------------------------------
LoopInit ==
    /\ state = [t \in ProjectTasks |-> "absent"]
    /\ kind = [t \in ProjectTasks |-> "malformed"]
    /\ linked = [t \in ProjectTasks |-> FALSE]
    /\ due = [t \in ProjectTasks |-> FALSE]
    /\ runner = [r \in Runners |-> Asleep]
    /\ messages = [t \in ProjectTasks |-> 0]
    /\ interrupted = {}
    /\ stops = 0

Pass(r) ==
    \/ SelectDue(r) \/ \E t \in ProjectTasks : Claim(r, t)
    \/ RowGone(r) \/ Send(r) \/ Act(r) \/ SendReturns(r) \/ Raises(r)
    \/ SessionBroken(r) \/ Completes(r) \/ TaskFails(r)

LoopNext ==
    \/ \E t \in ProjectTasks :
        (\E k \in Kinds : CreateTask(t, k)) \/ ComesDue(t) \/ UpdateTask(t)
    \/ \E p \in Projects : DeleteProject(p)
    \/ \E r \in Runners : Pass(r) \/ Stop(r)

LoopSpec == LoopInit /\ [][LoopNext]_loopvars

\* The loop wakes up again and again, and what it awaits ends.
FairLoopSpec == LoopSpec /\ \A r \in Runners : WF_loopvars(Pass(r))

-----------------------------------------------------------------------------
(* Properties *)

\* The types of the table and of the loops.
LoopTypes ==
    /\ state \in [ProjectTasks -> {"absent", "scheduled", "processing", "completed",
                                   "failed", "deleted"}]
    /\ kind \in [ProjectTasks -> Kinds]
    /\ linked \in [ProjectTasks -> BOOLEAN] /\ due \in [ProjectTasks -> BOOLEAN]
    /\ runner \in [Runners ->
        [pc : {"asleep", "between", "claimed", "sending", "done", "raised"},
         todo : SUBSET ProjectTasks, current : ProjectTasks \cup {NoTask}]]
    /\ messages \in [ProjectTasks -> Nat]
    /\ interrupted \subseteq ProjectTasks
    /\ stops \in 0 .. MaxStops

\* However often the process dies, and whatever is deleted meanwhile, a task
\* sends its message at most once: it is PROCESSING before it sends and no pass
\* selects it again.
AtMostOneMessage == \A t \in ProjectTasks : messages[t] <= 1

\* A task that is PROCESSING is being executed, unless its pass ended in the
\* middle of it, with the process or with its session; then it stays PROCESSING.
ProcessingIsExecuted ==
    \A t \in ProjectTasks : state[t] = "processing" =>
        (\E r \in Runners : runner[r].current = t) \/ t \in interrupted

\* A COMPLETED task did what it was to do; it was well-formed, and if it was to
\* send a message, it created one.
CompletedIsDone ==
    \A t \in ProjectTasks : state[t] = "completed" =>
        /\ kind[t] # "malformed"
        /\ kind[t] = "send_message" => messages[t] = 1

\* The outcome of a task is final: no later pass executes it again.
OutcomeIsFinal ==
    [][\A t \in ProjectTasks : state[t] \in {"completed", "failed"} =>
        state'[t] \in {state[t], "deleted"} /\ messages'[t] = messages[t]]_loopvars

\* A due task is executed or deleted, also when passes are cut short by tasks
\* deleted under them.
DueIsExecuted == \A t \in ProjectTasks : DueNow(t) ~> ~DueNow(t)

=============================================================================
