---------------------------- MODULE ServerTasks ----------------------------
(***************************************************************************)
(* The server's registry of rip tasks (crates/server/src/task_registry.rs),*)
(* the create and cancel requests of rip_task_rpc.rs, the task operations  *)
(* of ServerState (lib.rs), and the two ends that crates/bot/src/main.rs   *)
(* ties to it: the rip_task_runner that starts an orchestrator job for a   *)
(* task, and the event subscriber that follows every job, the ones started *)
(* from Telegram included.                                                 *)
(*                                                                         *)
(* A task made by a create request is named by the call, the task the      *)
(* subscriber makes for job j is Bot(j), the job a call starts is named by *)
(* the call.  Registry methods hold the lock for their whole body; an      *)
(* event callback is one step.  Titles, progress figures and their merging *)
(* are left out; of a job's progress the number of tracks is kept, because *)
(* it turns a registered task into an album task.                          *)
(***************************************************************************)
EXTENDS Integers, FiniteSets

CONSTANTS
    Call,        \* create_rip_task requests
    BotJob,      \* jobs started by a Telegram command
    Owner,       \* the user of a call or job
    Admin,       \* state.admin_id
    Target,      \* the wanted item of a call or job: [id, album]
    NoJob,       \* an empty rip_task_id
    Unwatched    \* a controller no job was linked to

Job == Call \cup BotJob
Bot(j) == <<"bot", j>>
TaskId == Call \cup {Bot(j) : j \in Job}

\* Calls and Telegram commands are different things, and neither is a task id the
\* subscriber makes.
ASSUME TasksAssumption ==
    /\ Call \cap BotJob = {} /\ \A j \in Job : Bot(j) \notin Job
    /\ NoJob \notin Job \cup TaskId /\ Unwatched \notin TaskId
    /\ \A j \in Job : Target[j].album \in BOOLEAN

Client == {Owner[j] : j \in Job} \cup {Admin}

VARIABLES
    tasks,       \* the registry: a function from the registered ids
    cancelledTok,\* controllers of tasks that are cancelled
    pc,          \* where a create call and its runner have got to
    job,         \* an orchestrator job: none, live, ended
    multi,       \* jobs whose total_tracks is known to exceed one
    jobCancelled,\* jobs whose controller is cancelled
    link,        \* the controller a job is linked with by its Created event
    removal,     \* tasks a sleeping 1.5 s timer will remove
    cached,      \* targets the database has
    asked        \* history: tasks whose cancel request was accepted

taskVars == <<tasks, cancelledTok, pc, job, multi, jobCancelled, link, removal, cached, asked>>

Put(id, t) == [i \in DOMAIN tasks \cup {id} |-> IF i = id THEN t ELSE tasks[i]]
Drop(id) == [i \in DOMAIN tasks \ {id} |-> tasks[i]]
Albums == {Target[j].id : j \in {x \in Job : Target[x].album}}

\* ServerTaskMeta, with the controller the registry keeps beside it.
TaskMeta ==
    [rip: Job \cup {NoJob}, owner: Client, id: {Target[j].id : j \in Job}, album: BOOLEAN,
     state: {"active", "completed", "error"}, token: TaskId \cup {Unwatched}]

TasksTypeOK ==
    /\ DOMAIN tasks \subseteq TaskId
    /\ \A i \in DOMAIN tasks : tasks[i] \in TaskMeta
    /\ cancelledTok \subseteq TaskId
    /\ pc \in [Call -> {"new", "reserve", "spawned", "starting", "job", "failing", "done"}]
    /\ job \in [Job -> {"none", "live", "ended", "crashed"}]
    /\ multi \subseteq Job /\ jobCancelled \subseteq Job
    /\ link \in [Job -> TaskId \cup {Unwatched, NoJob}]
    /\ removal \subseteq TaskId /\ asked \subseteq TaskId
    /\ cached \subseteq {Target[j] : j \in Job}

TasksInit ==
    /\ tasks = <<>>
    /\ cancelledTok = {}
    /\ pc = [c \in Call |-> "new"]
    /\ job = [j \in Job |-> "none"]
    /\ multi = {}
    /\ jobCancelled = {}
    /\ link = [j \in Job |-> NoJob]
    /\ removal = {}
    /\ cached = {}
    /\ asked = {}

-----------------------------------------------------------------------------
(* Requests. *)

\* The reply to the client is sent: whatever went before (a session that is no
\* longer authorized and a malformed request among it), the call is over.
Replied(c) == pc' = [pc EXCEPT ![c] = "done"]

\* create_task up to the registry: the database answers that the target is
\* cached (the reply is Completed, no task), fails, or knows nothing of it.
CreateTask(c) ==
    /\ pc[c] = "new"
    /\ \/ Replied(c)
       \/ Target[c] \notin cached /\ pc' = [pc EXCEPT ![c] = "reserve"]
    /\ UNCHANGED <<tasks, cancelledTok, job, multi, jobCancelled, link, removal, cached, asked>>

Equivalent(t, c) == t.album = Target[c].album /\ t.id = Target[c].id

\* reserve_task: the caller is given the task that is in flight, or its own is
\* inserted and the runner spawned.
ReserveTask(c) ==
    /\ pc[c] = "reserve"
    /\ IF \E i \in DOMAIN tasks : Equivalent(tasks[i], c)
       THEN Replied(c) /\ UNCHANGED tasks
       ELSE /\ tasks' = Put(c, [rip |-> NoJob, owner |-> Owner[c], id |-> Target[c].id,
                                album |-> Target[c].album, state |-> "active", token |-> c])
            /\ pc' = [pc EXCEPT ![c] = "spawned"]
    /\ UNCHANGED <<cancelledTok, job, multi, jobCancelled, link, removal, cached, asked>>

\* What orchestrator.cancel_task does for the job a removed task names.
OrchestratorCancel(j) ==
    jobCancelled' = jobCancelled \cup {x \in {j} \ {NoJob} : job[x] = "live"}

\* cancel_task of rip_task_rpc: owner or administrator; the task is removed, its
\* controller cancelled, and the job it names.
CancelRpc(u, i) ==
    /\ i \in DOMAIN tasks
    /\ u \in {tasks[i].owner, Admin}
    /\ tasks' = Drop(i)
    /\ cancelledTok' = cancelledTok \cup ({tasks[i].token} \ {Unwatched})
    /\ OrchestratorCancel(tasks[i].rip)
    /\ asked' = asked \cup {i}
    /\ UNCHANGED <<pc, job, multi, link, removal, cached>>

-----------------------------------------------------------------------------
(* The subscriber. *)

\* find_task: by the name the runner gave the job, by the job's id, or by the
\* wanted track among the owner's tasks that have no job.
Found(j) ==
    LET byRip == {i \in DOMAIN tasks : tasks[i].rip = j}
        unattached == {i \in DOMAIN tasks : /\ tasks[i].rip = NoJob
                                            /\ tasks[i].owner = Owner[j]
                                            /\ tasks[i].id = Target[j].id}
    IN IF j \in DOMAIN tasks THEN {j} ELSE IF byRip # {} THEN byRip ELSE unattached

\* The found task, as find_task leaves it.
Adopt(j, i) ==
    LET t == tasks[i] IN
    IF i \notin Call /\ t.rip = j THEN [t EXCEPT !.album = j \in multi]
    ELSE [t EXCEPT !.rip = IF @ = NoJob THEN j ELSE @, !.album = @ \/ j \in multi]

Fresh(j, token) ==
    [rip |-> j, owner |-> Owner[j], id |-> Target[j].id, album |-> j \in multi,
     state |-> "active", token |-> token]

\* Created: the job's task is found or registered; a cancelled controller is
\* passed on at once, otherwise the two are linked by a watcher.
OnCreated(j) ==
    \E i \in (IF Found(j) # {} THEN Found(j) ELSE {Bot(j)}) :
        LET t == IF i \in Found(j) THEN Adopt(j, i) ELSE Fresh(j, i) IN
        /\ tasks' = Put(i, t)
        /\ link' = [link EXCEPT ![j] = t.token]
        /\ jobCancelled' = IF t.token \in cancelledTok THEN jobCancelled \cup {j}
                           ELSE jobCancelled

\* The runner: nothing for a cancelled task, otherwise start_task, whose first
\* step announces the job.
RunnerCheck(c) ==
    /\ pc[c] = "spawned"
    /\ pc' = [pc EXCEPT ![c] = IF c \in cancelledTok THEN "done" ELSE "starting"]
    /\ UNCHANGED <<tasks, cancelledTok, job, multi, jobCancelled, link, removal, cached, asked>>

StartTask(c) ==
    /\ pc[c] = "starting"
    /\ pc' = [pc EXCEPT ![c] = "job"]
    /\ job' = [job EXCEPT ![c] = "live"]
    /\ OnCreated(c)
    /\ UNCHANGED <<cancelledTok, multi, removal, cached, asked>>

StartBotJob(j) ==
    /\ job[j] = "none"
    /\ job' = [job EXCEPT ![j] = "live"]
    /\ OnCreated(j)
    /\ UNCHANGED <<cancelledTok, pc, multi, removal, cached, asked>>

\* The watcher of a Created event: cancellation passes either way.
Watch(j) ==
    /\ link[j] \in TaskId
    /\ \/ /\ link[j] \in cancelledTok
          /\ job[j] = "live" /\ j \notin jobCancelled
          /\ jobCancelled' = jobCancelled \cup {j}
          /\ UNCHANGED cancelledTok
       \/ /\ j \in jobCancelled
          /\ link[j] \notin cancelledTok
          /\ cancelledTok' = cancelledTok \cup {link[j]}
          /\ UNCHANGED jobCancelled
    /\ UNCHANGED <<tasks, pc, job, multi, link, removal, cached, asked>>

\* A job learns how many tracks it has.
Resolve(j) ==
    /\ job[j] = "live"
    /\ Target[j].id \in Albums /\ j \notin multi
    /\ multi' = multi \cup {j}
    /\ UNCHANGED <<tasks, cancelledTok, pc, job, jobCancelled, link, removal, cached, asked>>

\* The terminal event came before the job's uploads were done: the finalizer of a
\* cancelled job leaves without them, and run_job fails without them when lane one
\* panicked.
Deserted(j) == job[j] = "crashed" \/ (job[j] = "ended" /\ j \in jobCancelled)

\* emit_progress does not look at terminal_state: a job reports while it is live,
\* and its uploads also after it.
MayReport(j) == job[j] = "live" \/ Deserted(j)

\* Progress: as Created, a missing task is registered again, with a controller
\* that nothing watches.
OnProgress(j) ==
    /\ MayReport(j)
    /\ \E i \in (IF Found(j) # {} THEN Found(j) ELSE {Bot(j)}) :
          tasks' = Put(i, IF i \in Found(j) THEN Adopt(j, i) ELSE Fresh(j, Unwatched))
    /\ UNCHANGED <<cancelledTok, pc, job, multi, jobCancelled, link, removal, cached, asked>>

\* The runner's call returns; an error makes it remove its task.
Return(j, failed) ==
    pc' = IF j \in Call THEN [pc EXCEPT ![j] = IF failed THEN "failing" ELSE "done"] ELSE pc

\* Mutant: nobody is left to remove a task whose job failed.
OnFailedKeepsTask(j) ==
    /\ job[j] = "live" /\ j \notin jobCancelled
    /\ IF Found(j) = {} THEN UNCHANGED <<tasks, removal>>
       ELSE \E i \in Found(j) :
               /\ tasks' = Put(i, [Adopt(j, i) EXCEPT !.state = "error"])
               /\ UNCHANGED removal
    /\ \E end \in {"ended", "crashed"}, failed \in BOOLEAN :
          /\ end = "crashed" => failed
          /\ job' = [job EXCEPT ![j] = end]
          /\ Return(j, failed)
    /\ UNCHANGED <<cancelledTok, multi, jobCancelled, link, cached, asked>>

\* Failed, or Completed with failed tracks: the task shows the error and goes
\* 1.5 s later.  start_task returns an error only for Failed.  A job whose lane one
\* panicked fails while its uploads go on.
OnFailed(j) ==
    /\ job[j] = "live" /\ j \notin jobCancelled
    /\ IF Found(j) = {} THEN UNCHANGED <<tasks, removal>>
       ELSE \E i \in Found(j) :
               /\ tasks' = Put(i, [Adopt(j, i) EXCEPT !.state = "error"])
               /\ removal' = removal \cup {i}
    /\ \E end \in {"ended", "crashed"}, failed \in BOOLEAN :
          /\ end = "crashed" => failed
          /\ job' = [job EXCEPT ![j] = end]
          /\ Return(j, failed)
    /\ UNCHANGED <<cancelledTok, multi, jobCancelled, link, cached, asked>>

\* Completed: the target is cached, the task shows it and goes 1.5 s later.
OnCompleted(j) ==
    /\ job[j] = "live" /\ j \notin jobCancelled
    /\ job' = [job EXCEPT ![j] = "ended"]
    /\ cached' = cached \cup {Target[j]}
    /\ IF Found(j) = {} THEN UNCHANGED <<tasks, removal>>
       ELSE \E i \in Found(j) :
               /\ tasks' = Put(i, [Adopt(j, i) EXCEPT !.state = "completed"])
               /\ removal' = removal \cup {i}
    /\ Return(j, FALSE)
    /\ UNCHANGED <<cancelledTok, multi, jobCancelled, link, asked>>

\* Cancelled: ServerState::cancel_task removes the task and cancels what it names.
OnCancelled(j) ==
    /\ job[j] = "live" /\ j \in jobCancelled
    /\ job' = [job EXCEPT ![j] = "ended"]
    /\ IF Found(j) = {} THEN UNCHANGED <<tasks, cancelledTok, jobCancelled>>
       ELSE \E i \in Found(j) :
               LET t == Adopt(j, i) IN
               /\ tasks' = Drop(i)
               /\ cancelledTok' = cancelledTok \cup ({t.token} \ {Unwatched})
               /\ OrchestratorCancel(t.rip)
    /\ \E failed \in BOOLEAN : Return(j, failed)
    /\ UNCHANGED <<multi, link, removal, cached, asked>>

\* fail_task of the runner.
RunnerFails(c) ==
    /\ pc[c] = "failing"
    /\ pc' = [pc EXCEPT ![c] = "done"]
    /\ tasks' = Drop(c)
    /\ UNCHANGED <<cancelledTok, job, multi, jobCancelled, link, removal, cached, asked>>

\* complete_task or fail_task of a sleeping timer.
DelayedRemoval(i) ==
    /\ i \in removal
    /\ removal' = removal \ {i}
    /\ tasks' = Drop(i)
    /\ UNCHANGED <<cancelledTok, pc, job, multi, jobCancelled, link, cached, asked>>

\* A Telegram user cancels a job from its dashboard.
BotCancel(j) ==
    /\ job[j] = "live" /\ j \notin jobCancelled
    /\ OrchestratorCancel(j)
    /\ UNCHANGED <<tasks, cancelledTok, pc, job, multi, link, removal, cached, asked>>

TasksNext ==
    \/ \E c \in Call : CreateTask(c) \/ ReserveTask(c) \/ RunnerCheck(c) \/ StartTask(c)
                       \/ RunnerFails(c)
    \/ \E j \in BotJob : StartBotJob(j)
    \/ \E j \in Job : \/ Watch(j) \/ Resolve(j) \/ OnProgress(j) \/ OnFailed(j)
                      \/ OnCompleted(j) \/ OnCancelled(j) \/ BotCancel(j)
    \/ \E i \in TaskId : DelayedRemoval(i) \/ \E u \in Client : CancelRpc(u, i)

TasksSpec == TasksInit /\ [][TasksNext]_taskVars

-----------------------------------------------------------------------------

\* Something is still to come that removes the task: its runner, the end of the
\* job it names, or a timer.
HasRemover(i) ==
    \/ i \in Call /\ pc[i] \in {"spawned", "starting", "job", "failing"}
    \/ tasks[i].rip # NoJob /\ job[tasks[i].rip] = "live"
    \/ i \in removal

\* The task was registered by progress that the job reported after its end.
LateTask(i) ==
    LET j == tasks[i].rip IN j # NoJob /\ i = Bot(j) /\ Deserted(j)

\* No registered task outlives everything that would remove it, but for the one
\* kind of task that late progress of a deserted job registers under the job's own
\* id: whatever else is adopted, replaced or cancelled by events that come too late
\* is removed some day.  A task that stays answers every later request for its
\* target with a task id nobody works for (rip_task_rpc.rs, reserve_task).
NoOrphanTask == \A i \in DOMAIN tasks : HasRemover(i) \/ LateTask(i)

\* Every registered task is in flight, as the registry has it ("Shared registry of
\* in-flight rip tasks").  Late progress breaks this: the task it registers stays.
TasksAreInFlight == \A i \in DOMAIN tasks : HasRemover(i)

\* A job that was started for a task runs on only while the task's cancellation
\* has not been answered, up to the watcher that passes it on.  main.rs checks the
\* controller before start_task and in the Created event, for this purpose.
CancelReachesJob ==
    \A c \in asked \cap Call :
        job[c] = "live" => c \in jobCancelled \/ link[c] \in cancelledTok

\* A create request's controller is cancelled only for a cancel request on that
\* task or a cancellation of a job linked with it.
NoForeignCancel ==
    \A c \in cancelledTok \cap Call :
        c \in asked \/ \E j \in Job : link[j] = c /\ j \in jobCancelled

\* The registry of tasks is sound (task_registry.rs, rip_task_rpc.rs, main.rs).
TasksAreAccounted ==
    TasksTypeOK /\ NoOrphanTask
=============================================================================
