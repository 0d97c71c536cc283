------------------------------ MODULE RipQueue ------------------------------
(***************************************************************************)
(* The sequential download queue of the engine, crates/engine/src/queue.rs *)
(* (SequentialRipQueue) with the waiting-time score of                     *)
(* crates/engine/src/orchestrator/priority.rs.                             *)
(*                                                                         *)
(* One mutex guards [pending, active, processing]; everything the code     *)
(* does under one acquisition of it is one action here, and everything it  *)
(* does after releasing it (position callbacks, spawning the abort watcher *)
(* and the worker, completing the task) is a later action.  Threads of     *)
(* control: one caller and one abort watcher per item, and one worker for  *)
(* every submission that found the queue idle (worker w is the one spawned *)
(* by the submission of item w).                                           *)
(***************************************************************************)
EXTENDS Integers, FiniteSets, SequencesExt

CONSTANTS
    Item,          \* the submissions, one QueuedItem each
    NoItem,        \* Option::None
    Signalled,     \* the items submitted with a cancellation signal
    Priority,      \* EnqueueOptions::priority (base score) of every item
    TickSecs,      \* seconds that pass in one tick of the clock
    MaxTicks       \* bound: ticks of the clock

ASSUME QueueAssumption ==
    /\ IsFiniteSet(Item)
    /\ NoItem \notin Item
    /\ Signalled \subseteq Item
    /\ Priority \in [Item -> Int]
    /\ TickSecs \in Nat
    /\ MaxTicks \in Nat

VARIABLES
    pending,     \* QueueState::pending, front first
    active,      \* QueueState::active
    processing,  \* QueueState::processing
    now,         \* the monotonic clock, in ticks
    enqueuedAt,  \* QueuedItem::enqueued_at
    caller,      \* where the submit() of an item has got to
    starter,     \* start_worker as that submit() computed it
    watcher,     \* the task spawned by spawn_abort_watcher
    outer,       \* the client's cancellation token is cancelled
    child,       \* QueuedItem::child, the token the task runs under
    stop,        \* QueuedItem::stop_watcher holds a permit
    worker,      \* where a run_worker task has got to
    held,        \* the item a worker took from the queue
    answer,      \* what went through QueuedItem::completion
    reports,     \* position callbacks computed under the lock, not yet made
    shown        \* the position the item's owner was last told (0: running)

queueState == <<pending, active, processing>>
callerVars == <<caller, starter, enqueuedAt>>
workerVars == <<worker, held>>
vars == <<pending, active, processing, now, enqueuedAt, caller, starter, watcher, outer,
          child, stop, worker, held, answer, reports, shown>>

Answer == {"done", "panicked", "aborted", "cleared"}

\* The threads that make position callbacks.
Actor == {"caller", "watcher", "worker"} \X Item
Report == [by : Actor, to : Item, pos : Nat]

TypeOK ==
    /\ pending \in Seq(Item)
    /\ active \in Item \cup {NoItem}
    /\ processing \in BOOLEAN
    /\ now \in 0 .. MaxTicks
    /\ enqueuedAt \in [Item -> 0 .. MaxTicks]
    /\ caller \in [Item -> {"idle", "checked", "pushed", "returned"}]
    /\ starter \in [Item -> BOOLEAN]
    /\ watcher \in [Item -> {"none", "watching", "missed", "done"}]
    /\ outer \in [Item -> BOOLEAN]
    /\ child \in [Item -> BOOLEAN]
    /\ stop \in [Item -> BOOLEAN]
    /\ worker \in [Item -> {"none", "take", "start", "run", "finish", "exited"}]
    /\ held \in [Item -> Item \cup {NoItem}]
    /\ answer \in [Item -> Answer \cup {"none"}]
    /\ reports \subseteq Report
    /\ shown \in [Item -> Nat]

-----------------------------------------------------------------------------
(* Scores. *)

\* Mutant: waiting is worth nothing.
EffectiveScoreNoAging(base, waitedSecs) == base * 100

\* effective_score: a rung of the base score is worth 100, a second waited 5.
EffectiveScore(base, waitedSecs) == base * 100 + waitedSecs * 5

Score(i) == EffectiveScore(Priority[i], (now - enqueuedAt[i]) * TickSecs)

\* take_next: k is the index of the highest score, the earliest on a tie.
IsNext(k) ==
    /\ k \in 1 .. Len(pending)
    /\ \A m \in 1 .. Len(pending) :
          /\ Score(pending[m]) <= Score(pending[k])
          /\ m < k => Score(pending[m]) < Score(pending[k])

\* The callbacks that renumber the items of q from index first on.
Renumber(who, q, first) ==
    {[by |-> who, to |-> q[k], pos |-> k] : k \in first .. Len(q)}

\* A thread makes the callbacks it collected before it does anything else.
Drained(who) == \A r \in reports : r.by # who

-----------------------------------------------------------------------------
(* The state after SequentialRipQueue::new(); no item is submitted yet. *)
Init ==
    /\ pending = <<>>
    /\ active = NoItem
    /\ processing = FALSE
    /\ now = 0
    /\ enqueuedAt = [i \in Item |-> 0]
    /\ caller = [i \in Item |-> "idle"]
    /\ starter = [i \in Item |-> FALSE]
    /\ watcher = [i \in Item |-> "none"]
    /\ outer = [i \in Item |-> FALSE]
    /\ child = [i \in Item |-> FALSE]
    /\ stop = [i \in Item |-> FALSE]
    /\ worker = [i \in Item |-> "none"]
    /\ held = [i \in Item |-> NoItem]
    /\ answer = [i \in Item |-> "none"]
    /\ reports = {}
    /\ shown = [i \in Item |-> 1]

\* submit: a signal that is already cancelled is answered without queueing.
SubmitCheck(i) ==
    /\ caller[i] = "idle"
    /\ IF outer[i]
       THEN /\ answer' = [answer EXCEPT ![i] = "aborted"]
            /\ caller' = [caller EXCEPT ![i] = "returned"]
       ELSE /\ caller' = [caller EXCEPT ![i] = "checked"]
            /\ UNCHANGED answer
    /\ UNCHANGED <<queueState, now, enqueuedAt, starter, watcher, outer, child, stop,
                   workerVars, reports, shown>>

\* Mutant: a worker is started whenever none is active, not when none exists.
SubmitPushNoActive(i) ==
    /\ caller[i] = "checked"
    /\ starter' = [starter EXCEPT ![i] = (active = NoItem)]
    /\ processing' = TRUE
    /\ pending' = Append(pending, i)
    /\ enqueuedAt' = [enqueuedAt EXCEPT ![i] = now]
    /\ caller' = [caller EXCEPT ![i] = "pushed"]
    /\ UNCHANGED <<active, now, watcher, outer, child, stop, workerVars, answer, reports, shown>>

\* submit, under the lock: claim the worker's start, push the item, and note
\* the position to report unless this submission starts the worker itself.
SubmitPush(i) ==
    /\ caller[i] = "checked"
    /\ starter' = [starter EXCEPT ![i] = ~processing]
    /\ processing' = TRUE
    /\ pending' = Append(pending, i)
    /\ enqueuedAt' = [enqueuedAt EXCEPT ![i] = now]
    /\ reports' = reports \cup
          (IF processing
           THEN {[by |-> <<"caller", i>>, to |-> i, pos |-> Len(pending) + 1]}
           ELSE {})
    /\ caller' = [caller EXCEPT ![i] = "pushed"]
    /\ UNCHANGED <<active, now, watcher, outer, child, stop, workerVars, answer, shown>>

\* submit, after the lock and the callback: spawn the watcher and the worker.
SubmitSpawn(i) ==
    /\ caller[i] = "pushed"
    /\ Drained(<<"caller", i>>)
    /\ watcher' = IF i \in Signalled THEN [watcher EXCEPT ![i] = "watching"] ELSE watcher
    /\ worker' = IF starter[i] THEN [worker EXCEPT ![i] = "take"] ELSE worker
    /\ caller' = [caller EXCEPT ![i] = "returned"]
    /\ UNCHANGED <<queueState, now, enqueuedAt, starter, outer, child, stop, held, answer,
                   reports, shown>>

\* One collected position callback is made (all of them run unlocked).
Callback(r) ==
    /\ r \in reports
    /\ shown' = [shown EXCEPT ![r.to] = r.pos]
    /\ reports' = reports \ {r}
    /\ UNCHANGED <<queueState, now, callerVars, watcher, outer, child, stop, workerVars, answer>>

\* The owner of item i cancels the signal it submitted with (cancel_task).
Cancel(i) ==
    /\ i \in Signalled
    /\ ~outer[i]
    /\ outer' = [outer EXCEPT ![i] = TRUE]
    /\ UNCHANGED <<queueState, now, callerVars, watcher, child, stop, workerVars, answer,
                   reports, shown>>

\* abort_item, first lock: a pending item leaves the queue, is answered and
\* the ones behind it are renumbered; otherwise the lock is given up.
WatcherAbort(i) ==
    /\ watcher[i] = "watching"
    /\ outer[i]
    /\ \/ \E k \in 1 .. Len(pending) :
             /\ pending[k] = i
             /\ pending' = RemoveAt(pending, k)
             /\ reports' = reports \cup Renumber(<<"watcher", i>>, RemoveAt(pending, k), k)
             /\ stop' = [stop EXCEPT ![i] = TRUE]
             /\ child' = [child EXCEPT ![i] = TRUE]
             /\ answer' = [answer EXCEPT ![i] = "aborted"]
             /\ watcher' = [watcher EXCEPT ![i] = "done"]
       \/ /\ \A k \in 1 .. Len(pending) : pending[k] # i
          /\ watcher' = [watcher EXCEPT ![i] = "missed"]
          /\ UNCHANGED <<pending, reports, stop, child, answer>>
    /\ UNCHANGED <<active, processing, now, callerVars, outer, workerVars, shown>>

\* Mutant: the running item is answered as aborted at once.
WatcherAnswersActive(i) ==
    /\ watcher[i] = "missed"
    /\ child' = IF active = i THEN [child EXCEPT ![i] = TRUE] ELSE child
    /\ answer' = IF active = i THEN [answer EXCEPT ![i] = "aborted"] ELSE answer
    /\ watcher' = [watcher EXCEPT ![i] = "done"]
    /\ UNCHANGED <<queueState, now, callerVars, outer, stop, workerVars, reports, shown>>

\* Mutant: whatever runs is cancelled, without comparing the id.
WatcherCancelsAny(i) ==
    /\ watcher[i] = "missed"
    /\ child' = IF active # NoItem THEN [child EXCEPT ![active] = TRUE] ELSE child
    /\ watcher' = [watcher EXCEPT ![i] = "done"]
    /\ UNCHANGED <<queueState, now, callerVars, outer, stop, workerVars, answer, reports, shown>>

\* Mutant: an item that is not pending any more is left alone.
WatcherGivesUp(i) ==
    /\ watcher[i] = "missed"
    /\ watcher' = [watcher EXCEPT ![i] = "done"]
    /\ UNCHANGED <<queueState, now, callerVars, outer, child, stop, workerVars, answer, reports,
                   shown>>

\* abort_item, second lock: cancel the task if it is the one running.
WatcherCancelActive(i) ==
    /\ watcher[i] = "missed"
    /\ child' = IF active = i THEN [child EXCEPT ![i] = TRUE] ELSE child
    /\ watcher' = [watcher EXCEPT ![i] = "done"]
    /\ UNCHANGED <<queueState, now, callerVars, outer, stop, workerVars, answer, reports, shown>>

\* The watcher's other select! branch: the item was settled without it.
WatcherStop(i) ==
    /\ watcher[i] = "watching"
    /\ stop[i]
    /\ watcher' = [watcher EXCEPT ![i] = "done"]
    /\ stop' = [stop EXCEPT ![i] = FALSE]
    /\ UNCHANGED <<queueState, now, callerVars, outer, child, workerVars, answer, reports, shown>>

\* Mutant: the active item is answered together with the pending ones.
ClearActiveToo ==
    LET drained == {pending[k] : k \in 1 .. Len(pending)} \cup ({active} \ {NoItem}) IN
    /\ pending # <<>>
    /\ pending' = <<>>
    /\ stop' = [i \in Item |-> stop[i] \/ i \in drained]
    /\ child' = [i \in Item |-> child[i] \/ i \in drained]
    /\ answer' = [i \in Item |-> IF i \in drained THEN "cleared" ELSE answer[i]]
    /\ UNCHANGED <<active, processing, now, callerVars, watcher, outer, workerVars, reports,
                   shown>>

\* clear: drain the pending items and answer each one; the active one stays.
Clear ==
    LET drained == {pending[k] : k \in 1 .. Len(pending)} IN
    /\ pending # <<>>
    /\ pending' = <<>>
    /\ stop' = [i \in Item |-> stop[i] \/ i \in drained]
    /\ child' = [i \in Item |-> child[i] \/ i \in drained]
    /\ answer' = [i \in Item |-> IF i \in drained THEN "cleared" ELSE answer[i]]
    /\ UNCHANGED <<active, processing, now, callerVars, watcher, outer, workerVars, reports,
                   shown>>

\* run_worker, top of the loop: take the best item and renumber the others,
\* or find the queue empty and stop, all under the lock.
WorkerTake(w) ==
    /\ worker[w] = "take"
    /\ \/ /\ pending = <<>>
          /\ active' = NoItem
          /\ processing' = FALSE
          /\ worker' = [worker EXCEPT ![w] = "exited"]
          /\ UNCHANGED <<pending, held, reports>>
       \/ \E k \in 1 .. Len(pending) :
             /\ IsNext(k)
             /\ active' = pending[k]
             /\ held' = [held EXCEPT ![w] = pending[k]]
             /\ pending' = RemoveAt(pending, k)
             /\ reports' = reports \cup Renumber(<<"worker", w>>, RemoveAt(pending, k), 1)
             /\ worker' = [worker EXCEPT ![w] = "start"]
             /\ UNCHANGED processing
    /\ UNCHANGED <<now, callerVars, watcher, outer, child, stop, answer, shown>>

\* run_worker: the item's on_start (queue_position becomes 0) and its task.
WorkerStart(w) ==
    /\ worker[w] = "start"
    /\ Drained(<<"worker", w>>)
    /\ shown' = [shown EXCEPT ![held[w]] = 0]
    /\ worker' = [worker EXCEPT ![w] = "run"]
    /\ UNCHANGED <<queueState, now, callerVars, watcher, outer, child, stop, held, answer,
                   reports>>

\* run_worker: the task returned or panicked; answer it, stop its watcher.
WorkerComplete(w) ==
    /\ worker[w] = "run"
    /\ \E result \in {"done", "panicked"} :
          answer' = [answer EXCEPT ![held[w]] = result]
    /\ stop' = [stop EXCEPT ![held[w]] = TRUE]
    /\ worker' = [worker EXCEPT ![w] = "finish"]
    /\ UNCHANGED <<queueState, now, callerVars, watcher, outer, child, held, reports, shown>>

\* Mutant: the worker stops without resetting the processing flag.
WorkerReleaseKeepsFlag(w) ==
    /\ worker[w] = "finish"
    /\ active' = NoItem
    /\ held' = [held EXCEPT ![w] = NoItem]
    /\ worker' = [worker EXCEPT ![w] = IF pending = <<>> THEN "exited" ELSE "take"]
    /\ UNCHANGED <<pending, processing, now, callerVars, watcher, outer, child, stop, answer,
                   reports, shown>>

\* run_worker, bottom of the loop: give up the slot, stop if nothing waits.
WorkerRelease(w) ==
    /\ worker[w] = "finish"
    /\ active' = NoItem
    /\ held' = [held EXCEPT ![w] = NoItem]
    /\ IF pending = <<>>
       THEN /\ processing' = FALSE
            /\ worker' = [worker EXCEPT ![w] = "exited"]
       ELSE /\ worker' = [worker EXCEPT ![w] = "take"]
            /\ UNCHANGED processing
    /\ UNCHANGED <<pending, now, callerVars, watcher, outer, child, stop, answer, reports, shown>>

\* Time passes.
Tick ==
    /\ now < MaxTicks
    /\ now' = now + 1
    /\ UNCHANGED <<queueState, callerVars, watcher, outer, child, stop, workerVars, answer,
                   reports, shown>>

Caller(i) == SubmitCheck(i) \/ SubmitPush(i) \/ SubmitSpawn(i)
Watcher(i) == WatcherAbort(i) \/ WatcherCancelActive(i) \/ WatcherStop(i)
Worker(w) == WorkerTake(w) \/ WorkerStart(w) \/ WorkerComplete(w) \/ WorkerRelease(w)

Next ==
    \/ \E i \in Item : Caller(i) \/ Watcher(i) \/ Cancel(i) \/ Worker(i)
    \/ \E r \in reports : Callback(r)
    \/ Clear
    \/ Tick

Spec == Init /\ [][Next]_vars

(***************************************************************************)
(* Fairness: submit() never waits once it has been called, tokio polls     *)
(* every spawned task and callbacks return.  Nothing makes a client        *)
(* submit, cancel or clear.                                                *)
(***************************************************************************)
Fairness ==
    /\ \A i \in Item : WF_vars(SubmitPush(i) \/ SubmitSpawn(i))
    /\ \A i \in Item : WF_vars(Watcher(i))
    /\ \A i \in Item : WF_vars(WorkerTake(i) \/ WorkerStart(i) \/ WorkerRelease(i))
    /\ WF_vars(\E r \in reports : Callback(r))

\* A task may run for as long as it likes unless it is cancelled.
FairSpec ==
    /\ Spec
    /\ Fairness
    /\ \A w \in Item : WF_vars(WorkerComplete(w) /\ held[w] # NoItem /\ child[held[w]])

-----------------------------------------------------------------------------
(* Properties. *)

\* A worker that still runs run_worker.
Live(w) == worker[w] \in {"take", "start", "run", "finish"}

\* A worker that exists, or that a submission has claimed and will spawn.
Claimed(w) == Live(w) \/ (caller[w] = "pushed" /\ starter[w])

Queued == {pending[k] : k \in 1 .. Len(pending)}

\* "Downloads stay serial" (take_next): two run_worker loops never exist at
\* once, however submissions, exits and aborts interleave, and the item the
\* lock calls active is the one the worker holds.
SerialDownloads ==
    /\ \A v, w \in Item : Claimed(v) /\ Claimed(w) => v = w
    /\ \A w \in Item : worker[w] \in {"start", "run", "finish"} =>
          active = held[w] /\ held[w] # NoItem

\* No lost wake-up: whenever an item waits, or the processing flag keeps
\* submitters from starting a worker, a worker exists or is being spawned.
NoStrandedItem ==
    /\ pending # <<>> => processing
    /\ processing <=> \E w \in Item : Claimed(w)

\* A submission is in exactly one place: in the queue (once), with a worker,
\* or answered; nothing answers it while it still waits or before it ran.
OnePlace ==
    /\ \A j, k \in 1 .. Len(pending) : pending[j] = pending[k] => j = k
    /\ \A i \in Item : caller[i] \in {"pushed", "returned"} =>
          Cardinality({p \in {"queued", "working", "answered"} :
              \/ p = "queued" /\ i \in Queued
              \/ p = "working" /\ \E w \in Item : worker[w] \in {"start", "run"} /\ held[w] = i
              \/ p = "answered" /\ answer[i] # "none"}) = 1

\* Cancelling one job never cancels another: a task's token is cancelled only
\* for its own signal, or because clear() threw the item away unstarted.
CancelIsolated ==
    \A i \in Item : child[i] => outer[i] \/ answer[i] = "cleared"

\* Waiting bounds overtaking: a worker may take j while i, enqueued earlier,
\* still waits only if j's base score exceeds i's by more than the head start
\* of i is worth at 5 points a second against 100 a rung.
OvertakingIsBounded ==
    [][\A i, j \in Item :
          /\ i \in Queued /\ i \in Queued' /\ active # j /\ active' = j
          /\ \E m, k \in 1 .. Len(pending) : m < k /\ pending[m] = i /\ pending[k] = j
          => (Priority[j] - Priority[i]) * 100
                > (enqueuedAt[j] - enqueuedAt[i]) * TickSecs * 5]_vars

\* Every submission that returned a receiver gets an answer, if the tasks
\* that are started return.
EveryItemAnswered ==
    (\A w \in Item : WF_vars(WorkerComplete(w))) =>
        \A i \in Item : caller[i] \in {"pushed", "returned"} ~> answer[i] # "none"

\* A cancelled job is answered even if no task ever returns by itself: the
\* signal reaches it in the queue or through its task's token, also when it
\* fires between submit's check and the watcher's start, or while the worker
\* takes the item between the two locks of abort_item.
CancelledItemAnswered ==
    \A i \in Item : outer[i] /\ caller[i] # "idle" ~> answer[i] # "none"

\* "Positions are derived from the deque order that is left behind, so this
\* stays correct": once no callback is under way, an owner that was told a
\* position was told the current one (0 while its task runs).
PositionsSettle ==
    reports = {} =>
        /\ \A w \in Item : worker[w] = "run" => shown[held[w]] = 0
        /\ \A k \in 1 .. Len(pending) :
              starter[pending[k]] \/ shown[pending[k]] = k

(***************************************************************************)
(* What the queue promises its clients: module RipService.                 *)
(***************************************************************************)
ServiceStatus ==
    [i \in Item |->
        IF answer[i] # "none" THEN answer[i]
        ELSE IF \E w \in Item : worker[w] = "run" /\ held[w] = i THEN "running"
        ELSE IF caller[i] \in {"pushed", "returned"} THEN "waiting"
        ELSE "new"]

Service == INSTANCE RipService WITH Request <- Item, status <- ServiceStatus

ImplementsService == Service!Spec

=============================================================================
