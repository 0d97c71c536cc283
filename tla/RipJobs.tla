------------------------------- MODULE RipJobs -------------------------------
(***************************************************************************)
(* The life of a rip job in RipOrchestrator: start_task and cancel_task of *)
(* crates/engine/src/orchestrator/mod.rs, the in-flight table of           *)
(* inflight.rs and the terminal transition of events.rs.  run_job is the   *)
(* one action Run here; its pipeline is the subject of other modules.      *)
(*                                                                         *)
(* Every acquisition of the in-flight mutex, of the job's mutex and every  *)
(* await point separates two actions.  A job makes at most one             *)
(* InflightEntry, so an entry is named by the job that made it.            *)
(***************************************************************************)
EXTENDS Integers, FiniteSets, Sequences

CONSTANTS
    Job,         \* calls of start_task
    Key,         \* InflightTargetKey: kind, id and storefront of a target
    NoJob,       \* no entry
    Targets      \* the target keys of every job, in the order of its links

ASSUME JobsAssumption ==
    /\ NoJob \notin Job
    /\ Targets \in [Job -> Seq(Key)]

VARIABLES
    pc,          \* where start_task has got to
    jobs,        \* the jobs table (ids of live jobs)
    inflight,    \* inflight_items: the entry under a key
    waitsFor,    \* the entry a job found and waits for
    woken,       \* the job's Notified future has been completed
    cancelled,   \* job.is_cancelled; job.controller is cancelled with it
    accepted,    \* history: cancel_task returned true for the job
    result,      \* what run_job returned
    sawCancel,   \* is_cancelled as read after run_job
    terminal,    \* job.terminal_state
    events       \* terminal events emitted for the job, oldest first

vars == <<pc, jobs, inflight, waitsFor, woken, cancelled, accepted, result, sawCancel,
          terminal, events>>

Terminal == {"completed", "failed", "cancelled"}
KeysOf(j) == {Targets[j][n] : n \in 1 .. Len(Targets[j])}

TypeOK ==
    /\ pc \in [Job -> {"new", "lookup", "claim", "found", "waiting", "running", "unlink",
                       "notify", "check", "settle", "remove", "returned"}]
    /\ jobs \subseteq Job
    /\ inflight \in [Key -> Job \cup {NoJob}]
    /\ waitsFor \in [Job -> Job \cup {NoJob}]
    /\ woken \in [Job -> BOOLEAN]
    /\ cancelled \in [Job -> BOOLEAN]
    /\ accepted \subseteq Job
    /\ result \in [Job -> {"none", "ok", "err"}]
    /\ sawCancel \in [Job -> BOOLEAN]
    /\ terminal \in [Job -> Terminal \cup {"none"}]
    /\ events \in [Job -> Seq(Terminal)]

Init ==
    /\ pc = [j \in Job |-> "new"]
    /\ jobs = {}
    /\ inflight = [k \in Key |-> NoJob]
    /\ waitsFor = [j \in Job |-> NoJob]
    /\ woken = [j \in Job |-> FALSE]
    /\ cancelled = [j \in Job |-> FALSE]
    /\ accepted = {}
    /\ result = [j \in Job |-> "none"]
    /\ sawCancel = [j \in Job |-> FALSE]
    /\ terminal = [j \in Job |-> "none"]
    /\ events = [j \in Job |-> <<>>]

-----------------------------------------------------------------------------

\* Mutant: the outcome that was asked for stands although the job is cancelled.
TerminalizeAsAsked(j, state) ==
    IF terminal[j] # "none"
    THEN UNCHANGED <<terminal, events>>
    ELSE /\ terminal' = [terminal EXCEPT ![j] = state]
         /\ events' = [events EXCEPT ![j] = Append(@, state)]

\* terminalize: the first terminal state wins, a cancellation overrides the
\* outcome that was asked for, and the one event is emitted.
Terminalize(j, state) ==
    IF terminal[j] # "none"
    THEN UNCHANGED <<terminal, events>>
    ELSE LET final == IF cancelled[j] THEN "cancelled" ELSE state IN
         /\ terminal' = [terminal EXCEPT ![j] = final]
         /\ events' = [events EXCEPT ![j] = Append(@, final)]

\* start_task registers the job and announces it.
Create(j) ==
    /\ pc[j] = "new"
    /\ jobs' = jobs \cup {j}
    /\ pc' = [pc EXCEPT ![j] = "lookup"]
    /\ UNCHANGED <<inflight, waitsFor, woken, cancelled, accepted, result, sawCancel,
                   terminal, events>>

\* One turn of the in-flight loop, under the lock: the entry of the first
\* target that has one, or none.  The lock is released either way.
Lookup(j) ==
    /\ pc[j] = "lookup"
    /\ \/ /\ \A k \in KeysOf(j) : inflight[k] = NoJob
          /\ pc' = [pc EXCEPT ![j] = "claim"]
          /\ UNCHANGED <<waitsFor, woken>>
       \/ \E n \in 1 .. Len(Targets[j]) :
             /\ inflight[Targets[j][n]] # NoJob
             /\ \A m \in 1 .. n - 1 : inflight[Targets[j][m]] = NoJob
             /\ waitsFor' = [waitsFor EXCEPT ![j] = inflight[Targets[j][n]]]
             /\ woken' = [woken EXCEPT ![j] = FALSE]
             /\ pc' = [pc EXCEPT ![j] = "found"]
    /\ UNCHANGED <<jobs, inflight, cancelled, accepted, result, sawCancel, terminal, events>>

\* The job found no entry: lock again, put its own under every key.
Claim(j) ==
    /\ pc[j] = "claim"
    /\ inflight' = [k \in Key |-> IF k \in KeysOf(j) THEN j ELSE inflight[k]]
    /\ pc' = [pc EXCEPT ![j] = "running"]
    /\ UNCHANGED <<jobs, waitsFor, woken, cancelled, accepted, result, sawCancel, terminal,
                   events>>

\* The job found an entry: after reporting WaitingDuplicate it creates the
\* Notified future it will wait on.
Register(j) ==
    /\ pc[j] = "found"
    /\ pc' = [pc EXCEPT ![j] = "waiting"]
    /\ UNCHANGED <<jobs, inflight, waitsFor, woken, cancelled, accepted, result, sawCancel,
                   terminal, events>>

\* The select! of the loop: woken by the entry's owner, look again ...
WakeUp(j) ==
    /\ pc[j] = "waiting"
    /\ woken[j]
    /\ pc' = [pc EXCEPT ![j] = "lookup"]
    /\ waitsFor' = [waitsFor EXCEPT ![j] = NoJob]
    /\ UNCHANGED <<jobs, inflight, woken, cancelled, accepted, result, sawCancel, terminal,
                   events>>

\* Mutant: the waiting job is settled but does not return.
CancelWaitingFallsThrough(j) ==
    /\ pc[j] = "waiting"
    /\ cancelled[j]
    /\ Terminalize(j, "cancelled")
    /\ pc' = [pc EXCEPT ![j] = "lookup"]
    /\ waitsFor' = [waitsFor EXCEPT ![j] = NoJob]
    /\ UNCHANGED <<jobs, inflight, woken, cancelled, accepted, result, sawCancel>>

\* Mutant: the cancellation is only looked at after a wake-up.
CancelWaitingWhenWoken(j) ==
    /\ pc[j] = "waiting"
    /\ woken[j] /\ cancelled[j]
    /\ Terminalize(j, "cancelled")
    /\ pc' = [pc EXCEPT ![j] = "remove"]
    /\ waitsFor' = [waitsFor EXCEPT ![j] = NoJob]
    /\ UNCHANGED <<jobs, inflight, woken, cancelled, accepted, result, sawCancel>>

\* ... or cancelled while waiting: settle and return without running.
CancelWaiting(j) ==
    /\ pc[j] = "waiting"
    /\ cancelled[j]
    /\ Terminalize(j, "cancelled")
    /\ pc' = [pc EXCEPT ![j] = "remove"]
    /\ waitsFor' = [waitsFor EXCEPT ![j] = NoJob]
    /\ UNCHANGED <<jobs, inflight, woken, cancelled, accepted, result, sawCancel>>

\* run_job under catch_unwind: a summary, or an error (a panic is one).
Run(j) ==
    /\ pc[j] = "running"
    /\ \E r \in {"ok", "err"} : result' = [result EXCEPT ![j] = r]
    /\ pc' = [pc EXCEPT ![j] = "unlink"]
    /\ UNCHANGED <<jobs, inflight, waitsFor, woken, cancelled, accepted, sawCancel, terminal,
                   events>>

\* Mutant: only the first target of a batch is released.
UnlinkFirst(j) ==
    /\ pc[j] = "unlink"
    /\ inflight' = IF Targets[j] = <<>> THEN inflight
                   ELSE [inflight EXCEPT ![Head(Targets[j])] = NoJob]
    /\ pc' = [pc EXCEPT ![j] = "notify"]
    /\ UNCHANGED <<jobs, waitsFor, woken, cancelled, accepted, result, sawCancel, terminal,
                   events>>

\* InflightGuard::cleanup, under the lock: remove the job's keys ...
Unlink(j) ==
    /\ pc[j] = "unlink"
    /\ inflight' = [k \in Key |-> IF k \in KeysOf(j) THEN NoJob ELSE inflight[k]]
    /\ pc' = [pc EXCEPT ![j] = "notify"]
    /\ UNCHANGED <<jobs, waitsFor, woken, cancelled, accepted, result, sawCancel, terminal,
                   events>>

\* ... and after it notify_waiters: only the futures that exist are woken.
NotifyWaiters(j) ==
    /\ pc[j] = "notify"
    /\ woken' = [i \in Job |-> woken[i] \/ (pc[i] = "waiting" /\ waitsFor[i] = j)]
    /\ pc' = [pc EXCEPT ![j] = "check"]
    /\ UNCHANGED <<jobs, inflight, waitsFor, cancelled, accepted, result, sawCancel, terminal,
                   events>>

\* start_task reads is_cancelled, releases the job and decides on it.
ReadCancelled(j) ==
    /\ pc[j] = "check"
    /\ sawCancel' = [sawCancel EXCEPT ![j] = cancelled[j]]
    /\ pc' = [pc EXCEPT ![j] = "settle"]
    /\ UNCHANGED <<jobs, inflight, waitsFor, woken, cancelled, accepted, result, terminal,
                   events>>

\* Mutant: an error of the run is reported as a completion.
SettleCompleted(j) ==
    /\ pc[j] = "settle"
    /\ Terminalize(j, IF sawCancel[j] THEN "cancelled" ELSE "completed")
    /\ pc' = [pc EXCEPT ![j] = "remove"]
    /\ UNCHANGED <<jobs, inflight, waitsFor, woken, cancelled, accepted, result, sawCancel>>

Settle(j) ==
    /\ pc[j] = "settle"
    /\ Terminalize(j, IF sawCancel[j] THEN "cancelled"
                      ELSE IF result[j] = "ok" THEN "completed" ELSE "failed")
    /\ pc' = [pc EXCEPT ![j] = "remove"]
    /\ UNCHANGED <<jobs, inflight, waitsFor, woken, cancelled, accepted, result, sawCancel>>

\* JobTableGuard::remove, then start_task returns.
Remove(j) ==
    /\ pc[j] = "remove"
    /\ jobs' = jobs \ {j}
    /\ pc' = [pc EXCEPT ![j] = "returned"]
    /\ UNCHANGED <<inflight, waitsFor, woken, cancelled, accepted, result, sawCancel, terminal,
                   events>>

\* cancel_task: refused for a job that is gone, cancelled or settled.
CancelTask(j) ==
    /\ j \in jobs
    /\ ~cancelled[j]
    /\ terminal[j] = "none"
    /\ cancelled' = [cancelled EXCEPT ![j] = TRUE]
    /\ accepted' = accepted \cup {j}
    /\ UNCHANGED <<pc, jobs, inflight, waitsFor, woken, result, sawCancel, terminal, events>>

StartTask(j) ==
    \/ Lookup(j) \/ Claim(j) \/ Register(j) \/ WakeUp(j) \/ CancelWaiting(j) \/ Run(j)
    \/ Unlink(j) \/ NotifyWaiters(j) \/ ReadCancelled(j) \/ Settle(j) \/ Remove(j)

Next == \E j \in Job : Create(j) \/ StartTask(j) \/ CancelTask(j)

Spec == Init /\ [][Next]_vars

(* A started task is polled until it returns, and run_job returns.  Nobody *)
(* has to start a job or to cancel one.                                    *)
FairSpec == Spec /\ \A j \in Job : WF_vars(StartTask(j))

-----------------------------------------------------------------------------
(* Properties. *)

Running(j) == pc[j] \in {"running", "unlink"}

\* Every in-flight entry belongs to a job that is still running and has that
\* target, whatever overwrote or removed it: nobody waits for a dead owner's
\* entry that is found in the table.
EntriesAreLive ==
    \A k \in Key : inflight[k] # NoJob => Running(inflight[k]) /\ k \in KeysOf(inflight[k])

\* A cancellation the orchestrator accepted is what the job ends with, even
\* when it lands after run_job succeeded and before the job is settled.
AcceptedCancelWins ==
    \A j \in accepted : terminal[j] \in {"none", "cancelled"}

\* Subscribers get exactly one terminal event for a job that returned and
\* none before it is settled, and it is the state that was recorded.
OneTerminalEvent ==
    \A j \in Job :
        /\ events[j] = IF terminal[j] = "none" THEN <<>> ELSE <<terminal[j]>>
        /\ pc[j] \in {"remove", "returned"} <=> terminal[j] # "none"

\* A job that is not cancelled ends as its run did, and one that never ran
\* was cancelled: waiting for a duplicate is never reported as an outcome.
OutcomeMatchesRun ==
    \A j \in Job :
        /\ terminal[j] = "completed" => result[j] = "ok"
        /\ terminal[j] = "failed" => result[j] = "err"
        /\ terminal[j] # "none" /\ result[j] = "none" => j \in accepted

\* A cancellation that was accepted is carried out: the job settles as
\* cancelled even if it waits for a duplicate whose wake-up it missed.
AcceptedCancelSettles ==
    \A j \in Job : j \in accepted ~> terminal[j] = "cancelled"

\* "job 2 must complete quickly after job 1 finishes": a duplicate that waits
\* for a job in flight is settled in the end, without help from its owner.
DuplicateIsSettled ==
    \A j \in Job : pc[j] = "found" ~> terminal[j] # "none"

=============================================================================
