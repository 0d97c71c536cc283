----------------------------- MODULE RipService -----------------------------
(***************************************************************************)
(* What the download queue promises the jobs that use it, without queue,   *)
(* lock, worker or watcher: requests are accepted, at most one runs at a   *)
(* time, and each ends with one answer.  A request is aborted or cleared   *)
(* only while it waits; one that runs ends by its task alone               *)
(* (crates/engine/tests/queue.rs:295,                                      *)
(* active_abort_cancels_child_but_task_result_propagates).                 *)
(***************************************************************************)
CONSTANT Request

VARIABLE status

Init == status = [r \in Request |-> "new"]

Accept(r) ==
    /\ status[r] = "new"
    /\ status' = [status EXCEPT ![r] = "waiting"]

\* The request's signal was cancelled before it was accepted or started.
Abort(r) ==
    /\ status[r] \in {"new", "waiting"}
    /\ status' = [status EXCEPT ![r] = "aborted"]

Start(r) ==
    /\ status[r] = "waiting"
    /\ \A q \in Request : status[q] # "running"
    /\ status' = [status EXCEPT ![r] = "running"]

Finish(r) ==
    /\ status[r] = "running"
    /\ \E result \in {"done", "panicked"} : status' = [status EXCEPT ![r] = result]

\* Some of the waiting requests are dropped together.
Drop(R) ==
    /\ \A r \in R : status[r] = "waiting"
    /\ status' = [r \in Request |-> IF r \in R THEN "cleared" ELSE status[r]]

Next ==
    \/ \E r \in Request : Accept(r) \/ Abort(r) \/ Start(r) \/ Finish(r)
    \/ \E R \in SUBSET Request : Drop(R)

Spec == Init /\ [][Next]_status

=============================================================================
