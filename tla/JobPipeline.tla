----------------------------- MODULE JobPipeline -----------------------------
(***************************************************************************)
(* The pipeline of one queued rip job: lane one (run_lane_one), which rips *)
(* the items in order inside the download queue's slot, the ordered        *)
(* dispatcher (run_ordered_dispatch), which feeds the shared upload lane   *)
(* in item order and sends a failed cache hit back to the download queue,  *)
(* the upload lane itself (ensure_upload_lane), and the finalize marker    *)
(* (finalize_job) that ends the job.                                       *)
(* crates/engine/src/orchestrator/{dispatch,rip_lane,cached_lane,          *)
(* upload_lane,finalize}.rs                                                *)
(*                                                                         *)
(* What one upload does is TrackUpload's subject and the queue RipQueue's: *)
(* here an upload task ends, and a re-rip runs once lane one has given the *)
(* queue's only slot back.                                                 *)
(***************************************************************************)
EXTENDS Integers, FiniteSets, Sequences

CONSTANTS
    ItemCount,    \* the job's pipeline items are 1 .. ItemCount
    CachedItem,   \* those with a cached track
    Capacity,     \* ordered_slot_capacity
    LaneCap,      \* capacity of the upload lane's channel
    Concurrency   \* upload_concurrency; 1 is the serial lane

Item == 1 .. ItemCount
Finished == 0     \* OrderedSlot::Finished, the end marker

ASSUME PipelineAssumption ==
    /\ ItemCount \in Nat
    /\ CachedItem \subseteq Item
    /\ Capacity \in Nat /\ Capacity > ItemCount
    /\ LaneCap \in Nat \ {0}
    /\ Concurrency \in Nat \ {0}

VARIABLES
    cancelled,   \* job.is_cancelled, its controller and the queue's child token
    lanePc,      \* run_lane_one
    cursor,      \* the item lane one is at
    slots,       \* the channel from lane one to the dispatcher
    dispPc,      \* run_ordered_dispatch
    current,     \* the item the dispatcher works on
    buffered,    \* slots it drained while it waited
    finished,    \* received_finished
    stop,        \* stop_dispatch
    resolution,  \* the oneshot of the cached item it waits for
    rerip,       \* the queue entry of the item it re-rips
    lane,        \* the upload lane's channel
    running,     \* lane tasks that have been started
    pendingUploads, \* ctx.pending_uploads
    finalPc,     \* finalize_job
    woken,       \* its Notified future was completed
    outcome,     \* what became of an item; "panicked": nothing is recorded yet
    fatal,       \* ctx.fatal_error: the first reason, or "none"
    workspace,   \* the job's directory exists
    summary,     \* what went through summary_tx
    dispatched   \* history: items in the order they entered the upload lane

laneOneVars == <<lanePc, cursor>>
dispVars == <<dispPc, current, buffered, finished, stop>>
laneVars == <<lane, running>>
finalVars == <<finalPc, woken, workspace, summary>>
vars == <<cancelled, laneOneVars, slots, dispVars, resolution, rerip, laneVars,
          pendingUploads, finalVars, outcome, fatal, dispatched>>

Task == [kind : {"upload", "cached", "finalize"}, item : Item \cup {0}]
Upload(i) == [kind |-> "upload", item |-> i]
Cached(i) == [kind |-> "cached", item |-> i]
Marker == [kind |-> "finalize", item |-> 0]

TypeOK ==
    /\ cancelled \in BOOLEAN
    /\ lanePc \in {"check", "rip", "send", "finish", "done", "dead"}
    /\ cursor \in 1 .. ItemCount + 1
    /\ slots \in Seq(Item \cup {Finished})
    /\ dispPc \in {"next", "push", "pushCached", "cacheWait", "reripWait", "marker", "done"}
    /\ current \in Item \cup {0}
    /\ buffered \in Seq(Item)
    /\ finished \in BOOLEAN
    /\ stop \in BOOLEAN
    /\ resolution \in {"none", "pending", "hit", "rerip", "cancelled", "failed"}
    /\ rerip \in {"none", "queued", "ripped", "finished", "aborted", "failed"}
    /\ lane \in Seq(Task)
    /\ running \subseteq Task
    /\ pendingUploads \in 0 .. ItemCount
    /\ finalPc \in {"none", "load", "arm", "wait", "build", "done"}
    /\ woken \in BOOLEAN
    /\ outcome \in [Item -> {"none", "hit", "uploaded", "panicked", "failed"}]
    /\ fatal \in {"none", "buffer", "other"}
    /\ workspace \in BOOLEAN
    /\ summary \in {"none", "ok", "err"}
    /\ dispatched \in Seq(Item)

\* enqueue: the queue has just started the job's task.
Init ==
    /\ cancelled = FALSE
    /\ lanePc = "check" /\ cursor = 1
    /\ slots = <<>>
    /\ dispPc = "next" /\ current = 0 /\ buffered = <<>>
    /\ finished = FALSE /\ stop = FALSE
    /\ resolution = "none" /\ rerip = "none"
    /\ lane = <<>> /\ running = {}
    /\ pendingUploads = 0
    /\ finalPc = "none" /\ woken = FALSE
    /\ outcome = [i \in Item |-> "none"]
    /\ fatal = "none"
    /\ workspace = TRUE
    /\ summary = "none"
    /\ dispatched = <<>>

SetFatal(reason) == fatal' = IF fatal = "none" THEN reason ELSE fatal

-----------------------------------------------------------------------------
(* Lane one: run_lane_one and rip_fresh_item. *)

LaneCheck ==
    /\ lanePc = "check"
    /\ lanePc' = IF cursor > ItemCount \/ cancelled THEN "finish"
                 ELSE IF cursor \in CachedItem THEN "send" ELSE "rip"
    /\ UNCHANGED <<cancelled, cursor, slots, dispVars, resolution, rerip, laneVars,
                   pendingUploads, finalVars, outcome, fatal, dispatched>>

\* The item was ripped, or failed and was recorded, or the job is cancelled.
LaneRip ==
    /\ lanePc = "rip"
    /\ \/ /\ ~cancelled
          /\ lanePc' = "send"
          /\ UNCHANGED <<cursor, outcome>>
       \/ /\ ~cancelled
          /\ outcome' = [outcome EXCEPT ![cursor] = "failed"]
          /\ cursor' = cursor + 1
          /\ lanePc' = "check"
       \/ /\ cancelled
          /\ lanePc' = "finish"
          /\ UNCHANGED <<cursor, outcome>>
    /\ UNCHANGED <<cancelled, slots, dispVars, resolution, rerip, laneVars, pendingUploads,
                   finalVars, fatal, dispatched>>

\* A panic in the provider unwinds lane one: its end of the channel closes.
LanePanic ==
    /\ lanePc = "rip"
    /\ lanePc' = "dead"
    /\ UNCHANGED <<cancelled, cursor, slots, dispVars, resolution, rerip, laneVars,
                   pendingUploads, finalVars, outcome, fatal, dispatched>>

LaneSend ==
    /\ lanePc = "send"
    /\ \/ /\ Len(slots) < Capacity
          /\ slots' = Append(slots, cursor)
          /\ cursor' = cursor + 1
          /\ lanePc' = "check"
       \/ /\ cancelled
          /\ lanePc' = "finish"
          /\ UNCHANGED <<slots, cursor>>
    /\ UNCHANGED <<cancelled, dispVars, resolution, rerip, laneVars, pendingUploads, finalVars,
                   outcome, fatal, dispatched>>

LaneFinish ==
    /\ lanePc = "finish"
    /\ Len(slots) < Capacity
    /\ slots' = Append(slots, Finished)
    /\ lanePc' = "done"
    /\ UNCHANGED <<cancelled, cursor, dispVars, resolution, rerip, laneVars, pendingUploads,
                   finalVars, outcome, fatal, dispatched>>

-----------------------------------------------------------------------------
(* The ordered dispatcher. *)

\* A slot leaves the buffer or the channel and is acted on: the marker is
\* noted, a stopped or cancelled dispatcher drops the rest.
Accept(slot) ==
    IF slot = Finished
    THEN finished' = TRUE /\ UNCHANGED <<dispPc, current, stop, pendingUploads>>
    ELSE IF stop \/ cancelled
    THEN stop' = TRUE /\ UNCHANGED <<dispPc, current, finished, pendingUploads>>
    ELSE /\ current' = slot
         /\ dispPc' = IF slot \in CachedItem THEN "pushCached" ELSE "push"
         /\ pendingUploads' = IF slot \in CachedItem THEN pendingUploads ELSE pendingUploads + 1
         /\ UNCHANGED <<finished, stop>>

\* Mutant: the end marker ends the dispatcher although slots are buffered.
DispNextForgetsBuffer ==
    /\ dispPc = "next"
    /\ \/ /\ ~finished /\ buffered # <<>>
          /\ buffered' = Tail(buffered)
          /\ Accept(Head(buffered))
          /\ UNCHANGED slots
       \/ /\ buffered = <<>> /\ ~finished /\ slots # <<>>
          /\ slots' = Tail(slots)
          /\ Accept(Head(slots))
          /\ UNCHANGED buffered
       \/ /\ finished
          /\ dispPc' = "marker"
          /\ UNCHANGED <<slots, buffered, current, finished, stop, pendingUploads>>
    /\ UNCHANGED <<cancelled, laneOneVars, resolution, rerip, laneVars, finalVars, outcome,
                   fatal, dispatched>>

\* Mutant: the channel is read before the buffer.
DispNextChannelFirst ==
    /\ dispPc = "next"
    /\ \/ /\ slots # <<>> /\ ~finished
          /\ slots' = Tail(slots)
          /\ Accept(Head(slots))
          /\ UNCHANGED buffered
       \/ /\ slots = <<>> /\ buffered # <<>>
          /\ buffered' = Tail(buffered)
          /\ Accept(Head(buffered))
          /\ UNCHANGED slots
       \/ /\ buffered = <<>> /\ (finished \/ (slots = <<>> /\ lanePc = "dead"))
          /\ dispPc' = "marker"
          /\ UNCHANGED <<slots, buffered, current, finished, stop, pendingUploads>>
    /\ UNCHANGED <<cancelled, laneOneVars, resolution, rerip, laneVars, finalVars, outcome,
                   fatal, dispatched>>

DispNext ==
    /\ dispPc = "next"
    /\ \/ /\ buffered # <<>>
          /\ buffered' = Tail(buffered)
          /\ Accept(Head(buffered))
          /\ UNCHANGED slots
       \/ /\ buffered = <<>> /\ ~finished /\ slots # <<>>
          /\ slots' = Tail(slots)
          /\ Accept(Head(slots))
          /\ UNCHANGED buffered
       \/ /\ buffered = <<>> /\ (finished \/ (slots = <<>> /\ lanePc = "dead"))
          /\ dispPc' = "marker"
          /\ UNCHANGED <<slots, buffered, current, finished, stop, pendingUploads>>
    /\ UNCHANGED <<cancelled, laneOneVars, resolution, rerip, laneVars, finalVars, outcome,
                   fatal, dispatched>>

\* push_lane_task of an upload; a push given up because of a cancellation
\* takes the upload back, waking the finalizer at zero.
DispPush ==
    /\ dispPc = "push"
    /\ dispPc' = "next"
    /\ \/ /\ Len(lane) < LaneCap
          /\ lane' = Append(lane, Upload(current))
          /\ dispatched' = Append(dispatched, current)
          /\ UNCHANGED <<pendingUploads, woken, stop>>
       \/ /\ cancelled
          /\ pendingUploads' = pendingUploads - 1
          /\ woken' = (woken \/ (pendingUploads = 1 /\ finalPc = "wait"))
          /\ stop' = TRUE
          /\ UNCHANGED <<lane, dispatched>>
    /\ UNCHANGED <<cancelled, laneOneVars, slots, current, buffered, finished, resolution,
                   rerip, running, finalPc, workspace, summary, outcome, fatal>>

DispPushCached ==
    /\ dispPc = "pushCached"
    /\ \/ /\ Len(lane) < LaneCap
          /\ lane' = Append(lane, Cached(current))
          /\ dispatched' = Append(dispatched, current)
          /\ resolution' = "pending"
          /\ dispPc' = "cacheWait"
          /\ UNCHANGED stop
       \/ /\ cancelled
          /\ stop' = TRUE
          /\ dispPc' = "next"
          /\ UNCHANGED <<lane, dispatched, resolution>>
    /\ UNCHANGED <<cancelled, laneOneVars, slots, current, buffered, finished, rerip, running,
                   pendingUploads, finalVars, outcome, fatal>>

\* While it waits, the dispatcher takes slots off the channel, so that lane
\* one can go on and give the queue's slot back.
DispDrain ==
    /\ dispPc \in {"cacheWait", "reripWait"}
    /\ ~finished
    /\ slots # <<>>
    /\ slots' = Tail(slots)
    /\ IF Head(slots) = Finished
       THEN finished' = TRUE /\ UNCHANGED <<buffered, fatal>>
       ELSE /\ IF Len(buffered) < Capacity
               THEN buffered' = Append(buffered, Head(slots)) /\ UNCHANGED fatal
               ELSE SetFatal("buffer") /\ UNCHANGED buffered
            /\ UNCHANGED finished
    /\ UNCHANGED <<cancelled, laneOneVars, dispPc, current, stop, resolution, rerip, laneVars,
                   pendingUploads, finalVars, outcome, dispatched>>

\* wait_for_cache_resolution returns; a stale entry is submitted to the
\* queue again (which refuses it if the job is cancelled by now).
DispCacheResolved ==
    /\ dispPc = "cacheWait"
    /\ \/ /\ resolution = "hit"
          /\ dispPc' = "next"
          /\ UNCHANGED <<stop, fatal, rerip>>
       \/ /\ resolution = "failed" \/ (lanePc = "dead" /\ slots = <<>> /\ ~finished)
          /\ SetFatal("other")
          /\ dispPc' = "next"
          /\ UNCHANGED <<stop, rerip>>
       \/ /\ resolution = "cancelled" \/ cancelled
          /\ stop' = TRUE
          /\ dispPc' = "next"
          /\ UNCHANGED <<fatal, rerip>>
       \/ /\ resolution = "rerip"
          /\ rerip' = IF cancelled THEN "aborted" ELSE "queued"
          /\ dispPc' = "reripWait"
          /\ UNCHANGED <<stop, fatal>>
    /\ resolution' = "none"
    /\ UNCHANGED <<cancelled, laneOneVars, slots, current, buffered, finished, laneVars,
                   pendingUploads, finalVars, outcome, dispatched>>

\* The queue runs the re-rip once its slot is free (lane one is over), or
\* aborts it with the job.
ReripRun ==
    /\ rerip = "queued"
    /\ \/ /\ lanePc \in {"done", "dead"}
          /\ \/ rerip' = "ripped" /\ UNCHANGED outcome
             \/ rerip' = "finished" /\ outcome' = [outcome EXCEPT ![current] = "failed"]
             \/ rerip' = "failed" /\ UNCHANGED outcome
       \/ /\ cancelled
          /\ rerip' = "aborted"
          /\ UNCHANGED outcome
    /\ UNCHANGED <<cancelled, laneOneVars, slots, dispVars, resolution, laneVars,
                   pendingUploads, finalVars, fatal, dispatched>>

\* wait_for_ordered_rerip returns.
DispReripped ==
    /\ dispPc = "reripWait"
    /\ \/ /\ rerip = "ripped"
          /\ pendingUploads' = pendingUploads + 1
          /\ dispPc' = "push"
          /\ UNCHANGED <<stop, fatal>>
       \/ /\ rerip = "finished"
          /\ dispPc' = "next"
          /\ UNCHANGED <<stop, fatal, pendingUploads>>
       \/ /\ rerip \in {"aborted", "failed"}
             \/ (cancelled /\ rerip \in {"ripped", "finished"})
             \/ (lanePc = "dead" /\ slots = <<>> /\ ~finished)
          /\ stop' = TRUE
          /\ dispPc' = "next"
          /\ IF cancelled THEN UNCHANGED fatal ELSE SetFatal("other")
          /\ UNCHANGED pendingUploads
    /\ rerip' = "none"
    /\ UNCHANGED <<cancelled, laneOneVars, slots, current, buffered, finished, resolution,
                   laneVars, finalVars, outcome, dispatched>>

\* The end of the dispatcher: an error if lane one died, else the marker.
DispMarker ==
    /\ dispPc = "marker"
    /\ \/ /\ ~finished /\ ~cancelled
          /\ workspace' = FALSE
          /\ summary' = IF summary = "none" THEN "err" ELSE summary
          /\ UNCHANGED lane
       \/ /\ finished \/ cancelled
          /\ Len(lane) < LaneCap
          /\ lane' = Append(lane, Marker)
          /\ UNCHANGED <<workspace, summary>>
    /\ dispPc' = "done"
    /\ UNCHANGED <<cancelled, laneOneVars, slots, current, buffered, finished, stop, resolution,
                   rerip, running, pendingUploads, finalPc, woken, outcome, fatal, dispatched>>

-----------------------------------------------------------------------------
(* The upload lane. *)

\* Items whose upload task panicked and has not run its on_panic yet.
Unwound == {i \in Item : outcome[i] = "panicked"}

\* Tasks leave the channel in order.  The serial lane runs one at a time; the
\* other spawns them, uploads only while a permit is free.
LaneStart ==
    /\ lane # <<>>
    /\ IF Concurrency = 1
       THEN running = {} /\ Unwound = {}
       ELSE Head(lane).kind = "upload" =>
                Cardinality({t \in running : t.kind = "upload"}) + Cardinality(Unwound)
                    < Concurrency
    /\ lane' = Tail(lane)
    /\ running' = running \cup {Head(lane)}
    /\ finalPc' = IF Head(lane) = Marker THEN "load" ELSE finalPc
    /\ UNCHANGED <<cancelled, laneOneVars, slots, dispVars, resolution, rerip, pendingUploads,
                   woken, workspace, summary, outcome, fatal, dispatched>>

\* run_upload_item ends, or unwinds, and PendingUploadGuard is dropped: the
\* last one out wakes the futures that exist by then.
UploadEnds(i) ==
    /\ Upload(i) \in running
    /\ running' = running \ {Upload(i)}
    /\ \/ \E how \in {"uploaded", "failed", "panicked"} : outcome' = [outcome EXCEPT ![i] = how]
       \/ cancelled /\ UNCHANGED outcome
    /\ pendingUploads' = pendingUploads - 1
    /\ woken' = (woken \/ (pendingUploads = 1 /\ finalPc = "wait"))
    /\ UNCHANGED <<cancelled, laneOneVars, slots, dispVars, resolution, rerip, lane, finalPc,
                   workspace, summary, fatal, dispatched>>

\* Only then does the lane catch the panic and record it
\* (record_lane_task_panic).
PanicRecorded(i) ==
    /\ outcome[i] = "panicked"
    /\ outcome' = [outcome EXCEPT ![i] = "failed"]
    /\ SetFatal("other")
    /\ UNCHANGED <<cancelled, laneOneVars, slots, dispVars, resolution, rerip, laneVars,
                   pendingUploads, finalVars, dispatched>>

\* Mutant: a cached delivery that dies does not answer the dispatcher.
CachedEndsSilently(i) ==
    /\ Cached(i) \in running
    /\ running' = running \ {Cached(i)}
    /\ \E r \in {"hit", "rerip", "failed"} \cup (IF cancelled THEN {"cancelled"} ELSE {}) :
          /\ resolution' = IF dispPc = "cacheWait" /\ r # "failed" THEN r ELSE resolution
          /\ outcome' = IF r = "hit" THEN [outcome EXCEPT ![i] = "hit"] ELSE outcome
    /\ UNCHANGED <<cancelled, laneOneVars, slots, dispVars, rerip, lane, pendingUploads,
                   finalVars, fatal, dispatched>>

\* resolve_cached_item: delivered, stale, cancelled, or the task died.
CachedEnds(i) ==
    /\ Cached(i) \in running
    /\ running' = running \ {Cached(i)}
    /\ \E r \in {"hit", "rerip", "failed"} \cup (IF cancelled THEN {"cancelled"} ELSE {}) :
          /\ resolution' = IF dispPc = "cacheWait" THEN r ELSE resolution
          /\ outcome' = IF r = "hit" THEN [outcome EXCEPT ![i] = "hit"] ELSE outcome
    /\ UNCHANGED <<cancelled, laneOneVars, slots, dispVars, rerip, lane, pendingUploads,
                   finalVars, fatal, dispatched>>

-----------------------------------------------------------------------------
(* finalize_job. *)

\* Mutant: the finalizer does not wait for the uploads.
FinalLoadNoWait ==
    /\ finalPc = "load"
    /\ finalPc' = "build"
    /\ UNCHANGED <<cancelled, laneOneVars, slots, dispVars, resolution, rerip, laneVars,
                   pendingUploads, woken, workspace, summary, outcome, fatal, dispatched>>

\* The wait loop reads the counter ...
FinalLoad ==
    /\ finalPc = "load"
    /\ finalPc' = IF pendingUploads = 0 THEN "build" ELSE "arm"
    /\ UNCHANGED <<cancelled, laneOneVars, slots, dispVars, resolution, rerip, laneVars,
                   pendingUploads, woken, workspace, summary, outcome, fatal, dispatched>>

\* ... and then creates the future it waits on.
FinalArm ==
    /\ finalPc = "arm"
    /\ finalPc' = "wait"
    /\ woken' = FALSE
    /\ UNCHANGED <<cancelled, laneOneVars, slots, dispVars, resolution, rerip, laneVars,
                   pendingUploads, workspace, summary, outcome, fatal, dispatched>>

FinalWake ==
    /\ finalPc = "wait"
    /\ \/ woken /\ finalPc' = "load"
       \/ cancelled /\ finalPc' = "build"
    /\ UNCHANGED <<cancelled, laneOneVars, slots, dispVars, resolution, rerip, laneVars,
                   pendingUploads, woken, workspace, summary, outcome, fatal, dispatched>>

\* The result (an archive that fails is an error too); FinalizationGuard
\* removes the workspace and sends it.
FinalBuild ==
    /\ finalPc = "build"
    /\ workspace' = FALSE
    /\ summary' = IF summary # "none" THEN summary
                  ELSE IF fatal # "none" THEN "err" ELSE "ok"
    /\ finalPc' = "done"
    /\ running' = running \ {Marker}
    /\ UNCHANGED <<cancelled, laneOneVars, slots, dispVars, resolution, rerip, lane,
                   pendingUploads, woken, outcome, fatal, dispatched>>

FinalBuildFails ==
    /\ finalPc = "build"
    /\ workspace' = FALSE
    /\ summary' = IF summary # "none" THEN summary ELSE "err"
    /\ finalPc' = "done"
    /\ running' = running \ {Marker}
    /\ UNCHANGED <<cancelled, laneOneVars, slots, dispVars, resolution, rerip, lane,
                   pendingUploads, woken, outcome, fatal, dispatched>>

\* run_job: the queue answered that lane one panicked, and the workspace is
\* removed without waiting for the dispatcher.
LaneDied ==
    /\ lanePc = "dead"
    /\ workspace
    /\ workspace' = FALSE
    /\ UNCHANGED <<cancelled, laneOneVars, slots, dispVars, resolution, rerip, laneVars,
                   pendingUploads, finalPc, woken, summary, outcome, fatal, dispatched>>

CancelJob ==
    /\ ~cancelled
    /\ cancelled' = TRUE
    /\ UNCHANGED <<laneOneVars, slots, dispVars, resolution, rerip, laneVars, pendingUploads,
                   finalVars, outcome, fatal, dispatched>>

LaneOne == LaneCheck \/ LaneRip \/ LanePanic \/ LaneSend \/ LaneFinish \/ LaneDied
Dispatcher ==
    \/ DispNext \/ DispPush \/ DispPushCached \/ DispCacheResolved \/ DispReripped \/ DispMarker
LaneTask == \E i \in Item : UploadEnds(i) \/ PanicRecorded(i) \/ CachedEnds(i)
Finalizer == FinalLoad \/ FinalArm \/ FinalWake \/ FinalBuild \/ FinalBuildFails

Next ==
    \/ LaneOne \/ Dispatcher \/ DispDrain \/ ReripRun
    \/ LaneStart \/ LaneTask \/ Finalizer
    \/ CancelJob

Spec == Init /\ [][Next]_vars

(* Every spawned task is polled, rips, uploads and cached deliveries       *)
(* return, and the download queue gets round to the re-rip.  A wait with   *)
(* two ready branches is fair to each (select! picks at random).           *)
FairSpec ==
    /\ Spec
    /\ WF_vars(LaneOne) /\ WF_vars(Dispatcher) /\ WF_vars(DispDrain) /\ WF_vars(ReripRun)
    /\ WF_vars(LaneStart) /\ WF_vars(LaneTask) /\ WF_vars(Finalizer)

-----------------------------------------------------------------------------
(* Properties. *)

\* A summary of a job that was neither cancelled nor failed as a whole covers
\* every item: nothing is lost between lane one, the dispatcher's buffer, the
\* re-rip, the upload lane and the finalizer that waits for the uploads.  The
\* one item it may miss is one whose upload panicked in a concurrent lane: its
\* guard lets the finalizer go before the failure is recorded.
SummaryIsComplete ==
    summary = "ok" /\ ~cancelled =>
        \A i \in Item : \/ outcome[i] \in {"hit", "uploaded", "failed"}
                        \/ outcome[i] = "panicked" /\ Concurrency > 1

\* "a track upload panic must fail rather than complete".
PanicFailsJob == summary = "ok" /\ ~cancelled => Unwound = {}

\* The uploads of a job that was not cancelled find its workspace: the
\* finalizer does not remove it under them.
WorkspaceOutlivesUploads ==
    ~cancelled /\ lanePc # "dead" /\ (\E t \in running : t.kind = "upload") => workspace

\* Items enter the upload lane in track order, a re-ripped one again at its
\* own place, however far lane one has run ahead of the dispatcher.
LaneInItemOrder ==
    \A m, n \in 1 .. Len(dispatched) : m < n => dispatched[m] <= dispatched[n]

\* The dispatcher's buffer holds whatever lane one can send while an early
\* item is resolved: "buffer exhausted" is never reported.
BufferSuffices == fatal # "buffer"

\* The finalizer waits for a notification that was sent before it created
\* the future it waits on.
MissedWakeUp == finalPc = "wait" /\ ~woken /\ pendingUploads = 0

\* Lane one, the dispatcher, the download queue and the upload lane never
\* wait for each other: the job reports a result, unless its finalizer missed
\* the wake-up.
JobReports == <>(summary # "none" \/ MissedWakeUp)

\* "fresh job completes after gate release": every job reports a result.
EveryJobReports == <>(summary # "none")

\* The lanes stay sound however far lane one runs ahead (dispatch.rs): item
\* order is kept and no buffer overflows.
LanesSound == TypeOK /\ LaneInItemOrder /\ BufferSuffices

=============================================================================
