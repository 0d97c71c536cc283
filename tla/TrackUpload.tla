----------------------------- MODULE TrackUpload -----------------------------
(***************************************************************************)
(* Publication of ripped tracks: the upload lane of the engine             *)
(* (crates/engine/src/orchestrator/upload_lane.rs), that is the tasks      *)
(* enqueue_upload_task puts on the lane, upload_one, its rollbacks and     *)
(* deliver_sequenced, which copies the published messages to the chat in   *)
(* track order.                                                            *)
(*                                                                         *)
(* An upload publishes its file to the dump channel (a message), saves a   *)
(* row for the track in the database and delivers a copy to the chat of    *)
(* its job; each of these can fail, and the job can be cancelled between   *)
(* any two.  Uploads are numbered in the order they enter the lane, which  *)
(* starts them in that order and runs up to Concurrency of them at once;   *)
(* they belong to one or several jobs.  Dump channel, chat and database    *)
(* are external: only what upload_one does to them appears.                *)
(***************************************************************************)
EXTENDS Integers, FiniteSets, Sequences

CONSTANTS
    Job, Track,
    UploadCount,  \* uploads are 1 .. UploadCount
    JobOf,        \* the job of every upload
    TrackOf,      \* the track (id and codec) of every upload
    Index,        \* its track_index; 0 is None (a job with one track)
    MaxIndex,     \* total_tracks, the last track_index
    Primary,      \* the uploads of the Primary rendition, which are counted
    Delivers,     \* neither is_cache_only nor zip_deliver
    Forced,       \* the jobs of an administrator that asked to force
    Cached,       \* tracks some other job published meanwhile
    Concurrency,  \* upload_concurrency
    MaxRetries    \* upload_retry.retries

Upload == 1 .. UploadCount
NoMsg == <<"none", 0>>
Skip == <<"skip", 0>>           \* a None put into pending_deliveries
Absent == <<"absent", 0>>       \* no entry in pending_deliveries
Old(t) == <<"old", t>>          \* the message the other job published
New(u) == <<"new", u>>          \* the message upload u publishes
Msg == {Old(t) : t \in Track} \cup {New(u) : u \in Upload}
Slots == 1 .. MaxIndex + 1      \* track indices and the one after them

ASSUME UploadAssumption ==
    /\ UploadCount \in Nat
    /\ JobOf \in [Upload -> Job]
    /\ TrackOf \in [Upload -> Track]
    /\ MaxIndex \in Nat
    /\ Index \in [Upload -> 0 .. MaxIndex]
    /\ Primary \subseteq Upload
    /\ Delivers \in BOOLEAN
    /\ Forced \subseteq Job
    /\ Cached \subseteq Track
    /\ Concurrency \in Nat \ {0}
    /\ MaxRetries \in Nat

\* A job takes every track once (unique_tracks) in each of its renditions,
\* which differ in codec, and numbers its tracks when there are several; the
\* renditions of a track have the same number.
ASSUME PlaceAssumption ==
    \A u, v \in Upload : JobOf[u] = JobOf[v] =>
        /\ TrackOf[u] = TrackOf[v] => u = v
        /\ Index[u] = 0 <=> Index[v] = 0

VARIABLES
    pc,         \* where upload_one has got to, by upload
    frame,      \* the message and the call site of its deliver_sequenced
    sending,    \* the message a deliver_sequenced is copying
    attempt,    \* the attempt of the publication loop
    plain,      \* used_plain_caption
    cancelled,  \* job.is_cancelled, with its controller
    dump,       \* messages in the dump channel
    row,        \* the message the database has for a track
    pend,       \* ctx.pending_deliveries
    next,       \* ctx.next_deliver_index
    lock,       \* ctx.delivery_lock: the upload that holds it, or 0
    sent,       \* copies delivered to the job's chat, oldest first
    tally,      \* how an upload was counted in the job's summary
    residue     \* messages or rows a failed external call left behind

vars == <<pc, frame, sending, attempt, plain, cancelled, dump, row, pend, next, lock, sent,
          tally, residue>>
seqVars == <<pend, next, lock, sent, sending>>
storeVars == <<dump, row, residue>>

Pc == {"queued", "lookup", "insert", "acquire", "drain", "send", "direct", "stale", "hit",
       "publish", "posted", "saving", "retract", "saved", "rollback", "unrow", "confirm",
       "err", "errDone", "end"}
Site == {"pre", "post", "err", "last"}

TypeOK ==
    /\ pc \in [Upload -> Pc]
    /\ frame \in [Upload -> [msg : Msg \cup {Skip, NoMsg}, site : Site]]
    /\ sending \in [Upload -> Msg \cup {NoMsg}]
    /\ attempt \in [Upload -> 0 .. MaxRetries + 1]
    /\ plain \in [Upload -> BOOLEAN]
    /\ cancelled \in [Job -> BOOLEAN]
    /\ dump \subseteq Msg
    /\ row \in [Track -> Msg \cup {NoMsg}]
    /\ pend \in [Job -> [Slots -> Msg \cup {Skip, Absent}]]
    /\ next \in [Job -> Slots]
    /\ lock \in [Job -> 0 .. UploadCount]
    /\ sent \in [Job -> Seq(Msg)]
    /\ tally \in [Upload -> SUBSET {"ripped", "cached", "failed"}]
    /\ residue \subseteq Msg

\* The other job's message may have been deleted from the channel since.
Init ==
    /\ pc = [u \in Upload |-> "queued"]
    /\ frame = [u \in Upload |-> [msg |-> NoMsg, site |-> "last"]]
    /\ sending = [u \in Upload |-> NoMsg]
    /\ attempt = [u \in Upload |-> 0]
    /\ plain = [u \in Upload |-> FALSE]
    /\ cancelled = [j \in Job |-> FALSE]
    /\ \E live \in SUBSET Cached : dump = {Old(t) : t \in live}
    /\ row = [t \in Track |-> IF t \in Cached THEN Old(t) ELSE NoMsg]
    /\ pend = [j \in Job |-> [n \in Slots |-> Absent]]
    /\ next = [j \in Job |-> 1]
    /\ lock = [j \in Job |-> 0]
    /\ sent = [j \in Job |-> <<>>]
    /\ tally = [u \in Upload |-> {}]
    /\ residue = {}

-----------------------------------------------------------------------------
(* deliver_sequenced, called from four places of upload_one. *)

Stopped(u) == cancelled[JobOf[u]]
Goto(u, label) == pc' = [pc EXCEPT ![u] = label]
Count(u, how) == tally' = IF u \in Primary THEN [tally EXCEPT ![u] = @ \cup {how}] ELSE tally

\* Where upload_one goes on, by call site, after deliver_sequenced returned
\* Ok or an error; two of its callers ignore which.
AfterOk == [pre |-> "hit", post |-> "confirm", err |-> "errDone", last |-> "end"]
AfterErr == [pre |-> "stale", post |-> "err", err |-> "errDone", last |-> "end"]

\* The call: nothing to do for a ZIP or cache-only job, a direct copy for a
\* job with one track, and the sequencer for the others.
CallDeliver(u, msg, site) ==
    /\ frame' = [frame EXCEPT ![u] = [msg |-> msg, site |-> site]]
    /\ Goto(u, IF Delivers /\ Index[u] > 0 THEN "insert"
               ELSE IF Delivers /\ msg # Skip THEN "direct"
               ELSE AfterOk[site])

Insert(u) ==
    /\ pc[u] = "insert"
    /\ pend' = [pend EXCEPT ![JobOf[u]][Index[u]] = frame[u].msg]
    /\ Goto(u, "acquire")
    /\ UNCHANGED <<frame, sending, attempt, plain, cancelled, storeVars, next, lock, sent, tally>>

Acquire(u) ==
    /\ pc[u] = "acquire"
    /\ lock[JobOf[u]] = 0
    /\ lock' = [lock EXCEPT ![JobOf[u]] = u]
    /\ Goto(u, "drain")
    /\ UNCHANGED <<frame, sending, attempt, plain, cancelled, storeVars, pend, next, sent, tally>>

\* Mutant: the drain takes any message that is ready.
DrainAnyReady(u) ==
    LET j == JobOf[u] IN
    /\ pc[u] = "drain"
    /\ \/ \E n \in Slots :
             /\ pend[j][n] \in Msg
             /\ pend' = [pend EXCEPT ![j][n] = Absent]
             /\ sending' = [sending EXCEPT ![u] = pend[j][n]]
             /\ Goto(u, "send")
             /\ UNCHANGED <<next, lock>>
       \/ /\ \A n \in Slots : pend[j][n] \notin Msg
          /\ lock' = [lock EXCEPT ![j] = 0]
          /\ Goto(u, AfterOk[frame[u].site])
          /\ UNCHANGED <<pend, next, sending>>
    /\ UNCHANGED <<frame, attempt, plain, cancelled, storeVars, sent, tally>>

\* One turn of the drain loop under delivery_lock: take the next index's
\* message, step over a track that failed, or stop at one that is not ready.
Drain(u) ==
    LET j == JobOf[u]
        entry == pend[j][next[j]]
    IN  /\ pc[u] = "drain"
        /\ pend' = [pend EXCEPT ![j][next[j]] = Absent]
        /\ \/ /\ entry \in Msg
              /\ sending' = [sending EXCEPT ![u] = entry]
              /\ Goto(u, "send")
              /\ UNCHANGED <<next, lock>>
           \/ /\ entry = Skip
              /\ next' = [next EXCEPT ![j] = @ + 1]
              /\ UNCHANGED <<pc, sending, lock>>
           \/ /\ entry = Absent
              /\ lock' = [lock EXCEPT ![j] = 0]
              /\ Goto(u, AfterOk[frame[u].site])
              /\ UNCHANGED <<next, sending>>
        /\ UNCHANGED <<frame, attempt, plain, cancelled, storeVars, sent, tally>>

\* Mutant: next_deliver_index is not advanced after the copy.
SendOkKeepsPlace(u) ==
    LET j == JobOf[u] IN
    /\ pc[u] = "send"
    /\ sending[u] \in dump
    /\ sent' = [sent EXCEPT ![j] = Append(@, sending[u])]
    /\ sending' = [sending EXCEPT ![u] = NoMsg]
    /\ Goto(u, "drain")
    /\ UNCHANGED <<frame, attempt, plain, cancelled, storeVars, pend, next, lock, tally>>

\* The copy arrives and the sequencer moves on ...
SendOk(u) ==
    LET j == JobOf[u] IN
    /\ pc[u] = "send"
    /\ sending[u] \in dump
    /\ sent' = [sent EXCEPT ![j] = Append(@, sending[u])]
    /\ next' = [next EXCEPT ![j] = @ + 1]
    /\ sending' = [sending EXCEPT ![u] = NoMsg]
    /\ Goto(u, "drain")
    /\ UNCHANGED <<frame, attempt, plain, cancelled, storeVars, pend, lock, tally>>

\* ... or fails, and the error leaves deliver_sequenced with `?`.
SendFail(u) ==
    /\ pc[u] = "send"
    /\ lock' = [lock EXCEPT ![JobOf[u]] = 0]
    /\ sending' = [sending EXCEPT ![u] = NoMsg]
    /\ Goto(u, AfterErr[frame[u].site])
    /\ UNCHANGED <<frame, attempt, plain, cancelled, storeVars, pend, next, sent, tally>>

\* The copy of a job with one track.
Direct(u) ==
    /\ pc[u] = "direct"
    /\ \/ /\ frame[u].msg \in dump
          /\ sent' = [sent EXCEPT ![JobOf[u]] = Append(@, frame[u].msg)]
          /\ Goto(u, AfterOk[frame[u].site])
       \/ /\ Goto(u, AfterErr[frame[u].site])
          /\ UNCHANGED sent
    /\ UNCHANGED <<frame, sending, attempt, plain, cancelled, storeVars, pend, next, lock, tally>>

-----------------------------------------------------------------------------
(* upload_one. *)

\* The lane starts its tasks in order, as many as the semaphore admits.
Begin(u) ==
    /\ pc[u] = "queued"
    /\ \A v \in Upload : v < u => pc[v] # "queued"
    /\ Cardinality({v \in Upload : pc[v] \notin {"queued", "end"}}) < Concurrency
    /\ Goto(u, IF Stopped(u) THEN "end" ELSE IF JobOf[u] \in Forced THEN "publish" ELSE "lookup")
    /\ UNCHANGED <<frame, seqVars, attempt, plain, cancelled, storeVars, tally>>

\* The pre-upload cache lookup; one that fails counts as a miss.
Lookup(u) ==
    /\ pc[u] = "lookup"
    /\ \/ /\ row[TrackOf[u]] # NoMsg
          /\ IF Stopped(u)
             THEN Goto(u, "end") /\ UNCHANGED frame
             ELSE CallDeliver(u, row[TrackOf[u]], "pre")
       \/ /\ Goto(u, "publish")
          /\ UNCHANGED frame
    /\ UNCHANGED <<seqVars, attempt, plain, cancelled, storeVars, tally>>

\* The cached copy could not be delivered: drop the row and upload after all.
DropStaleRow(u) ==
    /\ pc[u] = "stale"
    /\ \/ row' = [row EXCEPT ![TrackOf[u]] = NoMsg]
       \/ UNCHANGED row
    /\ Goto(u, IF Stopped(u) THEN "end" ELSE "publish")
    /\ UNCHANGED <<frame, seqVars, attempt, plain, cancelled, dump, residue, tally>>

\* Mutant: a track served from the cache is uploaded all the same.
CacheHitFallsThrough(u) ==
    /\ pc[u] = "hit"
    /\ Count(u, "cached")
    /\ Goto(u, "publish")
    /\ UNCHANGED <<frame, seqVars, attempt, plain, cancelled, storeVars>>

CacheHit(u) ==
    /\ pc[u] = "hit"
    /\ IF Stopped(u) THEN UNCHANGED tally ELSE Count(u, "cached")
    /\ Goto(u, "end")
    /\ UNCHANGED <<frame, seqVars, attempt, plain, cancelled, storeVars>>

\* The locals of the publication loop are dead after it.
LeaveLoop(u) ==
    /\ attempt' = [attempt EXCEPT ![u] = 0]
    /\ plain' = [plain EXCEPT ![u] = FALSE]

\* The publication loop, one attempt: it stops when the job is cancelled
\* (which may abandon a publication the channel already accepted) ...
PublishStop(u) ==
    /\ pc[u] = "publish"
    /\ Stopped(u)
    /\ \/ UNCHANGED <<dump, residue>>
       \/ /\ attempt[u] <= MaxRetries
          /\ dump' = dump \cup {New(u)}
          /\ residue' = residue \cup {New(u)}
    /\ CallDeliver(u, Skip, "last")
    /\ LeaveLoop(u)
    /\ UNCHANGED <<seqVars, cancelled, row, tally>>

PublishOk(u) ==
    /\ pc[u] = "publish"
    /\ attempt[u] <= MaxRetries
    /\ dump' = dump \cup {New(u)}
    /\ Goto(u, "posted")
    /\ LeaveLoop(u)
    /\ UNCHANGED <<frame, seqVars, cancelled, row, residue, tally>>

\* ... a caption the channel rejects is replaced by a plain one, once ...
PublishPlain(u) ==
    /\ pc[u] = "publish"
    /\ attempt[u] <= MaxRetries
    /\ ~Stopped(u)
    /\ ~plain[u]
    /\ plain' = [plain EXCEPT ![u] = TRUE]
    /\ attempt' = [attempt EXCEPT ![u] = @ + 1]
    /\ UNCHANGED <<pc, frame, seqVars, cancelled, storeVars, tally>>

\* ... a transient error is retried while attempts are left ...
PublishRetry(u) ==
    /\ pc[u] = "publish"
    /\ attempt[u] < MaxRetries
    /\ ~Stopped(u)
    /\ attempt' = [attempt EXCEPT ![u] = @ + 1]
    /\ UNCHANGED <<pc, frame, seqVars, plain, cancelled, storeVars, tally>>

\* ... and any other error, or the last one, fails the track.
PublishFail(u) ==
    /\ pc[u] = "publish"
    /\ attempt[u] <= MaxRetries
    /\ ~Stopped(u)
    /\ Count(u, "failed")
    /\ CallDeliver(u, Skip, "last")
    /\ LeaveLoop(u)
    /\ UNCHANGED <<seqVars, cancelled, storeVars>>

\* The loop ran out of attempts without an outcome: the last one was spent
\* on the plain caption.
PublishNothing(u) ==
    /\ pc[u] = "publish"
    /\ attempt[u] > MaxRetries
    /\ CallDeliver(u, Skip, "last")
    /\ UNCHANGED <<seqVars, attempt, plain, cancelled, storeVars, tally>>

\* The task panicked in the publication: record_lane_task_panic.
PublishPanic(u) ==
    /\ pc[u] = "publish"
    /\ attempt[u] <= MaxRetries
    /\ tally' = [tally EXCEPT ![u] = @ \cup {"failed"}]
    /\ Goto(u, "end")
    /\ LeaveLoop(u)
    /\ UNCHANGED <<frame, seqVars, cancelled, storeVars>>

Posted(u) ==
    /\ pc[u] = "posted"
    /\ Goto(u, IF Stopped(u) THEN "retract" ELSE "saving")
    /\ UNCHANGED <<frame, seqVars, attempt, plain, cancelled, storeVars, tally>>

\* Mutant: a failed save leaves the message in the dump channel.
SaveFailKeepsMessage(u) ==
    /\ pc[u] = "saving"
    /\ \/ /\ row' = [row EXCEPT ![TrackOf[u]] = New(u)]
          /\ Goto(u, "saved")
       \/ /\ Goto(u, "err")
          /\ UNCHANGED row
    /\ UNCHANGED <<frame, seqVars, attempt, plain, cancelled, dump, residue, tally>>

\* save_track_with_retry: the row of the track now names this message.
Save(u) ==
    /\ pc[u] = "saving"
    /\ \/ /\ row' = [row EXCEPT ![TrackOf[u]] = New(u)]
          /\ Goto(u, "saved")
       \/ /\ Goto(u, "retract")
          /\ UNCHANGED row
    /\ UNCHANGED <<frame, seqVars, attempt, plain, cancelled, dump, residue, tally>>

\* retract_dump of a publication that has no row; a failure is only logged.
Retract(u) ==
    /\ pc[u] = "retract"
    /\ \/ /\ dump' = dump \ {New(u)}
          /\ UNCHANGED residue
       \/ /\ residue' = residue \cup {New(u)}
          /\ UNCHANGED dump
    /\ Goto(u, "err")
    /\ UNCHANGED <<frame, seqVars, attempt, plain, cancelled, row, tally>>

Saved(u) ==
    /\ pc[u] = "saved"
    /\ \/ /\ Stopped(u)
          /\ Goto(u, "rollback")
          /\ UNCHANGED frame
       \/ /\ ~Stopped(u)
          /\ CallDeliver(u, New(u), "post")
    /\ UNCHANGED <<seqVars, attempt, plain, cancelled, storeVars, tally>>

\* rollback_cancelled: retract the message, and if that worked ...
Rollback(u) ==
    /\ pc[u] = "rollback"
    /\ \/ /\ dump' = dump \ {New(u)}
          /\ Goto(u, "unrow")
          /\ UNCHANGED residue
       \/ /\ residue' = residue \cup {New(u)}
          /\ Goto(u, "err")
          /\ UNCHANGED dump
    /\ UNCHANGED <<frame, seqVars, attempt, plain, cancelled, row, tally>>

\* ... delete the track's row.
DeleteRow(u) ==
    /\ pc[u] = "unrow"
    /\ \/ /\ row' = [row EXCEPT ![TrackOf[u]] = NoMsg]
          /\ UNCHANGED residue
       \/ /\ residue' = residue \cup {New(u)}
          /\ UNCHANGED row
    /\ Goto(u, "err")
    /\ UNCHANGED <<frame, seqVars, attempt, plain, cancelled, dump, tally>>

Confirm(u) ==
    /\ pc[u] = "confirm"
    /\ \/ /\ Stopped(u)
          /\ Goto(u, "rollback")
          /\ UNCHANGED tally
       \/ /\ ~Stopped(u)
          /\ Count(u, "ripped")
          /\ Goto(u, "end")
    /\ UNCHANGED <<frame, seqVars, attempt, plain, cancelled, storeVars>>

\* The error branch: let the sequencer pass this track, then record it.
PostError(u) ==
    /\ pc[u] = "err"
    /\ CallDeliver(u, Skip, "err")
    /\ UNCHANGED <<seqVars, attempt, plain, cancelled, storeVars, tally>>

RecordFailure(u) ==
    /\ pc[u] = "errDone"
    /\ IF Stopped(u) THEN UNCHANGED tally ELSE Count(u, "failed")
    /\ Goto(u, "end")
    /\ UNCHANGED <<frame, seqVars, attempt, plain, cancelled, storeVars>>

CancelJob(j) ==
    /\ ~cancelled[j]
    /\ cancelled' = [cancelled EXCEPT ![j] = TRUE]
    /\ UNCHANGED <<pc, frame, seqVars, attempt, plain, storeVars, tally>>

DeliverSequenced(u) ==
    Insert(u) \/ Acquire(u) \/ Drain(u) \/ SendOk(u) \/ SendFail(u) \/ Direct(u)

Publish(u) ==
    \/ PublishStop(u) \/ PublishOk(u) \/ PublishPlain(u) \/ PublishRetry(u)
    \/ PublishFail(u) \/ PublishNothing(u) \/ PublishPanic(u)

PostUpload(u) ==
    \/ Posted(u) \/ Save(u) \/ Retract(u) \/ Saved(u) \/ Rollback(u) \/ DeleteRow(u)
    \/ Confirm(u) \/ PostError(u) \/ RecordFailure(u)

UploadOne(u) ==
    \/ Begin(u) \/ Lookup(u) \/ DropStaleRow(u) \/ CacheHit(u)
    \/ Publish(u) \/ PostUpload(u) \/ DeliverSequenced(u)

Next ==
    \/ \E u \in Upload : UploadOne(u)
    \/ \E j \in Job : CancelJob(j)

Spec == Init /\ [][Next]_vars

-----------------------------------------------------------------------------
(* Properties. *)

TrackOfMsg(m) == IF m[1] = "old" THEN m[2] ELSE TrackOf[m[2]]
Of(j) == {u \in Upload : JobOf[u] = j}
Ended(u) == pc[u] = "end"

\* deliver_sequenced: the copies of a job arrive in track order, although
\* uploads finish in any order and drain for each other, and although a
\* cached copy may be followed by a fresh upload.  A place of a list is served
\* once: of the two renditions that share it one is copied, the other is
\* overwritten in pending_deliveries or comes after the sequencer has passed.
\* A job with one track has no places and sends each rendition at most once.
InTrackOrder ==
    \A j \in Job : \A n, m \in 1 .. Len(sent[j]) : n < m =>
        \A u, v \in Of(j) :
            /\ TrackOfMsg(sent[j][n]) = TrackOf[u]
            /\ TrackOfMsg(sent[j][m]) = TrackOf[v]
            => Index[u] < Index[v] \/ (Index[u] = 0 /\ u # v)

\* The summary adds up: an upload that ended is counted once, as ripped, as
\* cached or as failed, over all the ways it can end, a panic included; only
\* a cancelled job, or a caption replaced in the last attempt (after which
\* the loop ends without an outcome), leaves one uncounted.
CountedOnce ==
    \A u \in Upload :
        /\ Cardinality(tally[u]) <= 1
        /\ u \in Primary /\ Ended(u) /\ ~Stopped(u) /\ ~plain[u] => tally[u] # {}

\* No other upload publishes the track of u: jobs are deduplicated by
\* target, not by track, so two of them may.
Alone(u) == \A v \in Upload : TrackOf[v] = TrackOf[u] => v = u

\* Every message a finished upload left in the dump channel is the one the
\* database names for its track, or an external call failed and was logged:
\* cancellation, a failed save and a failed delivery leak no publication
\* (a second upload of the track overwrites the row and does).
NoOrphanMessage ==
    \A u \in Upload : Alone(u) /\ Ended(u) /\ New(u) \in dump =>
        row[TrackOf[u]] = New(u) \/ New(u) \in residue

\* Once uploads have ended no row names a message they retracted, unless the
\* deletion of that row failed, whoever published the track last.
RowsPointToMessages ==
    \A t \in Track : \A u \in Upload :
        row[t] = New(u) /\ Ended(u) => New(u) \in dump \cup residue

\* A track counted as ripped has a row: what the summary calls ripped can be
\* served from the cache the next time (unless another job's rollback
\* deleted the row of the same track).
RippedIsCached ==
    \A u \in Upload : Alone(u) /\ "ripped" \in tally[u] => row[TrackOf[u]] # NoMsg

\* Draining is exclusive and the lock is given back on every path: whoever
\* waits for delivery_lock waits for an upload that is draining or sending,
\* never for one that returned.
OneDrainer ==
    /\ \A u \in Upload : pc[u] \in {"drain", "send"} => lock[JobOf[u]] = u
    /\ \A j \in Job : lock[j] # 0 => JobOf[lock[j]] = j /\ pc[lock[j]] \in {"drain", "send"}

\* "advance sequencer so subsequent tracks aren't blocked": when the uploads
\* of a job that was not cancelled have ended, no published track is left in
\* pending_deliveries.
NothingLeftBehind ==
    \A j \in Job : ~cancelled[j] /\ (\A u \in Of(j) : Ended(u)) =>
        \A n \in Slots : pend[j][n] \notin Msg

\* What the uploads leave in the dump channel, in the database, in the summary
\* and in the delivery lock agrees however they ended (upload_one, rollback, the
\* save).
DumpAndRowsAgree ==
    TypeOK /\ NoOrphanMessage /\ RowsPointToMessages /\ RippedIsCached /\ OneDrainer

=============================================================================
