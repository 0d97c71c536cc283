---------------------------- MODULE TelegramSink ----------------------------
(***************************************************************************)
(* Uploads to Telegram: FerogramTelegramSink (crates/bot/src/              *)
(* telegram_sink.rs) and the upload side of the worker pool                *)
(* (crates/stream/src/worker_pool.rs).                                     *)
(*                                                                         *)
(* An operation first takes one of the upload slots, as many as there are  *)
(* sessions.  A publication to the dump then leases a session for each     *)
(* attempt and uses the bot's own session when it gets none and for the    *)
(* last attempt; an archive or a cover for a chat always uses the bot's    *)
(* own.  A transfer is watched by monitor_upload: one that makes no        *)
(* progress for the stall timeout is dropped.  Dropping an operation       *)
(* drops what it holds, so what is held follows from where it is.          *)
(* Captions, file names, MIME types and thumbnails, whose failure is       *)
(* ignored, are left out.                                                  *)
(***************************************************************************)
EXTENDS Integers, Sequences, FiniteSets

CONSTANTS
    Op,          \* operations; each is used once
    Worker,      \* dedicated worker sessions
    Primary,     \* the bot's own session
    NoSession,
    MaxAttempts, \* MAX_UPLOAD_ATTEMPTS, 3
    Stall,       \* UPLOAD_STALL_TIMEOUT, 45 s
    MaxAcks      \* bound on the acknowledgements of one transfer

ASSUME SinkAssumption ==
    MaxAttempts \in Nat \ {0} /\ Stall \in Nat /\ MaxAcks \in Nat

VARIABLES
    op,          \* the operations
    slotQueue,   \* waiters of upload_slots, oldest first
    mainQueue,   \* waiters of primary_upload_slot
    slow,        \* sessions with slow_until in the future
    flooded,     \* workers the circuit breaker keeps out
    dump,        \* messages in the dump, per operation
    lost         \* history: accepted messages of attempts that failed for want of an answer

sinkVars == <<op, slotQueue, mainQueue, slow, flooded, dump, lost>>

Session == Worker \cup {Primary}
Kind == {"track", "zip", "chat"}
Holding == {"attempt", "main", "upload", "send"}
Quiescent == {"idle", "ok", "failed", "dropped"}

Operation == [at: Quiescent \cup Holding \cup {"slot"}, kind: Kind,
              attempt: 0 .. MaxAttempts - 1, session: Session \cup {NoSession},
              leased: BOOLEAN, acks: 0 .. MaxAcks, unseen: BOOLEAN,
              left: 0 .. Stall, still: 0 .. Stall]

SinkTypeOK ==
    /\ op \in [Op -> Operation]
    /\ slotQueue \in Seq(Op) /\ mainQueue \in Seq(Op)
    /\ slow \subseteq Session /\ flooded \subseteq Worker
    /\ dump \in [Op -> 0 .. MaxAttempts] /\ lost \in [Op -> 0 .. MaxAttempts]

Fresh(k, at) == [at |-> at, kind |-> k, attempt |-> 0, session |-> NoSession,
                 leased |-> FALSE, acks |-> 0, unseen |-> FALSE, left |-> 0, still |-> 0]

SinkInit ==
    /\ op = [o \in Op |-> Fresh("track", "idle")]
    /\ slotQueue = <<>> /\ mainQueue = <<>>
    /\ slow = {} /\ flooded = {}
    /\ dump = [o \in Op |-> 0] /\ lost = [o \in Op |-> 0]

\* The sessions that are uploading or sending, and those that may be taken:
\* a freed permit goes to the first waiter, so try_acquire gets none before it.
InUse == {op[o].session : o \in {p \in Op : op[p].at \in {"upload", "send"}}}
Slots == Cardinality(Session)   \* upload_session_count
TryAcquire(s) == s \notin InUse /\ (s = Primary => mainQueue = <<>>)

-----------------------------------------------------------------------------
(* publish_to_dump and deliver_to_chat. *)

\* A chat delivery of an archive or a cover; a chat id of 0 is refused before.
Request(o, k) ==
    /\ op[o].at = "idle"
    /\ op' = [op EXCEPT ![o] = Fresh(k, "slot")]
    /\ slotQueue' = Append(slotQueue, o)
    /\ UNCHANGED <<mainQueue, slow, flooded, dump, lost>>

\* A slot: a publication begins its attempts, or fails on the file (its size,
\* its duration, a file that cannot be read); a chat delivery waits for the
\* bot's own session.
TakeSlot(o) ==
    /\ slotQueue # <<>> /\ Head(slotQueue) = o
    /\ Cardinality({p \in Op : op[p].at \in Holding}) < Slots
    /\ slotQueue' = Tail(slotQueue)
    /\ \/ /\ op[o].kind = "chat"
          /\ op' = [op EXCEPT ![o].at = "main"] /\ mainQueue' = Append(mainQueue, o)
       \/ /\ op[o].kind # "chat"
          /\ op' = [op EXCEPT ![o].at = "attempt"] /\ UNCHANGED mainQueue
       \/ /\ op[o].kind = "track"
          /\ op' = [op EXCEPT ![o].at = "failed"] /\ UNCHANGED mainQueue
    /\ UNCHANGED <<slow, flooded, dump, lost>>

Begin(o, s, leased) ==
    op' = [op EXCEPT ![o] = [@ EXCEPT !.at = "upload", !.session = s, !.leased = leased,
                                      !.acks = 0, !.unseen = FALSE, !.left = Stall, !.still = 0]]

\* lease_upload_worker: any worker that is up, in the order of load, then the
\* bot's own session.
Leasable ==
    LET workers == {w \in Worker \ (slow \cup flooded) : TryAcquire(w)} IN
    IF workers # {} THEN workers
    ELSE {p \in {Primary} \ slow : TryAcquire(p)}

Lease(o) ==
    /\ op[o].at = "attempt" /\ op[o].attempt < MaxAttempts - 1
    /\ \E s \in Leasable : Begin(o, s, TRUE)
    /\ UNCHANGED <<slotQueue, mainQueue, slow, flooded, dump, lost>>

NoLease(o) ==
    /\ op[o].at = "attempt" /\ (op[o].attempt = MaxAttempts - 1 \/ Leasable = {})
    /\ op' = [op EXCEPT ![o].at = "main"]
    /\ mainQueue' = Append(mainQueue, o)
    /\ UNCHANGED <<slotQueue, slow, flooded, dump, lost>>

\* Mutant: the sink keeps the
\* semaphore of its constructor instead of the pool's.
TakeOwnMain(o) ==
    /\ mainQueue # <<>> /\ Head(mainQueue) = o
    /\ \A p \in Op : op[p].at \in {"upload", "send"} /\ op[p].session = Primary => op[p].leased
    /\ Begin(o, Primary, FALSE)
    /\ mainQueue' = Tail(mainQueue)
    /\ UNCHANGED <<slotQueue, slow, flooded, dump, lost>>

TakeMain(o) ==
    /\ mainQueue # <<>> /\ Head(mainQueue) = o /\ Primary \notin InUse
    /\ Begin(o, Primary, FALSE)
    /\ mainQueue' = Tail(mainQueue)
    /\ UNCHANGED <<slotQueue, slow, flooded, dump, lost>>

\* Mutant: a failed attempt is not counted.
RetryForever(o) ==
    op' = [op EXCEPT ![o] = [Fresh(@.kind, IF @.kind # "chat" THEN "attempt" ELSE "failed")
                                EXCEPT !.attempt = op[o].attempt]]

\* An attempt fails: the next one, or the operation's error.
Retry(o) ==
    op' = [op EXCEPT ![o] =
              IF @.kind # "chat" /\ @.attempt + 1 < MaxAttempts
              THEN [Fresh(@.kind, "attempt") EXCEPT !.attempt = op[o].attempt + 1]
              ELSE [Fresh(@.kind, "failed") EXCEPT !.attempt = op[o].attempt]]

\* A transfer that fails marks a leased session as slow.
FailUpload(o) ==
    /\ Retry(o)
    /\ slow' = IF op[o].leased THEN slow \cup {op[o].session} ELSE slow
    /\ UNCHANGED <<slotQueue, mainQueue, flooded, dump, lost>>

-----------------------------------------------------------------------------
(* monitor_upload. *)

Uploading(o) == op[o].at = "upload"

\* The transfer ends: acknowledged, refused, or with a byte count over the total.
UploadDone(o) ==
    /\ Uploading(o)
    /\ op' = [op EXCEPT ![o].at = "send"]
    /\ UNCHANGED <<slotQueue, mainQueue, slow, flooded, dump, lost>>

UploadFails(o) == Uploading(o) /\ FailUpload(o)

\* Bytes are acknowledged; the watcher sees them at its next tick or deadline.
Ack(o) ==
    /\ Uploading(o) /\ op[o].acks < MaxAcks
    /\ op' = [op EXCEPT ![o] = [op[o] EXCEPT !.acks = @ + 1, !.unseen = TRUE, !.still = 0]]
    /\ UNCHANGED <<slotQueue, mainQueue, slow, flooded, dump, lost>>

TimePasses(o) ==
    /\ Uploading(o) /\ op[o].left > 0
    /\ op' = [op EXCEPT ![o] = [op[o] EXCEPT !.left = @ - 1,
                                          !.still = IF @ < Stall THEN @ + 1 ELSE @]]
    /\ UNCHANGED <<slotQueue, mainQueue, slow, flooded, dump, lost>>

\* Progress since the last look moves the deadline.
Watched(o) == [op[o] EXCEPT !.unseen = FALSE, !.left = Stall]

Tick(o) ==
    /\ Uploading(o) /\ op[o].unseen
    /\ op' = [op EXCEPT ![o] = Watched(o)]
    /\ UNCHANGED <<slotQueue, mainQueue, slow, flooded, dump, lost>>

\* The deadline looks once more before it drops the transfer.
LastLook(o) == op[o].unseen

Deadline(o) ==
    /\ Uploading(o) /\ op[o].left = 0
    /\ \/ /\ LastLook(o)
          /\ op' = [op EXCEPT ![o] = Watched(o)]
          /\ UNCHANGED <<slotQueue, mainQueue, slow, flooded, dump, lost>>
       \/ ~ LastLook(o) /\ FailUpload(o)

-----------------------------------------------------------------------------
(* The message. *)

\* send_message: accepted and acknowledged; accepted, but answered with another
\* peer or without audio, which is an error of the operation; refused; or
\* accepted with the answer lost or late, which is an error of the attempt.
Send(o, answer) ==
    /\ op[o].at = "send"
    /\ dump' = [dump EXCEPT ![o] = IF op[o].kind # "chat" /\ answer # "refused"
                                   THEN @ + 1 ELSE @]
    /\ lost' = [lost EXCEPT ![o] = IF op[o].kind # "chat" /\ answer = "lost"
                                   THEN @ + 1 ELSE @]
    /\ \/ answer = "ok" /\ op' = [op EXCEPT ![o].at = "ok"]
       \/ answer = "odd" /\ op[o].kind # "chat" /\ op' = [op EXCEPT ![o].at = "failed"]
       \/ answer \in {"refused", "lost"} /\ Retry(o)
    /\ UNCHANGED <<slotQueue, mainQueue, slow, flooded>>

\* A waiter leaves the queue, wherever it stands in it.
Dequeued(q, o) ==
    LET i == CHOOSE j \in 1 .. Len(q) : q[j] = o IN
    IF \E j \in 1 .. Len(q) : q[j] = o
    THEN [j \in 1 .. Len(q) - 1 |-> IF j < i THEN q[j] ELSE q[j + 1]]
    ELSE q

\* The job is cancelled: the operation's future is dropped where it is.  A message
\* that was being sent to the dump may have been accepted.
Drop(o) ==
    /\ op[o].at \notin Quiescent
    /\ \/ UNCHANGED dump
       \/ /\ op[o].at = "send" /\ op[o].kind # "chat"
          /\ dump' = [dump EXCEPT ![o] = @ + 1]
    /\ op' = [op EXCEPT ![o] = [Fresh(@.kind, "dropped") EXCEPT !.attempt = op[o].attempt]]
    /\ slotQueue' = Dequeued(slotQueue, o)
    /\ mainQueue' = Dequeued(mainQueue, o)
    /\ UNCHANGED <<slow, flooded, lost>>

-----------------------------------------------------------------------------
(* The sessions: a slow mark ends after 120 s; the circuit breaker is the      *)
(* stream's (StreamPool).                                                      *)

SlowEnds(s) ==
    /\ s \in slow /\ slow' = slow \ {s}
    /\ UNCHANGED <<op, slotQueue, mainQueue, flooded, dump, lost>>

Quarantine(w) ==
    /\ flooded' = IF w \in flooded THEN flooded \ {w} ELSE flooded \cup {w}
    /\ UNCHANGED <<op, slotQueue, mainQueue, slow, dump, lost>>

-----------------------------------------------------------------------------
\* What the sink does by itself for an operation it has taken.
Step(o) ==
    \/ TakeSlot(o) \/ Lease(o) \/ NoLease(o) \/ TakeMain(o)
    \/ TimePasses(o) \/ Deadline(o)
    \/ \E answer \in {"ok", "odd", "refused", "lost"} : Send(o, answer)

SinkNext ==
    \/ \E o \in Op, k \in Kind : Request(o, k)
    \/ \E o \in Op : Step(o) \/ UploadDone(o) \/ UploadFails(o) \/ Ack(o) \/ Tick(o) \/ Drop(o)
    \/ \E s \in Session : SlowEnds(s)
    \/ \E w \in Worker : Quarantine(w)

SinkSpec == SinkInit /\ [][SinkNext]_sinkVars

\* Telegram's answer comes or times out, timers fire and freed permits are
\* handed on, whatever else happens.
FairSpec == SinkSpec /\ \A o \in Op : WF_sinkVars(Step(o))

-----------------------------------------------------------------------------
\* No session carries two transfers or publications at once, whether it was
\* leased from the pool or taken as the bot's own.
OneTransferPerSession ==
    \A o, p \in Op : /\ op[o].at \in {"upload", "send"} /\ op[p].at \in {"upload", "send"}
                     /\ op[o].session = op[p].session
                     => o = p

\* A retry leaves a message behind only when the answer to the one before was lost:
\* until the operation ends the dump holds its lost answers and no more, and at its
\* end one more at most, the one that was acknowledged, that was answered oddly or
\* that was being sent when the job was cancelled (publish_to_dump).
StrayMessagesAreLostAnswers ==
    \A o \in Op :
        /\ op[o].at \in {"ok", "failed", "dropped"} => dump[o] <= lost[o] + 1
        /\ op[o].at \notin {"ok", "failed", "dropped"} => dump[o] = lost[o]
        /\ op[o].at = "ok" /\ op[o].kind # "chat" => dump[o] = lost[o] + 1

\* A transfer the deadline would drop as stalled has had nothing acknowledged for
\* the whole timeout, whenever the watcher looked.
StallIsReal ==
    \A o \in Op : Uploading(o) /\ op[o].left = 0 /\ ~ LastLook(o) => op[o].still = Stall

\* Every operation ends, however many wait for the bot's own session.
Waits(o) == op[o].at = "slot"
IsOver(o) == op[o].at \in Quiescent
EveryOperationEnds == \A o \in Op : Waits(o) ~> IsOver(o)

\* What the sink promises the engine about its transfers and messages
\* (telegram_sink.rs, worker_pool.rs).
SinkIsExact ==
    SinkTypeOK /\ OneTransferPerSession /\ StrayMessagesAreLostAnswers /\ StallIsReal
=============================================================================
