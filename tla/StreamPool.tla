----------------------------- MODULE StreamPool -----------------------------
(***************************************************************************)
(* The pool of Telegram sessions that fetches chunks for HTTP streams      *)
(* (crates/stream/src/worker_pool.rs) and its circuit breaker              *)
(* (circuit_breaker.rs).                                                   *)
(*                                                                         *)
(* A fetch asks one worker at a time for one chunk: it waits for an RPC    *)
(* slot, picks a worker, waits for the worker's lock, sends the request    *)
(* and, depending on the answer, returns, retries or quarantines the       *)
(* worker, all within a number of attempts and a deadline.  Telegram is    *)
(* external: an answer is any of those the code tells apart.               *)
(*                                                                         *)
(* Time is a number of ticks.  It advances when no fetch can take a step:  *)
(* what the code does between two waits takes no time.  The cursor that    *)
(* breaks ties between equally loaded workers is a free choice.            *)
(***************************************************************************)
EXTENDS Integers, FiniteSets, FiniteSetsExt

CONSTANTS
    Fetch,              \* calls of fetch_chunk_with_budget
    Pools,              \* the sets of sessions the pool may be built with
    Primary, NoWorker,  \* the primary session (id usize::MAX); no session
    MaxFetchAttempts,   \* MAX_FETCH_ATTEMPTS
    ChunkFetchDeadline, RpcTimeout,  \* in ticks
    FloodSecs,          \* the waits a FloodWait answer may ask for
    Backoff,            \* retry_backoff, and the default wait of 500 ms
    LastStart           \* bound: no fetch starts later than this

\* Pools and calls are finite; waits and bounds are whole numbers of ticks, and a
\* fetch may make at least one attempt.
ASSUME PoolAssumption ==
    /\ IsFiniteSet(Fetch) /\ \A S \in Pools : IsFiniteSet(S)
    /\ NoWorker \notin {Primary} \cup UNION Pools
    /\ MaxFetchAttempts \in Nat \ {0}
    /\ ChunkFetchDeadline \in Nat /\ RpcTimeout \in Nat /\ Backoff \in Nat
    /\ FloodSecs \subseteq Nat /\ LastStart \in Nat

AnySession == UNION Pools
Answers == {"none", "ok", "expired", "flood", "network", "notInited", "migrate",
            "fatal", "timeout"}
Result == {"none", "ok", "expired", "fatal", "flood", "failed"}
HomeDc == 2                 \* where the document is; the hint may be wrong

VARIABLES
    session,    \* the sessions of this pool; never changes
    clock,
    fetch,      \* the locals of every fetch (see Local)
    dcId,       \* the dc_id its callers share
    slots,      \* free permits of rpc_slots
    locked,     \* sessions whose dc_lock is held
    inFlight,   \* in_flight, by session
    until,      \* end of the quarantine, by worker; 0 is Healthy
    leased      \* sessions an upload has leased; it outlasts the fetches

poolVars == <<session, clock, fetch, dcId, slots, locked, inFlight, until, leased>>

Worker == session \ {Primary}         \* one per STREAM_WORKER_BOT_TOKENS
HasPrimary == Primary \in session     \* primary_fallback.is_some()
TotalSlots == Cardinality(session)
Waiting == {"slot", "lock", "rpc", "sleep", "floodSleep"}
Running == Waiting \cup {"loop", "pick", "answered", "quarantined", "exit"}

Local == [
    pc : Running \cup {"idle", "done"},
    attempts : Nat,
    deadline : Nat,
    timer : Nat,                        \* its wait ends then
    pinned : AnySession \cup {NoWorker},   \* pinned_worker_id
    final : BOOLEAN,                    \* past the loop, with the primary
    tried : BOOLEAN,                    \* primary_attempted
    worker : AnySession \cup {NoWorker},   \* the one it has picked
    answer : Answers,                   \* of its last request
    flood : BOOLEAN,                    \* last_flood_wait is Some
    targetDc : 0 .. HomeDc,
    result : Result,
    primaryRpcs : Nat]                  \* history: requests to the primary

NotStarted ==
    [pc |-> "idle", attempts |-> 0, deadline |-> 0, timer |-> 0,
     pinned |-> NoWorker, final |-> FALSE, tried |-> FALSE, worker |-> NoWorker,
     answer |-> "none", flood |-> FALSE, targetDc |-> 0, result |-> "none",
     primaryRpcs |-> 0]

PoolInit ==
    /\ session \in Pools
    /\ clock = 0
    /\ fetch = [f \in Fetch |-> NotStarted]
    /\ dcId \in {1, HomeDc}
    /\ slots = TotalSlots
    /\ locked = {}
    /\ leased \in SUBSET Worker
    /\ inFlight = [s \in session |-> IF s \in leased THEN 1 ELSE 0]
    /\ until = [w \in Worker |-> 0]

----------------------------------------------------------------------------
(* The circuit breaker. *)

IsAvailable(w) == clock >= until[w]

QuarantineRemaining(w) == until[w] - clock

Quarantine(w, secs) == [until EXCEPT ![w] = clock + secs + 1]

RecordSuccess(w) == [until EXCEPT ![w] = 0]

(* Choice of a worker. *)

PickLeastLoaded ==
    {w \in Worker : /\ IsAvailable(w)
                    /\ \A v \in Worker : IsAvailable(v) => inFlight[w] <= inFlight[v]}

SelectWorkerForStream ==
    IF PickLeastLoaded # {} THEN PickLeastLoaded ELSE session \ Worker

Choice(f) ==
    IF fetch[f].pinned # NoWorker
    THEN {s \in {fetch[f].pinned} : s = Primary \/ IsAvailable(s)}
    ELSE IF PickLeastLoaded # {} THEN PickLeastLoaded
    ELSE IF fetch[f].tried THEN {} ELSE session \ Worker

\* How long a fetch that found no worker waits for one.
WorkerWait(f) ==
    LET mine == IF fetch[f].pinned # NoWorker THEN {fetch[f].pinned} ELSE Worker
        waits == {QuarantineRemaining(w) : w \in {v \in mine : ~IsAvailable(v)}}
    IN  IF waits = {} THEN Backoff ELSE Min(waits)

WorkerAttemptLimit(f) ==
    IF fetch[f].pinned = NoWorker /\ HasPrimary THEN MaxFetchAttempts - 1
                                                ELSE MaxFetchAttempts

Spent(f) == fetch[f].attempts >= WorkerAttemptLimit(f)

----------------------------------------------------------------------------
(* Steps of fetch_chunk_with_budget. *)

At(f, l) == fetch[f].pc = l

Due(f) == clock >= fetch[f].timer

Become(f, r) == fetch' = [fetch EXCEPT ![f] = r]

Goto(f, l) == [fetch[f] EXCEPT !.pc = l]

\* The locals go; what the properties count is kept.
Finished(f, r) ==
    [NotStarted EXCEPT !.pc = "done", !.result = r, !.attempts = fetch[f].attempts,
                       !.pinned = fetch[f].pinned,
                       !.primaryRpcs = fetch[f].primaryRpcs]

\* sleep_before_retry: not when the deadline comes first.
SleepOrLeave(f, delay, l) ==
    IF delay >= fetch[f].deadline - clock
    THEN Goto(f, "exit")
    ELSE [Goto(f, l) EXCEPT !.timer = clock + delay]

Start(f) ==
    /\ At(f, "idle")
    /\ clock <= LastStart
    /\ \E w \in {NoWorker} \cup SelectWorkerForStream :
          Become(f, [Goto(f, "loop") EXCEPT !.pinned = w, !.targetDc = dcId,
                                            !.deadline = clock + ChunkFetchDeadline])
    /\ UNCHANGED <<session, clock, dcId, slots, locked, inFlight, until, leased>>

Loop(f) ==
    /\ At(f, "loop")
    /\ Become(f, IF ~Spent(f) /\ clock < fetch[f].deadline
                 THEN [Goto(f, "slot") EXCEPT !.timer = fetch[f].deadline,
                                              !.answer = "none", !.worker = NoWorker]
                 ELSE Goto(f, "exit"))
    /\ UNCHANGED <<session, clock, dcId, slots, locked, inFlight, until, leased>>

TakeSlot(f) ==
    /\ At(f, "slot") /\ slots > 0
    /\ slots' = slots - 1
    /\ Become(f, Goto(f, "pick"))
    /\ UNCHANGED <<session, clock, dcId, locked, inFlight, until, leased>>

\* Where a wait for a slot or a lock goes when the deadline ends it.
TimedOut(f) == IF fetch[f].final THEN Finished(f, "failed") ELSE Goto(f, "exit")

SlotTimeout(f) ==
    /\ At(f, "slot") /\ Due(f)
    /\ Become(f, TimedOut(f))
    /\ UNCHANGED <<session, clock, dcId, slots, locked, inFlight, until, leased>>

Pick(f) ==
    /\ At(f, "pick")
    /\ \E s \in IF fetch[f].final THEN {Primary} ELSE Choice(f) :
          /\ Become(f, [Goto(f, "lock") EXCEPT !.worker = s,
                                               !.tried = @ \/ s = Primary,
                                               !.timer = fetch[f].deadline])
          /\ inFlight' = [inFlight EXCEPT ![s] = @ + 1]
    /\ UNCHANGED <<session, clock, dcId, slots, locked, until, leased>>

WaitForWorker(f) ==
    /\ At(f, "pick") /\ ~fetch[f].final /\ Choice(f) = {}
    /\ slots' = slots + 1
    /\ Become(f, SleepOrLeave(f, WorkerWait(f), "sleep"))
    /\ UNCHANGED <<session, clock, dcId, locked, inFlight, until, leased>>

Invoke(f) ==
    /\ At(f, "lock") /\ fetch[f].worker \notin locked
    /\ locked' = locked \cup {fetch[f].worker}
    /\ Become(f, [Goto(f, "rpc") EXCEPT
                     !.attempts = @ + 1,
                     !.timer = Min({clock + RpcTimeout, fetch[f].deadline}),
                     !.primaryRpcs = @ + IF fetch[f].worker = Primary THEN 1 ELSE 0])
    /\ UNCHANGED <<session, clock, dcId, slots, inFlight, until, leased>>

\* Mutant: the fetch that never got the lock keeps its slot.
LockTimeoutKeepsSlot(f) ==
    /\ At(f, "lock") /\ Due(f)
    /\ inFlight' = [inFlight EXCEPT ![fetch[f].worker] = @ - 1]
    /\ Become(f, TimedOut(f))
    /\ UNCHANGED <<session, clock, dcId, slots, locked, until, leased>>

LockTimeout(f) ==
    /\ At(f, "lock") /\ Due(f)
    /\ inFlight' = [inFlight EXCEPT ![fetch[f].worker] = @ - 1]
    /\ slots' = slots + 1
    /\ Become(f, TimedOut(f))
    /\ UNCHANGED <<session, clock, dcId, locked, until, leased>>

\* Telegram answers, or the request times out.  Lock, counter and slot are
\* given back before the answer is looked at.
Answer(f, a) ==
    /\ At(f, "rpc")
    /\ a = "timeout" => Due(f)
    /\ a = "migrate" => fetch[f].targetDc # HomeDc
    /\ fetch[f].targetDc # HomeDc => a \notin {"ok", "expired"}
    /\ locked' = locked \ {fetch[f].worker}
    /\ inFlight' = [inFlight EXCEPT ![fetch[f].worker] = @ - 1]
    /\ slots' = slots + 1
    /\ Become(f, [Goto(f, "answered") EXCEPT !.answer = a])
    /\ UNCHANGED <<session, clock, dcId, until, leased>>

Answered(f, as) == At(f, "answered") /\ fetch[f].answer \in as

HandleOk(f) ==
    /\ Answered(f, {"ok"})
    /\ until' = IF fetch[f].worker \in Worker THEN RecordSuccess(fetch[f].worker)
                                              ELSE until
    /\ Become(f, Finished(f, "ok"))
    /\ UNCHANGED <<session, clock, dcId, slots, locked, inFlight, leased>>

\* Answers that end the fetch at once; the last attempt retries nothing.
HandleFinal(f) ==
    /\ \/ Answered(f, {"expired", "fatal"}) /\ Become(f, Finished(f, fetch[f].answer))
       \/ /\ fetch[f].final
          /\ \/ Answered(f, {"notInited", "migrate"}) /\ Become(f, Finished(f, "fatal"))
             \/ Answered(f, {"flood"}) /\ Become(f, Finished(f, "flood"))
             \/ Answered(f, {"network", "timeout"}) /\ Become(f, Finished(f, "failed"))
    /\ UNCHANGED <<session, clock, dcId, slots, locked, inFlight, until, leased>>

HandleRetry(f) ==
    /\ Answered(f, {"timeout", "network", "notInited"}) /\ ~fetch[f].final
    /\ Become(f, [(IF Spent(f) THEN Goto(f, "exit")
                   ELSE SleepOrLeave(f, Backoff, "sleep")) EXCEPT !.flood = FALSE])
    /\ UNCHANGED <<session, clock, dcId, slots, locked, inFlight, until, leased>>

HandleMigration(f) ==
    /\ Answered(f, {"migrate"}) /\ ~fetch[f].final
    /\ dcId' = HomeDc
    /\ Become(f, [Goto(f, IF Spent(f) THEN "exit" ELSE "loop") EXCEPT
                     !.flood = FALSE, !.targetDc = HomeDc])
    /\ UNCHANGED <<session, clock, slots, locked, inFlight, until, leased>>

\* timer holds the wait Telegram asked for until the next step uses it.
HandleFlood(f, secs) ==
    /\ Answered(f, {"flood"}) /\ ~fetch[f].final
    /\ until' = IF fetch[f].worker \in Worker THEN Quarantine(fetch[f].worker, secs)
                                              ELSE until
    /\ Become(f, [Goto(f, IF Spent(f) THEN "exit" ELSE "quarantined") EXCEPT
                     !.flood = TRUE, !.timer = secs])
    /\ UNCHANGED <<session, clock, dcId, slots, locked, inFlight, leased>>

FloodWait(f) ==
    /\ At(f, "quarantined")
    /\ Become(f, IF \E w \in Worker : IsAvailable(w)
                 THEN Goto(f, "loop")
                 ELSE SleepOrLeave(f, fetch[f].timer + 1, "floodSleep"))
    /\ UNCHANGED <<session, clock, dcId, slots, locked, inFlight, until, leased>>

\* After its own flood wait the fetch declares the worker healthy again.
Wake(f) ==
    /\ At(f, "sleep") \/ At(f, "floodSleep")
    /\ Due(f)
    /\ until' = IF At(f, "floodSleep") /\ fetch[f].worker \in Worker
                THEN RecordSuccess(fetch[f].worker) ELSE until
    /\ Become(f, Goto(f, "loop"))
    /\ UNCHANGED <<session, clock, dcId, slots, locked, inFlight, leased>>

\* After the loop: one attempt with the primary session, if it is unused.
Leave(f) ==
    /\ At(f, "exit")
    /\ Become(f,
          IF /\ fetch[f].pinned = NoWorker /\ HasPrimary /\ ~fetch[f].tried
             /\ fetch[f].attempts < MaxFetchAttempts /\ clock < fetch[f].deadline
          THEN [Goto(f, "slot") EXCEPT !.final = TRUE, !.timer = fetch[f].deadline]
          ELSE Finished(f, IF fetch[f].flood THEN "flood" ELSE "failed"))
    /\ UNCHANGED <<session, clock, dcId, slots, locked, inFlight, until, leased>>

----------------------------------------------------------------------------
\* A fetch that can go on without time passing.
Ready(f) ==
    \/ fetch[f].pc \in Running \ Waiting
    \/ At(f, "slot") /\ slots > 0
    \/ At(f, "lock") /\ fetch[f].worker \notin locked
    \/ fetch[f].pc \in Waiting /\ Due(f)

ClockTick ==
    /\ \A f \in Fetch : ~Ready(f)
    /\ \E f \in Fetch : fetch[f].pc \in Running \/ (At(f, "idle") /\ clock < LastStart)
    /\ clock' = clock + 1
    /\ UNCHANGED <<session, fetch, dcId, slots, locked, inFlight, until, leased>>

FetchStep(f) ==
    \/ Loop(f) \/ TakeSlot(f) \/ SlotTimeout(f) \/ Pick(f) \/ WaitForWorker(f)
    \/ Invoke(f) \/ LockTimeout(f) \/ HandleOk(f) \/ HandleFinal(f)
    \/ HandleRetry(f) \/ HandleMigration(f) \/ FloodWait(f) \/ Wake(f) \/ Leave(f)
    \/ \E secs \in FloodSecs : HandleFlood(f, secs)

PoolNext ==
    \/ \E f \in Fetch : Start(f) \/ FetchStep(f) \/ \E a \in Answers \ {"none"} : Answer(f, a)
    \/ ClockTick

PoolSpec == PoolInit /\ [][PoolNext]_poolVars

----------------------------------------------------------------------------
PoolTypeOK ==
    /\ session \in Pools
    /\ clock \in Nat
    /\ fetch \in [Fetch -> Local]
    /\ dcId \in 1 .. HomeDc
    /\ slots \in Nat /\ locked \subseteq session
    /\ inFlight \in [session -> Nat] /\ until \in [Worker -> Nat]
    /\ leased \subseteq Worker

\* Whatever the workers answer and however long slots and locks are waited
\* for, a fetch is over when its deadline is (fetch_chunk_with_budget bounds
\* every wait by it).
EndsByDeadline ==
    \A f \in Fetch : fetch[f].pc \in Running => clock <= fetch[f].deadline

\* A fetch sends at most MAX_FETCH_ATTEMPTS requests, and, unless it is pinned
\* to it, at most one of them to the primary session: the fallback inside the
\* loop and the one after it exclude each other.
BudgetKept ==
    \A f \in Fetch : /\ fetch[f].attempts <= MaxFetchAttempts
                     /\ fetch[f].pinned # Primary => fetch[f].primaryRpcs <= 1

Holders(s, at) == {f \in Fetch : fetch[f].pc \in at /\ fetch[f].worker = s}

\* No exit of a fetch loses a permit: slots, worker locks and load counters
\* always belong to the fetches and leases under way, one request per session.
ResourcesReturned ==
    /\ slots + Cardinality({f \in Fetch : fetch[f].pc \in {"pick", "lock", "rpc"}})
          = TotalSlots
    /\ \A s \in session :
          /\ Cardinality(Holders(s, {"rpc"})) = (IF s \in locked THEN 1 ELSE 0)
          /\ inFlight[s] = Cardinality(Holders(s, {"lock", "rpc"}))
                           + (IF s \in leased THEN 1 ELSE 0)

\* What a fetch promises its stream and the pool (fetch_chunk_with_budget): it
\* ends in time, within its attempts, and keeps nothing of the pool.
FetchKeepsItsBounds ==
    PoolTypeOK /\ EndsByDeadline /\ BudgetKept /\ ResourcesReturned
=============================================================================
