---------------------------- MODULE ServerProofs ----------------------------
(***************************************************************************)
(* Proofs about the components behind the HTTP server and the stream:      *)
(* StreamPool, ServerTasks, Playlists and Sessions.  They share no state;  *)
(* each part has its own invariant, the lemmas for its steps, and its      *)
(* theorems.                                                               *)
(*                                                                         *)
(* Two facts carry the part on Sessions.  A cache entry ends at most       *)
(* CacheTtl after the session it stands for (CacheInv): the entry was      *)
(* either there when the session ended, or inserted by a request that      *)
(* verified the session in the same instant (RequestInv).  And the entry   *)
(* ends CacheTtl after the last slide, so that a hit never runs ahead of   *)
(* the row's expiry.                                                       *)
(***************************************************************************)
EXTENDS StreamPool, ServerTasks, Playlists, Sessions, FiniteSetTheorems, WellFoundedInduction,
        TLAPS

-----------------------------------------------------------------------------
(* StreamPool. *)

\* Where a fetch can be.
Labels == Running \cup {"idle", "done"}

\* What is known of a fetch wherever it is.
FetchInv(r) ==
    /\ r.pinned \in session \cup {NoWorker} /\ r.worker \in session \cup {NoWorker}
    /\ r.pc \in {"lock", "rpc", "answered"} => r.worker \in session
    /\ r.pc \in Running => clock <= r.deadline
    /\ r.pc \in Waiting => r.timer <= r.deadline
    /\ r.attempts <= MaxFetchAttempts
    /\ r.pc \in {"slot", "pick", "lock"} => r.attempts < MaxFetchAttempts
    /\ r.final => /\ HasPrimary /\ r.pinned = NoWorker
                  /\ r.pc \in {"slot", "pick", "lock", "rpc", "answered"}

\* The one request to the primary session.
PrimaryInv(r) ==
    /\ r.pc = "idle" => r.primaryRpcs = 0
    /\ r.pinned # Primary =>
        /\ r.primaryRpcs <= 1
        /\ r.pc # "done" /\ r.primaryRpcs = 1 => r.tried
        /\ r.pc = "lock" /\ r.worker = Primary => r.tried /\ r.primaryRpcs = 0
        /\ r.pc \in {"slot", "pick"} /\ r.final => ~r.tried

\* All that is known of one fetch.
Own(r) == r \in Local /\ FetchInv(r) /\ PrimaryInv(r)

\* The inductive invariant of the pool.
PoolInv ==
    /\ PoolTypeOK
    /\ \A f \in Fetch : FetchInv(fetch[f]) /\ PrimaryInv(fetch[f])
    /\ ResourcesReturned

-----------------------------------------------------------------------------
(* Numbers and sets. *)

\* The minimum of some numbers is one of them, and no other is smaller.
LEMMA MinOfNats ==
    ASSUME NEW S, S \subseteq Nat, S # {}
    PROVE  Min(S) \in S /\ \A y \in S : Min(S) <= y
<1>1. PICK x \in S : \A y \in S : ~ (<<y, x>> \in OpToRel(<, Nat))
  BY WFMin, NatLessThanWellFounded
<1>2. OpToRel(<, Nat) = {ss \in Nat \X Nat : ss[1] < ss[2]}
  BY Zenon DEF OpToRel
<1>3. PICK R : R = OpToRel(<, Nat)
  OBVIOUS
<1>4. \A y \in S : ~ (<<y, x>> \in R)
  BY <1>1, <1>3, Zenon
<1>5. R = {ss \in Nat \X Nat : ss[1] < ss[2]}
  BY <1>2, <1>3, Zenon
<1>6. \A y \in S : x <= y
  <2> SUFFICES ASSUME NEW y \in S PROVE x <= y
    OBVIOUS
  <2>1. <<y, x>> \notin R /\ x \in Nat /\ y \in Nat
    BY <1>4
  <2>2. ~ (<<y, x>>[1] < <<y, x>>[2])
    BY <1>5, <2>1
  <2> QED  BY <2>1, <2>2
<1> QED  BY <1>6 DEF Min

\* One element enters or leaves a finite set.
LEMMA OneMoves ==
    ASSUME NEW A, NEW B, NEW f, IsFiniteSet(A), B \ {f} = A \ {f}
    PROVE  /\ Cardinality(A) \in Nat /\ Cardinality(B) \in Nat
           /\ f \in A /\ f \in B => Cardinality(B) = Cardinality(A)
           /\ f \notin A /\ f \notin B => Cardinality(B) = Cardinality(A)
           /\ f \notin A /\ f \in B => Cardinality(B) = Cardinality(A) + 1
           /\ f \in A /\ f \notin B => Cardinality(B) = Cardinality(A) - 1
           /\ f \in A => Cardinality(A) >= 1
<1>1. Cardinality(A) \in Nat
  BY FS_CardinalityType
<1>2. /\ IsFiniteSet(A \cup {f}) /\ IsFiniteSet(A \ {f})
      /\ Cardinality(A \cup {f}) = IF f \in A THEN Cardinality(A) ELSE Cardinality(A) + 1
      /\ Cardinality(A \ {f}) = IF f \in A THEN Cardinality(A) - 1 ELSE Cardinality(A)
  BY FS_AddElement, FS_RemoveElement
<1>3. Cardinality(A \ {f}) \in Nat /\ Cardinality(A \cup {f}) \in Nat
  BY <1>2, FS_CardinalityType
<1>4. f \in B => B = A \cup {f}
  OBVIOUS
<1>5. f \notin B => B = A \ {f}
  OBVIOUS
<1>6. CASE f \in B
  <2>1. Cardinality(B) = Cardinality(A \cup {f})
    BY <1>4, <1>6
  <2> QED  BY <1>1, <1>2, <1>3, <1>6, <2>1
<1>7. CASE f \notin B
  <2>1. Cardinality(B) = Cardinality(A \ {f})
    BY <1>5, <1>7
  <2> QED  BY <1>1, <1>2, <1>3, <1>7, <2>1
<1> QED  BY <1>6, <1>7

-----------------------------------------------------------------------------
(* One fetch. *)

\* What the invariant says of one fetch alone.
LEMMA OwnOf ==
    ASSUME PoolInv, NEW f \in Fetch
    PROVE  Own(fetch[f])
BY DEF PoolInv, PoolTypeOK, Own

\* Become changes one fetch and no other.
LEMMA Became ==
    ASSUME PoolInv, NEW f \in Fetch, NEW q, Become(f, q)
    PROVE  /\ fetch'[f] = q
           /\ \A g \in Fetch \ {f} : fetch'[g] = fetch[g]
           /\ fetch' = [fetch EXCEPT ![f] = q]
BY DEF PoolInv, PoolTypeOK, Become

\* Which places are of a running fetch, and which have a timer.
LEMMA LabelSets ==
    /\ {"loop", "slot", "pick", "lock", "rpc", "sleep", "floodSleep", "answered", "quarantined",
        "exit"} \subseteq Running
    /\ {"loop", "slot", "pick", "lock", "rpc", "sleep", "floodSleep", "answered", "quarantined",
        "exit", "idle", "done"} \subseteq Labels
    /\ {"loop", "pick", "answered", "quarantined", "exit", "idle", "done"} \cap Waiting = {}
    /\ {"slot", "lock", "rpc", "sleep", "floodSleep"} = Waiting
    /\ {"idle", "done"} \cap Running = {}
    /\ Waiting \subseteq Running /\ Running \subseteq Labels
    /\ {"none", "ok", "expired", "flood", "network", "notInited", "migrate", "fatal", "timeout"}
          = Answers
    /\ {"none", "ok", "expired", "fatal", "flood", "failed"} = Result
BY DEF Running, Waiting, Labels, Answers, Result

\* The fields of a fetch have their types.
LEMMA LocalLabels ==
    ASSUME NEW r \in Local
    PROVE  /\ r.pc \in Labels /\ r.attempts \in Nat /\ r.deadline \in Nat /\ r.timer \in Nat
           /\ r.final \in BOOLEAN /\ r.tried \in BOOLEAN /\ r.flood \in BOOLEAN
           /\ r.primaryRpcs \in Nat
BY DEF Local, Labels

\* Moving on keeps the types.
LEMMA GotoLocal ==
    ASSUME NEW r \in Local, NEW l \in Labels, NEW t \in Nat
    PROVE  [r EXCEPT !.pc = l] \in Local /\ [r EXCEPT !.pc = l, !.timer = t] \in Local
BY DEF Local, Labels

\* A step outside the last attempt to a place where nothing is held.
LEMMA GotoOwn ==
    ASSUME PoolInv, NEW f \in Fetch, fetch[f].pc \in Running, ~fetch[f].final,
           NEW l \in {"exit", "loop", "quarantined"}
    PROVE  Own(Goto(f, l))
<1>1. PICK r : r = fetch[f] /\ Own(r) /\ r.pc \in Running /\ ~r.final
  BY OwnOf
<1>2. PICK q : q = [r EXCEPT !.pc = l]
  OBVIOUS
<1>3. q \in Local
  BY <1>1, <1>2, GotoLocal, LabelSets DEF Own
<1>4. FetchInv(q)
  BY <1>1, <1>2, LabelSets, LocalLabels DEF Own, FetchInv, Local
<1>5. PrimaryInv(q)
  BY <1>1, <1>2, LabelSets, LocalLabels DEF Own, FetchInv, PrimaryInv, Local
<1> QED  BY <1>1, <1>2, <1>3, <1>4, <1>5 DEF Goto, Own

\* A sleep that the deadline allows ends before it.
LEMMA SleepOwn ==
    ASSUME PoolInv, NEW f \in Fetch, fetch[f].pc \in Running, ~fetch[f].final,
           NEW l \in {"sleep", "floodSleep"}, NEW delay \in Nat
    PROVE  /\ Own(SleepOrLeave(f, delay, l))
           /\ SleepOrLeave(f, delay, l).pc \in {"exit", l}
<1>1. PICK r : r = fetch[f] /\ Own(r) /\ r.pc \in Running /\ ~r.final
  BY OwnOf
<1>0. clock \in Nat
  BY DEF PoolInv, PoolTypeOK
<1>2. CASE delay >= fetch[f].deadline - clock
  <2>1. SleepOrLeave(f, delay, l) = Goto(f, "exit")
    BY <1>2 DEF SleepOrLeave
  <2>2. Goto(f, "exit").pc = "exit"
    BY <1>1 DEF Own, Goto, Local
  <2> QED  BY <2>1, <2>2, GotoOwn
<1>3. CASE ~(delay >= fetch[f].deadline - clock)
  <2>1. PICK q : q = [r EXCEPT !.pc = l, !.timer = clock + delay]
    OBVIOUS
  <2>2. SleepOrLeave(f, delay, l) = q
    BY <1>1, <1>3, <2>1 DEF SleepOrLeave, Goto
  <2>3. clock + delay \in Nat /\ clock + delay <= r.deadline
    BY <1>0, <1>1, <1>3, LocalLabels DEF Own
  <2>4. q \in Local
    BY <1>1, <2>1, <2>3, GotoLocal, LabelSets DEF Own
  <2>5. FetchInv(q)
    BY <1>1, <2>1, <2>3, LabelSets, LocalLabels DEF Own, FetchInv, Local
  <2>6. PrimaryInv(q)
    BY <1>1, <2>1, LabelSets, LocalLabels DEF Own, FetchInv, PrimaryInv, Local
  <2>7. q.pc = l
    BY <1>1, <2>1 DEF Own, Local
  <2> QED  BY <2>2, <2>4, <2>5, <2>6, <2>7 DEF Own
<1> QED  BY <1>2, <1>3

\* A fetch that is over holds nothing.
LEMMA FinishedOwn ==
    ASSUME PoolInv, NEW f \in Fetch, NEW x \in Result
    PROVE  Own(Finished(f, x)) /\ Finished(f, x).pc = "done"
<1>1. PICK r : r = fetch[f] /\ Own(r)
  BY OwnOf
<1>2. PICK q : q = [NotStarted EXCEPT !.pc = "done", !.result = x, !.attempts = r.attempts,
                                      !.pinned = r.pinned, !.primaryRpcs = r.primaryRpcs]
  OBVIOUS
<1>3. q = [pc |-> "done", attempts |-> r.attempts, deadline |-> 0, timer |-> 0,
           pinned |-> r.pinned, final |-> FALSE, tried |-> FALSE, worker |-> NoWorker,
           answer |-> "none", flood |-> FALSE, targetDc |-> 0, result |-> x,
           primaryRpcs |-> r.primaryRpcs]
  BY <1>2 DEF NotStarted
<1>4. q \in Local
  <2>1. "done" \in Labels /\ "none" \in Answers /\ 0 \in 0 .. HomeDc
    BY LabelSets DEF HomeDc
  <2>2. r.attempts \in Nat /\ r.primaryRpcs \in Nat /\ r.pinned \in AnySession \cup {NoWorker}
    BY <1>1 DEF Own, Local
  <2> QED  BY <1>3, <2>1, <2>2 DEF Local, Labels
<1>5. FetchInv(q)
  BY <1>1, <1>3, LabelSets DEF Own, FetchInv
<1>6. PrimaryInv(q)
  <2>1. r.pinned # Primary => r.primaryRpcs <= 1
    BY <1>1 DEF Own, PrimaryInv
  <2> QED  BY <1>3, <2>1 DEF PrimaryInv
<1> QED  BY <1>1, <1>2, <1>3, <1>4, <1>5, <1>6 DEF Finished, Own

-----------------------------------------------------------------------------
(* Every step leaves a fetch in a place the invariant knows. *)

\* The selection of a worker names sessions of the pool, the primary only untried.
LEMMA ChoiceInSession ==
    ASSUME PoolInv, NEW f \in Fetch
    PROVE  /\ PickLeastLoaded \subseteq Worker /\ SelectWorkerForStream \subseteq session
           /\ Choice(f) \subseteq session
           /\ fetch[f].pinned # Primary /\ Primary \in Choice(f) => ~fetch[f].tried
           /\ \A s \in session : s # NoWorker
<1>1. FetchInv(fetch[f]) /\ session \in Pools
  BY DEF PoolInv, PoolTypeOK
<1>2. PickLeastLoaded \subseteq Worker /\ SelectWorkerForStream \subseteq session
  BY DEF PickLeastLoaded, SelectWorkerForStream, Worker
<1>3. Choice(f) \subseteq session
  BY <1>1, <1>2 DEF Choice, FetchInv, Worker
<1>4. fetch[f].pinned # Primary /\ Primary \in Choice(f) => ~fetch[f].tried
  BY <1>2 DEF Choice, Worker
<1>5. \A s \in session : s # NoWorker
  BY <1>1, PoolAssumption
<1> QED  BY <1>2, <1>3, <1>4, <1>5

\* A fetch starts with its deadline ahead and no attempt.
LEMMA StartOwn ==
    ASSUME PoolInv, NEW f \in Fetch, Start(f)
    PROVE  Own(fetch'[f]) /\ fetch'[f].pc = "loop"
<1>1. PICK r : r = fetch[f] /\ Own(r) /\ r.pc = "idle"
  BY OwnOf DEF Start, At
<1>2. PICK w \in {NoWorker} \cup SelectWorkerForStream :
         Become(f, [Goto(f, "loop") EXCEPT !.pinned = w, !.targetDc = dcId,
                                           !.deadline = clock + ChunkFetchDeadline])
  BY DEF Start
<1>3. PICK q : q = [r EXCEPT !.pc = "loop", !.pinned = w, !.targetDc = dcId,
                             !.deadline = clock + ChunkFetchDeadline]
  OBVIOUS
<1>4. fetch'[f] = q
  BY <1>1, <1>2, <1>3, Became DEF Goto
<1>5. /\ w \in session \cup {NoWorker} /\ w \in AnySession \cup {NoWorker}
      /\ dcId \in 0 .. HomeDc /\ clock + ChunkFetchDeadline \in Nat
      /\ clock <= clock + ChunkFetchDeadline
  BY ChoiceInSession, PoolAssumption DEF PoolInv, PoolTypeOK, AnySession, HomeDc
<1>6. q \in Local
  BY <1>1, <1>3, <1>5, LabelSets DEF Own, Local, Labels
<1>7. FetchInv(q)
  BY <1>1, <1>3, <1>5, LabelSets, LocalLabels DEF Own, FetchInv, Local
<1>8. PrimaryInv(q)
  BY <1>1, <1>3, LabelSets, LocalLabels DEF Own, FetchInv, PrimaryInv, Local
<1> QED  BY <1>1, <1>3, <1>4, <1>6, <1>7, <1>8 DEF Own, Local

\* The loop goes round only before the deadline and below the attempt limit.
LEMMA LoopOwn ==
    ASSUME PoolInv, NEW f \in Fetch, Loop(f)
    PROVE  Own(fetch'[f]) /\ fetch'[f].pc \in {"slot", "exit"}
<1>1. PICK r : r = fetch[f] /\ Own(r) /\ r.pc = "loop" /\ ~r.final
  BY OwnOf DEF Loop, At, Own, FetchInv
<1>2. CASE ~(~Spent(f) /\ clock < fetch[f].deadline)
  <2>1. fetch'[f] = Goto(f, "exit")
    BY <1>2, Became DEF Loop
  <2>2. Own(Goto(f, "exit"))
    BY <1>1, GotoOwn, LabelSets
  <2> QED  BY <1>1, <2>1, <2>2 DEF Goto, Own, Local
<1>3. CASE ~Spent(f) /\ clock < fetch[f].deadline
  <2>1. PICK q : q = [r EXCEPT !.pc = "slot", !.timer = r.deadline, !.answer = "none",
                               !.worker = NoWorker]
    OBVIOUS
  <2>2. fetch'[f] = q
    BY <1>1, <1>3, <2>1, Became DEF Loop, Goto
  <2>3. r.attempts < MaxFetchAttempts
    BY <1>1, <1>3, PoolAssumption, LocalLabels DEF Spent, WorkerAttemptLimit, Own
  <2>4. q \in Local
    BY <1>1, <2>1, LabelSets, ZenonT(60) DEF Own, Local, Labels
  <2>5. FetchInv(q)
    BY <1>1, <2>1, <2>3, LabelSets, LocalLabels DEF Own, FetchInv, Local
  <2>6. PrimaryInv(q)
    BY <1>1, <2>1, LabelSets, LocalLabels DEF Own, FetchInv, PrimaryInv, Local
  <2> QED  BY <1>1, <2>1, <2>2, <2>4, <2>5, <2>6 DEF Own, Local
<1> QED  BY <1>2, <1>3

\* Taking a slot keeps what is known of the fetch.
LEMMA TakeSlotOwn ==
    ASSUME PoolInv, NEW f \in Fetch, TakeSlot(f)
    PROVE  Own(fetch'[f]) /\ fetch'[f].pc = "pick"
<1>1. PICK r : r = fetch[f] /\ Own(r) /\ r.pc = "slot"
  BY OwnOf DEF TakeSlot, At
<1>2. PICK q : q = [r EXCEPT !.pc = "pick"]
  OBVIOUS
<1>3. fetch'[f] = q
  BY <1>1, <1>2, Became DEF TakeSlot, Goto
<1>4. q \in Local
  BY <1>1, <1>2, GotoLocal, LabelSets DEF Own
<1>5. FetchInv(q)
  BY <1>1, <1>2, LabelSets, LocalLabels DEF Own, FetchInv, Local
<1>6. PrimaryInv(q)
  BY <1>1, <1>2, LabelSets, LocalLabels DEF Own, PrimaryInv, Local
<1> QED  BY <1>1, <1>2, <1>3, <1>4, <1>5, <1>6 DEF Own, Local

\* A fetch that runs out of time leaves, or ends on its last attempt.
LEMMA TimedOutOwn ==
    ASSUME PoolInv, NEW f \in Fetch, fetch[f].pc \in Running
    PROVE  Own(TimedOut(f)) /\ TimedOut(f).pc \in {"done", "exit"}
<1>1. CASE fetch[f].final
  BY <1>1, FinishedOwn, LabelSets DEF TimedOut
<1>2. CASE ~fetch[f].final
  <2>1. Goto(f, "exit").pc = "exit"
    BY OwnOf DEF Own, Goto, Local
  <2> QED  BY <1>2, <2>1, GotoOwn DEF TimedOut
<1> QED  BY <1>1, <1>2

\* Picking a session counts the attempt on the primary once.
LEMMA PickOwn ==
    ASSUME PoolInv, NEW f \in Fetch, NEW s \in session, At(f, "pick"),
           IF fetch[f].final THEN s = Primary ELSE s \in Choice(f),
           Become(f, [Goto(f, "lock") EXCEPT !.worker = s, !.tried = @ \/ s = Primary,
                                             !.timer = fetch[f].deadline])
    PROVE  Own(fetch'[f]) /\ fetch'[f].pc = "lock" /\ fetch'[f].worker = s
<1>1. PICK r : r = fetch[f] /\ Own(r) /\ r.pc = "pick"
  BY OwnOf DEF At
<1>2. PICK b \in BOOLEAN : b = (r.tried \/ s = Primary)
  OBVIOUS
<1>3. PICK q : q = [r EXCEPT !.pc = "lock", !.worker = s, !.tried = b, !.timer = r.deadline]
  OBVIOUS
<1>4. [Goto(f, "lock") EXCEPT !.worker = s, !.tried = @ \/ s = Primary,
                              !.timer = fetch[f].deadline] = q
  BY <1>1, <1>2, <1>3 DEF Goto, Own, Local
<1>5. fetch'[f] = q
  BY <1>4, Became
<1>6. s \in AnySession
  BY DEF PoolInv, PoolTypeOK, AnySession
<1>7. q \in Local
  BY <1>1, <1>3, <1>6, LabelSets, ZenonT(60) DEF Own, Local, Labels
<1>8. FetchInv(q)
  BY <1>1, <1>3, LabelSets, LocalLabels DEF Own, FetchInv, Local
<1>9. PrimaryInv(q)
  <2>1. r.pinned # Primary /\ s = Primary => ~r.tried
    BY <1>1, ChoiceInSession DEF Own, PrimaryInv
  <2>2. q.pc = "lock" /\ q.worker = s /\ q.tried = b /\ q.pinned = r.pinned
        /\ q.primaryRpcs = r.primaryRpcs /\ r.primaryRpcs \in Nat
    BY <1>1, <1>3 DEF Own, Local
  <2>3. r.pinned # Primary => r.primaryRpcs <= 1 /\ (r.primaryRpcs = 1 => r.tried)
    BY <1>1 DEF Own, PrimaryInv
  <2>4. r.pinned # Primary /\ s = Primary => r.primaryRpcs = 0
    BY <2>1, <2>2, <2>3
  <2>5. (s = Primary => q.tried) /\ (r.tried => q.tried)
    BY <1>2, <2>2
  <2> QED  BY <2>2, <2>3, <2>4, <2>5 DEF PrimaryInv
<1> QED  BY <1>1, <1>3, <1>5, <1>7, <1>8, <1>9 DEF Own, Local

\* The wait for a worker is a number of ticks.
LEMMA WorkerWaitNat ==
    ASSUME PoolInv, NEW f \in Fetch, ~fetch[f].final, Choice(f) = {}
    PROVE  WorkerWait(f) \in Nat
<1> DEFINE mine == IF fetch[f].pinned # NoWorker THEN {fetch[f].pinned} ELSE Worker
           waits == {QuarantineRemaining(w) : w \in {v \in mine : ~IsAvailable(v)}}
<1>1. FetchInv(fetch[f]) /\ clock \in Nat /\ until \in [Worker -> Nat]
  BY DEF PoolInv, PoolTypeOK
<1>2. mine \subseteq Worker
  <2>1. CASE fetch[f].pinned # NoWorker
    <3>1. fetch[f].pinned # Primary
      BY <2>1 DEF Choice
    <3> QED  BY <1>1, <2>1, <3>1 DEF FetchInv, Worker
  <2> QED  BY <2>1
<1>3. waits \subseteq Nat
  BY <1>1, <1>2 DEF QuarantineRemaining, IsAvailable
<1>4. waits # {} => Min(waits) \in Nat
  <2> HIDE DEF waits
  <2> QED  BY <1>3, MinOfNats
<1>5. WorkerWait(f) = IF waits = {} THEN Backoff ELSE Min(waits)
  BY DEF WorkerWait
<1> HIDE DEF waits
<1> QED  BY <1>4, <1>5, PoolAssumption

\* Waiting for a worker that is quarantined keeps to the deadline.
LEMMA WaitForWorkerOwn ==
    ASSUME PoolInv, NEW f \in Fetch, WaitForWorker(f)
    PROVE  Own(fetch'[f]) /\ fetch'[f].pc \in {"exit", "sleep"}
<1>1. fetch[f].pc \in Running /\ ~fetch[f].final /\ Choice(f) = {}
  BY LabelSets DEF WaitForWorker, At
<1>2. PICK d \in Nat : d = WorkerWait(f)
  BY <1>1, WorkerWaitNat
<1>3. fetch'[f] = SleepOrLeave(f, d, "sleep")
  BY <1>2, Became DEF WaitForWorker
<1>4. Own(SleepOrLeave(f, d, "sleep")) /\ SleepOrLeave(f, d, "sleep").pc \in {"exit", "sleep"}
  BY <1>1, SleepOwn
<1> QED  BY <1>3, <1>4

\* The timeout of a request ends no later than the deadline.
LEMMA InvokeOwn ==
    ASSUME PoolInv, NEW f \in Fetch, Invoke(f)
    PROVE  Own(fetch'[f]) /\ fetch'[f].pc = "rpc" /\ fetch'[f].worker = fetch[f].worker
<1>1. PICK r : r = fetch[f] /\ Own(r) /\ r.pc = "lock"
  BY OwnOf DEF Invoke, At
<1>2. PICK t : t = Min({clock + RpcTimeout, r.deadline})
  OBVIOUS
<1>3. t \in Nat /\ t <= r.deadline
  <2>1. {clock + RpcTimeout, r.deadline} \subseteq Nat
    BY <1>1, PoolAssumption, LocalLabels DEF PoolInv, PoolTypeOK, Own
  <2>2. t \in {clock + RpcTimeout, r.deadline} /\ \A y \in {clock + RpcTimeout, r.deadline} : t <= y
    BY <1>2, <2>1, MinOfNats
  <2> QED  BY <2>1, <2>2
<1>4. PICK n \in {0, 1} : n = IF r.worker = Primary THEN 1 ELSE 0
  OBVIOUS
<1>5. PICK q : q = [r EXCEPT !.pc = "rpc", !.attempts = r.attempts + 1, !.timer = t,
                             !.primaryRpcs = r.primaryRpcs + n]
  OBVIOUS
<1>6. fetch'[f] = q
  <2>1. [Goto(f, "rpc") EXCEPT
             !.attempts = @ + 1,
             !.timer = Min({clock + RpcTimeout, fetch[f].deadline}),
             !.primaryRpcs = @ + IF fetch[f].worker = Primary THEN 1 ELSE 0] = q
    BY <1>1, <1>2, <1>4, <1>5 DEF Goto, Own, Local
  <2> QED  BY <2>1, Became DEF Invoke
<1>7. r.attempts + 1 \in Nat /\ r.primaryRpcs + n \in Nat /\ r.attempts + 1 <= MaxFetchAttempts
  BY <1>1, <1>4, LocalLabels, PoolAssumption DEF Own, FetchInv
<1>8. q \in Local
  BY <1>1, <1>3, <1>5, <1>7, LabelSets DEF Own, Local, Labels
<1>9. FetchInv(q)
  BY <1>1, <1>3, <1>5, <1>7, LabelSets, LocalLabels DEF Own, FetchInv, Local
<1>10. PrimaryInv(q)
  <2>1. q.pc = "rpc" /\ q.worker = r.worker /\ q.tried = r.tried /\ q.pinned = r.pinned
        /\ q.primaryRpcs = r.primaryRpcs + n /\ r.primaryRpcs \in Nat
    BY <1>1, <1>5 DEF Own, Local
  <2>2. r.pinned # Primary =>
           /\ r.primaryRpcs <= 1 /\ (r.primaryRpcs = 1 => r.tried)
           /\ (r.worker = Primary => r.tried /\ r.primaryRpcs = 0)
    BY <1>1 DEF Own, PrimaryInv
  <2> QED  BY <1>4, <2>1, <2>2 DEF PrimaryInv
<1> QED  BY <1>1, <1>5, <1>6, <1>8, <1>9, <1>10 DEF Own, Local

\* An answer leaves the session and the deadline as they are.
LEMMA AnswerOwn ==
    ASSUME PoolInv, NEW f \in Fetch, NEW a \in Answers, Answer(f, a)
    PROVE  Own(fetch'[f]) /\ fetch'[f].pc = "answered"
<1>1. PICK r : r = fetch[f] /\ Own(r) /\ r.pc = "rpc"
  BY OwnOf DEF Answer, At
<1>2. PICK q : q = [r EXCEPT !.pc = "answered", !.answer = a]
  OBVIOUS
<1>3. fetch'[f] = q
  BY <1>1, <1>2, Became DEF Answer, Goto
<1>4. q \in Local
  BY <1>1, <1>2, LabelSets, ZenonT(60) DEF Own, Local, Labels
<1>5. FetchInv(q)
  BY <1>1, <1>2, LabelSets, LocalLabels DEF Own, FetchInv, Local
<1>6. PrimaryInv(q)
  BY <1>1, <1>2, LabelSets, LocalLabels DEF Own, PrimaryInv, Local
<1> QED  BY <1>1, <1>2, <1>3, <1>4, <1>5, <1>6 DEF Own, Local

\* A chunk, or any answer of the last attempt, ends the fetch.
LEMMA HandleFinalOwn ==
    ASSUME PoolInv, NEW f \in Fetch, HandleFinal(f) \/ HandleOk(f)
    PROVE  Own(fetch'[f]) /\ fetch'[f].pc = "done"
<1>1. PICK x \in Result : Become(f, Finished(f, x))
  BY LabelSets DEF HandleFinal, HandleOk, Answered
<1> QED  BY <1>1, Became, FinishedOwn

\* The flag last_flood_wait matters to no part of the invariant.
LEMMA FloodFlag ==
    ASSUME NEW r, Own(r), NEW b \in BOOLEAN
    PROVE  Own([r EXCEPT !.flood = b]) /\ [r EXCEPT !.flood = b].pc = r.pc
<1>1. PICK q : q = [r EXCEPT !.flood = b]
  OBVIOUS
<1>2. q \in Local /\ q.pc = r.pc
  BY <1>1 DEF Own, Local
<1>3. FetchInv(q)
  BY <1>1 DEF Own, FetchInv, Local
<1>4. PrimaryInv(q)
  BY <1>1 DEF Own, PrimaryInv, Local
<1> QED  BY <1>1, <1>2, <1>3, <1>4 DEF Own

\* A transient failure costs one attempt.
LEMMA HandleRetryOwn ==
    ASSUME PoolInv, NEW f \in Fetch, HandleRetry(f)
    PROVE  Own(fetch'[f]) /\ fetch'[f].pc \in {"exit", "sleep"}
<1>1. fetch[f].pc \in Running /\ ~fetch[f].final
  BY LabelSets DEF HandleRetry, Answered, At
<1>2. PICK r : r = (IF Spent(f) THEN Goto(f, "exit") ELSE SleepOrLeave(f, Backoff, "sleep"))
  OBVIOUS
<1>3. Own(r) /\ r.pc \in {"exit", "sleep"}
  <2>1. Own(Goto(f, "exit")) /\ Goto(f, "exit").pc = "exit"
    BY <1>1, GotoOwn, OwnOf DEF Own, Goto, Local
  <2>2. Own(SleepOrLeave(f, Backoff, "sleep"))
        /\ SleepOrLeave(f, Backoff, "sleep").pc \in {"exit", "sleep"}
    BY <1>1, SleepOwn, PoolAssumption
  <2> QED  BY <1>2, <2>1, <2>2
<1>4. fetch'[f] = [r EXCEPT !.flood = FALSE]
  BY <1>2, Became DEF HandleRetry
<1> QED  BY <1>3, <1>4, FloodFlag

\* A migration costs one attempt.
LEMMA HandleMigrationOwn ==
    ASSUME PoolInv, NEW f \in Fetch, HandleMigration(f)
    PROVE  Own(fetch'[f]) /\ fetch'[f].pc \in {"exit", "loop"}
<1>1. PICK l \in {"exit", "loop"} : l = IF Spent(f) THEN "exit" ELSE "loop"
  OBVIOUS
<1>2. fetch[f].pc \in Running /\ ~fetch[f].final
  BY LabelSets DEF HandleMigration, Answered, At
<1>3. PICK r : r = Goto(f, l) /\ Own(r) /\ r.pc = l
  <2>1. Own(Goto(f, l))
    BY <1>2, GotoOwn
  <2>2. Goto(f, l).pc = l
    BY OwnOf DEF Own, Goto, Local
  <2> QED  BY <2>1, <2>2
<1>4. PICK q : q = [r EXCEPT !.flood = FALSE, !.targetDc = HomeDc]
  OBVIOUS
<1>5. fetch'[f] = q
  BY <1>1, <1>3, <1>4, Became DEF HandleMigration
<1>6. HomeDc \in 0 .. HomeDc
  BY DEF HomeDc
<1>7. q \in Local /\ q.pc = l
  BY <1>3, <1>4, <1>6 DEF Own, Local
<1>8. FetchInv(q)
  BY <1>3, <1>4 DEF Own, FetchInv, Local
<1>9. PrimaryInv(q)
  BY <1>3, <1>4 DEF Own, PrimaryInv, Local
<1> QED  BY <1>5, <1>7, <1>8, <1>9 DEF Own

\* A flood wait costs one attempt and quarantines the worker.
LEMMA HandleFloodOwn ==
    ASSUME PoolInv, NEW f \in Fetch, NEW secs \in FloodSecs, HandleFlood(f, secs)
    PROVE  Own(fetch'[f]) /\ fetch'[f].pc \in {"exit", "quarantined"}
<1>1. PICK l \in {"exit", "quarantined"} : l = IF Spent(f) THEN "exit" ELSE "quarantined"
  OBVIOUS
<1>2. fetch[f].pc \in Running /\ ~fetch[f].final
  BY LabelSets DEF HandleFlood, Answered, At
<1>3. PICK r : r = Goto(f, l) /\ Own(r) /\ r.pc = l
  <2>1. Own(Goto(f, l))
    BY <1>2, GotoOwn
  <2>2. Goto(f, l).pc = l
    BY OwnOf DEF Own, Goto, Local
  <2> QED  BY <2>1, <2>2
<1>4. PICK q : q = [r EXCEPT !.flood = TRUE, !.timer = secs]
  OBVIOUS
<1>5. fetch'[f] = q
  BY <1>1, <1>3, <1>4, Became DEF HandleFlood
<1>6. secs \in Nat
  BY PoolAssumption
<1>7. q \in Local /\ q.pc = l
  BY <1>3, <1>4, <1>6 DEF Own, Local
<1>8. FetchInv(q)
  BY <1>3, <1>4, LabelSets DEF Own, FetchInv, Local
<1>9. PrimaryInv(q)
  BY <1>3, <1>4 DEF Own, PrimaryInv, Local
<1> QED  BY <1>5, <1>7, <1>8, <1>9 DEF Own

\* What follows a quarantine goes on, sleeps or leaves.
LEMMA FloodWaitOwn ==
    ASSUME PoolInv, NEW f \in Fetch, FloodWait(f)
    PROVE  Own(fetch'[f]) /\ fetch'[f].pc \in {"exit", "loop", "floodSleep"}
<1>1. fetch[f].pc \in Running /\ ~fetch[f].final /\ fetch[f].timer + 1 \in Nat
  BY OwnOf, LabelSets, LocalLabels DEF FloodWait, At, Own, FetchInv
<1>2. Own(Goto(f, "loop")) /\ Goto(f, "loop").pc = "loop"
  BY <1>1, GotoOwn, OwnOf DEF Own, Goto, Local
<1>3. PICK d \in Nat : d = fetch[f].timer + 1
  BY <1>1
<1>4. Own(SleepOrLeave(f, d, "floodSleep"))
      /\ SleepOrLeave(f, d, "floodSleep").pc \in {"exit", "floodSleep"}
  BY <1>1, SleepOwn
<1>5. fetch'[f] = Goto(f, "loop") \/ fetch'[f] = SleepOrLeave(f, d, "floodSleep")
  BY <1>3, Became DEF FloodWait
<1> QED  BY <1>2, <1>4, <1>5

\* A fetch that wakes goes round again.
LEMMA WakeOwn ==
    ASSUME PoolInv, NEW f \in Fetch, Wake(f)
    PROVE  Own(fetch'[f]) /\ fetch'[f].pc = "loop"
<1>1. fetch[f].pc \in Running /\ ~fetch[f].final
  BY OwnOf, LabelSets DEF Wake, At, Own, FetchInv
<1>2. fetch'[f] = Goto(f, "loop")
  BY Became DEF Wake
<1>3. Own(Goto(f, "loop"))
  BY <1>1, GotoOwn
<1>4. Goto(f, "loop").pc = "loop"
  BY OwnOf DEF Own, Goto, Local
<1> QED  BY <1>2, <1>3, <1>4

\* A fetch leaves for the last attempt on the primary, or ends.
LEMMA LeaveOwn ==
    ASSUME PoolInv, NEW f \in Fetch, Leave(f)
    PROVE  Own(fetch'[f]) /\ fetch'[f].pc \in {"slot", "done"}
<1>1. PICK r : r = fetch[f] /\ Own(r) /\ r.pc = "exit"
  BY OwnOf DEF Leave, At
<1> DEFINE again == /\ fetch[f].pinned = NoWorker /\ HasPrimary /\ ~fetch[f].tried
                    /\ fetch[f].attempts < MaxFetchAttempts /\ clock < fetch[f].deadline
<1>2. CASE ~again
  <2>1. PICK x \in Result : x = IF fetch[f].flood THEN "flood" ELSE "failed"
    BY LabelSets
  <2>2. fetch'[f] = Finished(f, x)
    BY <1>2, <2>1, Became DEF Leave
  <2> QED  BY <2>2, FinishedOwn
<1>3. CASE again
  <2>1. PICK q : q = [r EXCEPT !.pc = "slot", !.final = TRUE, !.timer = r.deadline]
    OBVIOUS
  <2>2. fetch'[f] = q
    BY <1>1, <1>3, <2>1, Became DEF Leave, Goto
  <2>3. q \in Local
    BY <1>1, <2>1, LabelSets DEF Own, Local, Labels
  <2>4. FetchInv(q)
    BY <1>1, <1>3, <2>1, LabelSets, LocalLabels DEF Own, FetchInv, Local
  <2>5. PrimaryInv(q)
    BY <1>1, <1>3, <2>1, LabelSets, LocalLabels DEF Own, PrimaryInv, Local
  <2> QED  BY <1>1, <2>1, <2>2, <2>3, <2>4, <2>5 DEF Own, Local
<1> QED  BY <1>2, <1>3

-----------------------------------------------------------------------------
(* Slots, locks and load counters. *)

SlotHolders == {f \in Fetch : fetch[f].pc \in {"pick", "lock", "rpc"}}

\* A step of one fetch changes who holds a slot by that fetch at most.
LEMMA SlotHoldersMove ==
    ASSUME PoolInv, NEW f \in Fetch, NEW q, Become(f, q)
    PROVE  /\ IsFiniteSet(SlotHolders) /\ SlotHolders' \ {f} = SlotHolders \ {f}
           /\ f \in SlotHolders <=> fetch[f].pc \in {"pick", "lock", "rpc"}
           /\ f \in SlotHolders' <=> q.pc \in {"pick", "lock", "rpc"}
<1>1. IsFiniteSet(SlotHolders)
  <2>1. SlotHolders \in SUBSET Fetch
    BY DEF SlotHolders
  <2> QED  BY <2>1, FS_Subset, PoolAssumption
<1> QED  BY <1>1, Became DEF SlotHolders

\* The same of the fetches that have picked a session.
LEMMA HoldersMove ==
    ASSUME PoolInv, NEW f \in Fetch, NEW q, Become(f, q), NEW s, NEW at
    PROVE  /\ IsFiniteSet(Holders(s, at)) /\ Holders(s, at)' \ {f} = Holders(s, at) \ {f}
           /\ f \in Holders(s, at) <=> fetch[f].pc \in at /\ fetch[f].worker = s
           /\ f \in Holders(s, at)' <=> q.pc \in at /\ q.worker = s
<1>1. IsFiniteSet(Holders(s, at))
  <2>1. Holders(s, at) \in SUBSET Fetch
    BY DEF Holders
  <2> QED  BY <2>1, FS_Subset, PoolAssumption
<1> QED  BY <1>1, Became DEF Holders

\* What ResourcesReturned says, by name.
LEMMA Balance ==
    ResourcesReturned <=>
       /\ slots + Cardinality(SlotHolders) = TotalSlots
       /\ \A s \in session :
             /\ Cardinality(Holders(s, {"rpc"})) = (IF s \in locked THEN 1 ELSE 0)
             /\ inFlight[s] = Cardinality(Holders(s, {"lock", "rpc"}))
                              + (IF s \in leased THEN 1 ELSE 0)
BY DEF ResourcesReturned, SlotHolders

\* ResourcesReturned in the next state, written out.
LEMMA BalanceAfter ==
    ResourcesReturned' <=>
       /\ slots' + Cardinality(SlotHolders') = TotalSlots'
       /\ \A s \in session' :
             /\ Cardinality(Holders(s, {"rpc"})') = (IF s \in locked' THEN 1 ELSE 0)
             /\ inFlight'[s] = Cardinality(Holders(s, {"lock", "rpc"})')
                               + (IF s \in leased' THEN 1 ELSE 0)
BY DEF ResourcesReturned, SlotHolders, Holders

\* A step between two places where the fetch holds nothing.
LEMMA NothingHeld ==
    ASSUME PoolInv, NEW f \in Fetch, NEW q, Become(f, q),
           fetch[f].pc \notin {"pick", "lock", "rpc"}, q.pc \notin {"pick", "lock", "rpc"},
           UNCHANGED <<session, slots, locked, inFlight, leased>>
    PROVE  ResourcesReturned'
<1>1. SlotHolders' = SlotHolders
  BY SlotHoldersMove
<1>2. \A s \in session : /\ Holders(s, {"rpc"})' = Holders(s, {"rpc"})
                         /\ Holders(s, {"lock", "rpc"})' = Holders(s, {"lock", "rpc"})
  <2> SUFFICES ASSUME NEW s \in session
               PROVE  /\ Holders(s, {"rpc"})' = Holders(s, {"rpc"})
                      /\ Holders(s, {"lock", "rpc"})' = Holders(s, {"lock", "rpc"})
    OBVIOUS
  <2>1. Holders(s, {"rpc"})' = Holders(s, {"rpc"})
    BY HoldersMove
  <2>2. Holders(s, {"lock", "rpc"})' = Holders(s, {"lock", "rpc"})
    BY HoldersMove
  <2> QED  BY <2>1, <2>2
<1>3. ResourcesReturned /\ TotalSlots' = TotalSlots
  BY DEF PoolInv, TotalSlots
<1> QED  BY <1>1, <1>2, <1>3, Balance, BalanceAfter

\* A slot is taken, or given back by a fetch that found no worker.
LEMMA SlotChanges ==
    ASSUME PoolInv, NEW f \in Fetch, NEW q, Become(f, q),
           UNCHANGED <<session, locked, inFlight, leased>>,
           \/ fetch[f].pc = "slot" /\ q.pc = "pick" /\ slots' = slots - 1
           \/ fetch[f].pc = "pick" /\ q.pc \in {"exit", "sleep"} /\ slots' = slots + 1
    PROVE  ResourcesReturned'
<1>1. /\ slots \in Nat /\ slots + Cardinality(SlotHolders) = TotalSlots
      /\ TotalSlots' = TotalSlots /\ ResourcesReturned
  BY Balance DEF PoolInv, PoolTypeOK, TotalSlots
<1>2. slots' + Cardinality(SlotHolders') = TotalSlots'
  <2>1. PICK A, B : A = SlotHolders /\ B = SlotHolders'
    OBVIOUS
  <2>2. /\ IsFiniteSet(A) /\ B \ {f} = A \ {f}
        /\ f \in A <=> fetch[f].pc \in {"pick", "lock", "rpc"}
        /\ f \in B <=> q.pc \in {"pick", "lock", "rpc"}
    BY <2>1, SlotHoldersMove
  <2>3. /\ Cardinality(A) \in Nat /\ Cardinality(B) \in Nat
        /\ f \notin A /\ f \in B => Cardinality(B) = Cardinality(A) + 1
        /\ f \in A /\ f \notin B => Cardinality(B) = Cardinality(A) - 1
    BY <2>2, OneMoves
  <2> QED  BY <1>1, <2>1, <2>2, <2>3
<1>3. \A s \in session : /\ Holders(s, {"rpc"})' = Holders(s, {"rpc"})
                         /\ Holders(s, {"lock", "rpc"})' = Holders(s, {"lock", "rpc"})
  <2> SUFFICES ASSUME NEW s \in session
               PROVE  /\ Holders(s, {"rpc"})' = Holders(s, {"rpc"})
                      /\ Holders(s, {"lock", "rpc"})' = Holders(s, {"lock", "rpc"})
    OBVIOUS
  <2>1. Holders(s, {"rpc"})' = Holders(s, {"rpc"})
    BY HoldersMove
  <2>2. Holders(s, {"lock", "rpc"})' = Holders(s, {"lock", "rpc"})
    BY HoldersMove
  <2> QED  BY <2>1, <2>2
<1> QED  BY <1>1, <1>2, <1>3, Balance, BalanceAfter

\* The load counter of a session a fetch picks, or leaves before or after its
\* request; it is never decremented below zero.
LEMMA LoadChanges ==
    ASSUME PoolInv, NEW f \in Fetch, NEW q, Become(f, q), NEW w \in session,
           UNCHANGED <<session, leased>>,
           \/ /\ fetch[f].pc = "pick" /\ q.pc = "lock" /\ q.worker = w
              /\ inFlight' = [inFlight EXCEPT ![w] = @ + 1]
           \/ /\ fetch[f].pc \in {"lock", "rpc"} /\ q.pc \notin {"lock", "rpc"}
              /\ fetch[f].worker = w
              /\ inFlight' = [inFlight EXCEPT ![w] = @ - 1]
    PROVE  /\ inFlight' \in [session -> Nat]
           /\ \A s \in session :
                 inFlight'[s] = Cardinality(Holders(s, {"lock", "rpc"})')
                                + (IF s \in leased THEN 1 ELSE 0)
<1>1. inFlight \in [session -> Nat] /\ ResourcesReturned
  BY DEF PoolInv, PoolTypeOK
<1>2. ASSUME NEW s \in session
      PROVE  /\ inFlight'[s] = Cardinality(Holders(s, {"lock", "rpc"})')
                               + (IF s \in leased THEN 1 ELSE 0)
             /\ inFlight'[s] \in Nat
  <2>1. PICK A, B : A = Holders(s, {"lock", "rpc"}) /\ B = Holders(s, {"lock", "rpc"})'
    OBVIOUS
  <2>2. /\ IsFiniteSet(A) /\ B \ {f} = A \ {f}
        /\ f \in A <=> fetch[f].pc \in {"lock", "rpc"} /\ fetch[f].worker = s
        /\ f \in B <=> q.pc \in {"lock", "rpc"} /\ q.worker = s
    BY <2>1, HoldersMove
  <2>3. /\ Cardinality(A) \in Nat /\ Cardinality(B) \in Nat
        /\ f \notin A /\ f \notin B => Cardinality(B) = Cardinality(A)
        /\ f \notin A /\ f \in B => Cardinality(B) = Cardinality(A) + 1
        /\ f \in A /\ f \notin B => Cardinality(B) = Cardinality(A) - 1
    BY <2>2, OneMoves
  <2>4. inFlight[s] = Cardinality(A) + (IF s \in leased THEN 1 ELSE 0)
    BY <1>1, <2>1, Balance
  <2>5. CASE s # w
    <3>1. f \notin A /\ f \notin B /\ inFlight'[s] = inFlight[s]
      BY <1>1, <2>2, <2>5
    <3> QED  BY <2>1, <2>3, <2>4, <3>1
  <2>6. CASE s = w
    <3>1. \/ f \notin A /\ f \in B /\ inFlight'[s] = inFlight[s] + 1
          \/ f \in A /\ f \notin B /\ inFlight'[s] = inFlight[s] - 1
      BY <1>1, <2>2, <2>6
    <3> QED  BY <2>1, <2>3, <2>4, <3>1
  <2> QED  BY <2>5, <2>6
<1>3. DOMAIN inFlight' = session /\ inFlight' = [s \in session |-> inFlight'[s]]
  BY <1>1
<1> QED  BY <1>2, <1>3

\* A slot that is kept, or given back when the fetch leaves the session.
LEMMA SlotKeptOrReturned ==
    ASSUME PoolInv, NEW f \in Fetch, NEW q, Become(f, q), UNCHANGED session,
           fetch[f].pc \in {"pick", "lock", "rpc"},
           \/ q.pc \in {"pick", "lock", "rpc"} /\ slots' = slots
           \/ q.pc \notin {"pick", "lock", "rpc"} /\ slots' = slots + 1
    PROVE  slots' \in Nat /\ slots' + Cardinality(SlotHolders') = TotalSlots'
<1>1. /\ slots \in Nat /\ slots + Cardinality(SlotHolders) = TotalSlots
      /\ TotalSlots' = TotalSlots
  BY Balance DEF PoolInv, PoolTypeOK, TotalSlots
<1>2. PICK A, B : A = SlotHolders /\ B = SlotHolders'
  OBVIOUS
<1>3. /\ IsFiniteSet(A) /\ B \ {f} = A \ {f} /\ f \in A
      /\ f \in B <=> q.pc \in {"pick", "lock", "rpc"}
  BY <1>2, SlotHoldersMove
<1>4. /\ Cardinality(A) \in Nat /\ Cardinality(B) \in Nat
      /\ f \in A /\ f \in B => Cardinality(B) = Cardinality(A)
      /\ f \in A /\ f \notin B => Cardinality(B) = Cardinality(A) - 1
  BY <1>3, OneMoves
<1> QED  BY <1>1, <1>2, <1>3, <1>4

\* The lock of a session: taken for a request, released with its answer.
LEMMA LockChanges ==
    ASSUME PoolInv, NEW f \in Fetch, NEW q, Become(f, q), NEW w \in session, UNCHANGED session,
           fetch[f].worker = w,
           \/ /\ fetch[f].pc = "lock" /\ q.pc = "rpc" /\ q.worker = w
              /\ w \notin locked /\ locked' = locked \cup {w}
           \/ fetch[f].pc = "rpc" /\ q.pc # "rpc" /\ locked' = locked \ {w}
    PROVE  \A s \in session : Cardinality(Holders(s, {"rpc"})') = (IF s \in locked' THEN 1 ELSE 0)
<1> SUFFICES ASSUME NEW s \in session
             PROVE  Cardinality(Holders(s, {"rpc"})') = (IF s \in locked' THEN 1 ELSE 0)
  OBVIOUS
<1>1. PICK A, B : A = Holders(s, {"rpc"}) /\ B = Holders(s, {"rpc"})'
  OBVIOUS
<1>2. /\ IsFiniteSet(A) /\ B \ {f} = A \ {f}
      /\ f \in A <=> fetch[f].pc = "rpc" /\ fetch[f].worker = s
      /\ f \in B <=> q.pc = "rpc" /\ q.worker = s
  BY <1>1, HoldersMove
<1>3. /\ Cardinality(A) \in Nat /\ Cardinality(B) \in Nat
      /\ f \notin A /\ f \notin B => Cardinality(B) = Cardinality(A)
      /\ f \notin A /\ f \in B => Cardinality(B) = Cardinality(A) + 1
      /\ f \in A /\ f \notin B => Cardinality(B) = Cardinality(A) - 1
      /\ f \in A => Cardinality(A) >= 1
  BY <1>2, OneMoves
<1>4. Cardinality(A) = IF s \in locked THEN 1 ELSE 0
  BY <1>1, Balance DEF PoolInv
<1>5. CASE s # w
  <2>1. f \notin A /\ f \notin B /\ (s \in locked' <=> s \in locked)
    BY <1>2, <1>5
  <2> QED  BY <1>1, <1>3, <1>4, <2>1
<1>6. CASE s = w
  <2>1. \/ f \notin A /\ f \in B /\ s \notin locked /\ s \in locked'
        \/ f \in A /\ f \notin B /\ s \notin locked'
    BY <1>2, <1>6
  <2> QED  BY <1>1, <1>3, <1>4, <2>1
<1> QED  BY <1>5, <1>6

\* A step without a request to begin or to end moves no lock.
LEMMA LocksStay ==
    ASSUME PoolInv, NEW f \in Fetch, NEW q, Become(f, q), UNCHANGED <<session, locked>>,
           fetch[f].pc # "rpc", q.pc # "rpc"
    PROVE  \A s \in session : Cardinality(Holders(s, {"rpc"})') = (IF s \in locked' THEN 1 ELSE 0)
<1>1. \A s \in session : Holders(s, {"rpc"})' = Holders(s, {"rpc"})
  <2> SUFFICES ASSUME NEW s \in session PROVE Holders(s, {"rpc"})' = Holders(s, {"rpc"})
    OBVIOUS
  <2> QED  BY HoldersMove
<1> QED  BY <1>1, Balance DEF PoolInv

\* A fetch that stays with its session leaves the load as it is.
LEMMA LoadStays ==
    ASSUME PoolInv, NEW f \in Fetch, NEW q, Become(f, q), UNCHANGED <<session, inFlight, leased>>,
           fetch[f].pc \in {"lock", "rpc"}, q.pc \in {"lock", "rpc"}, q.worker = fetch[f].worker
    PROVE  \A s \in session : inFlight'[s] = Cardinality(Holders(s, {"lock", "rpc"})')
                                             + (IF s \in leased THEN 1 ELSE 0)
<1>1. \A s \in session : Holders(s, {"lock", "rpc"})' = Holders(s, {"lock", "rpc"})
  <2> SUFFICES ASSUME NEW s \in session
               PROVE  Holders(s, {"lock", "rpc"})' = Holders(s, {"lock", "rpc"})
    OBVIOUS
  <2>1. PICK A, B : A = Holders(s, {"lock", "rpc"}) /\ B = Holders(s, {"lock", "rpc"})'
    OBVIOUS
  <2>2. B \ {f} = A \ {f} /\ (f \in A <=> f \in B)
    BY <2>1, HoldersMove
  <2> QED  BY <2>1, <2>2
<1> QED  BY <1>1, Balance DEF PoolInv

-----------------------------------------------------------------------------
(* The invariant. *)

\* A step of f that keeps clock and pool keeps what is known of every fetch.
LEMMA OthersStay ==
    ASSUME PoolInv, NEW f \in Fetch, NEW q, Become(f, q), UNCHANGED <<session, clock>>,
           Own(fetch'[f])
    PROVE  /\ fetch' \in [Fetch -> Local]
           /\ (\A g \in Fetch : FetchInv(fetch[g]) /\ PrimaryInv(fetch[g]))'
<1>1. \A g \in Fetch : Own(fetch'[g])
  BY Became, OwnOf
<1>2. fetch' = [fetch EXCEPT ![f] = q] /\ fetch \in [Fetch -> Local]
  BY Became DEF PoolInv, PoolTypeOK
<1>3. \A g \in Fetch : fetch'[g] \in Local
  BY <1>1 DEF Own
<1>4. fetch' \in [Fetch -> Local]
  BY <1>2, <1>3
<1>5. \A g \in Fetch : FetchInv(fetch[g])' /\ PrimaryInv(fetch[g])'
  BY <1>1 DEF Own, FetchInv, PrimaryInv, HasPrimary
<1> QED  BY <1>4, <1>5

\* The quarantines keep their type.
LEMMA UntilType ==
    ASSUME PoolInv, NEW w, NEW n \in Nat, UNCHANGED session,
           \/ until' = until
           \/ w \in Worker /\ until' = [until EXCEPT ![w] = n]
    PROVE  until' \in [Worker' -> Nat]
<1>1. Worker' = Worker /\ until \in [Worker -> Nat]
  BY DEF PoolInv, PoolTypeOK, Worker
<1> QED  BY <1>1

\* Steps of a fetch that holds nothing before and after.
LEMMA FreeStep ==
    ASSUME PoolInv, NEW f \in Fetch,
           \/ Start(f) \/ Loop(f) \/ SlotTimeout(f) \/ HandleOk(f) \/ HandleFinal(f)
           \/ HandleRetry(f) \/ HandleMigration(f) \/ FloodWait(f) \/ Wake(f) \/ Leave(f)
           \/ \E secs \in FloodSecs : HandleFlood(f, secs)
    PROVE  PoolInv'
<1>1. UNCHANGED <<session, clock, slots, locked, inFlight, leased>> /\ \E q : Become(f, q)
  BY DEF Start, Loop, SlotTimeout, HandleOk, HandleFinal, HandleRetry, HandleMigration, FloodWait,
         Wake, Leave, HandleFlood
<1>2. fetch[f].pc \notin {"pick", "lock", "rpc"}
  BY DEF Start, Loop, SlotTimeout, HandleOk, HandleFinal, HandleRetry, HandleMigration, FloodWait,
         Wake, Leave, HandleFlood, Answered, At
<1>3. Own(fetch'[f]) /\ fetch'[f].pc \notin {"pick", "lock", "rpc"}
  <2>1. CASE SlotTimeout(f)
    <3>1. fetch'[f] = TimedOut(f) /\ fetch[f].pc \in Running
      BY <2>1, Became, LabelSets DEF SlotTimeout, At
    <3> QED  BY <3>1, TimedOutOwn
  <2>2. CASE HandleOk(f) \/ HandleFinal(f)
    BY <2>2, HandleFinalOwn
  <2>3. CASE Start(f) \/ Loop(f) \/ Wake(f) \/ Leave(f)
    BY <2>3, StartOwn, LoopOwn, WakeOwn, LeaveOwn
  <2>4. CASE HandleRetry(f) \/ HandleMigration(f) \/ FloodWait(f)
    BY <2>4, HandleRetryOwn, HandleMigrationOwn, FloodWaitOwn
  <2>5. ASSUME NEW secs \in FloodSecs, HandleFlood(f, secs)
        PROVE  Own(fetch'[f]) /\ fetch'[f].pc \notin {"pick", "lock", "rpc"}
    BY <2>5, HandleFloodOwn
  <2> QED  BY <2>1, <2>2, <2>3, <2>4, <2>5
<1>4. PICK q : Become(f, q)
  BY <1>1
<1>5. ResourcesReturned'
  BY <1>1, <1>2, <1>3, <1>4, Became, NothingHeld
<1>6. dcId' \in 1 .. HomeDc
  <2>1. dcId' = dcId \/ dcId' = HomeDc
    BY DEF Start, Loop, SlotTimeout, HandleOk, HandleFinal, HandleRetry, HandleMigration,
           FloodWait, Wake, Leave, HandleFlood
  <2> QED  BY <2>1 DEF PoolInv, PoolTypeOK, HomeDc
<1>7. until' \in [Worker' -> Nat]
  <2>1. CASE until' = until
    BY <1>1, <2>1, UntilType
  <2>2. CASE HandleOk(f) \/ Wake(f)
    <3>1. until' = until \/ (fetch[f].worker \in Worker
                             /\ until' = [until EXCEPT ![fetch[f].worker] = 0])
      BY <2>2 DEF HandleOk, Wake, RecordSuccess
    <3> QED  BY <1>1, <3>1, UntilType
  <2>3. ASSUME NEW secs \in FloodSecs, HandleFlood(f, secs)
        PROVE  until' \in [Worker' -> Nat]
    <3>1. until' = until \/ (fetch[f].worker \in Worker
                             /\ until' = [until EXCEPT ![fetch[f].worker] = clock + secs + 1])
      BY <2>3 DEF HandleFlood, Quarantine
    <3>2. clock + secs + 1 \in Nat
      BY PoolAssumption DEF PoolInv, PoolTypeOK
    <3> QED  BY <1>1, <3>1, <3>2, UntilType
  <2> QED  BY <2>1, <2>2, <2>3 DEF Start, Loop, SlotTimeout, HandleFinal, HandleRetry,
              HandleMigration, FloodWait, Leave
<1>8. /\ fetch' \in [Fetch -> Local]
      /\ (\A g \in Fetch : FetchInv(fetch[g]) /\ PrimaryInv(fetch[g]))'
  BY <1>1, <1>3, <1>4, OthersStay
<1>9. PoolTypeOK'
  BY <1>1, <1>6, <1>7, <1>8 DEF PoolInv, PoolTypeOK, Worker
<1> QED  BY <1>5, <1>8, <1>9 DEF PoolInv

\* Steps of a fetch that holds a slot, before or after.
LEMMA HoldingStep ==
    ASSUME PoolInv, NEW f \in Fetch,
           \/ TakeSlot(f) \/ Pick(f) \/ WaitForWorker(f) \/ Invoke(f) \/ LockTimeout(f)
           \/ \E a \in Answers : Answer(f, a)
    PROVE  PoolInv'
<1>0. /\ UNCHANGED <<session, clock, dcId, until, leased>> /\ \E q : Become(f, q)
      /\ slots \in Nat /\ inFlight \in [session -> Nat] /\ locked \subseteq session
  BY DEF TakeSlot, Pick, WaitForWorker, Invoke, LockTimeout, Answer, PoolInv, PoolTypeOK
<1>q. PICK q : Become(f, q) /\ fetch'[f] = q
  BY <1>0, Became
<1>w. fetch[f].pc \in {"lock", "rpc"} => fetch[f].worker \in session
  BY OwnOf DEF Own, FetchInv
<1> DEFINE Goal == /\ Own(fetch'[f]) /\ slots' \in Nat /\ locked' \subseteq session
                   /\ inFlight' \in [session -> Nat] /\ ResourcesReturned'
<1>1. ASSUME TakeSlot(f) PROVE Goal
  <2>1. Own(fetch'[f]) /\ q.pc = "pick"
    BY <1>1, <1>q, TakeSlotOwn
  <2>2. slots' = slots - 1 /\ slots > 0 /\ fetch[f].pc = "slot" /\ UNCHANGED <<locked, inFlight>>
    BY <1>1 DEF TakeSlot, At
  <2>3. ResourcesReturned'
    BY <1>0, <1>q, <2>1, <2>2, SlotChanges
  <2> QED  BY <1>0, <2>1, <2>2, <2>3
<1>2. ASSUME Pick(f) PROVE Goal
  <2>1. PICK s \in IF fetch[f].final THEN {Primary} ELSE Choice(f) :
          /\ Become(f, [Goto(f, "lock") EXCEPT !.worker = s, !.tried = @ \/ s = Primary,
                                               !.timer = fetch[f].deadline])
          /\ inFlight' = [inFlight EXCEPT ![s] = @ + 1]
    BY <1>2 DEF Pick
  <2>2. s \in session
    BY OwnOf, ChoiceInSession DEF Own, FetchInv, HasPrimary
  <2>3. At(f, "pick") /\ UNCHANGED <<slots, locked>>
    BY <1>2 DEF Pick
  <2>4. Own(fetch'[f]) /\ q.pc = "lock" /\ q.worker = s
    BY <1>q, <2>1, <2>2, <2>3, PickOwn
  <2>5. /\ inFlight' \in [session -> Nat]
        /\ \A x \in session : inFlight'[x] = Cardinality(Holders(x, {"lock", "rpc"})')
                                             + (IF x \in leased THEN 1 ELSE 0)
    BY <1>0, <1>q, <2>1, <2>2, <2>3, <2>4, LoadChanges DEF At
  <2>6. \A x \in session : Cardinality(Holders(x, {"rpc"})') = (IF x \in locked' THEN 1 ELSE 0)
    BY <1>0, <1>q, <2>3, <2>4, LocksStay DEF At
  <2>7. slots' \in Nat /\ slots' + Cardinality(SlotHolders') = TotalSlots'
    BY <1>0, <1>q, <2>3, <2>4, SlotKeptOrReturned DEF At
  <2>8. ResourcesReturned'
    BY <1>0, <2>5, <2>6, <2>7, BalanceAfter
  <2> QED  BY <1>0, <2>3, <2>4, <2>5, <2>7, <2>8
<1>3. ASSUME WaitForWorker(f) PROVE Goal
  <2>1. Own(fetch'[f]) /\ q.pc \in {"exit", "sleep"}
    BY <1>3, <1>q, WaitForWorkerOwn
  <2>2. slots' = slots + 1 /\ fetch[f].pc = "pick" /\ UNCHANGED <<locked, inFlight>>
    BY <1>3 DEF WaitForWorker, At
  <2>3. ResourcesReturned'
    BY <1>0, <1>q, <2>1, <2>2, SlotChanges
  <2> QED  BY <1>0, <2>1, <2>2, <2>3
<1>4. ASSUME Invoke(f) PROVE Goal
  <2>1. Own(fetch'[f]) /\ q.pc = "rpc" /\ q.worker = fetch[f].worker
    BY <1>4, <1>q, InvokeOwn
  <2>2. /\ fetch[f].pc = "lock" /\ UNCHANGED <<slots, inFlight>>
        /\ fetch[f].worker \notin locked /\ locked' = locked \cup {fetch[f].worker}
    BY <1>4 DEF Invoke, At
  <2>3. \A x \in session : inFlight'[x] = Cardinality(Holders(x, {"lock", "rpc"})')
                                          + (IF x \in leased THEN 1 ELSE 0)
    BY <1>0, <1>q, <2>1, <2>2, LoadStays
  <2>4. \A x \in session : Cardinality(Holders(x, {"rpc"})') = (IF x \in locked' THEN 1 ELSE 0)
    BY <1>0, <1>q, <1>w, <2>1, <2>2, LockChanges
  <2>5. slots' \in Nat /\ slots' + Cardinality(SlotHolders') = TotalSlots'
    BY <1>0, <1>q, <2>1, <2>2, SlotKeptOrReturned
  <2>6. ResourcesReturned'
    BY <1>0, <2>3, <2>4, <2>5, BalanceAfter
  <2> QED  BY <1>0, <1>w, <2>1, <2>2, <2>5, <2>6
<1>5. ASSUME LockTimeout(f) PROVE Goal
  <2>1. /\ fetch[f].pc = "lock" /\ slots' = slots + 1 /\ UNCHANGED locked
        /\ inFlight' = [inFlight EXCEPT ![fetch[f].worker] = @ - 1]
    BY <1>5 DEF LockTimeout, At
  <2>2. Own(fetch'[f]) /\ q.pc \in {"done", "exit"}
    <3>1. fetch'[f] = TimedOut(f) /\ fetch[f].pc \in Running
      BY <1>5, <2>1, Became, LabelSets DEF LockTimeout
    <3> QED  BY <1>q, <3>1, TimedOutOwn
  <2>3. /\ inFlight' \in [session -> Nat]
        /\ \A x \in session : inFlight'[x] = Cardinality(Holders(x, {"lock", "rpc"})')
                                             + (IF x \in leased THEN 1 ELSE 0)
    BY <1>0, <1>q, <1>w, <2>1, <2>2, LoadChanges
  <2>4. \A x \in session : Cardinality(Holders(x, {"rpc"})') = (IF x \in locked' THEN 1 ELSE 0)
    BY <1>0, <1>q, <2>1, <2>2, LocksStay
  <2>5. slots' \in Nat /\ slots' + Cardinality(SlotHolders') = TotalSlots'
    BY <1>0, <1>q, <2>1, <2>2, SlotKeptOrReturned
  <2>6. ResourcesReturned'
    BY <1>0, <2>3, <2>4, <2>5, BalanceAfter
  <2> QED  BY <1>0, <2>1, <2>2, <2>3, <2>5, <2>6
<1>6. ASSUME NEW a \in Answers, Answer(f, a)
      PROVE  Goal
  <2>1. /\ fetch[f].pc = "rpc" /\ slots' = slots + 1
        /\ locked' = locked \ {fetch[f].worker}
        /\ inFlight' = [inFlight EXCEPT ![fetch[f].worker] = @ - 1]
    BY <1>6 DEF Answer, At
  <2>2. Own(fetch'[f]) /\ q.pc = "answered"
    BY <1>6, <1>q, AnswerOwn
  <2>3. /\ inFlight' \in [session -> Nat]
        /\ \A x \in session : inFlight'[x] = Cardinality(Holders(x, {"lock", "rpc"})')
                                             + (IF x \in leased THEN 1 ELSE 0)
    BY <1>0, <1>q, <1>w, <2>1, <2>2, LoadChanges
  <2>4. \A x \in session : Cardinality(Holders(x, {"rpc"})') = (IF x \in locked' THEN 1 ELSE 0)
    BY <1>0, <1>q, <1>w, <2>1, <2>2, LockChanges
  <2>5. slots' \in Nat /\ slots' + Cardinality(SlotHolders') = TotalSlots'
    BY <1>0, <1>q, <2>1, <2>2, SlotKeptOrReturned
  <2>6. ResourcesReturned'
    BY <1>0, <2>3, <2>4, <2>5, BalanceAfter
  <2> QED  BY <1>0, <2>1, <2>2, <2>3, <2>5, <2>6
<1>7. Goal
  BY <1>1, <1>2, <1>3, <1>4, <1>5, <1>6
<1>8. /\ fetch' \in [Fetch -> Local]
      /\ (\A g \in Fetch : FetchInv(fetch[g]) /\ PrimaryInv(fetch[g]))'
  BY <1>0, <1>q, <1>7, OthersStay
<1>9. PoolTypeOK'
  BY <1>0, <1>7, <1>8 DEF PoolInv, PoolTypeOK, Worker
<1> QED  BY <1>7, <1>8, <1>9 DEF PoolInv

\* Time passes only while every fetch waits for something before its deadline.
LEMMA TickStep ==
    ASSUME PoolInv, ClockTick
    PROVE  PoolInv'
<1>1. /\ clock \in Nat /\ clock' = clock + 1
      /\ UNCHANGED <<session, fetch, dcId, slots, locked, inFlight, until, leased>>
  BY DEF ClockTick, PoolInv, PoolTypeOK
<1>2. ASSUME NEW f \in Fetch
      PROVE  FetchInv(fetch[f])' /\ PrimaryInv(fetch[f])'
  <2>1. PICK r : r = fetch[f] /\ Own(r) /\ ~Ready(f)
    BY OwnOf DEF ClockTick
  <2>2. r.pc \in Running => r.pc \in Waiting /\ clock < r.timer
    BY <1>1, <2>1, LocalLabels DEF Ready, Due, Own
  <2>3. r.pc \in Running => clock + 1 <= r.deadline
    BY <1>1, <2>1, <2>2, LocalLabels DEF Own, FetchInv
  <2>4. FetchInv(r)'
    BY <1>1, <2>1, <2>3 DEF Own, FetchInv, HasPrimary
  <2>5. PrimaryInv(r)'
    BY <2>1 DEF Own, PrimaryInv
  <2> QED  BY <1>1, <2>1, <2>4, <2>5 DEF FetchInv, PrimaryInv, HasPrimary
<1>3. ResourcesReturned'
  BY <1>1 DEF PoolInv, ResourcesReturned, TotalSlots, Holders
<1>4. PoolTypeOK'
  BY <1>1 DEF PoolInv, PoolTypeOK, Worker
<1> QED  BY <1>2, <1>3, <1>4 DEF PoolInv

\* The pool begins with nothing taken.
LEMMA PoolInitially ==
    ASSUME PoolInit
    PROVE  PoolInv
<1>1. /\ session \in Pools /\ IsFiniteSet(session) /\ TotalSlots \in Nat
      /\ clock = 0 /\ slots = TotalSlots /\ locked = {} /\ leased \subseteq Worker
  BY FS_CardinalityType, PoolAssumption DEF PoolInit, TotalSlots
<1>2. NotStarted \in Local
  <2>1. "idle" \in Labels /\ "none" \in Answers /\ "none" \in Result /\ 0 \in 0 .. HomeDc
    BY LabelSets DEF HomeDc
  <2> QED  BY <2>1 DEF NotStarted, Local, Labels
<1>3. fetch \in [Fetch -> Local] /\ \A f \in Fetch : fetch[f] = NotStarted
  BY <1>2 DEF PoolInit
<1>4. FetchInv(NotStarted) /\ PrimaryInv(NotStarted)
  BY PoolAssumption, LabelSets DEF FetchInv, PrimaryInv, NotStarted
<1>5. PoolTypeOK
  <2>1. dcId \in 1 .. HomeDc
    BY DEF PoolInit, HomeDc
  <2>2. inFlight \in [session -> Nat] /\ until \in [Worker -> Nat]
    BY DEF PoolInit
  <2> QED  BY <1>1, <1>3, <2>1, <2>2 DEF PoolTypeOK
<1>6. ResourcesReturned
  <2>1. SlotHolders = {} /\ \A s \in session : /\ Holders(s, {"rpc"}) = {}
                                               /\ Holders(s, {"lock", "rpc"}) = {}
    BY <1>3 DEF SlotHolders, Holders, NotStarted
  <2>2. \A s \in session : inFlight[s] = IF s \in leased THEN 1 ELSE 0
    BY DEF PoolInit
  <2> QED  BY <1>1, <2>1, <2>2, FS_EmptySet, Balance
<1> QED  BY <1>3, <1>4, <1>5, <1>6 DEF PoolInv

\* The invariant of the pool is inductive (fetch_chunk_with_budget).
THEOREM PoolInvariant == PoolSpec => []PoolInv
<1>1. PoolInit => PoolInv
  BY PoolInitially
<1>2. PoolInv /\ [PoolNext]_poolVars => PoolInv'
  <2> SUFFICES ASSUME PoolInv, [PoolNext]_poolVars PROVE PoolInv'
    OBVIOUS
  <2>1. CASE UNCHANGED poolVars
    BY <2>1 DEF poolVars, PoolInv, PoolTypeOK, FetchInv, PrimaryInv, HasPrimary, ResourcesReturned,
                TotalSlots, Holders, Worker
  <2>2. CASE ClockTick
    BY <2>2, TickStep
  <2>3. ASSUME NEW f \in Fetch,
               Start(f) \/ FetchStep(f) \/ \E a \in Answers \ {"none"} : Answer(f, a)
        PROVE  PoolInv'
    <3>1. \/ Start(f) \/ Loop(f) \/ SlotTimeout(f) \/ HandleOk(f) \/ HandleFinal(f)
          \/ HandleRetry(f) \/ HandleMigration(f) \/ FloodWait(f) \/ Wake(f) \/ Leave(f)
          \/ (\E secs \in FloodSecs : HandleFlood(f, secs))
          \/ TakeSlot(f) \/ Pick(f) \/ WaitForWorker(f) \/ Invoke(f) \/ LockTimeout(f)
          \/ (\E a \in Answers : Answer(f, a))
      BY <2>3 DEF FetchStep
    <3> QED  BY <3>1, FreeStep, HoldingStep
  <2> QED  BY <2>1, <2>2, <2>3 DEF PoolNext
<1> QED  BY <1>1, <1>2, PTL DEF PoolSpec

\* A fetch ends by its deadline and within its attempts, asks the primary session
\* once at most unless it is pinned to it, and returns slot, lock and load counter
\* on every path (worker_pool.rs, fetch_chunk_with_budget).
THEOREM FetchKeepsItsBoundsAlways == PoolSpec => []FetchKeepsItsBounds
<1>1. PoolInv => FetchKeepsItsBounds
  <2> SUFFICES ASSUME PoolInv PROVE FetchKeepsItsBounds
    OBVIOUS
  <2>1. EndsByDeadline
    BY DEF EndsByDeadline, PoolInv, FetchInv
  <2>2. BudgetKept
    BY DEF BudgetKept, PoolInv, FetchInv, PrimaryInv
  <2> QED  BY <2>1, <2>2 DEF FetchKeepsItsBounds, PoolInv
<1> QED  BY <1>1, PoolInvariant, PTL

-----------------------------------------------------------------------------
(* ServerTasks. *)

\* A task is cancelled through its own controller, or one that nothing watches; a
\* task that no call reserved is named after its job.
TokenInv ==
    \A i \in DOMAIN tasks : /\ tasks[i].token \in {i, Unwatched}
                            /\ i \in Call \/ i = Bot(tasks[i].rip)

\* A task with a job waits for the job's end or for a timer.  Late progress leaves
\* a task of its own, or gives its dead job to a task whose own job is to come.
Tended(i) ==
    \/ job[tasks[i].rip] = "live" \/ i \in removal
    \/ LateTask(i)
    \/ i \in Call /\ pc[i] \in {"spawned", "starting", "job"}

\* A task without a job waits for its runner.
RunnerInv ==
    \A i \in DOMAIN tasks :
        /\ tasks[i].rip = NoJob => i \in Call /\ pc[i] \in {"spawned", "starting"}
        /\ tasks[i].rip # NoJob => /\ job[tasks[i].rip] # "none"
                                   /\ Tended(i)

\* The subscriber finds the task that names a job: there is one, and the task of
\* the job's own request is not another.
OneTask ==
    \A i, k \in DOMAIN tasks :
        /\ tasks[i].rip = tasks[k].rip /\ tasks[i].rip # NoJob => i = k
        /\ tasks[i].rip = k => i = k

\* A call that has not reserved its task is unknown to everyone.
NewInv ==
    \A c \in Call :
        /\ pc[c] \in {"new", "reserve"} =>
              c \notin DOMAIN tasks /\ c \notin cancelledTok /\ \A j \in Job : link[j] # c
        /\ job[c] # "none" => pc[c] \in {"job", "failing", "done"}

\* Whoever could cancel a registered task of a call whose runner is to come has
\* given it a job, and that one is not over.
CancelledInv ==
    \A c \in Call \cap DOMAIN tasks :
        /\ pc[c] \in {"spawned", "starting"}
        /\ c \in cancelledTok \/ \E j \in Job : link[j] = c
        => tasks[c].rip # NoJob /\ (job[tasks[c].rip] = "live" \/ c \in removal)

\* The inductive invariant of the registry.
TasksInv == TasksTypeOK /\ TokenInv /\ RunnerInv /\ OneTask /\ NewInv /\ CancelledInv

-----------------------------------------------------------------------------
(* The registry. *)

\* What an event of job j does to the task it is about: t replaces or becomes
\* task i and has a job, the one it had or j, and then it is the one task of j.
Tracks(j, i, t) ==
    /\ i \in TaskId /\ t \in TaskMeta
    /\ t.token \in {i, Unwatched} /\ t.rip \in Job
    /\ i \in DOMAIN tasks => tasks[i].rip \in {NoJob, t.rip}
    /\ i \in DOMAIN tasks \/ (i = Bot(j) /\ i \notin Job /\ t.rip = j)
    /\ i = j \/ t.rip = j
    /\ \/ i \in DOMAIN tasks /\ t.rip = tasks[i].rip
       \/ t.rip = j /\ \A k \in DOMAIN tasks : tasks[k].rip # j /\ (k = j => i = j)

\* The registry after an entry was put.
LEMMA PutFacts ==
    ASSUME NEW i, NEW t, tasks' = Put(i, t)
    PROVE  /\ DOMAIN tasks' = DOMAIN tasks \cup {i}
           /\ tasks'[i] = t
           /\ \A k \in DOMAIN tasks : k # i => tasks'[k] = tasks[k]
BY DEF Put

\* The registry after an entry was removed.
LEMMA DropFacts ==
    ASSUME NEW i, tasks' = Drop(i)
    PROVE  /\ DOMAIN tasks' = DOMAIN tasks \ {i}
           /\ \A k \in DOMAIN tasks : k # i => tasks'[k] = tasks[k]
BY DEF Drop

\* The id of a bot task is no job and no call.
LEMMA BotIds ==
    ASSUME NEW j \in Job
    PROVE  Bot(j) \in TaskId /\ Bot(j) \notin Job /\ Bot(j) \notin Call /\ Bot(j) # Unwatched
BY TasksAssumption DEF TaskId, Job

\* The fields of an entry have their types.
LEMMA MetaFields ==
    ASSUME NEW t \in TaskMeta
    PROVE  /\ t.rip \in Job \cup {NoJob} /\ t.token \in TaskId \cup {Unwatched}
           /\ t.album \in BOOLEAN
           /\ \A s \in {"active", "completed", "error"} :
                 /\ [t EXCEPT !.state = s] \in TaskMeta
                 /\ [t EXCEPT !.state = s].rip = t.rip /\ [t EXCEPT !.state = s].token = t.token
           /\ \A r \in Job, b \in BOOLEAN :
                 /\ [t EXCEPT !.album = b] \in TaskMeta
                 /\ [t EXCEPT !.album = b].rip = t.rip /\ [t EXCEPT !.album = b].token = t.token
                 /\ [t EXCEPT !.rip = r, !.album = b] \in TaskMeta
                 /\ [t EXCEPT !.rip = r, !.album = b].rip = r
                 /\ [t EXCEPT !.rip = r, !.album = b].token = t.token
BY DEF TaskMeta

\* The task the subscriber finds is the only one that names the job.
LEMMA FoundFacts ==
    ASSUME TasksInv, NEW j \in Job
    PROVE  /\ Found(j) \subseteq DOMAIN tasks
           /\ j \in DOMAIN tasks => Found(j) = {j}
           /\ \A i \in Found(j) : i = j \/ tasks[i].rip \in {j, NoJob}
           /\ \A i \in Found(j) : \A k \in DOMAIN tasks : tasks[k].rip = j => k = i
           /\ Found(j) = {} => \A k \in DOMAIN tasks : tasks[k].rip # j
           /\ \A i \in Found(j) : tasks[i].rip = NoJob =>
                 \A k \in DOMAIN tasks : tasks[k].rip # j /\ (k = j => i = j)
<1>1. \A i, k \in DOMAIN tasks : /\ tasks[i].rip = tasks[k].rip /\ tasks[i].rip # NoJob => i = k
                                 /\ tasks[i].rip = k => i = k
  BY DEF TasksInv, OneTask
<1>2. NoJob # j
  BY TasksAssumption
<1>3. CASE j \in DOMAIN tasks
  <2>1. Found(j) = {j}
    BY <1>3 DEF Found
  <2> QED  BY <1>1, <1>2, <1>3, <2>1
<1>4. CASE j \notin DOMAIN tasks /\ {i \in DOMAIN tasks : tasks[i].rip = j} # {}
  <2>1. Found(j) = {i \in DOMAIN tasks : tasks[i].rip = j}
    BY <1>4 DEF Found
  <2> QED  BY <1>1, <1>2, <1>4, <2>1
<1>5. CASE j \notin DOMAIN tasks /\ {i \in DOMAIN tasks : tasks[i].rip = j} = {}
  <2>1. /\ Found(j) \subseteq DOMAIN tasks
        /\ \A i \in Found(j) : tasks[i].rip = NoJob
    BY <1>5 DEF Found
  <2> QED  BY <1>1, <1>2, <1>5, <2>1
<1> QED  BY <1>3, <1>4, <1>5

\* A task that is found for a job takes the job and keeps its token.
LEMMA Adopted ==
    ASSUME TasksInv, NEW j \in Job, NEW i \in Found(j)
    PROVE  Tracks(j, i, Adopt(j, i)) /\ Adopt(j, i).token = tasks[i].token
<1>1. i \in DOMAIN tasks /\ i \in TaskId
  BY FoundFacts DEF TasksInv, TasksTypeOK
<1>2. PICK t : t = tasks[i] /\ t \in TaskMeta
  BY <1>1 DEF TasksInv, TasksTypeOK
<1>3. PICK m \in BOOLEAN : m = (j \in multi)
  <2>1. (j \in multi) \in BOOLEAN
    BY SMT
  <2> QED  BY <2>1, Zenon
<1>4. PICK b \in BOOLEAN : b = (t.album \/ j \in multi)
  OBVIOUS
<1>5. t.token \in {i, Unwatched}
  BY <1>1, <1>2 DEF TasksInv, TokenInv
<1>6. t.rip \in Job \cup {NoJob} /\ NoJob \notin Job
  BY <1>2, MetaFields, TasksAssumption
<1>7. CASE i \notin Call /\ t.rip = j
  <2>1. PICK q : q = [t EXCEPT !.album = m]
    OBVIOUS
  <2>2. q = Adopt(j, i)
    BY <1>2, <1>3, <1>7, <2>1 DEF Adopt
  <2>3. q \in TaskMeta /\ q.rip = t.rip /\ q.token = t.token
    BY <1>2, <1>3, <2>1, MetaFields
  <2> QED  BY <1>1, <1>2, <1>5, <1>7, <2>2, <2>3 DEF Tracks
<1>8. CASE ~(i \notin Call /\ t.rip = j)
  <2>0. PICK r : r = IF t.rip = NoJob THEN j ELSE t.rip
    OBVIOUS
  <2>1. PICK q : q = [t EXCEPT !.rip = r, !.album = b]
    OBVIOUS
  <2>2. q = Adopt(j, i)
    BY <1>2, <1>4, <1>8, <2>0, <2>1 DEF Adopt
  <2>3. r \in Job
    BY <1>6, <2>0
  <2>4. q \in TaskMeta /\ q.rip = r /\ q.token = t.token
    BY <1>2, <2>1, <2>3 DEF TaskMeta
  <2>5. CASE t.rip = NoJob
    <3>1. \A k \in DOMAIN tasks : tasks[k].rip # j /\ (k = j => i = j)
      BY <1>2, <2>5, FoundFacts
    <3> QED  BY <1>1, <1>2, <1>5, <2>0, <2>2, <2>3, <2>4, <2>5, <3>1 DEF Tracks
  <2>6. CASE t.rip # NoJob
    <3>1. i = j \/ t.rip = j
      BY <1>2, <2>6, FoundFacts
    <3> QED  BY <1>1, <1>2, <1>5, <2>0, <2>2, <2>3, <2>4, <2>6, <3>1 DEF Tracks
  <2> QED  BY <2>5, <2>6
<1> QED  BY <1>7, <1>8

\* A job without a task gets one of its own.
LEMMA Fresher ==
    ASSUME TasksInv, NEW j \in Job, Found(j) = {}, NEW k \in {Bot(j), Unwatched}
    PROVE  Tracks(j, Bot(j), Fresh(j, k)) /\ Fresh(j, k).token = k
<1>1. \A i \in DOMAIN tasks : tasks[i].rip # j /\ i # j
  BY FoundFacts
<1>2. Bot(j) \in TaskId /\ Bot(j) \notin Job /\ Bot(j) \notin Call
  BY BotIds
<1>a. Bot(j) \notin DOMAIN tasks
  BY <1>1, <1>2 DEF TasksInv, TokenInv, Bot
<1>3. PICK m \in BOOLEAN : m = (j \in multi)
  <2>1. (j \in multi) \in BOOLEAN
    BY SMT
  <2> QED  BY <2>1, Zenon
<1>4. Owner[j] \in Client
  BY DEF Client
<1>5. PICK q : q = [rip |-> j, owner |-> Owner[j], id |-> Target[j].id, album |-> m,
                    state |-> "active", token |-> k]
  OBVIOUS
<1>6. q \in TaskMeta /\ q.rip = j /\ q.token = k
  BY <1>2, <1>3, <1>4, <1>5 DEF TaskMeta
<1>7. q = Fresh(j, k)
  BY <1>3, <1>5 DEF Fresh
<1> QED  BY <1>1, <1>2, <1>a, <1>6, <1>7 DEF Tracks

\* Such a step keeps the registry in order.
LEMMA TrackedTable ==
    ASSUME TasksInv, NEW j \in Job, NEW i, NEW t, Tracks(j, i, t), tasks' = Put(i, t)
    PROVE  /\ DOMAIN tasks' \subseteq TaskId /\ \A k \in DOMAIN tasks' : tasks'[k] \in TaskMeta
           /\ TokenInv' /\ OneTask'
           /\ i \in DOMAIN tasks'
           /\ i \notin DOMAIN tasks => i \notin Call
           /\ \A k \in DOMAIN tasks' : k # i => k \in DOMAIN tasks /\ tasks'[k] = tasks[k]
           /\ tasks'[i] = t /\ t.rip # NoJob
<1>1. DOMAIN tasks' = DOMAIN tasks \cup {i} /\ tasks'[i] = t
      /\ \A k \in DOMAIN tasks : k # i => tasks'[k] = tasks[k]
  BY PutFacts
<1>2. i \in TaskId /\ t \in TaskMeta /\ t.token \in {i, Unwatched} /\ t.rip \in Job
      /\ (i \in DOMAIN tasks \/ i \notin Job)
  BY DEF Tracks
<1>3. t.rip # NoJob /\ (i \notin DOMAIN tasks => i \notin Call)
  BY <1>2, TasksAssumption DEF Job
<1>4. TokenInv'
  <2>1. i \in Call \/ i = Bot(t.rip)
    BY <1>2, TasksAssumption DEF Tracks, TasksInv, TokenInv, RunnerInv
  <2> QED  BY <1>1, <1>2, <2>1 DEF TasksInv, TokenInv
<1>5. OneTask'
  <2>1. \A a, b \in DOMAIN tasks : /\ tasks[a].rip = tasks[b].rip /\ tasks[a].rip # NoJob => a = b
                                   /\ tasks[a].rip = b => a = b
    BY DEF TasksInv, OneTask
  <2>2. \A a \in DOMAIN tasks : tasks[a].rip \in Job \cup {NoJob}
    BY MetaFields DEF TasksInv, TasksTypeOK
  <2>3. i # NoJob
    BY <1>2, TasksAssumption
  <2>4. SUFFICES ASSUME NEW a \in DOMAIN tasks', NEW b \in DOMAIN tasks'
                 PROVE  /\ tasks'[a].rip = tasks'[b].rip /\ tasks'[a].rip # NoJob => a = b
                        /\ tasks'[a].rip = b => a = b
    BY DEF OneTask
  <2>5. CASE a # i /\ b # i
    BY <1>1, <2>1, <2>5
  <2>6. CASE a = i /\ b # i
    BY <1>1, <1>2, <1>3, <2>1, <2>6 DEF Tracks
  <2>7. CASE a # i /\ b = i
    BY <1>1, <1>2, <1>3, <2>1, <2>2, <2>3, <2>7 DEF Tracks
  <2> QED  BY <2>5, <2>6, <2>7
<1> QED  BY <1>1, <1>2, <1>3, <1>4, <1>5 DEF TasksInv, TasksTypeOK

-----------------------------------------------------------------------------
(* The steps. *)

\* The created event leaves its job with one task.
LEMMA CreatedTracks ==
    ASSUME TasksInv, NEW j \in Job, OnCreated(j)
    PROVE  \E i, t : /\ Tracks(j, i, t) /\ tasks' = Put(i, t)
                     /\ j \in DOMAIN tasks => i = j
                     /\ link' = [link EXCEPT ![j] = t.token]
                     /\ jobCancelled \subseteq jobCancelled'
                     /\ jobCancelled' \subseteq jobCancelled \cup {j}
<1>1. CASE Found(j) # {}
  <2>1. PICK i \in Found(j) : /\ tasks' = Put(i, Adopt(j, i))
                              /\ link' = [link EXCEPT ![j] = Adopt(j, i).token]
                              /\ jobCancelled \subseteq jobCancelled'
                              /\ jobCancelled' \subseteq jobCancelled \cup {j}
    BY <1>1 DEF OnCreated
  <2>2. PICK t : t = Adopt(j, i) /\ Tracks(j, i, t)
    BY Adopted
  <2>3. j \in DOMAIN tasks => i = j
    BY FoundFacts
  <2> QED  BY <2>1, <2>2, <2>3
<1>2. CASE Found(j) = {}
  <2>1. /\ tasks' = Put(Bot(j), Fresh(j, Bot(j)))
        /\ link' = [link EXCEPT ![j] = Fresh(j, Bot(j)).token]
        /\ jobCancelled \subseteq jobCancelled'
        /\ jobCancelled' \subseteq jobCancelled \cup {j}
    BY <1>2 DEF OnCreated
  <2>2. j \notin DOMAIN tasks
    BY <1>2, FoundFacts
  <2>3. PICK t : t = Fresh(j, Bot(j)) /\ Tracks(j, Bot(j), t)
    BY <1>2, Fresher
  <2> QED  BY <2>1, <2>2, <2>3
<1> QED  BY <1>1, <1>2

\* A progress event leaves its job with one task.
LEMMA ProgressTracks ==
    ASSUME TasksInv, NEW j \in Job, OnProgress(j)
    PROVE  \E i, t : Tracks(j, i, t) /\ tasks' = Put(i, t)
<1>1. CASE Found(j) # {}
  <2>1. PICK i \in Found(j) : tasks' = Put(i, Adopt(j, i))
    BY <1>1 DEF OnProgress
  <2> QED  BY <2>1, Adopted
<1>2. CASE Found(j) = {}
  <2>1. tasks' = Put(Bot(j), Fresh(j, Unwatched))
    BY <1>2 DEF OnProgress
  <2> QED  BY <1>2, <2>1, Fresher
<1> QED  BY <1>1, <1>2

\* A job begins.
LEMMA StartKeeps ==
    ASSUME TasksInv, NEW j \in Job, OnCreated(j), job[j] = "none",
           job' = [job EXCEPT ![j] = "live"],
           \/ j \in Call /\ pc' = [pc EXCEPT ![j] = "job"]
           \/ j \notin Call /\ pc' = pc,
           UNCHANGED <<cancelledTok, multi, removal, cached, asked>>
    PROVE  TasksInv'
<1>1. PICK i, t : /\ Tracks(j, i, t) /\ tasks' = Put(i, t)
                  /\ j \in DOMAIN tasks => i = j
                  /\ link' = [link EXCEPT ![j] = t.token]
                  /\ jobCancelled \subseteq jobCancelled'
                  /\ jobCancelled' \subseteq jobCancelled \cup {j}
  BY CreatedTracks
<1>2. /\ DOMAIN tasks' \subseteq TaskId /\ \A k \in DOMAIN tasks' : tasks'[k] \in TaskMeta
      /\ TokenInv' /\ OneTask'
      /\ i \in DOMAIN tasks'
      /\ i \notin DOMAIN tasks => i \notin Call
      /\ \A k \in DOMAIN tasks' : k # i => k \in DOMAIN tasks /\ tasks'[k] = tasks[k]
      /\ tasks'[i] = t /\ t.rip # NoJob
  BY <1>1, TrackedTable
<1>3. /\ t.token \in {i, Unwatched} /\ i \in TaskId /\ Unwatched \notin Call
      /\ t.rip = j \/ (i \in DOMAIN tasks /\ t.rip = tasks[i].rip)
      /\ i \in DOMAIN tasks => tasks[i].rip \in {NoJob, t.rip}
  BY <1>1, TasksAssumption DEF Tracks, TaskId
<1>4. /\ job' \in [Job -> {"none", "live", "ended", "crashed"}]
      /\ pc' \in [Call -> {"new", "reserve", "spawned", "starting", "job", "failing", "done"}]
      /\ job'[j] = "live" /\ \A k \in Job \ {j} : job'[k] = job[k]
      /\ \A k \in Call \ {j} : pc'[k] = pc[k]
      /\ j \in Call => pc'[j] = "job"
  BY DEF TasksInv, TasksTypeOK
<1>5. /\ link' \in [Job -> TaskId \cup {Unwatched, NoJob}]
      /\ link'[j] = t.token /\ \A k \in Job \ {j} : link'[k] = link[k]
  BY <1>1, <1>3 DEF TasksInv, TasksTypeOK
<1>6. TasksTypeOK'
  BY <1>1, <1>2, <1>4, <1>5 DEF TasksInv, TasksTypeOK
<1>7. RunnerInv'
  <2> SUFFICES ASSUME NEW k \in DOMAIN tasks'
               PROVE  /\ tasks'[k].rip = NoJob => k \in Call /\ pc'[k] \in {"spawned", "starting"}
                      /\ tasks'[k].rip # NoJob => /\ job'[tasks'[k].rip] # "none"
                                                  /\ Tended(k)'
    BY DEF RunnerInv
  <2>1. \A a \in DOMAIN tasks :
           /\ tasks[a].rip \in Job \cup {NoJob}
           /\ tasks[a].rip = NoJob => a \in Call /\ pc[a] \in {"spawned", "starting"}
           /\ tasks[a].rip # NoJob => /\ job[tasks[a].rip] # "none"
                                      /\ Tended(a)
    BY MetaFields DEF TasksInv, RunnerInv, TasksTypeOK
  <2>2. CASE k = i
    BY <1>1, <1>2, <1>3, <1>4, <2>1, <2>2 DEF Tended, LateTask, Deserted
  <2>3. CASE k # i
    BY <1>1, <1>2, <1>4, <2>1, <2>3 DEF Tended, LateTask, Deserted
  <2> QED  BY <2>2, <2>3
<1>8. NewInv'
  <2> SUFFICES ASSUME NEW c \in Call
               PROVE  /\ pc'[c] \in {"new", "reserve"} =>
                            /\ c \notin DOMAIN tasks' /\ c \notin cancelledTok'
                            /\ \A k \in Job : link'[k] # c
                      /\ job'[c] # "none" => pc'[c] \in {"job", "failing", "done"}
    BY DEF NewInv
  <2>1. /\ pc[c] \in {"new", "reserve"} =>
              c \notin DOMAIN tasks /\ c \notin cancelledTok /\ \A k \in Job : link[k] # c
        /\ job[c] # "none" => pc[c] \in {"job", "failing", "done"}
    BY DEF TasksInv, NewInv
  <2>2. c \in Job
    BY DEF Job
  <2> QED  BY <1>2, <1>3, <1>4, <1>5, <2>1, <2>2
<1>9. CancelledInv'
  <2>1. \A a \in DOMAIN tasks : /\ tasks[a].rip \in Job \cup {NoJob}
                               /\ tasks[a].rip # NoJob => job[tasks[a].rip] # "none"
    BY MetaFields DEF TasksInv, RunnerInv, TasksTypeOK
  <2> SUFFICES ASSUME NEW c \in Call, c \in DOMAIN tasks', pc'[c] \in {"spawned", "starting"},
                      c \in cancelledTok' \/ \E k \in Job : link'[k] = c
               PROVE  tasks'[c].rip # NoJob /\ (job'[tasks'[c].rip] = "live" \/ c \in removal')
    BY DEF CancelledInv
  <2>2. c # j /\ pc[c] = pc'[c]
    BY <1>4
  <2>3. CASE c = i
    <3>1. t.rip = j
      BY <1>1, <2>2, <2>3 DEF Tracks
    <3> QED  BY <1>2, <1>4, <2>3, <3>1
  <2>4. CASE c # i
    BY <1>2, <1>3, <1>4, <1>5, <2>1, <2>2, <2>4 DEF TasksInv, CancelledInv
  <2> QED  BY <2>3, <2>4
<1> QED  BY <1>2, <1>6, <1>7, <1>8, <1>9 DEF TasksInv

\* A job ends, and the task that names it goes or waits for its timer.
LEMMA EndKeeps ==
    ASSUME TasksInv, NEW j \in Job, job[j] = "live",
           NEW end \in {"ended", "crashed"}, job' = [job EXCEPT ![j] = end],
           NEW failed \in BOOLEAN, Return(j, failed),
           \/ Found(j) = {} /\ UNCHANGED <<tasks, removal>>
           \/ \E i \in Found(j), s \in {"active", "completed", "error"} :
                 tasks' = Put(i, [Adopt(j, i) EXCEPT !.state = s]) /\ removal' = removal \cup {i},
           cached' \subseteq {Target[k] : k \in Job},
           UNCHANGED <<cancelledTok, multi, jobCancelled, link, asked>>
    PROVE  TasksInv'
<1>1. /\ job' \in [Job -> {"none", "live", "ended", "crashed"}]
      /\ pc' \in [Call -> {"new", "reserve", "spawned", "starting", "job", "failing", "done"}]
      /\ job'[j] = end /\ \A k \in Job \ {j} : job'[k] = job[k]
      /\ \A k \in Call \ {j} : pc'[k] = pc[k]
      /\ j \in Call => pc'[j] \in {"failing", "done"}
  BY DEF TasksInv, TasksTypeOK, Return
<1>2. j \in Call => pc[j] \in {"job", "failing", "done"}
  BY DEF TasksInv, NewInv
<1>3. \A a \in DOMAIN tasks :
         /\ tasks[a].rip \in Job \cup {NoJob}
         /\ tasks[a].rip = NoJob => a \in Call /\ pc[a] \in {"spawned", "starting"}
         /\ tasks[a].rip # NoJob => /\ job[tasks[a].rip] # "none"
                                    /\ Tended(a)
  BY MetaFields DEF TasksInv, RunnerInv, TasksTypeOK
<1>4. Call \subseteq Job
  BY DEF Job
<1>5. CASE Found(j) = {} /\ UNCHANGED <<tasks, removal>>
  <2>1. \A k \in DOMAIN tasks : tasks[k].rip # j /\ k # j
    BY <1>5, FoundFacts
  <2>2. TasksTypeOK' /\ TokenInv' /\ OneTask'
    BY <1>1, <1>5 DEF TasksInv, TasksTypeOK, TokenInv, OneTask
  <2>3. RunnerInv'
    BY <1>1, <1>3, <1>4, <1>5, <2>1 DEF RunnerInv, Tended, LateTask, Deserted
  <2>4. NewInv'
    BY <1>1, <1>2, <1>4, <1>5 DEF TasksInv, NewInv
  <2>5. CancelledInv'
    BY <1>1, <1>3, <1>5, <2>1 DEF TasksInv, CancelledInv
  <2> QED  BY <2>2, <2>3, <2>4, <2>5 DEF TasksInv
<1>6. ASSUME NEW i \in Found(j), NEW s \in {"active", "completed", "error"},
             tasks' = Put(i, [Adopt(j, i) EXCEPT !.state = s]), removal' = removal \cup {i}
      PROVE  TasksInv'
  <2>1. PICK a : a = Adopt(j, i) /\ Tracks(j, i, a)
    BY Adopted
  <2>2. PICK t : t = [a EXCEPT !.state = s]
    OBVIOUS
  <2>3. Tracks(j, i, t) /\ tasks' = Put(i, t)
    <3>1. a \in TaskMeta
      BY <2>1 DEF Tracks
    <3>2. t \in TaskMeta /\ t.rip = a.rip /\ t.token = a.token
      BY <2>2, <3>1 DEF TaskMeta
    <3>3. Tracks(j, i, t)
      BY <2>1, <3>2 DEF Tracks
    <3> QED  BY <1>6, <2>1, <2>2, <3>3
  <2>4. /\ DOMAIN tasks' \subseteq TaskId /\ \A k \in DOMAIN tasks' : tasks'[k] \in TaskMeta
        /\ TokenInv' /\ OneTask'
        /\ i \in DOMAIN tasks'
        /\ i \notin DOMAIN tasks => i \notin Call
        /\ \A k \in DOMAIN tasks' : k # i => k \in DOMAIN tasks /\ tasks'[k] = tasks[k]
        /\ tasks'[i] = t /\ t.rip # NoJob
    BY <2>3, TrackedTable
  <2>5. /\ i \in DOMAIN tasks /\ i \in TaskId
        /\ \A k \in DOMAIN tasks : tasks[k].rip = j \/ k = j => k = i
    BY FoundFacts DEF TasksInv, TasksTypeOK
  <2>6. t.rip = j \/ t.rip = tasks[i].rip
    BY <2>3 DEF Tracks
  <2>7. TasksTypeOK'
    BY <1>1, <1>6, <2>4, <2>5 DEF TasksInv, TasksTypeOK
  <2>8. RunnerInv'
    <3> SUFFICES ASSUME NEW k \in DOMAIN tasks'
                 PROVE  /\ tasks'[k].rip = NoJob => k \in Call /\ pc'[k] \in {"spawned", "starting"}
                        /\ tasks'[k].rip # NoJob => /\ job'[tasks'[k].rip] # "none"
                                                    /\ Tended(k)'
      BY DEF RunnerInv
    <3>1. CASE k = i
      BY <1>1, <1>3, <1>6, <2>4, <2>5, <2>6, <3>1 DEF Tended
    <3>2. CASE k # i
      <4>1. /\ k \in DOMAIN tasks /\ tasks'[k] = tasks[k] /\ tasks[k].rip # j /\ k # j
            /\ removal \subseteq removal'
        BY <1>6, <2>4, <2>5, <3>2
      <4> QED  BY <1>1, <1>3, <1>4, <4>1 DEF Tended, LateTask, Deserted
    <3> QED  BY <3>1, <3>2
  <2>9. NewInv'
    BY <1>1, <1>2, <1>4, <2>4 DEF TasksInv, NewInv
  <2>10. CancelledInv'
    <3> SUFFICES ASSUME NEW c \in Call, c \in DOMAIN tasks', pc'[c] \in {"spawned", "starting"},
                        c \in cancelledTok' \/ \E k \in Job : link'[k] = c
                 PROVE  tasks'[c].rip # NoJob /\ (job'[tasks'[c].rip] = "live" \/ c \in removal')
      BY DEF CancelledInv
    <3>1. CASE c = i
      BY <1>6, <2>4, <3>1
    <3>2. CASE c # i
      <4>1. /\ c \in DOMAIN tasks /\ tasks'[c] = tasks[c] /\ tasks[c].rip # j /\ c # j
            /\ removal \subseteq removal'
        BY <1>6, <2>4, <2>5, <3>2
      <4> QED  BY <1>1, <1>3, <4>1 DEF TasksInv, CancelledInv
    <3> QED  BY <3>1, <3>2
  <2> QED  BY <2>4, <2>7, <2>8, <2>9, <2>10 DEF TasksInv
<1> QED  BY <1>5, <1>6

\* A task goes; of the rest only controllers are cancelled, that of the task among them.
LEMMA DropKeeps ==
    ASSUME TasksInv, NEW i, tasks' = Drop(i), removal' = removal \/ removal' = removal \ {i},
           cancelledTok' \subseteq cancelledTok \cup ({i} \cap DOMAIN tasks),
           jobCancelled \subseteq jobCancelled', jobCancelled' \subseteq Job,
           asked' \subseteq TaskId,
           pc' = pc \/ (i \in Call /\ pc' = [pc EXCEPT ![i] = "done"]),
           UNCHANGED <<job, multi, link, cached>>
    PROVE  TasksInv'
<1>1. /\ DOMAIN tasks' = DOMAIN tasks \ {i}
      /\ \A k \in DOMAIN tasks : k # i => tasks'[k] = tasks[k]
  BY DropFacts
<1>2. /\ pc' \in [Call -> {"new", "reserve", "spawned", "starting", "job", "failing", "done"}]
      /\ \A k \in Call : k # i => pc'[k] = pc[k]
      /\ \A k \in Call : k = i => pc'[k] \in {pc[k], "done"}
  BY DEF TasksInv, TasksTypeOK
<1>3. TasksTypeOK'
  BY <1>1, <1>2 DEF TasksInv, TasksTypeOK
<1>4. TokenInv' /\ OneTask'
  BY <1>1 DEF TasksInv, TokenInv, OneTask
<1>5. RunnerInv'
  BY <1>1, <1>2 DEF TasksInv, RunnerInv, Tended, LateTask, Deserted
<1>6. NewInv'
  BY <1>1, <1>2 DEF TasksInv, NewInv
<1>7. CancelledInv'
  BY <1>1, <1>2 DEF TasksInv, CancelledInv
<1> QED  BY <1>3, <1>4, <1>5, <1>6, <1>7 DEF TasksInv

\* A cancelled job ends, and its task is cancelled with it.
LEMMA CancelledKeeps ==
    ASSUME TasksInv, NEW j \in Job, OnCancelled(j)
    PROVE  TasksInv'
<1>1. PICK failed \in BOOLEAN : Return(j, failed)
  BY DEF OnCancelled
<1>2. /\ job[j] = "live" /\ job' = [job EXCEPT ![j] = "ended"]
      /\ UNCHANGED <<multi, link, removal, cached, asked>>
  BY DEF OnCancelled
<1>3. CASE Found(j) = {}
  <2>1. UNCHANGED <<tasks, cancelledTok, jobCancelled>>
    BY <1>3 DEF OnCancelled
  <2>2. cached' \subseteq {Target[k] : k \in Job}
    BY <1>2 DEF TasksInv, TasksTypeOK
  <2> QED  BY <1>1, <1>2, <1>3, <2>1, <2>2, EndKeeps
<1>4. CASE Found(j) # {}
  <2>1. PICK i \in Found(j) :
           /\ tasks' = Drop(i)
           /\ cancelledTok' = cancelledTok \cup ({Adopt(j, i).token} \ {Unwatched})
           /\ OrchestratorCancel(Adopt(j, i).rip)
    BY <1>4 DEF OnCancelled
  <2>2. /\ i \in DOMAIN tasks /\ i \in TaskId
        /\ \A k \in DOMAIN tasks : tasks[k].rip = j \/ k = j => k = i
    BY FoundFacts DEF TasksInv, TasksTypeOK
  <2>3. Adopt(j, i).token \in {i, Unwatched} /\ Adopt(j, i).rip \in Job
    BY Adopted DEF Tracks
  <2>4. /\ cancelledTok' \subseteq cancelledTok \cup {i}
        /\ jobCancelled \subseteq jobCancelled' /\ jobCancelled' \subseteq Job
    BY <2>1, <2>3 DEF OrchestratorCancel, TasksInv, TasksTypeOK
  <2>5. /\ DOMAIN tasks' = DOMAIN tasks \ {i}
        /\ \A k \in DOMAIN tasks : k # i => tasks'[k] = tasks[k]
    BY <2>1, DropFacts
  <2>6. /\ job' \in [Job -> {"none", "live", "ended", "crashed"}]
        /\ pc' \in [Call -> {"new", "reserve", "spawned", "starting", "job", "failing", "done"}]
        /\ job'[j] = "ended" /\ \A k \in Job \ {j} : job'[k] = job[k]
        /\ \A k \in Call \ {j} : pc'[k] = pc[k]
        /\ j \in Call => pc'[j] \in {"failing", "done"} /\ pc[j] \in {"job", "failing", "done"}
        /\ Call \subseteq Job
    BY <1>1, <1>2 DEF TasksInv, TasksTypeOK, NewInv, Return, Job
  <2>7. TasksTypeOK'
    BY <1>2, <2>2, <2>4, <2>5, <2>6 DEF TasksInv, TasksTypeOK
  <2>8. TokenInv' /\ OneTask'
    BY <2>5 DEF TasksInv, TokenInv, OneTask
  <2>9. RunnerInv'
    <3>1. \A a \in DOMAIN tasks : tasks[a].rip \in Job \cup {NoJob}
      BY MetaFields DEF TasksInv, TasksTypeOK
    <3> QED  BY <1>2, <2>2, <2>4, <2>5, <2>6, <3>1 DEF TasksInv, RunnerInv, Tended, LateTask, Deserted
  <2>10. NewInv'
    BY <1>2, <2>2, <2>4, <2>5, <2>6 DEF TasksInv, NewInv
  <2>11. CancelledInv'
    <3>1. \A a \in DOMAIN tasks : tasks[a].rip \in Job \cup {NoJob}
      BY MetaFields DEF TasksInv, TasksTypeOK
    <3> QED  BY <1>2, <2>2, <2>4, <2>5, <2>6, <3>1 DEF TasksInv, CancelledInv
  <2> QED  BY <2>7, <2>8, <2>9, <2>10, <2>11 DEF TasksInv
<1> QED  BY <1>3, <1>4

\* on_event, progress.
LEMMA ProgressKeeps ==
    ASSUME TasksInv, NEW j \in Job, OnProgress(j)
    PROVE  TasksInv'
<1>1. PICK i, t : Tracks(j, i, t) /\ tasks' = Put(i, t)
  BY ProgressTracks
<1>2. /\ DOMAIN tasks' \subseteq TaskId /\ \A k \in DOMAIN tasks' : tasks'[k] \in TaskMeta
      /\ TokenInv' /\ OneTask'
      /\ i \in DOMAIN tasks'
      /\ i \notin DOMAIN tasks => i \notin Call
      /\ \A k \in DOMAIN tasks' : k # i => k \in DOMAIN tasks /\ tasks'[k] = tasks[k]
      /\ tasks'[i] = t /\ t.rip # NoJob
  BY <1>1, TrackedTable
<1>3. t.rip = j \/ (i \in DOMAIN tasks /\ t.rip = tasks[i].rip)
  BY <1>1 DEF Tracks
<1>4. /\ MayReport(j)
      /\ UNCHANGED <<cancelledTok, pc, job, multi, jobCancelled, link, removal, cached, asked>>
  BY DEF OnProgress
<1>5. TasksTypeOK'
  BY <1>2, <1>4 DEF TasksInv, TasksTypeOK
<1>6. RunnerInv'
  <2> SUFFICES ASSUME NEW k \in DOMAIN tasks'
               PROVE  /\ tasks'[k].rip = NoJob => k \in Call /\ pc'[k] \in {"spawned", "starting"}
                      /\ tasks'[k].rip # NoJob => /\ job'[tasks'[k].rip] # "none"
                                                  /\ Tended(k)'
    BY DEF RunnerInv
  <2>0. \A a \in DOMAIN tasks :
           /\ tasks[a].rip = NoJob => a \in Call /\ pc[a] \in {"spawned", "starting"}
           /\ tasks[a].rip # NoJob => job[tasks[a].rip] # "none" /\ Tended(a)
    BY DEF TasksInv, RunnerInv
  <2>1. CASE k = i
    <3>1. CASE i \in DOMAIN tasks /\ t.rip = tasks[i].rip
      BY <1>2, <1>4, <2>0, <2>1, <3>1 DEF Tended, LateTask, Deserted
    <3>2. CASE i \in DOMAIN tasks /\ t.rip # tasks[i].rip
      <4>1. tasks[i].rip = NoJob /\ t.rip = j
        BY <1>1, <3>2 DEF Tracks
      <4> QED  BY <1>2, <1>4, <2>0, <2>1, <3>2, <4>1 DEF Tended, MayReport, Deserted
    <3>3. CASE i \notin DOMAIN tasks
      <4>1. i = Bot(j) /\ t.rip = j
        BY <1>1, <3>3 DEF Tracks
      <4> QED  BY <1>2, <1>4, <2>1, <4>1 DEF Tended, LateTask, Deserted, MayReport
    <3> QED  BY <3>1, <3>2, <3>3
  <2>2. CASE k # i
    BY <1>2, <1>4, <2>0, <2>2 DEF Tended, LateTask, Deserted
  <2> QED  BY <2>1, <2>2
<1>7. NewInv'
  BY <1>2, <1>4 DEF TasksInv, NewInv
<1>8. CancelledInv'
  <2>1. i \in DOMAIN tasks => tasks[i].rip \in {NoJob, t.rip}
    BY <1>1 DEF Tracks
  <2> QED  BY <1>2, <1>4, <2>1 DEF TasksInv, CancelledInv
<1> QED  BY <1>2, <1>5, <1>6, <1>7, <1>8 DEF TasksInv

\* A call reserves its task: the id is new to the registry and to every watcher.
LEMMA ReserveKeeps ==
    ASSUME TasksInv, NEW c \in Call, ReserveTask(c)
    PROVE  TasksInv'
<1>1. /\ pc[c] = "reserve" /\ c \in Job /\ c \in TaskId /\ c \notin DOMAIN tasks
      /\ c \notin cancelledTok /\ \A j \in Job : link[j] # c
      /\ job[c] = "none"
      /\ UNCHANGED <<cancelledTok, job, multi, jobCancelled, link, removal, cached, asked>>
  BY DEF ReserveTask, TasksInv, NewInv, TasksTypeOK, Job, TaskId
<1>2. CASE \E i \in DOMAIN tasks : Equivalent(tasks[i], c)
  <2>1. Replied(c) /\ UNCHANGED tasks
    BY <1>2 DEF ReserveTask
  <2>2. /\ pc' \in [Call -> {"new", "reserve", "spawned", "starting", "job", "failing", "done"}]
        /\ \A k \in Call \ {c} : pc'[k] = pc[k]
        /\ pc'[c] = "done"
    BY <2>1 DEF Replied, TasksInv, TasksTypeOK
  <2>3. TasksTypeOK' /\ TokenInv' /\ OneTask'
    BY <1>1, <2>1, <2>2 DEF TasksInv, TasksTypeOK, TokenInv, OneTask
  <2>4. RunnerInv'
    BY <1>1, <2>1, <2>2 DEF TasksInv, RunnerInv, Tended, LateTask, Deserted
  <2>5. NewInv' /\ CancelledInv'
    BY <1>1, <2>1, <2>2 DEF TasksInv, NewInv, CancelledInv
  <2> QED  BY <2>3, <2>4, <2>5 DEF TasksInv
<1>3. CASE ~ \E i \in DOMAIN tasks : Equivalent(tasks[i], c)
  <2>1. PICK t : /\ t = [rip |-> NoJob, owner |-> Owner[c], id |-> Target[c].id,
                         album |-> Target[c].album, state |-> "active", token |-> c]
                 /\ tasks' = Put(c, t)
                 /\ pc' = [pc EXCEPT ![c] = "spawned"]
    BY <1>3 DEF ReserveTask
  <2>2. t \in TaskMeta /\ t.rip = NoJob /\ t.token = c
    BY <1>1, <2>1, TasksAssumption DEF TaskMeta, Client
  <2>3. /\ DOMAIN tasks' = DOMAIN tasks \cup {c} /\ tasks'[c] = t
        /\ \A k \in DOMAIN tasks : k # c => tasks'[k] = tasks[k]
    BY <2>1, PutFacts
  <2>4. /\ pc' \in [Call -> {"new", "reserve", "spawned", "starting", "job", "failing", "done"}]
        /\ \A k \in Call \ {c} : pc'[k] = pc[k]
        /\ pc'[c] = "spawned"
    BY <2>1 DEF TasksInv, TasksTypeOK
  <2>5. TasksTypeOK'
    BY <1>1, <2>2, <2>3, <2>4 DEF TasksInv, TasksTypeOK
  <2>6. TokenInv'
    BY <2>2, <2>3 DEF TasksInv, TokenInv
  <2>7. RunnerInv'
    BY <1>1, <2>2, <2>3, <2>4 DEF TasksInv, RunnerInv, Tended, LateTask, Deserted
  <2>8. OneTask'
    <3>1. \A a \in DOMAIN tasks' : a # NoJob
      BY <2>5, TasksAssumption DEF TasksTypeOK
    <3>2. \A a \in DOMAIN tasks : tasks[a].rip # c
      BY <1>1, TasksAssumption DEF TasksInv, RunnerInv
    <3> QED  BY <2>2, <2>3, <3>1, <3>2 DEF TasksInv, OneTask
  <2>9. NewInv' /\ CancelledInv'
    BY <1>1, <2>2, <2>3, <2>4 DEF TasksInv, NewInv, CancelledInv
  <2> QED  BY <2>5, <2>6, <2>7, <2>8, <2>9 DEF TasksInv
<1> QED  BY <1>2, <1>3

\* A call or its runner moves on, and no registered task loses the runner it waits for.
LEMMA CallKeeps ==
    ASSUME TasksInv, NEW c \in Call, CreateTask(c) \/ RunnerCheck(c)
    PROVE  TasksInv'
<1>1. /\ pc' \in [Call -> {"new", "reserve", "spawned", "starting", "job", "failing", "done"}]
      /\ \A k \in Call \ {c} : pc'[k] = pc[k]
      /\ \/ pc[c] = "new" /\ pc'[c] \in {"reserve", "done"}
         \/ pc[c] = "spawned" /\ pc'[c] = "starting"
         \/ pc[c] = "spawned" /\ pc'[c] = "done" /\ c \in cancelledTok
      /\ UNCHANGED <<tasks, cancelledTok, job, multi, jobCancelled, link, removal, cached, asked>>
  BY DEF CreateTask, RunnerCheck, Replied, TasksInv, TasksTypeOK
<1>2. TasksTypeOK' /\ TokenInv' /\ OneTask' /\ CancelledInv'
  BY <1>1 DEF TasksInv, TasksTypeOK, TokenInv, OneTask, CancelledInv
<1>3. RunnerInv'
  BY <1>1 DEF TasksInv, RunnerInv, NewInv, CancelledInv, Tended, LateTask, Deserted
<1>4. NewInv'
  BY <1>1 DEF TasksInv, NewInv
<1> QED  BY <1>2, <1>3, <1>4 DEF TasksInv

\* A cancellation is passed on, or a job learns its size.
LEMMA SignalKeeps ==
    ASSUME TasksInv, NEW j \in Job, Watch(j) \/ Resolve(j) \/ BotCancel(j)
    PROVE  TasksInv'
<1>1. /\ cancelledTok' \subseteq cancelledTok \cup ({link[j]} \cap TaskId)
      /\ multi' \subseteq Job
      /\ jobCancelled \subseteq jobCancelled' /\ jobCancelled' \subseteq Job
      /\ UNCHANGED <<tasks, pc, job, link, removal, cached, asked>>
  BY DEF Watch, Resolve, BotCancel, OrchestratorCancel, TasksInv, TasksTypeOK
<1>2. TasksTypeOK' /\ TokenInv' /\ OneTask' /\ RunnerInv'
  BY <1>1 DEF TasksInv, TasksTypeOK, TokenInv, OneTask, RunnerInv, Tended, LateTask, Deserted
<1>3. NewInv'
  BY <1>1 DEF TasksInv, NewInv
<1>4. CancelledInv'
  BY <1>1 DEF TasksInv, CancelledInv
<1> QED  BY <1>2, <1>3, <1>4 DEF TasksInv

\* on_event, failed or completed.
LEMMA EndedKeeps ==
    ASSUME TasksInv, NEW j \in Job, OnFailed(j) \/ OnCompleted(j)
    PROVE  TasksInv'
<1>1. /\ job[j] = "live"
      /\ cached' \subseteq {Target[k] : k \in Job}
      /\ UNCHANGED <<cancelledTok, multi, jobCancelled, link, asked>>
  BY DEF OnFailed, OnCompleted, TasksInv, TasksTypeOK
<1>2. PICK end \in {"ended", "crashed"}, failed \in BOOLEAN :
         job' = [job EXCEPT ![j] = end] /\ Return(j, failed)
  <2>1. CASE OnFailed(j)
    BY <2>1 DEF OnFailed
  <2>2. CASE OnCompleted(j)
    BY <2>2 DEF OnCompleted
  <2> QED  BY <2>1, <2>2
<1>3. \/ Found(j) = {} /\ UNCHANGED <<tasks, removal>>
      \/ \E i \in Found(j), s \in {"active", "completed", "error"} :
            tasks' = Put(i, [Adopt(j, i) EXCEPT !.state = s]) /\ removal' = removal \cup {i}
  <2>1. CASE OnFailed(j)
    BY <2>1 DEF OnFailed
  <2>2. CASE OnCompleted(j)
    BY <2>2 DEF OnCompleted
  <2> QED  BY <2>1, <2>2
<1> QED  BY <1>1, <1>2, <1>3, EndKeeps

\* A runner that fails, a delayed removal, and a client that cancels.
LEMMA RemovalKeeps ==
    ASSUME TasksInv, NEW i \in TaskId,
           (i \in Call /\ RunnerFails(i)) \/ DelayedRemoval(i) \/ (\E u \in Client : CancelRpc(u, i))
    PROVE  TasksInv'
<1>1. CASE (i \in Call /\ RunnerFails(i)) \/ DelayedRemoval(i)
  <2>1. /\ tasks' = Drop(i) /\ (removal' = removal \/ removal' = removal \ {i})
        /\ pc' = pc \/ (i \in Call /\ pc' = [pc EXCEPT ![i] = "done"])
        /\ UNCHANGED <<cancelledTok, job, multi, jobCancelled, link, cached, asked>>
    BY <1>1 DEF RunnerFails, DelayedRemoval
  <2>2. jobCancelled \subseteq jobCancelled' /\ jobCancelled' \subseteq Job
        /\ asked' \subseteq TaskId
    BY <2>1 DEF TasksInv, TasksTypeOK
  <2> QED  BY <2>1, <2>2, DropKeeps
<1>2. CASE \E u \in Client : CancelRpc(u, i)
  <2>1. /\ i \in DOMAIN tasks /\ tasks' = Drop(i)
        /\ cancelledTok' = cancelledTok \cup ({tasks[i].token} \ {Unwatched})
        /\ OrchestratorCancel(tasks[i].rip)
        /\ asked' = asked \cup {i}
        /\ UNCHANGED <<pc, job, multi, link, removal, cached>>
    BY <1>2 DEF CancelRpc
  <2>2. tasks[i].token \in {i, Unwatched} /\ tasks[i].rip \in Job \cup {NoJob}
    BY <2>1, MetaFields DEF TasksInv, TokenInv, TasksTypeOK
  <2>3. /\ cancelledTok' \subseteq cancelledTok \cup ({i} \cap DOMAIN tasks)
        /\ jobCancelled \subseteq jobCancelled' /\ jobCancelled' \subseteq Job
        /\ asked' \subseteq TaskId
    BY <2>1, <2>2 DEF OrchestratorCancel, TasksInv, TasksTypeOK
  <2> QED  BY <2>1, <2>3, DropKeeps
<1> QED  BY <1>1, <1>2

\* A job begins, asked for by a client or by the bot.
LEMMA StartedKeeps ==
    ASSUME TasksInv, NEW j \in Job,
           (j \in Call /\ StartTask(j)) \/ (j \in BotJob /\ StartBotJob(j))
    PROVE  TasksInv'
<1>1. /\ OnCreated(j) /\ job' = [job EXCEPT ![j] = "live"]
      /\ \/ j \in Call /\ pc' = [pc EXCEPT ![j] = "job"]
         \/ j \notin Call /\ pc' = pc
      /\ UNCHANGED <<cancelledTok, multi, removal, cached, asked>>
  BY TasksAssumption DEF StartTask, StartBotJob
<1>2. job[j] = "none"
  BY DEF StartTask, StartBotJob, TasksInv, NewInv
<1> QED  BY <1>1, <1>2, StartKeeps

\* The registry, its runners and the subscriber stay in order (task_registry.rs,
\* rip_task_rpc.rs, main.rs): for any number of calls and Telegram jobs, every
\* task is cancelled only through its own controller, waits for its runner or has
\* a job that it alone names, and goes when that job ends; a job that is over keeps
\* a task only by progress that uploads it left behind reported.
THEOREM TasksInvariant == TasksSpec => []TasksInv
<1>1. TasksInit => TasksInv
  <2> SUFFICES ASSUME TasksInit PROVE TasksInv
    OBVIOUS
  <2>1. DOMAIN tasks = {}
    BY DEF TasksInit
  <2>2. TasksTypeOK
    BY <2>1 DEF TasksInit, TasksTypeOK
  <2>3. TokenInv /\ RunnerInv /\ OneTask /\ CancelledInv
    BY <2>1 DEF TokenInv, RunnerInv, OneTask, CancelledInv
  <2>4. NewInv
    <3>1. \A c \in Call : c # NoJob /\ c \in Job
      BY TasksAssumption DEF Job
    <3> QED  BY <2>1, <3>1 DEF TasksInit, NewInv
  <2> QED  BY <2>2, <2>3, <2>4 DEF TasksInv
<1>2. TasksInv /\ [TasksNext]_taskVars => TasksInv'
  <2> SUFFICES ASSUME TasksInv, [TasksNext]_taskVars PROVE TasksInv'
    OBVIOUS
  <2>0. Call \subseteq Job /\ BotJob \subseteq Job /\ Call \subseteq TaskId
    BY DEF Job, TaskId
  <2>1. ASSUME NEW c \in Call, CreateTask(c) \/ RunnerCheck(c) PROVE TasksInv'
    BY <2>1, CallKeeps
  <2>2. ASSUME NEW c \in Call, ReserveTask(c) PROVE TasksInv'
    BY <2>2, ReserveKeeps
  <2>3. ASSUME NEW c \in Call, StartTask(c) PROVE TasksInv'
    BY <2>0, <2>3, StartedKeeps
  <2>4. ASSUME NEW c \in Call, RunnerFails(c) PROVE TasksInv'
    BY <2>0, <2>4, RemovalKeeps
  <2>5. ASSUME NEW j \in BotJob, StartBotJob(j) PROVE TasksInv'
    BY <2>0, <2>5, StartedKeeps
  <2>6. ASSUME NEW j \in Job, Watch(j) \/ Resolve(j) \/ BotCancel(j) PROVE TasksInv'
    BY <2>6, SignalKeeps
  <2>7. ASSUME NEW j \in Job, OnProgress(j) PROVE TasksInv'
    BY <2>7, ProgressKeeps
  <2>8. ASSUME NEW j \in Job, OnFailed(j) \/ OnCompleted(j) PROVE TasksInv'
    BY <2>8, EndedKeeps
  <2>9. ASSUME NEW j \in Job, OnCancelled(j) PROVE TasksInv'
    BY <2>9, CancelledKeeps
  <2>10. ASSUME NEW i \in TaskId, DelayedRemoval(i) \/ (\E u \in Client : CancelRpc(u, i))
         PROVE  TasksInv'
    BY <2>10, RemovalKeeps
  <2>11. CASE UNCHANGED taskVars
    BY <2>11 DEF taskVars, TasksInv, TasksTypeOK, TokenInv, RunnerInv, Tended, LateTask, Deserted,
                 OneTask, NewInv, CancelledInv
  <2> QED  BY <2>1, <2>2, <2>3, <2>4, <2>5, <2>6, <2>7, <2>8, <2>9, <2>10, <2>11 DEF TasksNext
<1> QED  BY <1>1, <1>2, PTL DEF TasksSpec

\* A registered task outlives everything that would remove it only if
\* late progress of a job that left uploads behind registered it under the job's id (rip_task_rpc.rs,
\* reserve_task: it answers every later request for its target).
THEOREM TasksAreAccountedAlways == TasksSpec => []TasksAreAccounted
<1>1. TasksInv => TasksAreAccounted
  BY DEF TasksInv, TasksAreAccounted, RunnerInv, Tended, NoOrphanTask, HasRemover
<1> QED  BY <1>1, TasksInvariant, PTL

-----------------------------------------------------------------------------
(* Playlists. *)

\* The rows of a playlist that holds the tracks of request t.
AllOf(l, t) == {[list |-> l, pos |-> n, by |-> t] : n \in 0 .. Size[t] - 1}

\* What a request has not committed.
Touched(t) == del[t] \cup ins[t]

\* A playlist's rows come from one request, and no row is without its playlist.
RowsInv ==
    /\ \A r \in rows : r.list \in DOMAIN lists
    /\ \A l \in List : RowsOf(l) = {} \/ \E t \in Txn : RowsOf(l) = AllOf(l, t)

\* A request that has made a playlist holds the user's lock, and what it counted
\* and looked for still stands.
FreshInv(t) ==
    /\ t \in DOMAIN lists => step[t] = "done"
    /\ step[t] \in {"start", "count"} => ~fresh[t]
    /\ step[t] = "count" => lock = t
    /\ lock = t => step[t] \in {"count", "delete", "deleting", "insert", "commit"}
    /\ fresh[t] /\ step[t] # "done" =>
          /\ lock = t /\ on[t] = t
          /\ Cardinality(Custom) < MaxCustom
          /\ Kind[t] = "import" => \A l \in Custom : lists[l] # Url[t]

\* What a DELETE started with is all a request wrote; what it deletes is all its
\* playlist has; a request that inserts has deleted whatever was there.
ReplaceInv(t) ==
    /\ step[t] \in {"delete", "deleting", "insert", "commit"} => on[t] \in List
    /\ step[t] = "deleting" => snap[t] = {} \/ \E u \in Txn : snap[t] = AllOf(on[t], u)
    /\ del[t] # {} => step[t] \in {"insert", "commit"} /\ del[t] = RowsOf(on[t])
    /\ ins[t] # {} => /\ step[t] = "commit" /\ ins[t] = AllOf(on[t], t)
                      /\ RowsOf(on[t]) \subseteq del[t]
                      /\ fresh[t] \/ on[t] \in DOMAIN lists

\* Two requests never change one playlist at the same time, although no lock of
\* theirs keeps them apart.
OneChanges == \A t, u \in Txn : t # u /\ on[t] = on[u] => Touched(t) = {} \/ Touched(u) = {}

\* The inductive invariant of the playlists.
ListsInv ==
    /\ ListsTypeOK /\ LimitHolds /\ RowsInv /\ OneChanges
    /\ \A t \in Txn : FreshInv(t) /\ ReplaceInv(t)

\* Everything of the request t alone may have changed.
OnlyOf(t) ==
    \A u \in Txn \ {t} :
        /\ step'[u] = step[u] /\ on'[u] = on[u] /\ fresh'[u] = fresh[u]
        /\ snap'[u] = snap[u] /\ del'[u] = del[u] /\ ins'[u] = ins[u]
        /\ lock' = u <=> lock = u

\* A step of one request that commits nothing keeps the invariant if it keeps the
\* request's own part of it and touches no playlist another one touches.
LEMMA AloneKeeps ==
    ASSUME ListsInv, NEW t \in Txn, UNCHANGED <<lists, rows>>, OnlyOf(t), ListsTypeOK',
           FreshInv(t)', ReplaceInv(t)',
           \A u \in Txn \ {t} : on[u] = on'[t] => Touched(t)' = {} \/ Touched(u) = {}
    PROVE  ListsInv'
<1>1. Custom' = Custom /\ \A l : RowsOf(l)' = RowsOf(l)
  BY DEF Custom, RowsOf
<1>2. LimitHolds' /\ RowsInv'
  BY <1>1 DEF ListsInv, LimitHolds, RowsInv
<1>3. ASSUME NEW u \in Txn PROVE FreshInv(u)' /\ ReplaceInv(u)'
  <2>1. CASE u = t
    BY <2>1
  <2>2. CASE u # t
    <3>1. FreshInv(u) /\ ReplaceInv(u)
      BY DEF ListsInv
    <3>2. /\ step'[u] = step[u] /\ on'[u] = on[u] /\ fresh'[u] = fresh[u]
          /\ snap'[u] = snap[u] /\ del'[u] = del[u] /\ ins'[u] = ins[u]
          /\ lock' = u <=> lock = u
      BY <2>2 DEF OnlyOf
    <3>3. FreshInv(u)'
      BY <1>1, <3>1, <3>2 DEF FreshInv
    <3>4. ReplaceInv(u)'
      BY <1>1, <3>1, <3>2 DEF ReplaceInv
    <3> QED  BY <3>3, <3>4
  <2> QED  BY <2>1, <2>2
<1>4. OneChanges'
  <2>1. \A u \in Txn \ {t} : Touched(u)' = Touched(u) /\ on'[u] = on[u]
    BY DEF Touched, OnlyOf
  <2>2. \A u, v \in Txn : u # v /\ on[u] = on[v] => Touched(u) = {} \/ Touched(v) = {}
    BY DEF ListsInv, OneChanges
  <2> SUFFICES ASSUME NEW u \in Txn, NEW v \in Txn, u # v, on'[u] = on'[v]
               PROVE  Touched(u)' = {} \/ Touched(v)' = {}
    BY DEF OneChanges
  <2>3. CASE u # t /\ v # t
    BY <2>1, <2>2, <2>3
  <2>4. CASE u = t
    BY <2>1, <2>4
  <2>5. CASE v = t
    BY <2>1, <2>5
  <2> QED  BY <2>3, <2>4, <2>5
<1> QED  BY <1>2, <1>3, <1>4 DEF ListsInv

\* Before it works on rows a request touches none.
LEMMA NothingTouched ==
    ASSUME ListsInv, NEW t \in Txn, step[t] \notin {"insert", "commit"}
    PROVE  del[t] = {} /\ ins[t] = {} /\ Touched(t) = {}
BY DEF ListsInv, ReplaceInv, Touched

\* A transaction that fails gives up its lock and its rows.
LEMMA RollbackKeeps ==
    ASSUME ListsInv, NEW t \in Txn, Rollback(t), step[t] # "done", t \notin DOMAIN lists
    PROVE  ListsInv'
<1>1. /\ step' = [step EXCEPT ![t] = "failed"]
      /\ lock' = IF lock = t THEN NoTxn ELSE lock
      /\ del' = [del EXCEPT ![t] = {}]
      /\ ins' = [ins EXCEPT ![t] = {}]
      /\ fresh' = [fresh EXCEPT ![t] = FALSE]
      /\ UNCHANGED <<lists, rows, on, snap>>
  BY DEF Rollback
<1>2. ListsTypeOK'
  BY <1>1 DEF ListsInv, ListsTypeOK
<1>3. /\ step'[t] = "failed" /\ del'[t] = {} /\ ins'[t] = {} /\ fresh'[t] = FALSE /\ lock' # t
      /\ OnlyOf(t)
  BY <1>1, ListsAssumption DEF ListsInv, ListsTypeOK, OnlyOf
<1>4. FreshInv(t)'
  BY <1>1, <1>3 DEF FreshInv
<1>5. ReplaceInv(t)'
  BY <1>3 DEF ReplaceInv
<1>6. Touched(t)' = {}
  BY <1>3 DEF Touched
<1> QED  BY <1>1, <1>2, <1>3, <1>4, <1>5, <1>6, AloneKeeps

\* lock_user_playlists.
LEMMA LockKeeps ==
    ASSUME ListsInv, NEW t \in Txn, LockUserPlaylists(t)
    PROVE  ListsInv'
<1>1. /\ step[t] = "start" /\ lock = NoTxn /\ lock' = t
      /\ step' = [step EXCEPT ![t] = "count"]
      /\ UNCHANGED <<lists, rows, on, fresh, snap, del, ins>>
  BY DEF LockUserPlaylists
<1>2. ListsTypeOK'
  BY <1>1 DEF ListsInv, ListsTypeOK
<1>3. step'[t] = "count" /\ OnlyOf(t)
  BY <1>1, ListsAssumption DEF ListsInv, ListsTypeOK, OnlyOf
<1>4. FreshInv(t)'
  BY <1>1, <1>3 DEF ListsInv, FreshInv
<1>5. del[t] = {} /\ ins[t] = {} /\ Touched(t)' = {}
  BY <1>1, NothingTouched DEF Touched
<1>6. ReplaceInv(t)'
  BY <1>1, <1>3, <1>5 DEF ReplaceInv
<1> QED  BY <1>1, <1>2, <1>3, <1>4, <1>5, <1>6, AloneKeeps

\* A request finds the playlist it will replace.
LEMMA FoundKeeps ==
    ASSUME ListsInv, NEW t \in Txn, NEW l \in DOMAIN lists, step[t] \in {"start", "count"},
           on' = [on EXCEPT ![t] = l], step' = [step EXCEPT ![t] = "delete"],
           UNCHANGED <<lists, rows, lock, fresh, snap, del, ins>>
    PROVE  ListsInv'
<1>1. l \in List
  BY DEF ListsInv, ListsTypeOK
<1>2. ListsTypeOK'
  BY <1>1 DEF ListsInv, ListsTypeOK
<1>3. step'[t] = "delete" /\ on'[t] = l /\ OnlyOf(t)
  BY DEF ListsInv, ListsTypeOK, OnlyOf
<1>4. FreshInv(t)'
  BY <1>3 DEF ListsInv, FreshInv
<1>5. del[t] = {} /\ ins[t] = {} /\ Touched(t)' = {}
  BY NothingTouched DEF Touched
<1>6. ReplaceInv(t)'
  BY <1>1, <1>3, <1>5 DEF ReplaceInv
<1> QED  BY <1>2, <1>3, <1>4, <1>5, <1>6, AloneKeeps

\* The count below the limit, and the new playlist.
LEMMA InsertListKeeps ==
    ASSUME ListsInv, NEW t \in Txn, CountAndInsert(t)
    PROVE  ListsInv'
<1>1. /\ step[t] = "count" /\ lock = t /\ t \notin DOMAIN lists /\ t \in List
      /\ Kind[t] = "import" => \A l \in Custom : lists[l] # Url[t]
  BY DEF CountAndInsert, ListsInv, FreshInv, List
<1>2. CASE Cardinality(Custom) >= MaxCustom
  BY <1>1, <1>2, RollbackKeeps DEF CountAndInsert
<1>3. CASE ~(Cardinality(Custom) >= MaxCustom)
  <2>1. /\ on' = [on EXCEPT ![t] = t]
        /\ fresh' = [fresh EXCEPT ![t] = TRUE]
        /\ step' = [step EXCEPT ![t] = IF Kind[t] = "import" THEN "delete" ELSE "commit"]
        /\ UNCHANGED <<lists, rows, lock, snap, del, ins>>
    BY <1>3 DEF CountAndInsert
  <2>2. ListsTypeOK'
    BY <1>1, <2>1 DEF ListsInv, ListsTypeOK
  <2>3. step'[t] \in {"delete", "commit"} /\ on'[t] = t /\ fresh'[t] = TRUE /\ OnlyOf(t)
    BY <2>1 DEF ListsInv, ListsTypeOK, OnlyOf
  <2>4. Cardinality(Custom) < MaxCustom
    <3>1. IsFiniteSet(Custom)
      <4>1. Custom \subseteq Txn
        BY DEF Custom, ListsInv, ListsTypeOK, List
      <4> QED  BY <4>1, FS_Subset, ListsAssumption
    <3>2. Cardinality(Custom) \in Nat
      BY <3>1, FS_CardinalityType
    <3> QED  BY <1>3, <3>2, ListsAssumption
  <2>5. Custom' = Custom
    BY <2>1 DEF Custom
  <2>6. FreshInv(t)'
    BY <1>1, <2>1, <2>3, <2>4, <2>5 DEF FreshInv
  <2>7. del[t] = {} /\ ins[t] = {} /\ Touched(t)' = {}
    BY <1>1, <2>1, NothingTouched DEF Touched
  <2>8. ReplaceInv(t)'
    BY <1>1, <2>1, <2>3, <2>7 DEF ReplaceInv
  <2> QED  BY <2>1, <2>2, <2>3, <2>6, <2>7, <2>8, AloneKeeps
<1> QED  BY <1>2, <1>3

\* What a transaction wants to insert.
LEMMA AllOfFacts ==
    ASSUME NEW l, NEW t \in Txn
    PROVE  /\ AllOf(l, t) # {} => [list |-> l, pos |-> 0, by |-> t] \in AllOf(l, t) /\ Size[t] > 0
           /\ \A r \in AllOf(l, t) : r.list = l /\ r.by = t /\ r.pos \in Nat
           /\ l \in List => AllOf(l, t) \subseteq Row
<1>1. Size[t] \in Nat
  BY ListsAssumption
<1>2. \A r \in AllOf(l, t) : \E n \in 0 .. Size[t] - 1 : r = [list |-> l, pos |-> n, by |-> t]
  BY DEF AllOf
<1>3. AllOf(l, t) # {} => 0 \in 0 .. Size[t] - 1
  BY <1>1, <1>2
<1>4. \A r \in AllOf(l, t) : r.list = l /\ r.by = t /\ r.pos \in Nat
  BY <1>1, <1>2
<1>5. l \in List => AllOf(l, t) \subseteq Row
  BY <1>1, <1>2 DEF Row
<1> QED  BY <1>1, <1>3, <1>4, <1>5 DEF AllOf

\* The DELETE takes its snapshot.
LEMMA DeleteStartsKeeps ==
    ASSUME ListsInv, NEW t \in Txn, DeleteStarts(t)
    PROVE  ListsInv'
<1>1. /\ step[t] = "delete"
      /\ snap' = [snap EXCEPT ![t] = RowsOf(on[t])]
      /\ step' = [step EXCEPT ![t] = "deleting"]
      /\ UNCHANGED <<lists, rows, lock, on, fresh, del, ins>>
  BY DEF DeleteStarts
<1>2. on[t] \in List /\ RowsOf(on[t]) \subseteq Row
  BY <1>1 DEF ListsInv, ReplaceInv, ListsTypeOK, RowsOf
<1>3. ListsTypeOK'
  BY <1>1, <1>2 DEF ListsInv, ListsTypeOK
<1>4. step'[t] = "deleting" /\ snap'[t] = RowsOf(on[t]) /\ OnlyOf(t)
  BY <1>1 DEF ListsInv, ListsTypeOK, OnlyOf
<1>5. Custom' = Custom
  BY <1>1 DEF Custom
<1>6. FreshInv(t)'
  BY <1>1, <1>4, <1>5 DEF ListsInv, FreshInv
<1>7. del[t] = {} /\ ins[t] = {} /\ Touched(t)' = {}
  BY <1>1, NothingTouched DEF Touched
<1>8. RowsOf(on[t]) = {} \/ \E u \in Txn : RowsOf(on[t]) = AllOf(on[t], u)
  BY <1>2 DEF ListsInv, RowsInv
<1>9. ReplaceInv(t)'
  BY <1>1, <1>2, <1>4, <1>7, <1>8 DEF ReplaceInv, AllOf
<1> QED  BY <1>1, <1>3, <1>4, <1>6, <1>7, <1>9, AloneKeeps

\* The DELETE gets the locks of the rows it saw.
LEMMA DeleteEndsKeeps ==
    ASSUME ListsInv, NEW t \in Txn, DeleteEnds(t)
    PROVE  ListsInv'
<1>1. /\ step[t] = "deleting"
      /\ \A u \in Txn \ {t} : del[u] \cap snap[t] = {}
      /\ del' = [del EXCEPT ![t] = snap[t] \cap rows]
      /\ step' = [step EXCEPT ![t] = "insert"]
      /\ UNCHANGED <<lists, rows, lock, on, fresh, snap, ins>>
  BY DEF DeleteEnds
<1>2. on[t] \in List
  BY <1>1 DEF ListsInv, ReplaceInv
<1>3. ListsTypeOK'
  BY <1>1 DEF ListsInv, ListsTypeOK
<1>4. step'[t] = "insert" /\ del'[t] = snap[t] \cap rows /\ OnlyOf(t)
  BY <1>1 DEF ListsInv, ListsTypeOK, OnlyOf
<1>5. Custom' = Custom /\ RowsOf(on[t])' = RowsOf(on[t])
  BY <1>1 DEF Custom, RowsOf
<1>6. FreshInv(t)'
  BY <1>1, <1>4, <1>5 DEF ListsInv, FreshInv
<1>7. del[t] = {} /\ ins[t] = {}
  BY <1>1, NothingTouched
<1>8. snap[t] \cap rows # {} => snap[t] = RowsOf(on[t]) /\ snap[t] \cap rows = snap[t]
  <2> SUFFICES ASSUME NEW r \in snap[t] \cap rows
               PROVE  snap[t] = RowsOf(on[t]) /\ snap[t] \cap rows = snap[t]
    OBVIOUS
  <2>1. PICK u \in Txn : snap[t] = AllOf(on[t], u)
    BY <1>1 DEF ListsInv, ReplaceInv
  <2>2. r \in RowsOf(on[t]) /\ r.by = u
    <3>1. \A x \in AllOf(on[t], u) : x.list = on[t] /\ x.by = u
      BY AllOfFacts, Zenon
    <3> QED  BY <2>1, <3>1 DEF RowsOf
  <2>3. PICK v \in Txn : RowsOf(on[t]) = AllOf(on[t], v)
    BY <1>2, <2>2 DEF ListsInv, RowsInv
  <2>4. u = v
    <3>1. \A x \in AllOf(on[t], v) : x.by = v
      BY AllOfFacts, Zenon
    <3> QED  BY <2>2, <2>3, <3>1
  <2> QED  BY <2>1, <2>3, <2>4 DEF RowsOf
<1>9. ReplaceInv(t)'
  BY <1>1, <1>2, <1>4, <1>5, <1>7, <1>8 DEF ReplaceInv
<1>10. ASSUME NEW u \in Txn \ {t}, on[u] = on'[t]
       PROVE  Touched(t)' = {} \/ Touched(u) = {}
  <2>1. CASE snap[t] \cap rows = {}
    BY <1>1, <1>4, <1>7, <2>1 DEF Touched
  <2>2. CASE snap[t] \cap rows # {}
    <3>1. snap[t] = RowsOf(on[u]) /\ snap[t] # {}
      BY <1>1, <1>8, <1>10, <2>2
    <3>2. del[u] = {}
      BY <1>1, <3>1 DEF ListsInv, ReplaceInv
    <3>3. ins[u] = {}
      BY <3>1, <3>2 DEF ListsInv, ReplaceInv
    <3> QED  BY <3>2, <3>3 DEF Touched
  <2> QED  BY <2>1, <2>2
<1> QED  BY <1>1, <1>3, <1>4, <1>6, <1>9, <1>10, AloneKeeps

\* The INSERT, which waits for rows of the same place.
LEMMA InsertRowsKeeps ==
    ASSUME ListsInv, NEW t \in Txn, InsertRows(t)
    PROVE  ListsInv'
<1> DEFINE clash(r) == \E w \in Wanted(t) : r.list = w.list /\ r.pos = w.pos
<1>1. /\ step[t] = "insert" /\ on[t] \in List /\ t \notin DOMAIN lists
      /\ \A u \in Txn \ {t} : \A r \in ins[u] \cup del[u] : ~ clash(r)
  BY DEF InsertRows, ListsInv, ReplaceInv, FreshInv
<1>2. CASE \/ \E r \in rows \ del[t] : clash(r)
           \/ ~ fresh[t] /\ on[t] \notin DOMAIN lists /\ Size[t] > 0
  <2>1. Rollback(t)
    BY <1>2 DEF InsertRows
  <2> QED  BY <1>1, <2>1, RollbackKeeps
<1>3. CASE ~(\/ \E r \in rows \ del[t] : clash(r)
             \/ ~ fresh[t] /\ on[t] \notin DOMAIN lists /\ Size[t] > 0)
  <2>1. /\ ins' = [ins EXCEPT ![t] = Wanted(t)]
        /\ step' = [step EXCEPT ![t] = "commit"]
        /\ UNCHANGED <<lists, rows, lock, on, fresh, snap, del>>
    BY <1>3 DEF InsertRows
  <2>2. Wanted(t) = AllOf(on[t], t) /\ AllOf(on[t], t) \subseteq Row
    <3>1. Wanted(t) = AllOf(on[t], t)
      BY DEF Wanted, AllOf
    <3> QED  BY <1>1, <3>1, AllOfFacts
  <2>3. ListsTypeOK'
    BY <2>1, <2>2 DEF ListsInv, ListsTypeOK
  <2>4. step'[t] = "commit" /\ ins'[t] = AllOf(on[t], t) /\ OnlyOf(t)
    BY <2>1, <2>2 DEF ListsInv, ListsTypeOK, OnlyOf
  <2>5. Custom' = Custom /\ RowsOf(on[t])' = RowsOf(on[t])
    BY <2>1 DEF Custom, RowsOf
  <2>6. FreshInv(t)'
    BY <1>1, <2>1, <2>4, <2>5 DEF ListsInv, FreshInv
  <2>7. CASE AllOf(on[t], t) = {}
    <3>1. ins'[t] = ins[t] /\ ins[t] = {}
      BY <1>1, <2>4, <2>7 DEF ListsInv, ReplaceInv
    <3>2. ReplaceInv(t)'
      BY <1>1, <2>1, <2>4, <2>5, <3>1 DEF ListsInv, ReplaceInv
    <3>3. Touched(t)' = Touched(t)
      BY <2>1, <3>1 DEF Touched
    <3>4. \A u \in Txn \ {t} : on[u] = on'[t] => Touched(t)' = {} \/ Touched(u) = {}
      BY <2>1, <3>3 DEF ListsInv, OneChanges
    <3> QED  BY <2>1, <2>3, <2>4, <2>6, <3>2, <3>4, AloneKeeps
  <2>8. CASE AllOf(on[t], t) # {}
    <3>1. Size[t] > 0 /\ [list |-> on[t], pos |-> 0, by |-> t] \in Wanted(t)
      BY <2>2, <2>8, AllOfFacts
    <3>2. \A u \in Txn : clash([list |-> on[t], pos |-> 0, by |-> u])
      BY <3>1
    <3>3. RowsOf(on[t]) # {} => RowsOf(on[t]) = del[t]
      <4> SUFFICES ASSUME RowsOf(on[t]) # {} PROVE RowsOf(on[t]) = del[t]
        OBVIOUS
      <4>1. PICK v \in Txn : RowsOf(on[t]) = AllOf(on[t], v)
        BY <1>1 DEF ListsInv, RowsInv
      <4>2. [list |-> on[t], pos |-> 0, by |-> v] \in RowsOf(on[t])
        BY <4>1, AllOfFacts
      <4>3. [list |-> on[t], pos |-> 0, by |-> v] \in rows
        BY <4>2 DEF RowsOf
      <4>4. del[t] # {}
        BY <1>3, <3>2, <4>3
      <4> QED  BY <4>4 DEF ListsInv, ReplaceInv
    <3>4. fresh[t] \/ on[t] \in DOMAIN lists
      BY <1>3, <3>1
    <3>5. ReplaceInv(t)'
      <4>1. /\ on'[t] = on[t] /\ del'[t] = del[t] /\ fresh'[t] = fresh[t]
            /\ DOMAIN lists' = DOMAIN lists /\ AllOf(on[t], t)' = AllOf(on[t], t)
        BY <2>1 DEF AllOf
      <4>2. del[t] # {} => del[t] = RowsOf(on[t])
        BY DEF ListsInv, ReplaceInv
      <4>3. RowsOf(on[t]) \subseteq del[t]
        BY <3>3
      <4> QED  BY <1>1, <2>1, <2>4, <2>5, <3>4, <4>1, <4>2, <4>3 DEF ReplaceInv
    <3>6. ASSUME NEW u \in Txn \ {t}, on[u] = on[t] PROVE Touched(u) = {}
      <4>1. ins[u] = {}
        <5> SUFFICES ASSUME ins[u] # {} PROVE FALSE
          OBVIOUS
        <5>1. ins[u] = AllOf(on[t], u)
          BY <3>6 DEF ListsInv, ReplaceInv
        <5>2. [list |-> on[t], pos |-> 0, by |-> u] \in ins[u]
          BY <5>1, AllOfFacts
        <5> QED  BY <1>1, <3>2, <5>2
      <4>2. del[u] = {}
        <5> SUFFICES ASSUME del[u] # {} PROVE FALSE
          OBVIOUS
        <5>1. del[u] = RowsOf(on[t])
          BY <3>6 DEF ListsInv, ReplaceInv
        <5>2. PICK v \in Txn : del[u] = AllOf(on[t], v)
          BY <1>1, <5>1 DEF ListsInv, RowsInv
        <5>3. [list |-> on[t], pos |-> 0, by |-> v] \in del[u]
          BY <5>2, AllOfFacts
        <5> QED  BY <1>1, <3>2, <5>3
      <4> QED  BY <4>1, <4>2 DEF Touched
    <3>7. \A u \in Txn \ {t} : on[u] = on'[t] => Touched(t)' = {} \/ Touched(u) = {}
      BY <2>1, <3>6
    <3> QED  BY <2>1, <2>3, <2>4, <2>6, <3>5, <3>7, AloneKeeps
  <2> QED  BY <2>7, <2>8
<1> QED  BY <1>2, <1>3

\* ensure_favorites.
LEMMA FavoritesKeep ==
    ASSUME ListsInv, EnsureFavorites
    PROVE  ListsInv'
<1>1. /\ DOMAIN lists' = DOMAIN lists \cup {Favorites}
      /\ \A l \in DOMAIN lists : lists'[l] = lists[l]
      /\ UNCHANGED <<rows, lock, step, on, fresh, snap, del, ins>>
  BY DEF EnsureFavorites
<1>2. /\ Custom' = Custom /\ \A l \in Custom : lists'[l] = lists[l]
      /\ \A l : RowsOf(l)' = RowsOf(l)
      /\ Favorites \in List
  BY <1>1 DEF Custom, RowsOf, List
<1>3. ListsTypeOK'
  BY <1>1, <1>2 DEF ListsInv, ListsTypeOK
<1>4. LimitHolds'
  BY <1>2 DEF ListsInv, LimitHolds
<1>5. RowsInv'
  BY <1>1, <1>2 DEF ListsInv, RowsInv
<1>6. OneChanges'
  BY <1>1 DEF ListsInv, OneChanges, Touched
<1>7. ASSUME NEW t \in Txn PROVE FreshInv(t)'
  BY <1>1, <1>2, ListsAssumption DEF ListsInv, FreshInv
<1>8. ASSUME NEW t \in Txn PROVE ReplaceInv(t)'
  BY <1>1, <1>2 DEF ListsInv, ReplaceInv
<1> QED  BY <1>3, <1>4, <1>5, <1>6, <1>7, <1>8 DEF ListsInv

\* A playlist is deleted, with its rows; nobody has rows of it in the works.
LEMMA DeletePlaylistKeeps ==
    ASSUME ListsInv, NEW l \in List, DeletePlaylist(l)
    PROVE  ListsInv'
<1>1. /\ l \in Custom
      /\ \A t \in Txn : \A r \in ins[t] \cup del[t] : r.list # l
      /\ DOMAIN lists' = DOMAIN lists \ {l} /\ \A x \in DOMAIN lists \ {l} : lists'[x] = lists[x]
      /\ rows' = rows \ RowsOf(l)
      /\ UNCHANGED <<lock, step, on, fresh, snap, del, ins>>
  BY DEF DeletePlaylist
<1>2. /\ RowsOf(l)' = {} /\ \A x : x # l => RowsOf(x)' = RowsOf(x)
  BY <1>1 DEF RowsOf
<1>3. Custom' = Custom \ {l} /\ \A x \in Custom' : lists'[x] = lists[x]
  BY <1>1 DEF Custom
<1>4. Cardinality(Custom') \in Nat /\ Cardinality(Custom) \in Nat
      /\ Cardinality(Custom') <= Cardinality(Custom)
  <2>1. Custom \subseteq Txn
    BY DEF Custom, ListsInv, ListsTypeOK, List
  <2>2. IsFiniteSet(Custom)
    BY <2>1, FS_Subset, ListsAssumption
  <2> QED  BY <1>3, <2>2, FS_Subset, FS_CardinalityType
<1>5. ListsTypeOK'
  BY <1>1 DEF ListsInv, ListsTypeOK
<1>6. LimitHolds'
  BY <1>3, <1>4, ListsAssumption DEF ListsInv, LimitHolds
<1>7. RowsInv'
  <2>1. \A r \in rows' : r.list \in DOMAIN lists'
    BY <1>1 DEF ListsInv, RowsInv, RowsOf
  <2>2. \A x \in List : RowsOf(x)' = {} \/ \E t \in Txn : RowsOf(x)' = AllOf(x, t)
    BY <1>2 DEF ListsInv, RowsInv
  <2> QED  BY <2>1, <2>2 DEF RowsInv, AllOf
<1>8. OneChanges'
  BY <1>1 DEF ListsInv, OneChanges, Touched
<1>9. ASSUME NEW t \in Txn PROVE FreshInv(t)'
  BY <1>1, <1>3, <1>4, ListsAssumption DEF ListsInv, FreshInv
<1>10. ASSUME NEW t \in Txn PROVE ReplaceInv(t)'
  <2>1. ReplaceInv(t)
    BY DEF ListsInv
  <2>2. del[t] # {} => on[t] # l
    BY <1>1, <2>1 DEF ReplaceInv, RowsOf
  <2>3. ins[t] # {} => on[t] # l
    <3>1. ins[t] # {} => ins[t] = AllOf(on[t], t)
      BY <2>1 DEF ReplaceInv
    <3>2. \A r \in AllOf(on[t], t) : r.list = on[t]
      BY AllOfFacts, Zenon
    <3> QED  BY <1>1, <3>1, <3>2
  <2>4. step[t] = "deleting" => snap'[t] = {} \/ \E u \in Txn : snap'[t] = AllOf(on'[t], u)
    BY <1>1, <2>1 DEF ReplaceInv, AllOf
  <2>5. ins'[t] # {} => ins'[t] = AllOf(on'[t], t)
    BY <1>1, <2>1 DEF ReplaceInv, AllOf
  <2> QED  BY <1>1, <1>2, <2>1, <2>2, <2>3, <2>4, <2>5 DEF ReplaceInv
<1> QED  BY <1>5, <1>6, <1>7, <1>8, <1>9, <1>10 DEF ListsInv

\* A request commits: its playlist then has what it inserted and nothing else, or
\* what it had.
LEMMA CommitKeeps ==
    ASSUME ListsInv, NEW t \in Txn, Commit(t)
    PROVE  ListsInv'
<1>1. /\ step[t] = "commit" /\ on[t] \in List /\ t \notin DOMAIN lists /\ t \in List
      /\ fresh[t] => on[t] = t /\ lock = t
  BY DEF Commit, ListsInv, ReplaceInv, FreshInv, List
<1>2. CASE ~ fresh[t] /\ on[t] \notin DOMAIN lists
  <2>1. Rollback(t)
    BY <1>2 DEF Commit
  <2> QED  BY <1>1, <2>1, RollbackKeeps
<1>3. CASE ~(~ fresh[t] /\ on[t] \notin DOMAIN lists)
  <2>1. /\ rows' = (rows \ del[t]) \cup ins[t]
        /\ del' = [del EXCEPT ![t] = {}]
        /\ ins' = [ins EXCEPT ![t] = {}]
        /\ lock' = IF lock = t THEN NoTxn ELSE lock
        /\ step' = [step EXCEPT ![t] = "done"]
        /\ UNCHANGED <<on, fresh, snap>>
    BY <1>3 DEF Commit
  <2>2. /\ fresh[t] => /\ DOMAIN lists' = DOMAIN lists \cup {t}
                       /\ \A l \in DOMAIN lists : lists'[l] = lists[l]
                       /\ lists'[t] = IF Kind[t] = "import" THEN Url[t] ELSE NoUrl
        /\ ~ fresh[t] => lists' = lists
    BY <1>1, <1>3 DEF Commit
  <2>3. /\ step'[t] = "done" /\ lock' # t /\ OnlyOf(t) /\ Touched(t)' = {}
        /\ del'[t] = {} /\ ins'[t] = {}
    BY <2>1, ListsAssumption DEF ListsInv, ListsTypeOK, OnlyOf, Touched
  <2>4. /\ DOMAIN lists \subseteq DOMAIN lists' /\ DOMAIN lists' \subseteq DOMAIN lists \cup {t}
        /\ \A l \in DOMAIN lists : lists'[l] = lists[l]
        /\ on[t] \in DOMAIN lists'
    BY <1>1, <1>3, <2>2
  <2>5. ListsTypeOK'
    BY <1>1, <2>1, <2>4 DEF ListsInv, ListsTypeOK
  <2>6. /\ del[t] # {} => del[t] = RowsOf(on[t])
        /\ ins[t] # {} => ins[t] = AllOf(on[t], t) /\ RowsOf(on[t]) \subseteq del[t]
        /\ \A r \in ins[t] \cup del[t] : r.list = on[t]
    <3>1. \A r \in AllOf(on[t], t) : r.list = on[t]
      BY AllOfFacts, Zenon
    <3> QED  BY <3>1 DEF ListsInv, ReplaceInv, RowsOf
  <2>7. \A l : /\ l # on[t] \/ Touched(t) = {} => RowsOf(l)' = RowsOf(l)
               /\ l = on[t] /\ Touched(t) # {} => RowsOf(l)' = {} \/ RowsOf(l)' = AllOf(l, t)
    BY <2>1, <2>6 DEF RowsOf, Touched
  <2>8. RowsInv'
    <3>1. \A r \in rows' : r.list \in DOMAIN lists'
      BY <2>1, <2>4, <2>6 DEF ListsInv, RowsInv
    <3>2. \A l \in List : RowsOf(l)' = {} \/ \E u \in Txn : RowsOf(l)' = AllOf(l, u)
      <4> SUFFICES ASSUME NEW l \in List
                   PROVE  RowsOf(l)' = {} \/ \E u \in Txn : RowsOf(l)' = AllOf(l, u)
        OBVIOUS
      <4>1. RowsOf(l) = {} \/ \E u \in Txn : RowsOf(l) = AllOf(l, u)
        BY DEF ListsInv, RowsInv
      <4>2. CASE l # on[t] \/ Touched(t) = {}
        <5>1. RowsOf(l)' = RowsOf(l)
          BY <2>7, <4>2
        <5> QED  BY <4>1, <5>1
      <4>3. CASE l = on[t] /\ Touched(t) # {}
        <5>1. RowsOf(l)' = {} \/ RowsOf(l)' = AllOf(l, t)
          BY <2>7, <4>3
        <5> QED  BY <5>1
      <4> QED  BY <4>2, <4>3
    <3> QED  BY <3>1, <3>2 DEF RowsInv
  <2>9. OneChanges'
    <3>1. \A u \in Txn \ {t} : Touched(u)' = Touched(u) /\ on'[u] = on[u]
      BY <2>3 DEF OnlyOf, Touched
    <3> QED  BY <2>3, <3>1 DEF ListsInv, OneChanges
  <2>10. ASSUME NEW u \in Txn PROVE ReplaceInv(u)'
    <3>1. CASE u = t
      BY <2>3, <3>1 DEF ReplaceInv
    <3>2. CASE u # t
      <4>1. /\ step'[u] = step[u] /\ on'[u] = on[u] /\ fresh'[u] = fresh[u]
            /\ snap'[u] = snap[u] /\ del'[u] = del[u] /\ ins'[u] = ins[u]
        BY <2>3, <3>2 DEF OnlyOf
      <4>2. ReplaceInv(u)
        BY DEF ListsInv
      <4>3. Touched(u) # {} => \A l : l = on[u] => RowsOf(l)' = RowsOf(l)
        <5>1. Touched(u) # {} => on[u] # on[t] \/ Touched(t) = {}
          BY <3>2 DEF ListsInv, OneChanges
        <5> SUFFICES ASSUME Touched(u) # {}, NEW l, l = on[u] PROVE RowsOf(l)' = RowsOf(l)
          OBVIOUS
        <5>2. l # on[t] \/ Touched(t) = {}
          BY <5>1
        <5> QED  BY <2>7, <5>2
      <4>4. del[u] # {} \/ ins[u] # {} => RowsOf(on[u])' = RowsOf(on[u])
        BY <4>1, <4>3 DEF Touched, RowsOf
      <4> QED  BY <2>4, <4>1, <4>2, <4>4 DEF ReplaceInv
    <3> QED  BY <3>1, <3>2
  <2>11. CASE ~ fresh[t]
    <3>1. lists' = lists /\ Custom' = Custom
      BY <2>2, <2>11 DEF Custom
    <3>2. LimitHolds'
      BY <3>1 DEF ListsInv, LimitHolds
    <3>3. ASSUME NEW u \in Txn PROVE FreshInv(u)'
      <4>1. CASE u = t
        BY <1>1, <2>1, <2>3, <3>1, <4>1 DEF ListsInv, FreshInv
      <4>2. CASE u # t
        BY <2>3, <3>1, <4>2 DEF ListsInv, FreshInv, OnlyOf
      <4> QED  BY <4>1, <4>2
    <3> QED  BY <2>5, <2>8, <2>9, <2>10, <3>2, <3>3 DEF ListsInv
  <2>12. CASE fresh[t]
    <3>1. /\ t # Favorites /\ t \notin Custom /\ Custom' = Custom \cup {t}
          /\ lists'[t] = IF Kind[t] = "import" THEN Url[t] ELSE NoUrl
          /\ \A l \in Custom : lists'[l] = lists[l]
      BY <1>1, <2>2, <2>12, ListsAssumption DEF Custom
    <3>2. /\ lock = t /\ Cardinality(Custom) < MaxCustom
          /\ Kind[t] = "import" => \A l \in Custom : lists[l] # Url[t]
      BY <1>1, <2>12 DEF ListsInv, FreshInv
    <3>3. Cardinality(Custom') = Cardinality(Custom) + 1 /\ Cardinality(Custom) \in Nat
      <4>1. Custom \subseteq Txn
        BY DEF Custom, ListsInv, ListsTypeOK, List
      <4>2. IsFiniteSet(Custom)
        BY <4>1, FS_Subset, ListsAssumption
      <4> QED  BY <3>1, <4>2, FS_AddElement, FS_CardinalityType
    <3>4. LimitHolds'
      <4>1. Cardinality(Custom') <= MaxCustom
        BY <3>2, <3>3, ListsAssumption
      <4>2. \A k, l \in Custom' : lists'[k] = lists'[l] /\ lists'[k] # NoUrl => k = l
        BY <3>1, <3>2 DEF ListsInv, LimitHolds
      <4> QED  BY <4>1, <4>2 DEF LimitHolds
    <3>5. ASSUME NEW u \in Txn PROVE FreshInv(u)'
      <4>1. CASE u = t
        BY <1>1, <2>1, <2>3, <4>1 DEF ListsInv, FreshInv
      <4>2. CASE u # t
        <5>1. FreshInv(u) /\ lock # u /\ (u \in DOMAIN lists' => u \in DOMAIN lists)
          BY <2>4, <3>2, <4>2 DEF ListsInv
        <5>2. /\ step'[u] = step[u] /\ on'[u] = on[u] /\ fresh'[u] = fresh[u]
              /\ lock' = u <=> lock = u
          BY <2>3, <4>2 DEF OnlyOf
        <5> QED  BY <5>1, <5>2 DEF FreshInv
      <4> QED  BY <4>1, <4>2
    <3> QED  BY <2>5, <2>8, <2>9, <2>10, <3>4, <3>5 DEF ListsInv
  <2> QED  BY <2>11, <2>12
<1> QED  BY <1>2, <1>3

\* The invariant of the playlists of one user (crates/db/src/playlists.rs), for any
\* number of requests that create, import and replace at the same time: the
\* user's lock keeps what was counted true, and the rows' own locks keep two
\* replacements of a playlist apart.
THEOREM ListsInvariant == ListsSpec => []ListsInv
<1>1. ListsInit => ListsInv
  <2> SUFFICES ASSUME ListsInit PROVE ListsInv
    OBVIOUS
  <2>1. DOMAIN lists = {} /\ Custom = {} /\ \A l : RowsOf(l) = {}
    BY DEF ListsInit, Custom, RowsOf
  <2>2. ListsTypeOK
    BY <2>1 DEF ListsInit, ListsTypeOK
  <2>3. LimitHolds
    BY <2>1, FS_EmptySet, ListsAssumption DEF LimitHolds
  <2>4. RowsInv /\ OneChanges
    BY <2>1 DEF ListsInit, RowsInv, OneChanges, Touched
  <2>5. ASSUME NEW t \in Txn PROVE FreshInv(t) /\ ReplaceInv(t)
    BY <2>1, ListsAssumption DEF ListsInit, FreshInv, ReplaceInv
  <2> QED  BY <2>2, <2>3, <2>4, <2>5 DEF ListsInv
<1>2. ListsInv /\ [ListsNext]_listVars => ListsInv'
  <2> SUFFICES ASSUME ListsInv, [ListsNext]_listVars PROVE ListsInv'
    OBVIOUS
  <2>1. CASE EnsureFavorites
    BY <2>1, FavoritesKeep
  <2>2. ASSUME NEW t \in Txn, LockUserPlaylists(t) PROVE ListsInv'
    BY <2>2, LockKeeps
  <2>3. ASSUME NEW t \in Txn, Reuse(t) PROVE ListsInv'
    <3>1. PICK l \in Custom : on' = [on EXCEPT ![t] = l]
      BY <2>3 DEF Reuse
    <3>2. l \in DOMAIN lists
      BY <3>1 DEF Custom
    <3>3. /\ step[t] \in {"start", "count"} /\ step' = [step EXCEPT ![t] = "delete"]
          /\ UNCHANGED <<lists, rows, lock, fresh, snap, del, ins>>
      BY <2>3 DEF Reuse
    <3> QED  BY <3>1, <3>2, <3>3, FoundKeeps
  <2>4. ASSUME NEW t \in Txn, CountAndInsert(t) PROVE ListsInv'
    BY <2>4, InsertListKeeps
  <2>5. ASSUME NEW t \in Txn, DeleteStarts(t) PROVE ListsInv'
    BY <2>5, DeleteStartsKeeps
  <2>6. ASSUME NEW t \in Txn, DeleteEnds(t) PROVE ListsInv'
    BY <2>6, DeleteEndsKeeps
  <2>7. ASSUME NEW t \in Txn, InsertRows(t) PROVE ListsInv'
    BY <2>7, InsertRowsKeeps
  <2>8. ASSUME NEW t \in Txn, Commit(t) PROVE ListsInv'
    BY <2>8, CommitKeeps
  <2>9. ASSUME NEW t \in Txn, NEW l \in List, Find(t, l) PROVE ListsInv'
    BY <2>9, FoundKeeps DEF Find
  <2>10. ASSUME NEW l \in List, DeletePlaylist(l) PROVE ListsInv'
    BY <2>10, DeletePlaylistKeeps
  <2>11. CASE UNCHANGED listVars
    <3>1. UNCHANGED <<lists, rows, lock, step, on, fresh, snap, del, ins>>
      BY <2>11 DEF listVars
    <3>2. Custom' = Custom /\ \A l : RowsOf(l)' = RowsOf(l)
      BY <3>1 DEF Custom, RowsOf
    <3>3. ListsTypeOK' /\ LimitHolds' /\ RowsInv' /\ OneChanges'
      BY <3>1, <3>2 DEF ListsInv, ListsTypeOK, LimitHolds, RowsInv, OneChanges, Touched
    <3>4. \A t \in Txn : FreshInv(t)'
      BY <3>1, <3>2 DEF ListsInv, FreshInv
    <3>5. \A t \in Txn : ReplaceInv(t)'
      BY <3>1, <3>2 DEF ListsInv, ReplaceInv
    <3> QED  BY <3>3, <3>4, <3>5 DEF ListsInv
  <2> QED  BY <2>1, <2>2, <2>3, <2>4, <2>5, <2>6, <2>7, <2>8, <2>9, <2>10, <2>11 DEF ListsNext
<1> QED  BY <1>1, <1>2, PTL DEF ListsSpec

\* The limit and the unique source hold, and a playlist holds exactly the tracks of
\* one request, however transactions interleave (playlists.rs,
\* replace_tracks_for_playlist).
THEOREM PlaylistsKeptAlways == ListsSpec => []PlaylistsKept
<1>1. ListsInv => PlaylistsKept
  <2> SUFFICES ASSUME ListsInv PROVE OneRequestsTracks
    BY DEF ListsInv, PlaylistsKept
  <2>1. DOMAIN lists \subseteq List
    BY DEF ListsInv, ListsTypeOK
  <2> QED  BY <2>1 DEF ListsInv, RowsInv, OneRequestsTracks, AllOf
<1> QED  BY <1>1, ListsInvariant, PTL

-----------------------------------------------------------------------------
(* Sessions. *)

\* What is recorded lies in the past, and a session that is over has a reason.
RowInv ==
    /\ \A s \in Session : gone[s] <= now /\ grant[s] <= now
    /\ \A s \in Live : /\ sessions[s].exp <= now + SessionLife
                       /\ gone[s] # -1 => sessions[s].revoked \/ sessions[s].exp <= now

\* How long a token that is in the cache may still be accepted.
CacheInv ==
    \A s \in DOMAIN cache :
        /\ now <= cache[s] /\ cache[s] <= now + CacheTtl
        /\ s \in Live \/ gone[s] # -1
        /\ gone[s] # -1 => cache[s] <= gone[s] + CacheTtl
        /\ s \in Live => sessions[s].exp >= cache[s] + SessionLife - CacheTtl

\* A session a request has verified was valid in this instant.
RequestInv ==
    \A r \in Request : req[r].at \in {"verified", "slid"} =>
        LET s == req[r].s IN
        /\ s \in Session
        /\ gone[s] \in {-1, now}
        /\ s \in Live \/ gone[s] # -1
        /\ req[r].at = "verified" /\ s \in Live /\ gone[s] # -1 => sessions[s].revoked
        /\ req[r].at = "slid" /\ s \in Live => sessions[s].exp = now + SessionLife

\* UseKeepsAlive, of the sessions that are over too.
SlideInv ==
    \A s \in Live : sessions[s].exp >= grant[s] + SessionLife - CacheTtl

SessionInv == TypeOK /\ RowInv /\ CacheInv /\ RequestInv /\ SlideInv /\ RevocationTakesHold
-----------------------------------------------------------------------------
(* Types. *)

\* What the types say, one session, entry or request at a time.
LEMMA Numbers ==
    ASSUME TypeOK
    PROVE  /\ now \in Int /\ SessionLife \in Nat /\ CacheTtl \in Nat /\ CodeLife \in Nat
           /\ \A s \in Session : gone[s] \in Int /\ grant[s] \in Int /\ gone[s] >= -1 /\ grant[s] >= -1
           /\ \A s \in Live : s \in Session /\ sessions[s].exp \in Int
           /\ \A s \in DOMAIN cache : s \in Session /\ cache[s] \in Int
BY SessionsAssumption DEF TypeOK

\* The rows keep their types.
LEMMA RowTypes ==
    ASSUME TypeOK, Next
    PROVE  /\ now' \in 0 .. MaxNow /\ users' \subseteq User
           /\ codes' \subseteq [code: Code, user: User, exp: 0 .. MaxNow + CodeLife]
           /\ Live' \subseteq Session
           /\ \A s \in Live' : sessions'[s] \in [user: User, exp: 0 .. MaxNow + SessionLife,
                                                revoked: BOOLEAN]
<1>0. MaxNow \in Nat /\ CodeLife \in Nat /\ SessionLife \in Nat /\ now \in 0 .. MaxNow
  BY SessionsAssumption DEF TypeOK
<1>1. now' \in 0 .. MaxNow
  <2>1. now' = now \/ (now < MaxNow /\ now' = now + 1)
    BY DEF Next, Authorize, RevokeUser, CreateLoginCode, FindCode, DeleteCode, InsertSession,
           Slide, CacheInsert, Verify, CacheHit, Forget, Revoke, Tick
  <2> QED  BY <1>0, <2>1
<1>2. users' \subseteq User
  BY DEF Next, Authorize, RevokeUser, CreateLoginCode, FindCode, DeleteCode, InsertSession,
         Slide, CacheInsert, Verify, CacheHit, Forget, Revoke, Tick, TypeOK
<1>3. codes' \subseteq [code: Code, user: User, exp: 0 .. MaxNow + CodeLife]
  <2>1. now + CodeLife \in 0 .. MaxNow + CodeLife
    BY <1>0
  <2>2. \A u \in User, k \in Code : [code |-> k, user |-> u, exp |-> now + CodeLife]
                            \in [code: Code, user: User, exp: 0 .. MaxNow + CodeLife]
    BY <2>1
  <2>3. codes \subseteq [code: Code, user: User, exp: 0 .. MaxNow + CodeLife]
    BY DEF TypeOK
  <2>4. \A x \in codes' : x \in codes \/ \E u \in User, k \in Code :
                                       x = [code |-> k, user |-> u, exp |-> now + CodeLife]
    BY DEF Next, Authorize, RevokeUser, CreateLoginCode, FindCode, DeleteCode, InsertSession,
           Slide, CacheInsert, Verify, CacheHit, Forget, Revoke, Tick
  <2> QED  BY <2>2, <2>3, <2>4
<1>4. /\ Live' \subseteq Session
      /\ \A s \in Live' : sessions'[s] \in [user: User, exp: 0 .. MaxNow + SessionLife,
                                           revoked: BOOLEAN]
  <2> DEFINE SessionRow == [user: User, exp: 0 .. MaxNow + SessionLife, revoked: BOOLEAN]
  <2>0. /\ now + SessionLife \in 0 .. MaxNow + SessionLife
        /\ Live \subseteq Session /\ \A s \in Live : sessions[s] \in SessionRow
    BY <1>0 DEF TypeOK
  <2>1. CASE sessions' = sessions
    BY <2>0, <2>1 DEF Live
  <2>2. ASSUME NEW u \in User, RevokeUser(u)
        PROVE  Live' \subseteq Session /\ \A s \in Live' : sessions'[s] \in SessionRow
    BY <2>0, <2>2 DEF RevokeUser, Without, Live
  <2>3. ASSUME NEW r \in Request, InsertSession(r), sessions' # sessions
        PROVE  Live' \subseteq Session /\ \A s \in Live' : sessions'[s] \in SessionRow
    <3>1. PICK s \in Session : sessions' = With(sessions, s, [user |-> req[r].user,
                                     exp |-> now + SessionLife, revoked |-> FALSE])
      BY <2>3 DEF InsertSession
    <3>2. req[r].user \in User
      BY <2>3 DEF InsertSession, TypeOK
    <3>3. [user |-> req[r].user, exp |-> now + SessionLife, revoked |-> FALSE] \in SessionRow
      BY <2>0, <3>2
    <3>4. /\ Live' = Live \cup {s}
          /\ \A x \in Live' : sessions'[x] =
                IF x = s THEN [user |-> req[r].user, exp |-> now + SessionLife, revoked |-> FALSE]
                ELSE sessions[x]
      BY <3>1 DEF With, Live
    <3> QED  BY <2>0, <3>3, <3>4
  <2>4. ASSUME NEW r \in Request, Slide(r), sessions' # sessions
        PROVE  Live' \subseteq Session /\ \A s \in Live' : sessions'[s] \in SessionRow
    <3>1. sessions' = [sessions EXCEPT ![req[r].s].exp = now + SessionLife]
      BY <2>4 DEF Slide
    <3> QED  BY <2>0, <3>1 DEF Live
  <2>5. ASSUME NEW l \in leaving, Revoke(l)
        PROVE  Live' \subseteq Session /\ \A s \in Live' : sessions'[s] \in SessionRow
    <3>1. Live' = Live
      BY <2>5 DEF Revoke, Live
    <3>2. \A s \in Live : \E b \in BOOLEAN : sessions'[s] = [sessions[s] EXCEPT !.revoked = b]
      BY <2>0, <2>5 DEF Revoke, Live
    <3> QED  BY <2>0, <3>1, <3>2
  <2> HIDE DEF SessionRow
  <2>6. Live' \subseteq Session /\ \A s \in Live' : sessions'[s] \in SessionRow
    <3>1. \/ sessions' = sessions
          \/ \E u \in User : RevokeUser(u)
          \/ \E r \in Request : InsertSession(r) \/ Slide(r)
          \/ \E l \in leaving : Revoke(l)
      BY DEF Next, Authorize, CreateLoginCode, FindCode, DeleteCode, CacheInsert, Verify,
             CacheHit, Forget, Tick
    <3>2. CASE \E u \in User : RevokeUser(u)
      BY <2>2, <3>2
    <3>3. CASE sessions' # sessions /\ \E r \in Request : InsertSession(r)
      BY <2>3, <3>3
    <3>4. CASE sessions' # sessions /\ \E r \in Request : Slide(r)
      BY <2>4, <3>4
    <3>5. CASE \E l \in leaving : Revoke(l)
      BY <2>5, <3>5
    <3>6. CASE sessions' = sessions
      BY <2>1, <3>6 DEF SessionRow
    <3> QED  BY <3>1, <3>2, <3>3, <3>4, <3>5, <3>6
  <2> QED  BY <2>6 DEF SessionRow
<1> QED  BY <1>1, <1>2, <1>3, <1>4

\* The cache, the requests and the history keep their types.
LEMMA TypeStep ==
    ASSUME TypeOK, RequestInv, Next
    PROVE  TypeOK'
<1>0. MaxNow \in Nat /\ CacheTtl \in Nat /\ now \in 0 .. MaxNow
  BY SessionsAssumption DEF TypeOK
<1>1. /\ DOMAIN cache' \subseteq Session
      /\ \A s \in DOMAIN cache' : cache'[s] \in 0 .. MaxNow + CacheTtl
  <2>0. /\ now + CacheTtl \in 0 .. MaxNow + CacheTtl
        /\ DOMAIN cache \subseteq Session
        /\ \A s \in DOMAIN cache : cache[s] \in 0 .. MaxNow + CacheTtl
    BY <1>0 DEF TypeOK
  <2>1. CASE cache' = cache
    BY <2>0, <2>1
  <2>2. ASSUME NEW x \in Session, cache' = With(cache, x, now + CacheTtl)
        PROVE  /\ DOMAIN cache' \subseteq Session
               /\ \A s \in DOMAIN cache' : cache'[s] \in 0 .. MaxNow + CacheTtl
    BY <2>0, <2>2 DEF With
  <2>3. ASSUME NEW X, cache' = [s \in DOMAIN cache \ X |-> cache[s]]
        PROVE  /\ DOMAIN cache' \subseteq Session
               /\ \A s \in DOMAIN cache' : cache'[s] \in 0 .. MaxNow + CacheTtl
    BY <2>0, <2>3
  <2>4. CASE cache' = <<>>
    BY <2>4
  <2>5. CASE Tick
    BY <2>0, <2>5 DEF Tick
  <2>6. ASSUME NEW r \in Request, CacheInsert(r) PROVE req[r].s \in Session
    BY <2>6 DEF CacheInsert, RequestInv
  <2> QED  BY <2>1, <2>2, <2>3, <2>4, <2>5, <2>6
           DEF Next, Authorize, RevokeUser, CreateLoginCode, FindCode, DeleteCode, InsertSession,
               Slide, CacheInsert, Verify, CacheHit, Forget, Revoke, Without
<1>2. req' \in [Request -> [at: {"idle", "verified", "slid", "exchange", "insert"},
                            s: Session \cup {NoSession}, user: User \cup {NoSession},
                            code: Code \cup {NoSession}]]
  <2> DEFINE Req == [at: {"idle", "verified", "slid", "exchange", "insert"},
                     s: Session \cup {NoSession}, user: User \cup {NoSession},
                     code: Code \cup {NoSession}]
  <2>0. req \in [Request -> Req] /\ Idle \in Req
    BY DEF TypeOK, Idle
  <2>1. \/ req' = req
        \/ \E r \in Request : req' = [req EXCEPT ![r] = Idle]
        \/ \E r \in Request, c \in codes :
              req' = [req EXCEPT ![r] = [at |-> "exchange", s |-> NoSession,
                                         user |-> c.user, code |-> c.code]]
        \/ \E r \in Request : req' = [req EXCEPT ![r].at = "slid"]
        \/ \E r \in Request : req' = [req EXCEPT ![r].at = "insert", ![r].code = NoSession]
        \/ \E r \in Request, s \in Session :
              req' = [req EXCEPT ![r] = [Idle EXCEPT !.at = "verified", !.s = s]]
    BY DEF Next, Authorize, RevokeUser, CreateLoginCode, FindCode, DeleteCode, InsertSession,
           Slide, CacheInsert, Verify, CacheHit, Forget, Revoke, Tick
  <2>2. \A c \in codes : [at |-> "exchange", s |-> NoSession,
                          user |-> c.user, code |-> c.code] \in Req
    BY DEF TypeOK
  <2>3. \A s \in Session : [Idle EXCEPT !.at = "verified", !.s = s] \in Req
    BY <2>0
  <2>4. \A r \in Request : /\ [req[r] EXCEPT !.at = "slid"] \in Req
                          /\ [req[r] EXCEPT !.at = "insert", !.code = NoSession] \in Req
    BY <2>0
  <2> HIDE DEF Req
  <2>5. req' \in [Request -> Req]
    BY <2>0, <2>1, <2>2, <2>3, <2>4
  <2> QED  BY <2>5 DEF Req
<1>3. grant' \in [Session -> -1 .. MaxNow]
  <2>1. now \in -1 .. MaxNow /\ grant \in [Session -> -1 .. MaxNow]
    BY <1>0 DEF TypeOK
  <2>2. grant' = grant \/ \E s : grant' = [grant EXCEPT ![s] = now]
    BY DEF Next, Authorize, RevokeUser, CreateLoginCode, FindCode, DeleteCode, InsertSession,
           Slide, CacheInsert, Verify, CacheHit, Forget, Revoke, Tick
  <2> QED  BY <2>1, <2>2
<1>4. gone' \in [Session -> -1 .. MaxNow]
  <2>1. now \in -1 .. MaxNow /\ gone \in [Session -> -1 .. MaxNow]
    BY <1>0 DEF TypeOK
  <2>2. CASE gone' = gone
    BY <2>1, <2>2
  <2>3. ASSUME NEW S, Ends(S) PROVE gone' \in [Session -> -1 .. MaxNow]
    BY <2>1, <2>3 DEF Ends
  <2>4. CASE Tick
    <3>1. now + 1 \in -1 .. MaxNow
      BY <1>0, <2>4 DEF Tick
    <3> QED  BY <2>1, <2>4, <3>1 DEF Tick
  <2> QED  BY <2>2, <2>3, <2>4
           DEF Next, Authorize, RevokeUser, CreateLoginCode, FindCode, DeleteCode, InsertSession,
               Slide, CacheInsert, Verify, CacheHit, Forget, Revoke
<1> QED  BY <1>1, <1>2, <1>3, <1>4, RowTypes DEF TypeOK
-----------------------------------------------------------------------------
(* What holds of sessions, entries and requests. *)

\* SessionInv without the types.
LifeInv == RowInv /\ CacheInv /\ RequestInv /\ SlideInv /\ RevocationTakesHold

\* Steps that touch neither rows nor tokens, and verify nothing.
LEMMA CodeStep ==
    ASSUME TypeOK, LifeInv, UNCHANGED <<now, sessions, cache, grant, gone>>,
           \A r \in Request : req'[r] = req[r] \/ req'[r].at \notin {"verified", "slid"}
    PROVE  LifeInv'
<1>1. RowInv' /\ CacheInv'
  BY DEF LifeInv, RowInv, CacheInv, Live
<1>2. RequestInv'
  BY DEF LifeInv, RequestInv, Live
<1>3. SlideInv' /\ RevocationTakesHold'
  BY DEF LifeInv, SlideInv, RevocationTakesHold, Live
<1> QED  BY <1>1, <1>2, <1>3 DEF LifeInv

\* Sessions that end in this instant, by a revocation or with their user, still
\* have entries that end in time.
LEMMA EndStep ==
    ASSUME TypeOK, LifeInv, NEW S \in SUBSET Live, Ends(S), TypeOK',
           UNCHANGED <<now, cache, req, grant>>, Live' \subseteq Live,
           \A s \in Live \ Live' : s \in S,
           \A s \in Live' : /\ sessions'[s].exp = sessions[s].exp
                            /\ sessions[s].revoked \/ s \in S => sessions'[s].revoked
    PROVE  LifeInv'
<1>1. \A s \in Session : gone'[s] = IF s \in S /\ gone[s] = -1 THEN now ELSE gone[s]
  BY DEF Ends
<1>2. now >= 0 /\ now \in Int
  BY SessionsAssumption DEF TypeOK
<1>3. S \subseteq Session
  BY DEF TypeOK
<1>4. RowInv'
  BY <1>1, <1>2, Numbers DEF LifeInv, RowInv
<1>5. CacheInv'
  BY <1>1, <1>2, Numbers DEF LifeInv, CacheInv
<1>6. RequestInv'
  <2> SUFFICES ASSUME NEW r \in Request, req[r].at \in {"verified", "slid"}
               PROVE  LET s == req[r].s IN
                      /\ s \in Session
                      /\ gone'[s] \in {-1, now}
                      /\ s \in Live' \/ gone'[s] # -1
                      /\ req[r].at = "verified" /\ s \in Live' /\ gone'[s] # -1 => sessions'[s].revoked
                      /\ req[r].at = "slid" /\ s \in Live' => sessions'[s].exp = now + SessionLife
    BY DEF RequestInv
  <2>1. PICK s \in Session : s = req[r].s
    BY DEF LifeInv, RequestInv
  <2>2. /\ gone[s] \in {-1, now}
        /\ s \in Live \/ gone[s] # -1
        /\ req[r].at = "verified" /\ s \in Live /\ gone[s] # -1 => sessions[s].revoked
        /\ req[r].at = "slid" /\ s \in Live => sessions[s].exp = now + SessionLife
    BY <2>1 DEF LifeInv, RequestInv
  <2> QED  BY <1>1, <1>2, <2>1, <2>2
<1>7. SlideInv'
  BY DEF LifeInv, SlideInv
<1>8. RevocationTakesHold'
  BY <1>1, <1>2, Numbers DEF LifeInv, RevocationTakesHold, RowInv
<1> QED  BY <1>4, <1>5, <1>6, <1>7, <1>8 DEF LifeInv

\* A token enters the cache, and the session is accepted in this instant.
LEMMA GrantStep ==
    ASSUME TypeOK, LifeInv, NEW s \in Session,
           cache' = With(cache, s, now + CacheTtl), grant' = [grant EXCEPT ![s] = now],
           now' = now, gone' = gone, gone[s] \in {-1, now}, s \in Live' \/ gone[s] # -1,
           s \in Live' => sessions'[s].exp = now + SessionLife,
           s \in Live' /\ gone[s] # -1 => s \in Live /\ sessions'[s].revoked = sessions[s].revoked
                                       /\ sessions'[s].exp = sessions[s].exp,
           Live' \in {Live, Live \cup {s}},
           \A x \in Live \ {s} : sessions'[x] = sessions[x]
    PROVE  RowInv' /\ CacheInv' /\ SlideInv' /\ RevocationTakesHold'
<1>0. /\ now \in Int /\ now >= 0 /\ CacheTtl \in Nat /\ SessionLife \in Nat
      /\ \A x \in Live' : x = s \/ (x \in Live /\ x # s /\ x \in Session)
  BY Numbers, SessionsAssumption DEF TypeOK
<1>1. \A x \in Session : grant'[x] = IF x = s THEN now ELSE grant[x]
  BY DEF TypeOK
<1>2. /\ DOMAIN cache' = DOMAIN cache \cup {s}
      /\ \A x \in DOMAIN cache' : cache'[x] = IF x = s THEN now + CacheTtl ELSE cache[x]
  BY DEF With
<1>3. RowInv'
  BY <1>0, <1>1, Numbers DEF LifeInv, RowInv
<1>4. CacheInv'
  <2> SUFFICES ASSUME NEW x \in DOMAIN cache'
               PROVE  /\ now <= cache'[x] /\ cache'[x] <= now + CacheTtl
                      /\ x \in Live' \/ gone[x] # -1
                      /\ gone[x] # -1 => cache'[x] <= gone[x] + CacheTtl
                      /\ x \in Live' => sessions'[x].exp >= cache'[x] + SessionLife - CacheTtl
    BY DEF CacheInv
  <2>1. CASE x = s
    <3>1. cache'[x] = now + CacheTtl
      BY <1>2, <2>1
    <3> QED  BY <1>0, <2>1, <3>1
  <2>2. CASE x # s
    <3>1. x \in DOMAIN cache /\ cache'[x] = cache[x]
      BY <1>2, <2>2
    <3> QED  BY <1>0, <2>2, <3>1 DEF LifeInv, CacheInv
  <2> QED  BY <2>1, <2>2
<1>5. SlideInv'
  BY <1>0, <1>1, Numbers DEF LifeInv, SlideInv
<1>6. RevocationTakesHold'
  BY <1>0, <1>1, Numbers DEF LifeInv, RevocationTakesHold
<1> QED  BY <1>3, <1>4, <1>5, <1>6

\* exchange_code makes a session that never was.
LEMMA InsertStep ==
    ASSUME TypeOK, LifeInv, NEW r \in Request, InsertSession(r)
    PROVE  LifeInv'
<1>0. req' = [req EXCEPT ![r] = Idle] /\ now' = now /\ gone' = gone
  BY DEF InsertSession
<1>1. \A x \in Request : req'[x] = req[x] \/ req'[x].at \notin {"verified", "slid"}
  BY <1>0 DEF TypeOK, Idle
<1>2. CASE req[r].user \notin users
  <2>1. UNCHANGED <<now, sessions, cache, grant, gone>>
    BY <1>2 DEF InsertSession
  <2> QED  BY <1>1, <2>1, CodeStep
<1>3. CASE req[r].user \in users
  <2>1. PICK s \in Session :
               /\ s \notin Live /\ gone[s] = -1
               /\ sessions' = With(sessions, s, [user |-> req[r].user, exp |-> now + SessionLife,
                                                 revoked |-> FALSE])
               /\ cache' = With(cache, s, now + CacheTtl)
               /\ grant' = [grant EXCEPT ![s] = now]
    BY <1>3 DEF InsertSession
  <2>2. /\ Live' = Live \cup {s} /\ sessions'[s].exp = now + SessionLife
        /\ \A x \in Live : x # s /\ sessions'[x] = sessions[x]
    BY <2>1 DEF With, Live
  <2>3. RowInv' /\ CacheInv' /\ SlideInv' /\ RevocationTakesHold'
    BY <1>0, <2>1, <2>2, GrantStep
  <2>4. RequestInv'
    <3> SUFFICES ASSUME NEW x \in Request, req'[x].at \in {"verified", "slid"}
                 PROVE  LET y == req'[x].s IN
                        /\ y \in Session
                        /\ gone[y] \in {-1, now}
                        /\ y \in Live' \/ gone[y] # -1
                        /\ req'[x].at = "verified" /\ y \in Live' /\ gone[y] # -1
                              => sessions'[y].revoked
                        /\ req'[x].at = "slid" /\ y \in Live' => sessions'[y].exp = now + SessionLife
      BY <1>0 DEF RequestInv
    <3>1. PICK y \in Session : y = req[x].s /\ req'[x] = req[x]
      BY <1>1 DEF LifeInv, RequestInv
    <3>2. /\ gone[y] \in {-1, now}
          /\ y \in Live \/ gone[y] # -1
          /\ req[x].at = "verified" /\ y \in Live /\ gone[y] # -1 => sessions[y].revoked
          /\ req[x].at = "slid" /\ y \in Live => sessions[y].exp = now + SessionLife
      BY <3>1 DEF LifeInv, RequestInv
    <3>3. y # s \/ gone[y] = -1
      BY <2>1
    <3> QED  BY <2>1, <2>2, <3>1, <3>2, <3>3
  <2> QED  BY <2>3, <2>4 DEF LifeInv
<1> QED  BY <1>2, <1>3

\* from_request_parts: a hit comes before the entry ends.
LEMMA HitStep ==
    ASSUME TypeOK, LifeInv, NEW s \in Session, CacheHit(s)
    PROVE  LifeInv'
<1>0. /\ s \in DOMAIN cache /\ grant' = [grant EXCEPT ![s] = now]
      /\ UNCHANGED <<now, sessions, cache, req, gone>> /\ Live' = Live
  BY DEF CacheHit, Live
<1>1. \A x \in Session : grant'[x] = IF x = s THEN now ELSE grant[x]
  BY <1>0 DEF TypeOK
<1>2. RowInv' /\ CacheInv'
  BY <1>0, <1>1, Numbers DEF LifeInv, RowInv, CacheInv
<1>3. RequestInv'
  BY <1>0 DEF LifeInv, RequestInv
<1>4. /\ now <= cache[s]
      /\ gone[s] # -1 => cache[s] <= gone[s] + CacheTtl
      /\ s \in Live => sessions[s].exp >= cache[s] + SessionLife - CacheTtl
  BY <1>0 DEF LifeInv, CacheInv
<1>5. SlideInv'
  BY <1>0, <1>1, <1>4, Numbers DEF LifeInv, SlideInv
<1>6. RevocationTakesHold'
  BY <1>0, <1>1, <1>4, Numbers DEF LifeInv, RevocationTakesHold
<1> QED  BY <1>2, <1>3, <1>5, <1>6 DEF LifeInv

\* verify_session_record accepts only sessions that are not over.
LEMMA VerifyStep ==
    ASSUME TypeOK, LifeInv, NEW r \in Request, NEW s \in Session, Verify(r, s)
    PROVE  LifeInv'
<1>0. /\ req' = [req EXCEPT ![r] = [Idle EXCEPT !.at = "verified", !.s = s]]
      /\ UNCHANGED <<now, sessions, cache, grant, gone>> /\ Live' = Live
  BY DEF Verify, Live
<1>1. s \in Live /\ gone[s] = -1
  BY Numbers DEF Verify, Valid, LifeInv, RowInv
<1>2. RowInv' /\ CacheInv' /\ SlideInv' /\ RevocationTakesHold'
  BY <1>0 DEF LifeInv, RowInv, CacheInv, SlideInv, RevocationTakesHold
<1>3. RequestInv'
  <2>1. /\ req'[r].at = "verified" /\ req'[r].s = s
        /\ \A x \in Request : x # r => req'[x] = req[x]
    BY <1>0 DEF TypeOK
  <2> QED  BY <1>0, <1>1, <2>1 DEF LifeInv, RequestInv
<1> QED  BY <1>2, <1>3 DEF LifeInv

\* verify_and_slide: a row that ran out is not slid, because the request that
\* slides it verified it in this instant.
LEMMA SlideStep ==
    ASSUME TypeOK, LifeInv, NEW r \in Request, Slide(r)
    PROVE  LifeInv'
<1>0. /\ UNCHANGED <<now, cache, grant, gone>> /\ req[r].at = "verified"
      /\ now \in Int /\ SessionLife \in Nat /\ CacheTtl \in Nat
  BY Numbers DEF Slide
<1>1. PICK s \in Session : /\ s = req[r].s /\ gone[s] \in {-1, now} /\ (s \in Live \/ gone[s] # -1)
                           /\ s \in Live /\ gone[s] # -1 => sessions[s].revoked
  BY <1>0 DEF LifeInv, RequestInv
<1>2. /\ Live' = Live
      /\ \A x \in Live : /\ x # s => sessions'[x] = sessions[x]
                         /\ x = s => sessions'[x].exp = now + SessionLife
                         /\ sessions'[x].revoked = sessions[x].revoked
  <2>1. CASE s \in Live
    <3>1. sessions' = [sessions EXCEPT ![s] = [sessions[s] EXCEPT !.exp = now + SessionLife]]
      BY <1>1, <2>1 DEF Slide
    <3>2. Live' = Live
      BY <3>1 DEF Live
    <3>3. \A x \in Live : sessions'[x] = IF x = s THEN [sessions[s] EXCEPT !.exp = now + SessionLife]
                                         ELSE sessions[x]
      BY <3>1 DEF Live
    <3>4. sessions[s] \in [user: User, exp: 0 .. MaxNow + SessionLife, revoked: BOOLEAN]
      BY <2>1 DEF TypeOK
    <3> QED  BY <2>1, <3>2, <3>3, <3>4
  <2>2. CASE s \notin Live
    <3>1. sessions' = sessions
      BY <1>1, <2>2 DEF Slide
    <3> QED  BY <2>2, <3>1 DEF Live
  <2> QED  BY <2>1, <2>2
<1>3. \A x \in Live : sessions'[x].exp >= sessions[x].exp /\ sessions'[x].exp \in Int
  BY <1>0, <1>2, Numbers DEF LifeInv, RowInv
<1>4. RowInv'
  BY <1>0, <1>1, <1>2, Numbers DEF LifeInv, RowInv
<1>5. CacheInv'
  BY <1>0, <1>2, <1>3, Numbers DEF LifeInv, CacheInv
<1>6. RequestInv'
  <2>1. /\ req'[r].at = "slid" /\ req'[r].s = s
        /\ \A x \in Request : x # r => req'[x] = req[x]
    BY <1>1 DEF Slide, TypeOK
  <2>2. ASSUME NEW x \in Request, x # r, req[x].at \in {"verified", "slid"}
        PROVE  /\ req[x].s \in Session /\ gone[req[x].s] \in {-1, now}
               /\ req[x].s \in Live \/ gone[req[x].s] # -1
               /\ req[x].at = "verified" /\ req[x].s \in Live /\ gone[req[x].s] # -1
                     => sessions'[req[x].s].revoked
               /\ req[x].at = "slid" /\ req[x].s \in Live
                     => sessions'[req[x].s].exp = now + SessionLife
    <3>1. PICK y \in Session : y = req[x].s
      BY <2>2 DEF LifeInv, RequestInv
    <3>2. /\ gone[y] \in {-1, now} /\ (y \in Live \/ gone[y] # -1)
          /\ req[x].at = "verified" /\ y \in Live /\ gone[y] # -1 => sessions[y].revoked
          /\ req[x].at = "slid" /\ y \in Live => sessions[y].exp = now + SessionLife
      BY <2>2, <3>1 DEF LifeInv, RequestInv
    <3> QED  BY <1>2, <3>1, <3>2
  <2> QED  BY <1>0, <1>1, <1>2, <2>1, <2>2 DEF RequestInv
<1>7. SlideInv'
  BY <1>0, <1>2, <1>3, Numbers DEF LifeInv, SlideInv
<1>8. RevocationTakesHold'
  BY <1>0 DEF LifeInv, RevocationTakesHold
<1> QED  BY <1>4, <1>5, <1>6, <1>7, <1>8 DEF LifeInv

\* token_cache.insert, of a session that may have been revoked since it was slid.
LEMMA CacheStep ==
    ASSUME TypeOK, LifeInv, NEW r \in Request, CacheInsert(r)
    PROVE  LifeInv'
<1>0. /\ UNCHANGED <<now, sessions, gone>> /\ Live' = Live /\ req[r].at = "slid"
      /\ req' = [req EXCEPT ![r] = Idle]
  BY DEF CacheInsert, Live
<1>1. PICK s \in Session : /\ s = req[r].s /\ gone[s] \in {-1, now} /\ (s \in Live \/ gone[s] # -1)
                           /\ s \in Live => sessions[s].exp = now + SessionLife
  BY <1>0 DEF LifeInv, RequestInv
<1>2. cache' = With(cache, s, now + CacheTtl) /\ grant' = [grant EXCEPT ![s] = now]
  BY <1>1 DEF CacheInsert
<1>3. RowInv' /\ CacheInv' /\ SlideInv' /\ RevocationTakesHold'
  BY <1>0, <1>1, <1>2, GrantStep
<1>4. RequestInv'
  <2>1. \A x \in Request : req'[x] = req[x] \/ req'[x].at = "idle"
    BY <1>0 DEF TypeOK, Idle
  <2> QED  BY <1>0, <2>1 DEF LifeInv, RequestInv
<1> QED  BY <1>3, <1>4 DEF LifeInv

\* logout takes tokens out of the cache.
LEMMA ForgetStep ==
    ASSUME TypeOK, LifeInv, NEW s \in Session, Forget(s)
    PROVE  LifeInv'
<1>0. UNCHANGED <<now, sessions, req, grant, gone>> /\ Live' = Live
  BY DEF Forget, Live
<1>1. \A x \in DOMAIN cache' : x \in DOMAIN cache /\ cache'[x] = cache[x]
  BY DEF Forget, Without
<1>2. CacheInv'
  BY <1>0, <1>1 DEF LifeInv, CacheInv
<1>3. RowInv' /\ RequestInv' /\ SlideInv' /\ RevocationTakesHold'
  BY <1>0 DEF LifeInv, RowInv, RequestInv, SlideInv, RevocationTakesHold
<1> QED  BY <1>2, <1>3 DEF LifeInv

\* Time passes while no request is on its way.
LEMMA SessionTickStep ==
    ASSUME TypeOK, LifeInv, Tick
    PROVE  LifeInv'
<1>0. /\ UNCHANGED <<sessions, req, grant>> /\ Live' = Live /\ now' = now + 1
      /\ now \in Int /\ now >= 0
      /\ \A r \in Request : req[r].at = "idle"
  BY SessionsAssumption DEF Tick, Live, Quiet, Idle, TypeOK
<1>1. \A s \in Session : gone'[s] = IF gone[s] = -1 /\ s \in Live /\ sessions[s].exp <= now + 1
                                    THEN now + 1 ELSE gone[s]
  BY DEF Tick
<1>2. \A s \in DOMAIN cache' : s \in DOMAIN cache /\ cache'[s] = cache[s] /\ cache[s] > now + 1
  BY DEF Tick
<1>3. RowInv'
  BY <1>0, <1>1, Numbers DEF LifeInv, RowInv
<1>4. CacheInv'
  BY <1>0, <1>1, <1>2, Numbers DEF LifeInv, CacheInv
<1>5. RequestInv'
  BY <1>0 DEF RequestInv
<1>6. SlideInv'
  BY <1>0 DEF LifeInv, SlideInv
<1>7. RevocationTakesHold'
  BY <1>0, <1>1, Numbers DEF LifeInv, RevocationTakesHold, RowInv
<1> QED  BY <1>3, <1>4, <1>5, <1>6, <1>7 DEF LifeInv

\* Every step keeps LifeInv.
LEMMA LifeStep ==
    ASSUME TypeOK, LifeInv, Next, TypeOK'
    PROVE  LifeInv'
<1>1. ASSUME NEW u \in User, Authorize(u) \/ CreateLoginCode(u) PROVE LifeInv'
  <2>1. UNCHANGED <<now, sessions, cache, grant, gone, req>>
    BY <1>1 DEF Authorize, CreateLoginCode
  <2> QED  BY <2>1, CodeStep
<1>2. ASSUME NEW r \in Request, FindCode(r) \/ DeleteCode(r) PROVE LifeInv'
  <2>1. UNCHANGED <<now, sessions, cache, grant, gone>>
    BY <1>2 DEF FindCode, DeleteCode
  <2>2. \A x \in Request : req'[x] = req[x] \/ req'[x].at \notin {"verified", "slid"}
    BY <1>2 DEF FindCode, DeleteCode, TypeOK
  <2> QED  BY <2>1, <2>2, CodeStep
<1>3. ASSUME NEW u \in User, RevokeUser(u) PROVE LifeInv'
  <2>1. PICK lost \in SUBSET Live : sessions' = Without(sessions, lost) /\ Ends(lost)
    BY <1>3 DEF RevokeUser
  <2>2. Live' = Live \ lost /\ \A s \in Live' : sessions'[s] = sessions[s]
    BY <2>1 DEF Without, Live
  <2>3. UNCHANGED <<now, cache, req, grant>>
    BY <1>3 DEF RevokeUser
  <2> QED  BY <2>1, <2>2, <2>3, EndStep
<1>4. ASSUME NEW l \in leaving, Revoke(l) PROVE LifeInv'
  <2>1. PICK out \in SUBSET Live :
           /\ sessions' = [s \in Live |-> [sessions[s] EXCEPT !.revoked = @ \/ s \in out]]
           /\ Ends(out)
    BY <1>4 DEF Revoke
  <2>2. Live' = Live
    BY <2>1 DEF Live
  <2>3. \A s \in Live : /\ sessions'[s].exp = sessions[s].exp
                        /\ sessions[s].revoked \/ s \in out => sessions'[s].revoked
    BY <2>1 DEF TypeOK
  <2>4. UNCHANGED <<now, cache, req, grant>>
    BY <1>4 DEF Revoke
  <2> QED  BY <2>1, <2>2, <2>3, <2>4, EndStep
<1> QED  BY <1>1, <1>2, <1>3, <1>4, InsertStep, SlideStep, CacheStep, VerifyStep, HitStep,
            ForgetStep, SessionTickStep DEF Next

-----------------------------------------------------------------------------
(* The invariant. *)

\* An empty database and an empty cache.
LEMMA SessionInit == ASSUME Init PROVE SessionInv
<1>0. MaxNow \in Nat /\ Live = {} /\ DOMAIN cache = {}
  BY SessionsAssumption DEF Init, Live
<1>1. req \in [Request -> [at: {"idle", "verified", "slid", "exchange", "insert"},
                           s: Session \cup {NoSession}, user: User \cup {NoSession},
                            code: Code \cup {NoSession}]]
      /\ \A r \in Request : req[r].at = "idle"
  BY DEF Init, Idle
<1>2. TypeOK
  BY <1>0, <1>1 DEF Init, TypeOK
<1>3. RowInv /\ CacheInv /\ SlideInv /\ RevocationTakesHold
  BY <1>0 DEF Init, RowInv, CacheInv, SlideInv, RevocationTakesHold
<1>4. RequestInv
  BY <1>1 DEF RequestInv
<1> QED  BY <1>2, <1>3, <1>4 DEF SessionInv

\* A step that changes nothing keeps the invariant.
LEMMA SessionStutter == ASSUME SessionInv, UNCHANGED vars PROVE SessionInv'
<1>1. TypeOK'
  BY DEF SessionInv, TypeOK, Live, vars
<1>2. LifeInv'
  BY CodeStep DEF SessionInv, LifeInv, vars
<1> QED  BY <1>1, <1>2 DEF SessionInv, LifeInv

\* For any users, sessions, requests and lifetimes, SessionInv holds of the
\* sessions, the token cache and the requests (SessionManager, AuthUser).
THEOREM SessionInvariant == Spec => []SessionInv
<1>1. Init => SessionInv
  BY SessionInit
<1>2. SessionInv /\ [Next]_vars => SessionInv'
  <2> SUFFICES ASSUME SessionInv, [Next]_vars PROVE SessionInv'
    OBVIOUS
  <2>1. CASE Next
    <3>1. TypeOK /\ RequestInv /\ LifeInv
      BY DEF SessionInv, LifeInv
    <3>2. TypeOK'
      BY <2>1, <3>1, TypeStep
    <3>3. LifeInv'
      BY <2>1, <3>1, <3>2, LifeStep
    <3> QED  BY <3>2, <3>3 DEF SessionInv, LifeInv
  <2>2. CASE UNCHANGED vars
    BY <2>2, SessionStutter
  <2> QED  BY <2>1, <2>2
<1> QED  BY <1>1, <1>2, PTL DEF Spec

\* For any users, sessions, requests and lifetimes: a session that was revoked,
\* deleted or ran out is accepted for at most the cache's time to live, and one
\* in use does not run out (verify_and_slide, token_cache).
THEOREM SessionLifeHoldsAlways == Spec => []SessionLifeHolds
<1>1. SessionInv => SessionLifeHolds
  BY DEF SessionInv, SlideInv, SessionLifeHolds, UseKeepsAlive
<1> QED  BY <1>1, SessionInvariant, PTL
=============================================================================
