--------------------------- MODULE RipQueueProofs ---------------------------
(***************************************************************************)
(* Proofs about RipQueue for any set of submissions, any priorities and    *)
(* any clock: one worker at a time, no stranded item, every item in one    *)
(* place, isolated cancellation, bounded overtaking, and that the queue    *)
(* implements RipService.                                                  *)
(***************************************************************************)
EXTENDS RipQueue, SequenceTheorems, FiniteSetTheorems, TLAPS

-----------------------------------------------------------------------------
(* Facts about the deque. *)

\* Removing the element at an index closes the gap and moves nothing else.
LEMMA RemoveAtProperties ==
    ASSUME NEW S, NEW q \in Seq(S), NEW k \in 1 .. Len(q)
    PROVE  /\ RemoveAt(q, k) \in Seq(S)
           /\ Len(RemoveAt(q, k)) = Len(q) - 1
           /\ \A m \in 1 .. Len(q) - 1 : RemoveAt(q, k)[m] = IF m < k THEN q[m] ELSE q[m + 1]
<1> DEFINE a1 == SubSeq(q, 1, k - 1)
           b1 == SubSeq(q, k + 1, Len(q))
<1>1. Len(q) \in Nat /\ k \in Nat
  BY LenProperties
<1>2. a1 \in Seq(S) /\ Len(a1) = k - 1 /\ \A m \in 1 .. k - 1 : a1[m] = q[m]
  BY <1>1, SubSeqProperties
<1>3. b1 \in Seq(S) /\ Len(b1) = Len(q) - k /\ \A m \in 1 .. Len(q) - k : b1[m] = q[k + m]
  BY <1>1, SubSeqProperties
<1> HIDE DEF a1, b1
<1>4. /\ a1 \o b1 \in Seq(S)
      /\ Len(a1 \o b1) = Len(a1) + Len(b1)
      /\ \A m \in 1 .. Len(a1) + Len(b1) :
            (a1 \o b1)[m] = IF m <= Len(a1) THEN a1[m] ELSE b1[m - Len(a1)]
  BY <1>2, <1>3, ConcatProperties
<1>5. RemoveAt(q, k) = a1 \o b1
  BY DEF RemoveAt, a1, b1
<1>6. ASSUME NEW m \in 1 .. Len(q) - 1
      PROVE  (a1 \o b1)[m] = IF m < k THEN q[m] ELSE q[m + 1]
  <2>1. m \in 1 .. Len(a1) + Len(b1)
    BY <1>1, <1>2, <1>3
  <2>2. CASE m < k
    BY <1>1, <1>2, <1>4, <2>1, <2>2
  <2>3. CASE ~(m < k)
    <3>1. m - (k - 1) \in 1 .. Len(q) - k /\ k + (m - (k - 1)) = m + 1
      BY <1>1, <2>3
    <3> QED  BY <1>1, <1>2, <1>3, <1>4, <2>1, <2>3, <3>1
  <2> QED  BY <2>2, <2>3
<1>7. Len(a1 \o b1) = Len(q) - 1
  BY <1>1, <1>2, <1>3, <1>4
<1> QED  BY <1>4, <1>5, <1>6, <1>7

\* The items of a queue.
Elems(q) == {q[m] : m \in 1 .. Len(q)}

\* No item is queued twice.
Distinct(q) == \A m, n \in 1 .. Len(q) : q[m] = q[n] => m = n

\* Removing the entry at an index removes that item and only that one.
LEMMA RemoveAtElems ==
    ASSUME NEW q \in Seq(Item), NEW k \in 1 .. Len(q), Distinct(q)
    PROVE  /\ Elems(RemoveAt(q, k)) = Elems(q) \ {q[k]}
           /\ Distinct(RemoveAt(q, k))
<1> DEFINE r == RemoveAt(q, k)
<1>1. /\ r \in Seq(Item) /\ Len(r) = Len(q) - 1 /\ Len(q) \in Nat /\ k \in Nat
      /\ \A m \in 1 .. Len(q) - 1 : r[m] = IF m < k THEN q[m] ELSE q[m + 1]
  BY RemoveAtProperties, LenProperties
<1> HIDE DEF r
<1>2. ASSUME NEW x \in Elems(r) PROVE x \in Elems(q) /\ x # q[k]
  <2>1. PICK m \in 1 .. Len(r) : x = r[m]
    BY DEF Elems
  <2>2. PICK n \in 1 .. Len(q) : x = q[n] /\ n # k
    BY <1>1, <2>1
  <2> QED  BY <2>2 DEF Elems, Distinct
<1>3. ASSUME NEW x \in Elems(q), x # q[k] PROVE x \in Elems(r)
  <2>1. PICK n \in 1 .. Len(q) : x = q[n] /\ n # k
    BY <1>3 DEF Elems
  <2>2. PICK m \in 1 .. Len(r) : x = r[m]
    <3>1. CASE n < k
      BY <1>1, <2>1, <3>1
    <3>2. CASE n > k
      <4>1. n - 1 \in 1 .. Len(r) /\ r[n - 1] = q[n]
        BY <1>1, <2>1, <3>2
      <4> QED  BY <4>1, <2>1
    <3>3. n < k \/ n > k
      BY <1>1, <2>1
    <3> QED  BY <3>1, <3>2, <3>3
  <2> QED  BY <2>2 DEF Elems
<1>4. ASSUME NEW m \in 1 .. Len(r), NEW n \in 1 .. Len(r), r[m] = r[n] PROVE m = n
  <2> DEFINE At(x) == IF x < k THEN x ELSE x + 1
  <2>1. At(m) \in 1 .. Len(q) /\ At(n) \in 1 .. Len(q) /\ q[At(m)] = q[At(n)]
    BY <1>1, <1>4
  <2>2. At(m) = At(n)
    BY <2>1 DEF Distinct
  <2> QED  BY <1>1, <2>2
<1>5. Distinct(r)
  BY <1>4 DEF Distinct
<1> QED  BY <1>2, <1>3, <1>5 DEF r

\* Pushing an item that is not queued adds it at the end.
LEMMA AppendElems ==
    ASSUME NEW q \in Seq(Item), NEW i \in Item, i \notin Elems(q), Distinct(q)
    PROVE  /\ Append(q, i) \in Seq(Item)
           /\ Elems(Append(q, i)) = Elems(q) \cup {i}
           /\ Distinct(Append(q, i))
<1>1. /\ Append(q, i) \in Seq(Item) /\ Len(Append(q, i)) = Len(q) + 1 /\ Len(q) \in Nat
      /\ \A m \in 1 .. Len(q) : Append(q, i)[m] = q[m]
      /\ Append(q, i)[Len(q) + 1] = i
  BY AppendProperties, LenProperties
<1>2. Elems(Append(q, i)) = Elems(q) \cup {i}
  <2>1. ASSUME NEW x \in Elems(Append(q, i)) PROVE x \in Elems(q) \cup {i}
    BY <1>1 DEF Elems
  <2>2. ASSUME NEW x \in Elems(q) PROVE x \in Elems(Append(q, i))
    <3>1. PICK m \in 1 .. Len(q) : x = q[m]
      BY DEF Elems
    <3>2. m \in 1 .. Len(Append(q, i)) /\ Append(q, i)[m] = x
      BY <1>1, <3>1
    <3> QED  BY <3>2 DEF Elems
  <2>3. Len(q) + 1 \in 1 .. Len(Append(q, i))
    BY <1>1
  <2>4. i \in Elems(Append(q, i))
    BY <1>1, <2>3 DEF Elems
  <2> QED  BY <2>1, <2>2, <2>4
<1>3. ASSUME NEW m \in 1 .. Len(Append(q, i)), NEW n \in 1 .. Len(Append(q, i)),
             Append(q, i)[m] = Append(q, i)[n]
      PROVE  m = n
  <2>1. CASE m \in 1 .. Len(q) /\ n \in 1 .. Len(q)
    BY <1>1, <1>3, <2>1 DEF Distinct
  <2>2. CASE m \in 1 .. Len(q) /\ n = Len(q) + 1
    BY <1>1, <1>3, <2>2 DEF Elems
  <2>3. CASE n \in 1 .. Len(q) /\ m = Len(q) + 1
    BY <1>1, <1>3, <2>3 DEF Elems
  <2> QED  BY <1>1, <2>1, <2>2, <2>3
<1> QED  BY <1>1, <1>2, <1>3 DEF Distinct

-----------------------------------------------------------------------------
(* Types. *)

\* The callbacks that renumber a queue are well formed.
LEMMA RenumberType ==
    ASSUME NEW who \in Actor, NEW q \in Seq(Item), NEW first \in 1 .. Len(q) + 1
    PROVE  Renumber(who, q, first) \subseteq Report
<1>1. Len(q) \in Nat /\ first \in Nat \ {0}
  BY LenProperties
<1> QED  BY <1>1, ElementOfSeq DEF Renumber, Report

\* The types hold in a new queue.
LEMMA InitTypeOK == Init => TypeOK
<1> SUFFICES ASSUME Init PROVE TypeOK
  OBVIOUS
<1>1. <<>> \in Seq(Item) /\ 0 \in 0 .. MaxTicks
  BY QueueAssumption, EmptySeq
<1> QED  BY <1>1 DEF Init, TypeOK

\* No action leaves the types.
LEMMA NextTypeOK == TypeOK /\ [Next]_vars => TypeOK'
<1> SUFFICES ASSUME TypeOK, [Next]_vars PROVE TypeOK'
  OBVIOUS
<1> USE DEF queueState, callerVars, workerVars
<1>1. CASE UNCHANGED vars
  BY <1>1 DEF TypeOK, vars
<1>2. ASSUME NEW i \in Item, SubmitCheck(i) PROVE TypeOK'
  BY <1>2 DEF TypeOK, SubmitCheck, Answer
<1>3. ASSUME NEW i \in Item, SubmitPush(i) PROVE TypeOK'
  <2>1. Append(pending, i) \in Seq(Item) /\ Len(pending) + 1 \in Nat
    BY AppendProperties, LenProperties DEF TypeOK
  <2>2. [by |-> <<"caller", i>>, to |-> i, pos |-> Len(pending) + 1] \in Report
    BY <2>1 DEF Report, Actor
  <2>3. reports' \subseteq Report
    BY <1>3, <2>2 DEF TypeOK, SubmitPush
  <2> QED  BY <1>3, <2>1, <2>3 DEF TypeOK, SubmitPush
<1>4. ASSUME NEW i \in Item, SubmitSpawn(i) PROVE TypeOK'
  BY <1>4 DEF TypeOK, SubmitSpawn
<1>5. ASSUME NEW i \in Item, WatcherAbort(i) PROVE TypeOK'
  <2>1. CASE /\ UNCHANGED <<pending, reports, stop, child, answer>>
             /\ watcher' = [watcher EXCEPT ![i] = "missed"]
    BY <1>5, <2>1 DEF TypeOK, WatcherAbort
  <2>2. ASSUME NEW k \in 1 .. Len(pending),
               pending' = RemoveAt(pending, k),
               reports' = reports \cup Renumber(<<"watcher", i>>, RemoveAt(pending, k), k),
               stop' = [stop EXCEPT ![i] = TRUE],
               child' = [child EXCEPT ![i] = TRUE],
               answer' = [answer EXCEPT ![i] = "aborted"],
               watcher' = [watcher EXCEPT ![i] = "done"]
        PROVE  TypeOK'
    <3>1. /\ RemoveAt(pending, k) \in Seq(Item)
          /\ Len(RemoveAt(pending, k)) = Len(pending) - 1
          /\ Len(pending) \in Nat
      BY RemoveAtProperties, LenProperties DEF TypeOK
    <3>2. k \in 1 .. Len(RemoveAt(pending, k)) + 1
      BY <3>1
    <3>3. <<"watcher", i>> \in Actor
      BY DEF Actor
    <3>4. pending' \in Seq(Item) /\ reports' \subseteq Report
      BY <2>2, <3>1, <3>2, <3>3, RenumberType DEF TypeOK
    <3>5. UNCHANGED <<active, processing, now, enqueuedAt, caller, starter, outer, worker, held,
                      shown>>
      BY <1>5 DEF WatcherAbort
    <3> QED  BY <2>2, <3>4, <3>5 DEF TypeOK, Answer
  <2> QED  BY <1>5, <2>1, <2>2 DEF WatcherAbort
<1>6. ASSUME NEW i \in Item, WatcherCancelActive(i) PROVE TypeOK'
  BY <1>6 DEF TypeOK, WatcherCancelActive
<1>7. ASSUME NEW i \in Item, WatcherStop(i) PROVE TypeOK'
  BY <1>7 DEF TypeOK, WatcherStop
<1>8. ASSUME NEW i \in Item, Cancel(i) PROVE TypeOK'
  BY <1>8 DEF TypeOK, Cancel
<1>9. ASSUME NEW w \in Item, WorkerTake(w) PROVE TypeOK'
  <2>1. CASE /\ active' = NoItem
             /\ processing' = FALSE
             /\ worker' = [worker EXCEPT ![w] = "exited"]
             /\ UNCHANGED <<pending, held, reports>>
    BY <1>9, <2>1 DEF TypeOK, WorkerTake
  <2>2. ASSUME NEW k \in 1 .. Len(pending),
               active' = pending[k],
               held' = [held EXCEPT ![w] = pending[k]],
               pending' = RemoveAt(pending, k),
               reports' = reports \cup Renumber(<<"worker", w>>, RemoveAt(pending, k), 1),
               worker' = [worker EXCEPT ![w] = "start"],
               UNCHANGED processing
        PROVE  TypeOK'
    <3>1. /\ RemoveAt(pending, k) \in Seq(Item)
          /\ Len(RemoveAt(pending, k)) \in Nat
          /\ pending[k] \in Item
      BY RemoveAtProperties, LenProperties, ElementOfSeq DEF TypeOK
    <3>2. 1 \in 1 .. Len(RemoveAt(pending, k)) + 1
      BY <3>1
    <3>3. <<"worker", w>> \in Actor
      BY DEF Actor
    <3>4. pending' \in Seq(Item) /\ reports' \subseteq Report
      BY <2>2, <3>1, <3>2, <3>3, RenumberType DEF TypeOK
    <3>5. UNCHANGED <<now, enqueuedAt, caller, starter, watcher, outer, child, stop, answer, shown>>
      BY <1>9 DEF WorkerTake
    <3> QED  BY <2>2, <3>1, <3>4, <3>5 DEF TypeOK
  <2> QED  BY <1>9, <2>1, <2>2 DEF WorkerTake
<1>10. ASSUME NEW w \in Item, WorkerStart(w) PROVE TypeOK'
  BY <1>10 DEF TypeOK, WorkerStart
<1>11. ASSUME NEW w \in Item, WorkerComplete(w) PROVE TypeOK'
  <2>1. PICK result \in {"done", "panicked"} : answer' = [answer EXCEPT ![held[w]] = result]
    BY <1>11 DEF WorkerComplete
  <2> QED  BY <1>11, <2>1 DEF TypeOK, WorkerComplete, Answer
<1>12. ASSUME NEW w \in Item, WorkerRelease(w) PROVE TypeOK'
  BY <1>12 DEF TypeOK, WorkerRelease
<1>13. ASSUME NEW r \in reports, Callback(r) PROVE TypeOK'
  <2>1. r.pos \in Nat
    BY <1>13 DEF TypeOK, Report
  <2> QED  BY <1>13, <2>1 DEF TypeOK, Callback
<1>14. CASE Clear
  BY <1>14, EmptySeq DEF TypeOK, Clear, Answer
<1>15. CASE Tick
  BY <1>15, QueueAssumption DEF TypeOK, Tick
<1> QED
  BY <1>1, <1>2, <1>3, <1>4, <1>5, <1>6, <1>7, <1>8, <1>9, <1>10, <1>11, <1>12, <1>13, <1>14,
     <1>15
  DEF Next, Caller, Watcher, Worker

\* The queue keeps its types: positions are natural numbers, and only items
\* are queued, taken or answered.
THEOREM QueueTypeCorrect == Spec => []TypeOK
BY InitTypeOK, NextTypeOK, PTL DEF Spec

-----------------------------------------------------------------------------
(* One worker. *)

\* A worker is spawned by a submission that has returned.
SpawnedOnce == \A w \in Item : caller[w] # "returned" => worker[w] = "none"

\* The inductive form of SerialDownloads and NoStrandedItem.
WorkerInv == SerialDownloads /\ NoStrandedItem /\ SpawnedOnce

\* Nothing is queued and no worker exists in a new queue.
LEMMA InitWorkerInv == Init => WorkerInv
BY DEF Init, WorkerInv, SerialDownloads, NoStrandedItem, SpawnedOnce, Claimed, Live

\* Every step keeps at most one worker, and one while the flag is up.
LEMMA NextWorkerInv == TypeOK /\ WorkerInv /\ [Next]_vars => WorkerInv'
<1> SUFFICES ASSUME TypeOK, WorkerInv, [Next]_vars PROVE WorkerInv'
  OBVIOUS
<1> USE DEF queueState, callerVars, workerVars
<1> DEFINE Unmoved == UNCHANGED <<active, processing, caller, starter, worker, held>>
<1>1. ASSUME Unmoved, pending' = pending \/ pending' = <<>> \/ pending # <<>> PROVE WorkerInv'
  BY <1>1 DEF WorkerInv, SerialDownloads, NoStrandedItem, SpawnedOnce, Claimed, Live
<1>2. CASE UNCHANGED vars
  BY <1>1, <1>2 DEF vars
<1>3. ASSUME NEW i \in Item, SubmitCheck(i) PROVE WorkerInv'
  <2>1. \A w \in Item : Claimed(w)' <=> Claimed(w)
    BY <1>3 DEF SubmitCheck, TypeOK, Claimed, Live
  <2>2. SpawnedOnce'
    BY <1>3 DEF SubmitCheck, TypeOK, WorkerInv, SpawnedOnce
  <2> QED  BY <1>3, <2>1, <2>2 DEF SubmitCheck, WorkerInv, SerialDownloads, NoStrandedItem
<1>4. ASSUME NEW i \in Item, SubmitPush(i) PROVE WorkerInv'
  <2>1. SpawnedOnce' /\ worker[i] = "none"
    BY <1>4 DEF SubmitPush, TypeOK, WorkerInv, SpawnedOnce
  <2>2. ~Claimed(i) /\ (Claimed(i)' <=> ~processing)
    BY <1>4, <2>1 DEF SubmitPush, TypeOK, Claimed, Live
  <2>3. \A w \in Item : w # i => (Claimed(w)' <=> Claimed(w))
    BY <1>4 DEF SubmitPush, TypeOK, Claimed, Live
  <2>4. SerialDownloads'
    BY <1>4, <2>2, <2>3 DEF SubmitPush, WorkerInv, SerialDownloads, NoStrandedItem
  <2>5. NoStrandedItem'
    BY <1>4, <2>2, <2>3 DEF SubmitPush, WorkerInv, NoStrandedItem
  <2> QED  BY <2>1, <2>4, <2>5 DEF WorkerInv
<1>5. ASSUME NEW i \in Item, SubmitSpawn(i) PROVE WorkerInv'
  <2>1. SpawnedOnce' /\ worker[i] = "none"
    BY <1>5 DEF SubmitSpawn, TypeOK, WorkerInv, SpawnedOnce
  <2>2. \A w \in Item : Claimed(w)' <=> Claimed(w)
    BY <1>5, <2>1 DEF SubmitSpawn, TypeOK, Claimed, Live
  <2>3. \A w \in Item : worker'[w] \in {"start", "run", "finish"} => worker[w] = worker'[w]
    BY <1>5 DEF SubmitSpawn, TypeOK
  <2> QED  BY <1>5, <2>1, <2>2, <2>3 DEF SubmitSpawn, WorkerInv, SerialDownloads, NoStrandedItem
<1>6. ASSUME NEW i \in Item, WatcherAbort(i) PROVE WorkerInv'
  <2>1. pending' = pending \/ pending # <<>>
    <3>1. CASE pending = <<>>
      <4>1. Len(pending) = 0
        BY <3>1, EmptySeq
      <4> QED  BY <1>6, <4>1 DEF WatcherAbort
    <3> QED  BY <3>1
  <2> QED  BY <1>1, <1>6, <2>1 DEF WatcherAbort
<1>7. ASSUME NEW i \in Item, WatcherCancelActive(i) \/ WatcherStop(i) \/ Cancel(i) PROVE WorkerInv'
  BY <1>1, <1>7 DEF WatcherCancelActive, WatcherStop, Cancel
<1>8. ASSUME NEW w \in Item, WorkerTake(w) PROVE WorkerInv'
  <2>1. Claimed(w) /\ caller[w] = "returned" /\ \A v \in Item : v # w => ~Claimed(v)
    BY <1>8 DEF WorkerTake, Claimed, Live, WorkerInv, SerialDownloads, SpawnedOnce
  <2>2. \A v \in Item : v # w => ~Claimed(v)' /\ worker'[v] = worker[v]
    BY <1>8, <2>1 DEF WorkerTake, TypeOK, Claimed, Live
  <2>3. \A v \in Item : v # w => worker'[v] \notin {"take", "start", "run", "finish"}
    BY <2>2 DEF Claimed, Live
  <2>4. SpawnedOnce'
    BY <1>8, <2>1, <2>2 DEF WorkerTake, WorkerInv, SpawnedOnce
  <2>5. CASE /\ pending = <<>> /\ active' = NoItem /\ processing' = FALSE
             /\ worker' = [worker EXCEPT ![w] = "exited"] /\ UNCHANGED pending
    <3>1. worker'[w] = "exited" /\ caller'[w] = "returned"
      BY <1>8, <2>1, <2>5 DEF WorkerTake, TypeOK
    <3>2. ~Claimed(w)'
      BY <3>1 DEF Claimed, Live
    <3> QED  BY <2>2, <2>3, <2>4, <2>5, <3>1, <3>2 DEF WorkerInv, SerialDownloads, NoStrandedItem
  <2>6. ASSUME NEW k \in 1 .. Len(pending), active' = pending[k], UNCHANGED processing,
               held' = [held EXCEPT ![w] = pending[k]],
               worker' = [worker EXCEPT ![w] = "start"]
        PROVE  WorkerInv'
    <3>1. pending[k] \in Item /\ pending[k] # NoItem
      BY ElementOfSeq, QueueAssumption DEF TypeOK
    <3>2. held'[w] = active' /\ active' # NoItem /\ worker'[w] = "start"
      BY <2>6, <3>1 DEF TypeOK
    <3>3. Claimed(w)'
      BY <3>2 DEF Claimed, Live
    <3>4. SerialDownloads'
      BY <2>2, <2>3, <3>2 DEF SerialDownloads
    <3>5. processing
      BY <2>1 DEF WorkerInv, NoStrandedItem
    <3>6. NoStrandedItem'
      BY <2>6, <3>3, <3>5 DEF NoStrandedItem
    <3> QED  BY <2>4, <3>4, <3>6 DEF WorkerInv
  <2> QED  BY <1>8, <2>5, <2>6 DEF WorkerTake
<1>9. ASSUME NEW w \in Item, WorkerStart(w) \/ WorkerComplete(w) PROVE WorkerInv'
  <2>1. \A v \in Item : Claimed(v)' <=> Claimed(v)
    BY <1>9 DEF WorkerStart, WorkerComplete, TypeOK, Claimed, Live
  <2>2. \A v \in Item : worker'[v] \in {"start", "run", "finish"} => worker[v] \in {"start", "run", "finish"}
    BY <1>9 DEF WorkerStart, WorkerComplete, TypeOK
  <2>3. SpawnedOnce'
    BY <1>9 DEF WorkerStart, WorkerComplete, TypeOK, WorkerInv, SpawnedOnce
  <2> QED
    BY <1>9, <2>1, <2>2, <2>3 DEF WorkerStart, WorkerComplete, WorkerInv, SerialDownloads, NoStrandedItem
<1>10. ASSUME NEW w \in Item, WorkerRelease(w) PROVE WorkerInv'
  <2>1. Claimed(w) /\ caller[w] = "returned" /\ \A v \in Item : v # w => ~Claimed(v)
    BY <1>10 DEF WorkerRelease, Claimed, Live, WorkerInv, SerialDownloads, SpawnedOnce
  <2>2. \A v \in Item : v # w => ~Claimed(v)' /\ worker'[v] = worker[v]
    BY <1>10, <2>1 DEF WorkerRelease, TypeOK, Claimed, Live
  <2>3. SpawnedOnce'
    BY <1>10, <2>1, <2>2 DEF WorkerRelease, WorkerInv, SpawnedOnce
  <2>4. /\ worker'[w] = IF pending = <<>> THEN "exited" ELSE "take"
        /\ caller'[w] = "returned"
    BY <1>10, <2>1 DEF WorkerRelease, TypeOK
  <2>5. Claimed(w)' <=> pending # <<>>
    BY <2>4 DEF Claimed, Live
  <2>6. \A v \in Item : worker'[v] \notin {"start", "run", "finish"}
    BY <2>2, <2>4 DEF Claimed, Live
  <2>7. SerialDownloads'
    BY <2>2, <2>6 DEF SerialDownloads
  <2>8. processing
    BY <2>1 DEF WorkerInv, NoStrandedItem
  <2>9. NoStrandedItem'
    BY <1>10, <2>2, <2>5, <2>8 DEF WorkerRelease, NoStrandedItem
  <2> QED  BY <2>3, <2>7, <2>9 DEF WorkerInv
<1>11. ASSUME NEW r \in reports, Callback(r) PROVE WorkerInv'
  BY <1>1, <1>11 DEF Callback
<1>12. CASE Clear \/ Tick
  BY <1>1, <1>12 DEF Clear, Tick
<1> QED
  BY <1>2, <1>3, <1>4, <1>5, <1>6, <1>7, <1>8, <1>9, <1>10, <1>11, <1>12
  DEF Next, Caller, Watcher, Worker

\* "Downloads stay serial" for any number of submissions: the processing flag
\* admits one worker, and that worker holds the active item.
THEOREM QueueSerialDownloads == Spec => []SerialDownloads
<1>1. WorkerInv => SerialDownloads
  BY DEF WorkerInv
<1> QED  BY <1>1, InitTypeOK, NextTypeOK, InitWorkerInv, NextWorkerInv, PTL DEF Spec

\* No lost wake-up for any number of submissions: an item that waits has a
\* worker, although submitters only look at the flag.
THEOREM QueueNoStrandedItem == Spec => []NoStrandedItem
<1>1. WorkerInv => NoStrandedItem
  BY DEF WorkerInv
<1> QED  BY <1>1, InitTypeOK, NextTypeOK, InitWorkerInv, NextWorkerInv, PTL DEF Spec

-----------------------------------------------------------------------------
(* One place for every item, and whom a cancellation reaches. *)

\* Item i is in the hands of a worker and not answered yet.
Working(i) == \E w \in Item : worker[w] \in {"start", "run"} /\ held[w] = i

\* OnePlace, with what an unsubmitted item looks like.
Places ==
    /\ Distinct(pending)
    /\ \A i \in Item : i \in Queued \/ Working(i) =>
          caller[i] \in {"pushed", "returned"} /\ answer[i] = "none"
    /\ \A i \in Item : ~(i \in Queued /\ Working(i))
    /\ \A i \in Item : caller[i] \in {"idle", "checked"} => answer[i] = "none"
    /\ \A i \in Item : caller[i] \in {"pushed", "returned"} =>
          i \in Queued \/ Working(i) \/ answer[i] # "none"

\* CancelIsolated, with the watcher between its two locks.
CancelInv ==
    /\ CancelIsolated
    /\ \A i \in Item : watcher[i] = "missed" => outer[i]

QueueInv == TypeOK /\ WorkerInv /\ Places /\ CancelInv

\* A new queue satisfies the invariant.
LEMMA InitQueueInv == Init => QueueInv
<1> SUFFICES ASSUME Init PROVE QueueInv
  OBVIOUS
<1>1. Len(pending) = 0
  BY EmptySeq DEF Init
<1>2. Places
  BY <1>1 DEF Init, Places, Distinct, Queued, Working
<1>3. CancelInv
  BY DEF Init, CancelInv, CancelIsolated
<1> QED  BY <1>2, <1>3, InitTypeOK, InitWorkerInv DEF QueueInv

\* A step that moves no item keeps the places.
LEMMA PlacesUnmoved ==
    ASSUME Places, UNCHANGED <<pending, caller, answer, held>>,
           \A w \in Item : worker'[w] \in {"start", "run"} <=> worker[w] \in {"start", "run"}
    PROVE  Places'
<1>1. Queued' = Queued
  BY DEF Queued
<1>2. \A i \in Item : Working(i)' <=> Working(i)
  BY DEF Working
<1> QED  BY <1>1, <1>2 DEF Places, Distinct

\* The items that leave the queue at index k: that one.
LEMMA QueuedAfterRemove ==
    ASSUME TypeOK, Places, NEW k \in 1 .. Len(pending), pending' = RemoveAt(pending, k)
    PROVE  /\ Distinct(pending)' /\ Queued' = Queued \ {pending[k]}
           /\ pending[k] \in Queued /\ pending[k] \in Item
<1>1. pending \in Seq(Item) /\ Distinct(pending)
  BY DEF TypeOK, Places
<1>2. /\ Elems(RemoveAt(pending, k)) = Elems(pending) \ {pending[k]}
      /\ Distinct(RemoveAt(pending, k))
  BY <1>1, RemoveAtElems
<1>3. Queued = Elems(pending) /\ Queued' = Elems(RemoveAt(pending, k))
  BY DEF Queued, Elems
<1>4. Distinct(pending)' 
  BY <1>2 DEF Distinct
<1>5. pending[k] \in Queued /\ pending[k] \in Item
  BY <1>1, ElementOfSeq DEF Queued
<1> QED  BY <1>2, <1>3, <1>4, <1>5

\* Every step keeps every item in one place.
LEMMA NextPlaces == QueueInv /\ [Next]_vars => Places'
<1> SUFFICES ASSUME QueueInv, [Next]_vars PROVE Places'
  OBVIOUS
<1> USE DEF queueState, callerVars, workerVars
<1>0. TypeOK /\ WorkerInv /\ Places
  BY DEF QueueInv
<1>1. CASE UNCHANGED vars
  BY <1>0, <1>1, PlacesUnmoved DEF vars
<1>2. ASSUME NEW i \in Item, SubmitCheck(i) PROVE Places'
  <2>1. Queued' = Queued /\ \A x \in Item : Working(x)' <=> Working(x)
    BY <1>2 DEF SubmitCheck, Queued, Working
  <2>2. Distinct(pending)'
    BY <1>0, <1>2 DEF SubmitCheck, Places, Distinct
  <2>3. CASE ~outer[i]
    <3>1. answer' = answer /\ \A x \in Item : x # i => caller'[x] = caller[x]
      BY <1>0, <1>2, <2>3 DEF SubmitCheck, TypeOK
    <3>2. caller[i] = "idle" /\ caller'[i] = "checked"
      BY <1>0, <1>2, <2>3 DEF SubmitCheck, TypeOK
    <3> QED  BY <1>0, <2>1, <2>2, <3>1, <3>2 DEF Places
  <2>4. CASE outer[i]
    <3>1. \A x \in Item : x # i => caller'[x] = caller[x] /\ answer'[x] = answer[x]
      BY <1>0, <1>2, <2>4 DEF SubmitCheck, TypeOK
    <3>2. caller[i] = "idle" /\ caller'[i] = "returned" /\ answer'[i] = "aborted"
      BY <1>0, <1>2, <2>4 DEF SubmitCheck, TypeOK
    <3> QED  BY <1>0, <2>1, <2>2, <3>1, <3>2 DEF Places
  <2> QED  BY <2>3, <2>4
<1>3. ASSUME NEW i \in Item, SubmitPush(i) PROVE Places'
  <2>1. i \notin Queued /\ ~Working(i) /\ answer[i] = "none" /\ pending \in Seq(Item)
    BY <1>0, <1>3 DEF SubmitPush, Places, TypeOK
  <2>2. Queued' = Queued \cup {i} /\ Distinct(pending)'
    <3>1. pending' = Append(pending, i)
      BY <1>3 DEF SubmitPush
    <3>2. i \notin Elems(pending) /\ Distinct(pending)
      BY <1>0, <2>1 DEF Places, Queued, Elems
    <3>3. Elems(Append(pending, i)) = Elems(pending) \cup {i} /\ Distinct(Append(pending, i))
      BY <2>1, <3>2, AppendElems
    <3>4. Queued' = Elems(Append(pending, i)) /\ Queued = Elems(pending)
      BY <3>1 DEF Queued, Elems
    <3>5. Distinct(pending)'
      BY <3>1, <3>3 DEF Distinct
    <3> QED  BY <3>3, <3>4, <3>5
  <2>3. \A x \in Item : Working(x)' <=> Working(x)
    BY <1>3 DEF SubmitPush, Working
  <2> QED  BY <1>0, <1>3, <2>1, <2>2, <2>3 DEF SubmitPush, Places, TypeOK
<1>4. ASSUME NEW i \in Item, SubmitSpawn(i) PROVE Places'
  <2>1. Queued' = Queued /\ Distinct(pending)'
    BY <1>0, <1>4 DEF SubmitSpawn, Queued, Places, Distinct
  <2>2. worker[i] = "none"
    BY <1>0, <1>4 DEF SubmitSpawn, WorkerInv, SpawnedOnce
  <2>3. \A w \in Item : worker'[w] \in {"start", "run"} <=> worker[w] \in {"start", "run"}
    BY <1>0, <1>4, <2>2 DEF SubmitSpawn, TypeOK
  <2>4. \A x \in Item : Working(x)' <=> Working(x)
    BY <1>4, <2>3 DEF SubmitSpawn, Working
  <2> QED  BY <1>0, <1>4, <2>1, <2>4 DEF SubmitSpawn, Places, TypeOK
<1>5. ASSUME NEW i \in Item, WatcherAbort(i) PROVE Places'
  <2>1. CASE UNCHANGED <<pending, answer>>
    BY <1>0, <1>5, <2>1, PlacesUnmoved DEF WatcherAbort
  <2>2. ASSUME NEW k \in 1 .. Len(pending), pending[k] = i, pending' = RemoveAt(pending, k),
               answer' = [answer EXCEPT ![i] = "aborted"]
        PROVE  Places'
    <3>1. Distinct(pending)' /\ Queued' = Queued \ {i} /\ i \in Queued
      BY <1>0, <2>2, QueuedAfterRemove
    <3>2. \A x \in Item : Working(x)' <=> Working(x)
      BY <1>5 DEF WatcherAbort, Working
    <3>3. answer'[i] = "aborted" /\ \A x \in Item : x # i => answer'[x] = answer[x]
      BY <1>0, <2>2 DEF TypeOK
    <3>4. caller' = caller
      BY <1>5 DEF WatcherAbort
    <3> QED  BY <1>0, <3>1, <3>2, <3>3, <3>4 DEF Places
  <2> QED  BY <1>5, <2>1, <2>2 DEF WatcherAbort
<1>6. ASSUME NEW i \in Item, WatcherCancelActive(i) \/ WatcherStop(i) \/ Cancel(i) PROVE Places'
  BY <1>0, <1>6, PlacesUnmoved DEF WatcherCancelActive, WatcherStop, Cancel
<1>7. ASSUME NEW w \in Item, WorkerTake(w) PROVE Places'
  <2>1. \A v \in Item : v # w => worker[v] \notin {"start", "run"}
    BY <1>0, <1>7 DEF WorkerTake, WorkerInv, SerialDownloads, Claimed, Live
  <2>2. CASE worker' = [worker EXCEPT ![w] = "exited"] /\ UNCHANGED <<pending, held>>
    BY <1>0, <1>7, <2>2, PlacesUnmoved DEF WorkerTake, TypeOK
  <2>3. ASSUME NEW k \in 1 .. Len(pending), pending' = RemoveAt(pending, k),
               held' = [held EXCEPT ![w] = pending[k]],
               worker' = [worker EXCEPT ![w] = "start"]
        PROVE  Places'
    <3>1. /\ Distinct(pending)' /\ Queued' = Queued \ {pending[k]}
          /\ pending[k] \in Queued /\ pending[k] \in Item
      BY <1>0, <2>3, QueuedAfterRemove
    <3>2. /\ worker'[w] = "start" /\ held'[w] = pending[k]
          /\ \A v \in Item : v # w => worker'[v] \notin {"start", "run"}
      BY <1>0, <2>1, <2>3 DEF TypeOK
    <3>3. \A x \in Item : Working(x)' <=> x = pending[k]
      BY <3>2 DEF Working
    <3>4. \A x \in Item : ~Working(x)
      BY <1>7, <2>1 DEF WorkerTake, Working
    <3>5. UNCHANGED <<caller, answer>>
      BY <1>7 DEF WorkerTake
    <3> QED  BY <1>0, <3>1, <3>3, <3>4, <3>5 DEF Places
  <2> QED  BY <1>7, <2>2, <2>3 DEF WorkerTake
<1>8. ASSUME NEW w \in Item, WorkerStart(w) PROVE Places'
  BY <1>0, <1>8, PlacesUnmoved DEF WorkerStart, TypeOK
<1>9. ASSUME NEW w \in Item, WorkerComplete(w) PROVE Places'
  <2>1. \A v \in Item : v # w => worker[v] \notin {"start", "run"}
    BY <1>0, <1>9 DEF WorkerComplete, WorkerInv, SerialDownloads, Claimed, Live
  <2>2. held[w] \in Item /\ worker[w] = "run"
    BY <1>0, <1>9 DEF WorkerComplete, WorkerInv, SerialDownloads, TypeOK
  <2>3. \A x \in Item : Working(x) <=> x = held[w]
    BY <2>1, <2>2 DEF Working
  <2>4. \A x \in Item : ~Working(x)'
    BY <1>0, <1>9, <2>1 DEF WorkerComplete, Working, TypeOK
  <2>5. answer'[held[w]] # "none" /\ \A x \in Item : x # held[w] => answer'[x] = answer[x]
    <3>1. PICK result \in {"done", "panicked"} : answer' = [answer EXCEPT ![held[w]] = result]
      BY <1>9 DEF WorkerComplete
    <3> QED  BY <1>0, <2>2, <3>1 DEF TypeOK
  <2>6. Queued' = Queued /\ Distinct(pending)' /\ caller' = caller
    BY <1>0, <1>9 DEF WorkerComplete, Queued, Places, Distinct
  <2> QED  BY <1>0, <2>2, <2>3, <2>4, <2>5, <2>6 DEF Places
<1>10. ASSUME NEW w \in Item, WorkerRelease(w) PROVE Places'
  <2>1. \A v \in Item : worker[v] \notin {"start", "run"}
    BY <1>0, <1>10 DEF WorkerRelease, WorkerInv, SerialDownloads, Claimed, Live
  <2>2. \A v \in Item : worker'[v] \notin {"start", "run"}
    BY <1>0, <1>10, <2>1 DEF WorkerRelease, TypeOK
  <2>3. \A x \in Item : ~Working(x) /\ ~Working(x)'
    BY <2>1, <2>2 DEF Working
  <2>4. Queued' = Queued /\ Distinct(pending)' /\ UNCHANGED <<caller, answer>>
    BY <1>0, <1>10 DEF WorkerRelease, Queued, Places, Distinct
  <2> QED  BY <1>0, <2>3, <2>4 DEF Places
<1>11. ASSUME NEW r \in reports, Callback(r) PROVE Places'
  BY <1>0, <1>11, PlacesUnmoved DEF Callback
<1>12. CASE Clear
  <2>1. Queued' = {} /\ Distinct(pending)'
    BY <1>12, EmptySeq DEF Clear, Queued, Distinct
  <2>2. \A x \in Item : Working(x)' <=> Working(x)
    BY <1>12 DEF Clear, Working
  <2>3. \A x \in Item : answer'[x] = IF x \in Queued THEN "cleared" ELSE answer[x]
    BY <1>12 DEF Clear, Queued
  <2>4. caller' = caller
    BY <1>12 DEF Clear
  <2> QED  BY <1>0, <2>1, <2>2, <2>3, <2>4 DEF Places
<1>13. CASE Tick
  BY <1>0, <1>13, PlacesUnmoved DEF Tick
<1> QED
  BY <1>1, <1>2, <1>3, <1>4, <1>5, <1>6, <1>7, <1>8, <1>9, <1>10, <1>11, <1>12, <1>13
  DEF Next, Caller, Watcher, Worker

\* Every step cancels a token only for its own signal or for clear.
LEMMA NextCancelInv == QueueInv /\ [Next]_vars => CancelInv'
<1> SUFFICES ASSUME QueueInv, [Next]_vars PROVE CancelInv'
  OBVIOUS
<1> USE DEF queueState, callerVars, workerVars, CancelInv, CancelIsolated
<1>0. TypeOK /\ WorkerInv /\ Places /\ CancelInv
  BY DEF QueueInv
<1>1. ASSUME UNCHANGED <<child, outer, answer, watcher>> PROVE CancelInv'
  BY <1>0, <1>1
<1>2. CASE UNCHANGED vars
  BY <1>1, <1>2 DEF vars
<1>3. ASSUME NEW i \in Item, SubmitCheck(i) PROVE CancelInv'
  <2>1. answer[i] = "none" /\ \A x \in Item : x # i => answer'[x] = answer[x]
    BY <1>0, <1>3 DEF SubmitCheck, Places, TypeOK
  <2> QED  BY <1>0, <1>3, <2>1 DEF SubmitCheck
<1>4. ASSUME NEW i \in Item, SubmitPush(i) PROVE CancelInv'
  BY <1>1, <1>4 DEF SubmitPush
<1>5. ASSUME NEW i \in Item, SubmitSpawn(i) PROVE CancelInv'
  BY <1>0, <1>5 DEF SubmitSpawn, TypeOK
<1>6. ASSUME NEW i \in Item, WatcherAbort(i) PROVE CancelInv'
  <2>1. /\ outer[i] /\ outer' = outer
        /\ \A x \in Item : x # i => /\ answer'[x] = answer[x] /\ child'[x] = child[x]
                                    /\ watcher'[x] = watcher[x]
    BY <1>0, <1>6 DEF WatcherAbort, TypeOK
  <2> QED  BY <1>0, <2>1
<1>7. ASSUME NEW i \in Item, WatcherCancelActive(i) PROVE CancelInv'
  BY <1>0, <1>7 DEF WatcherCancelActive, TypeOK
<1>8. ASSUME NEW i \in Item, WatcherStop(i) PROVE CancelInv'
  BY <1>0, <1>8 DEF WatcherStop, TypeOK
<1>9. ASSUME NEW i \in Item, Cancel(i) PROVE CancelInv'
  BY <1>0, <1>9 DEF Cancel, TypeOK
<1>10. ASSUME NEW w \in Item, WorkerTake(w) \/ WorkerStart(w) \/ WorkerRelease(w) PROVE CancelInv'
  BY <1>1, <1>10 DEF WorkerTake, WorkerStart, WorkerRelease
<1>11. ASSUME NEW w \in Item, WorkerComplete(w) PROVE CancelInv'
  <2>1. held[w] \in Item /\ worker[w] = "run"
    BY <1>0, <1>11 DEF WorkerComplete, WorkerInv, SerialDownloads, TypeOK
  <2>2. answer[held[w]] = "none"
    BY <1>0, <2>1 DEF Places, Working
  <2>3. \A x \in Item : x # held[w] => answer'[x] = answer[x]
    BY <1>0, <1>11 DEF WorkerComplete, TypeOK
  <2>4. UNCHANGED <<child, outer, watcher>>
    BY <1>11 DEF WorkerComplete
  <2> QED  BY <1>0, <2>1, <2>2, <2>3, <2>4
<1>12. ASSUME NEW r \in reports, Callback(r) PROVE CancelInv'
  BY <1>1, <1>12 DEF Callback
<1>13. CASE Clear
  BY <1>0, <1>13 DEF Clear
<1>14. CASE Tick
  BY <1>1, <1>14 DEF Tick
<1> QED
  BY <1>2, <1>3, <1>4, <1>5, <1>6, <1>7, <1>8, <1>9, <1>10, <1>11, <1>12, <1>13, <1>14
  DEF Next, Caller, Watcher, Worker

\* Every step preserves the invariant.
LEMMA NextQueueInv == QueueInv /\ [Next]_vars => QueueInv'
BY NextTypeOK, NextWorkerInv, NextPlaces, NextCancelInv DEF QueueInv

\* The invariant of the queue, for every set of submissions.
THEOREM QueueInvariant == Spec => []QueueInv
BY InitQueueInv, NextQueueInv, PTL DEF Spec

\* A submission is queued, being worked on or answered, and only one of them.
THEOREM QueueOnePlace == Spec => []OnePlace
<1>1. ASSUME QueueInv PROVE OnePlace
  <2>1. Places
    BY <1>1 DEF QueueInv
  <2>2. ASSUME NEW i \in Item, caller[i] \in {"pushed", "returned"}
        PROVE  Cardinality({p \in {"queued", "working", "answered"} :
                  \/ p = "queued" /\ i \in Queued
                  \/ p = "working" /\ \E w \in Item : worker[w] \in {"start", "run"} /\ held[w] = i
                  \/ p = "answered" /\ answer[i] # "none"}) = 1
    <3> DEFINE P == {p \in {"queued", "working", "answered"} :
                  \/ p = "queued" /\ i \in Queued
                  \/ p = "working" /\ \E w \in Item : worker[w] \in {"start", "run"} /\ held[w] = i
                  \/ p = "answered" /\ answer[i] # "none"}
    <3>1. P = {p \in {"queued", "working", "answered"} :
                  \/ p = "queued" /\ i \in Queued
                  \/ p = "working" /\ Working(i)
                  \/ p = "answered" /\ answer[i] # "none"}
      BY DEF Working
    <3>2. \/ i \in Queued /\ ~Working(i) /\ answer[i] = "none"
          \/ i \notin Queued /\ Working(i) /\ answer[i] = "none"
          \/ i \notin Queued /\ ~Working(i) /\ answer[i] # "none"
      BY <2>1, <2>2 DEF Places
    <3> HIDE DEF P
    <3>3. P = {"queued"} \/ P = {"working"} \/ P = {"answered"}
      BY <3>1, <3>2
    <3>4. Cardinality(P) = 1
      BY <3>3, FS_Singleton
    <3> QED  BY <3>4 DEF P
  <2> QED  BY <2>1, <2>2 DEF OnePlace, Places, Distinct
<1> QED  BY <1>1, QueueInvariant, PTL

\* Cancelling one job's signal never cancels another job's task.
THEOREM QueueCancelIsolated == Spec => []CancelIsolated
<1>1. QueueInv => CancelIsolated
  BY DEF QueueInv, CancelInv
<1> QED  BY <1>1, QueueInvariant, PTL

-----------------------------------------------------------------------------
(* Aging. *)

\* Scores differ by the difference of the base scores and of the head starts.
LEMMA ScoreDifference ==
    ASSUME TypeOK, NEW i \in Item, NEW j \in Item
    PROVE  /\ Score(i) \in Int /\ Score(j) \in Int
           /\ (Priority[j] - Priority[i]) * 100 \in Int
           /\ (enqueuedAt[j] - enqueuedAt[i]) * TickSecs * 5 \in Int
           /\ Score(j) - Score(i) = (Priority[j] - Priority[i]) * 100
                                  - (enqueuedAt[j] - enqueuedAt[i]) * TickSecs * 5
<1>1. /\ now \in Int /\ enqueuedAt[i] \in Int /\ enqueuedAt[j] \in Int
      /\ TickSecs \in Int /\ Priority[i] \in Int /\ Priority[j] \in Int
  BY QueueAssumption DEF TypeOK
<1>2. \A n, x, y, t \in Int : (n - y) * t - (n - x) * t = 0 - (y - x) * t
  OBVIOUS
<1>3. (now - enqueuedAt[j]) * TickSecs - (now - enqueuedAt[i]) * TickSecs
         = 0 - (enqueuedAt[j] - enqueuedAt[i]) * TickSecs
  BY <1>1, <1>2
<1> DEFINE u == (now - enqueuedAt[j]) * TickSecs
           v == (now - enqueuedAt[i]) * TickSecs
           d == (enqueuedAt[j] - enqueuedAt[i]) * TickSecs
<1>4. u \in Int /\ v \in Int /\ d \in Int /\ u - v = 0 - d
  BY <1>1, <1>3
<1>5. /\ Score(j) = Priority[j] * 100 + u * 5
      /\ Score(i) = Priority[i] * 100 + v * 5
  BY DEF Score, EffectiveScore
<1> HIDE DEF u, v, d
<1>6. Score(j) - Score(i) = (Priority[j] - Priority[i]) * 100 - d * 5
  BY <1>1, <1>4, <1>5
<1>7. Score(i) \in Int /\ Score(j) \in Int /\ d * 5 \in Int /\ (Priority[j] - Priority[i]) * 100 \in Int
  BY <1>1, <1>4, <1>5
<1> QED  BY <1>6, <1>7 DEF d

\* For all priorities and waiting times, a worker passes over an earlier item
\* only for one whose base score outweighs the earlier item's waiting.
THEOREM QueueOvertakingIsBounded == Spec => OvertakingIsBounded
<1> DEFINE Bounded == \A i, j \in Item :
          /\ i \in Queued /\ i \in Queued' /\ active # j /\ active' = j
          /\ \E m, k \in 1 .. Len(pending) : m < k /\ pending[m] = i /\ pending[k] = j
          => (Priority[j] - Priority[i]) * 100
                > (enqueuedAt[j] - enqueuedAt[i]) * TickSecs * 5
<1> USE DEF queueState, callerVars, workerVars
<1>1. ASSUME QueueInv, [Next]_vars PROVE [Bounded]_vars
  <2> SUFFICES ASSUME NEW i \in Item, NEW j \in Item, active # j, active' = j,
                      NEW m \in 1 .. Len(pending), NEW n \in 1 .. Len(pending),
                      m < n, pending[m] = i, pending[n] = j
               PROVE  (Priority[j] - Priority[i]) * 100
                          > (enqueuedAt[j] - enqueuedAt[i]) * TickSecs * 5
    OBVIOUS
  <2>1. TypeOK /\ Distinct(pending) /\ NoItem \notin Item
    BY <1>1, QueueAssumption DEF QueueInv, Places
  <2>2. active' # active /\ active' # NoItem
    BY <2>1
  <2>3. PICK w \in Item : WorkerTake(w)
    BY <1>1, <2>2 DEF Next, Caller, Watcher, Worker, SubmitCheck, SubmitPush, SubmitSpawn, Callback,
       Cancel, WatcherAbort, WatcherCancelActive, WatcherStop, Clear, WorkerStart, WorkerComplete,
       WorkerRelease, Tick, vars
  <2>4. PICK k \in 1 .. Len(pending) : IsNext(k) /\ active' = pending[k]
    BY <2>2, <2>3 DEF WorkerTake
  <2>5. k = n
    BY <2>1, <2>4 DEF Distinct
  <2>6. Score(i) < Score(j)
    BY <2>4, <2>5 DEF IsNext
  <2>7. /\ Score(i) \in Int /\ Score(j) \in Int
        /\ (Priority[j] - Priority[i]) * 100 \in Int
        /\ (enqueuedAt[j] - enqueuedAt[i]) * TickSecs * 5 \in Int
        /\ Score(j) - Score(i) = (Priority[j] - Priority[i]) * 100
                                  - (enqueuedAt[j] - enqueuedAt[i]) * TickSecs * 5
    BY <2>1, ScoreDifference
  <2> QED  BY <2>6, <2>7
<1> QED  BY <1>1, QueueInvariant, PTL DEF Spec, OvertakingIsBounded

-----------------------------------------------------------------------------
(* Refinement of RipService. *)

\* A step that changes no answer, no caller's stage and no running task is
\* invisible to the clients.
LEMMA Invisible ==
    ASSUME UNCHANGED <<answer, held>>,
           \A i \in Item : caller'[i] \in {"pushed", "returned"} <=>
                              caller[i] \in {"pushed", "returned"},
           \A w \in Item : worker'[w] = "run" <=> worker[w] = "run"
    PROVE  ServiceStatus' = ServiceStatus
BY DEF ServiceStatus

\* The status of an item, in terms of its place.
LEMMA StatusOf ==
    ASSUME NEW i \in Item
    PROVE  ServiceStatus[i] =
              IF answer[i] # "none" THEN answer[i]
              ELSE IF \E w \in Item : worker[w] = "run" /\ held[w] = i THEN "running"
              ELSE IF caller[i] \in {"pushed", "returned"} THEN "waiting"
              ELSE "new"
BY DEF ServiceStatus

\* The queue implements the abstract service for any set of submissions.
THEOREM QueueImplementsService == Spec => ImplementsService
<1> USE DEF queueState, callerVars, workerVars
<1>1. Init => Service!Init
  BY DEF Init, Service!Init, ServiceStatus
<1>2. ASSUME QueueInv, [Next]_vars PROVE [Service!Next]_ServiceStatus
  <2>0. TypeOK /\ WorkerInv /\ Places /\ CancelInv
    BY <1>2 DEF QueueInv
  <2>1. CASE UNCHANGED vars
    BY <2>1, Invisible DEF vars
  <2>2. ASSUME NEW i \in Item, SubmitCheck(i) PROVE [Service!Next]_ServiceStatus
    <3>1. CASE ~outer[i]
      BY <2>0, <2>2, <3>1, Invisible DEF SubmitCheck, TypeOK
    <3>2. CASE outer[i]
      <4>1. /\ answer' = [answer EXCEPT ![i] = "aborted"]
            /\ caller' = [caller EXCEPT ![i] = "returned"]
            /\ UNCHANGED <<worker, held>> /\ caller[i] = "idle"
        BY <2>2, <3>2 DEF SubmitCheck
      <4>2. ~Working(i) /\ answer[i] = "none"
        BY <2>0, <4>1 DEF Places
      <4>3. ServiceStatus[i] = "new"
        BY <4>1, <4>2, StatusOf DEF Working
      <4>4. ServiceStatus' = [ServiceStatus EXCEPT ![i] = "aborted"]
        BY <2>0, <4>1 DEF ServiceStatus, TypeOK
      <4> QED  BY <4>3, <4>4 DEF Service!Next, Service!Abort
    <3> QED  BY <3>1, <3>2
  <2>3. ASSUME NEW i \in Item, SubmitPush(i) PROVE [Service!Next]_ServiceStatus
    <3>1. /\ caller' = [caller EXCEPT ![i] = "pushed"]
          /\ UNCHANGED <<answer, worker, held>> /\ caller[i] = "checked"
      BY <2>3 DEF SubmitPush
    <3>2. ~Working(i) /\ answer[i] = "none"
      BY <2>0, <3>1 DEF Places
    <3>3. ServiceStatus[i] = "new"
      BY <3>1, <3>2, StatusOf DEF Working
    <3>4. ServiceStatus' = [ServiceStatus EXCEPT ![i] = "waiting"]
      BY <2>0, <3>1, <3>2 DEF ServiceStatus, TypeOK, Working
    <3> QED  BY <3>3, <3>4 DEF Service!Next, Service!Accept
  <2>4. ASSUME NEW i \in Item, SubmitSpawn(i) PROVE [Service!Next]_ServiceStatus
    <3>1. worker[i] = "none"
      BY <2>0, <2>4 DEF SubmitSpawn, WorkerInv, SpawnedOnce
    <3> QED  BY <2>0, <2>4, <3>1, Invisible DEF SubmitSpawn, TypeOK
  <2>5. ASSUME NEW i \in Item, WatcherAbort(i) PROVE [Service!Next]_ServiceStatus
    <3>1. CASE answer' = answer
      BY <2>5, <3>1, Invisible DEF WatcherAbort
    <3>2. CASE (\E k \in 1 .. Len(pending) : pending[k] = i) /\ answer' = [answer EXCEPT ![i] = "aborted"]
      <4>1. i \in Queued /\ ~Working(i) /\ answer[i] = "none" /\ caller[i] \in {"pushed", "returned"}
        BY <2>0, <3>2 DEF Places, Queued
      <4>2. UNCHANGED <<caller, worker, held>>
        BY <2>5 DEF WatcherAbort
      <4>3. ServiceStatus[i] = "waiting"
        BY <4>1, StatusOf DEF Working
      <4>4. ServiceStatus' = [ServiceStatus EXCEPT ![i] = "aborted"]
        BY <2>0, <3>2, <4>2 DEF ServiceStatus, TypeOK
      <4> QED  BY <4>3, <4>4 DEF Service!Next, Service!Abort
    <3> QED  BY <2>5, <3>1, <3>2 DEF WatcherAbort
  <2>6. ASSUME NEW i \in Item, WatcherCancelActive(i) \/ WatcherStop(i) \/ Cancel(i)
        PROVE  [Service!Next]_ServiceStatus
    BY <2>6, Invisible DEF WatcherCancelActive, WatcherStop, Cancel
  <2>7. ASSUME NEW w \in Item, WorkerTake(w) PROVE [Service!Next]_ServiceStatus
    <3>0. \A v \in Item : worker[v] # "run"
      BY <2>0, <2>7 DEF WorkerTake, WorkerInv, SerialDownloads, Claimed, Live
    <3>1. \A v \in Item : worker[v] # "run" /\ worker'[v] # "run"
      BY <2>0, <2>7, <3>0 DEF WorkerTake, TypeOK
    <3>2. UNCHANGED <<answer, caller>>
      BY <2>7 DEF WorkerTake
    <3> QED  BY <3>1, <3>2 DEF ServiceStatus
  <2>8. ASSUME NEW w \in Item, WorkerStart(w) PROVE [Service!Next]_ServiceStatus
    <3>1. /\ worker[w] = "start" /\ held[w] \in Item
          /\ \A v \in Item : worker[v] # "run"
      BY <2>0, <2>8 DEF WorkerStart, WorkerInv, SerialDownloads, Claimed, Live, TypeOK
    <3>2. Working(held[w])
      BY <3>1 DEF Working
    <3>3. answer[held[w]] = "none" /\ caller[held[w]] \in {"pushed", "returned"}
      BY <2>0, <3>1, <3>2 DEF Places
    <3>4. \A i \in Item : ServiceStatus[i] # "running"
      BY <2>0, <3>1, StatusOf DEF TypeOK, Answer
    <3>5. ServiceStatus[held[w]] = "waiting"
      BY <3>1, <3>3, StatusOf
    <3>6. worker'[w] = "run" /\ \A v \in Item : v # w => worker'[v] # "run"
      BY <2>0, <2>8, <3>1 DEF WorkerStart, TypeOK
    <3>7. UNCHANGED <<answer, caller, held>>
      BY <2>8 DEF WorkerStart
    <3>8. ServiceStatus' = [ServiceStatus EXCEPT ![held[w]] = "running"]
      BY <3>1, <3>3, <3>6, <3>7 DEF ServiceStatus
    <3> QED  BY <3>1, <3>4, <3>5, <3>8 DEF Service!Next, Service!Start
  <2>9. ASSUME NEW w \in Item, WorkerComplete(w) PROVE [Service!Next]_ServiceStatus
    <3>1. /\ worker[w] = "run" /\ held[w] \in Item
          /\ \A v \in Item : v # w => worker[v] # "run"
      BY <2>0, <2>9 DEF WorkerComplete, WorkerInv, SerialDownloads, Claimed, Live, TypeOK
    <3>2. Working(held[w])
      BY <3>1 DEF Working
    <3>3. answer[held[w]] = "none"
      BY <2>0, <3>1, <3>2 DEF Places
    <3>4. ServiceStatus[held[w]] = "running"
      BY <3>1, <3>3, StatusOf
    <3>5. PICK result \in {"done", "panicked"} : answer' = [answer EXCEPT ![held[w]] = result]
      BY <2>9 DEF WorkerComplete
    <3>6. \A v \in Item : worker'[v] # "run"
      BY <2>0, <2>9, <3>1 DEF WorkerComplete, TypeOK
    <3>7. UNCHANGED <<caller, held>>
      BY <2>9 DEF WorkerComplete
    <3>8. ServiceStatus' = [ServiceStatus EXCEPT ![held[w]] = result]
      BY <2>0, <3>1, <3>5, <3>6, <3>7 DEF ServiceStatus, TypeOK
    <3> QED  BY <3>1, <3>4, <3>5, <3>8 DEF Service!Next, Service!Finish
  <2>10. ASSUME NEW w \in Item, WorkerRelease(w) PROVE [Service!Next]_ServiceStatus
    <3>1. \A v \in Item : worker[v] # "run" /\ worker'[v] # "run"
      BY <2>0, <2>10 DEF WorkerRelease, WorkerInv, SerialDownloads, Claimed, Live, TypeOK
    <3>2. UNCHANGED <<answer, caller>>
      BY <2>10 DEF WorkerRelease
    <3> QED  BY <3>1, <3>2 DEF ServiceStatus
  <2>11. ASSUME NEW r \in reports, Callback(r) PROVE [Service!Next]_ServiceStatus
    BY <2>11, Invisible DEF Callback
  <2>12. CASE Clear
    <3>1. /\ answer' = [i \in Item |-> IF i \in Queued THEN "cleared" ELSE answer[i]]
          /\ UNCHANGED <<caller, worker, held>>
      BY <2>12 DEF Clear, Queued
    <3>2. Queued \subseteq Item
      BY <2>0, ElementOfSeq DEF Queued, TypeOK
    <3>3. \A i \in Queued : ServiceStatus[i] = "waiting"
      BY <2>0, <3>2, StatusOf DEF Places, Working
    <3>4. ServiceStatus' = [i \in Item |-> IF i \in Queued THEN "cleared" ELSE ServiceStatus[i]]
      BY <3>1 DEF ServiceStatus
    <3>5. Service!Drop(Queued)
      BY <3>3, <3>4 DEF Service!Drop
    <3> QED  BY <3>2, <3>5 DEF Service!Next
  <2>13. CASE Tick
    BY <2>13, Invisible DEF Tick
  <2> QED
    BY <1>2, <2>1, <2>2, <2>3, <2>4, <2>5, <2>6, <2>7, <2>8, <2>9, <2>10, <2>11, <2>12, <2>13
    DEF Next, Caller, Watcher, Worker
<1> QED  BY <1>1, <1>2, QueueInvariant, PTL DEF Spec, ImplementsService, Service!Spec

=============================================================================
