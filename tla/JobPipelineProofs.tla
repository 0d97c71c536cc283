-------------------------- MODULE JobPipelineProofs --------------------------
(***************************************************************************)
(* Proofs about JobPipeline for any number of items, any cached ones, any  *)
(* lane capacity and any upload concurrency.  Three pieces carry the       *)
(* argument: what is still on its way is ahead of the dispatcher in item   *)
(* order; the counter of pending uploads counts exactly the uploads that   *)
(* are somewhere between the dispatcher and their end; and an item without *)
(* an outcome is always in one of the places the pipeline consists of.     *)
(***************************************************************************)
EXTENDS JobPipeline, SequenceTheorems, FiniteSetTheorems, TLAPS

Elems(s) == {s[n] : n \in 1 .. Len(s)}
Tasks == Elems(lane) \cup running
Busy == {"push", "pushCached", "cacheWait", "reripWait"}

\* The end marker comes after every item.
Rank(e) == IF e = Finished THEN ItemCount + 1 ELSE e
Ordered(s) == \A m, n \in 1 .. Len(s) : m < n => Rank(s[m]) < Rank(s[n])
Distinct(s) == \A m, n \in 1 .. Len(s) : m # n => s[m] # s[n]

\* Uploads between the dispatcher's increment and the guard's decrement.
Live == {i \in Item : Upload(i) \in Tasks \/ (dispPc = "push" /\ current = i)}

\* Lane one is ahead of the buffer, the buffer ahead of the dispatcher.
AheadInv ==
    /\ Ordered(slots) /\ Ordered(buffered)
    /\ \A e \in Elems(slots) :
          IF e = Finished THEN lanePc = "done"
          ELSE e < cursor /\ current < e /\ \A b \in Elems(buffered) : b < e
    /\ \A b \in Elems(buffered) : current < b /\ b < cursor
    /\ \A n \in 1 .. Len(buffered) : n <= buffered[n]
    /\ current < cursor
    /\ finished => lanePc = "done" /\ slots = <<>>
    /\ lanePc \in {"rip", "send"} => cursor <= ItemCount
    /\ lanePc \in {"finish", "done"} => cursor > ItemCount \/ cancelled

\* Items enter the upload lane in order.
DispatchInv ==
    /\ dispPc \in Busy => current \in Item
    /\ dispPc \in {"marker", "done"} =>
          /\ buffered = <<>>
          /\ finished \/ (lanePc = "dead" /\ slots = <<>>)
    /\ \A n \in 1 .. Len(dispatched) : dispatched[n] <= current
    /\ LaneInItemOrder /\ BufferSuffices

\* A task of the upload lane, and what the dispatcher is past because of it.
TaskAt(t) ==
    \/ t = Marker /\ dispPc = "done" /\ (finished \/ cancelled)
    \/ /\ t.kind = "upload" /\ t = Upload(t.item) /\ t.item \in Item /\ t.item <= current
       /\ t.item = current => dispPc \notin Busy
    \/ /\ t.kind = "cached" /\ t = Cached(t.item) /\ t.item \in Item /\ t.item <= current
       /\ t.item = current => dispPc # "pushCached"

LaneInv ==
    /\ Distinct(lane) /\ \A t \in Elems(lane) : t \notin running
    /\ \A t \in Tasks : TaskAt(t)
    /\ \A n \in 1 .. Len(lane) : lane[n] = Marker => n = Len(lane)
    /\ finalPc # "none" => lane = <<>> /\ dispPc = "done" /\ (finished \/ cancelled)

CountInv ==
    /\ pendingUploads = Cardinality(Live)
    /\ finalPc \in {"build", "done"} /\ ~cancelled => Live = {}
    /\ ~workspace => lanePc = "dead" \/ finalPc = "done"

\* Where an item without an outcome is.
Tracked(i) ==
    \/ outcome[i] # "none" \/ i >= cursor \/ i \in Elems(slots) \cup Elems(buffered)
    \/ i = current /\ dispPc \in Busy
    \/ Upload(i) \in Tasks

\* Re-rips, resolutions and the stop flag mean what they say.
ReasonInv ==
    /\ rerip # "none" => dispPc = "reripWait"
    /\ rerip = "finished" => outcome[current] # "none"
    /\ rerip = "aborted" => cancelled
    /\ resolution = "cancelled" => cancelled
    /\ stop => cancelled \/ fatal # "none"

\* While nothing went wrong, only the cached item the dispatcher waits for
\* is in the lane, and its hit is recorded before the dispatcher hears of it.
CachedInv ==
    ~cancelled /\ fatal = "none" =>
        /\ \A i \in Item : Cached(i) \in Tasks =>
              i = current /\ dispPc = "cacheWait" /\ resolution = "pending"
        /\ dispPc = "cacheWait" /\ resolution = "hit" => outcome[current] # "none"

AllTracked == ~cancelled /\ fatal = "none" => \A i \in Item : Tracked(i)

\* When the finalizer says ok every item has got somewhere.
Covered == summary = "ok" /\ ~cancelled => \A i \in Item : outcome[i] # "none"

AccountInv == ReasonInv /\ CachedInv /\ AllTracked /\ Covered

\* A serial lane runs on_panic before the next task, so before the marker.
SerialInv ==
    /\ summary = "ok" => finalPc # "none"
    /\ Concurrency = 1 =>
          /\ \A t, u \in running : t = u
          /\ running # {} => Unwound = {}
          /\ finalPc # "none" => Unwound = {} /\ running \subseteq {Marker}

PipeInv ==
    TypeOK /\ AheadInv /\ DispatchInv /\ LaneInv /\ CountInv /\ AccountInv /\ SerialInv

-----------------------------------------------------------------------------
(* Sequences. *)

\* What Append and Tail do to the elements.
LEMMA AppendElems ==
    ASSUME NEW S, NEW s \in Seq(S), NEW e \in S
    PROVE  /\ Append(s, e) \in Seq(S) /\ Len(Append(s, e)) = Len(s) + 1 /\ Len(s) \in Nat
           /\ \A n \in 1 .. Len(s) : Append(s, e)[n] = s[n]
           /\ Append(s, e)[Len(s) + 1] = e
           /\ Elems(Append(s, e)) = Elems(s) \cup {e}
<1>1. /\ Append(s, e) \in Seq(S) /\ Len(Append(s, e)) = Len(s) + 1 /\ Len(s) \in Nat
      /\ \A n \in 1 .. Len(s) : Append(s, e)[n] = s[n]
      /\ Append(s, e)[Len(s) + 1] = e
  BY AppendProperties, LenProperties
<1>2. 1 .. Len(s) + 1 = (1 .. Len(s)) \cup {Len(s) + 1}
  BY <1>1
<1>3. Elems(Append(s, e)) = Elems(s) \cup {e}
  BY <1>1, <1>2 DEF Elems
<1> QED  BY <1>1, <1>3

\* A sequence that at most grew by an element of S is still one over S.
LEMMA SeqGrows ==
    ASSUME NEW S, NEW s \in Seq(S), NEW t, NEW e \in S, t = s \/ t = Append(s, e)
    PROVE  t \in Seq(S)
<1>1. Append(s, e) \in Seq(S)
  BY AppendProperties
<1> QED  BY <1>1

\* What Head and Tail split a non-empty sequence into.
LEMMA TailElems ==
    ASSUME NEW S, NEW s \in Seq(S), s # <<>>
    PROVE  /\ Head(s) \in S /\ Head(s) = s[1] /\ Tail(s) \in Seq(S)
           /\ Len(s) \in Nat /\ Len(s) >= 1 /\ Len(Tail(s)) = Len(s) - 1
           /\ \A n \in 1 .. Len(Tail(s)) : Tail(s)[n] = s[n + 1]
           /\ Elems(s) = {Head(s)} \cup Elems(Tail(s))
<1>1. /\ Head(s) \in S /\ Head(s) = s[1] /\ Tail(s) \in Seq(S)
      /\ Len(s) \in Nat /\ Len(s) >= 1 /\ Len(Tail(s)) = Len(s) - 1
      /\ \A n \in 1 .. Len(Tail(s)) : Tail(s)[n] = s[n + 1]
  BY HeadTailProperties, LenProperties, EmptySeq
<1>2. \A x : x \in Elems(s) => x = Head(s) \/ x \in Elems(Tail(s))
  <2> SUFFICES ASSUME NEW n \in 1 .. Len(s), n # 1 PROVE s[n] \in Elems(Tail(s))
    BY <1>1 DEF Elems
  <2>1. n - 1 \in 1 .. Len(Tail(s)) /\ Tail(s)[n - 1] = s[n]
    BY <1>1
  <2> QED  BY <2>1 DEF Elems
<1>3. \A x : x \in Elems(Tail(s)) => x \in Elems(s)
  <2> SUFFICES ASSUME NEW n \in 1 .. Len(Tail(s)) PROVE Tail(s)[n] \in Elems(s)
    BY DEF Elems
  <2>1. n + 1 \in 1 .. Len(s) /\ Tail(s)[n] = s[n + 1]
    BY <1>1
  <2> QED  BY <2>1 DEF Elems
<1>4. Head(s) \in Elems(s)
  BY <1>1 DEF Elems
<1> QED  BY <1>1, <1>2, <1>3, <1>4

\* A sequence is empty when it has no elements, and its elements have its type.
LEMMA ElemsOf ==
    ASSUME NEW S, NEW s \in Seq(S)
    PROVE  /\ Elems(s) \subseteq S /\ Len(s) \in Nat
           /\ Elems(s) = {} => s = <<>>
           /\ Elems(<<>>) = {} /\ Len(<<>>) = 0
<1>1. Len(s) \in Nat /\ \A n \in 1 .. Len(s) : s[n] \in S
  BY LenProperties, ElementOfSeq
<1>2. Elems(s) \subseteq S
  BY <1>1 DEF Elems
<1>3. Elems(<<>>) = {} /\ Len(<<>>) = 0
  BY DEF Elems
<1>4. Elems(s) = {} => s = <<>>
  <2> SUFFICES ASSUME s # <<>> PROVE Elems(s) # {}
    OBVIOUS
  <2> QED  BY TailElems
<1> QED  BY <1>1, <1>2, <1>3, <1>4

\* Items and the end marker, by rank.
LEMMA Ranks ==
    /\ \A e \in Item \cup {Finished} : Rank(e) \in 1 .. ItemCount + 1 /\ Rank(e) \in Nat
    /\ \A e \in Item : Rank(e) = e /\ e # Finished /\ e \in Nat /\ e >= 1 /\ e <= ItemCount
    /\ Rank(Finished) = ItemCount + 1 /\ ItemCount \in Nat
<1>1. ItemCount \in Nat
  BY PipelineAssumption
<1> QED  BY <1>1 DEF Rank, Item, Finished

\* An ordered sequence of slots without its head: the rest comes after it.
LEMMA OrderedTail ==
    ASSUME NEW s \in Seq(Item \cup {Finished}), Ordered(s), s # <<>>
    PROVE  /\ Ordered(Tail(s))
           /\ \A e \in Elems(Tail(s)) : Rank(Head(s)) < Rank(e)
           /\ Head(s) = Finished => Tail(s) = <<>>
<1>1. /\ Head(s) = s[1] /\ Tail(s) \in Seq(Item \cup {Finished})
      /\ Len(s) \in Nat /\ Len(s) >= 1 /\ Len(Tail(s)) = Len(s) - 1
      /\ \A n \in 1 .. Len(Tail(s)) : Tail(s)[n] = s[n + 1]
      /\ Head(s) \in Item \cup {Finished}
  BY TailElems
<1>2. Ordered(Tail(s))
  <2> SUFFICES ASSUME NEW m \in 1 .. Len(Tail(s)), NEW n \in 1 .. Len(Tail(s)), m < n
               PROVE  Rank(Tail(s)[m]) < Rank(Tail(s)[n])
    BY DEF Ordered
  <2>1. m + 1 \in 1 .. Len(s) /\ n + 1 \in 1 .. Len(s) /\ m + 1 < n + 1
    BY <1>1
  <2>2. Rank(s[m + 1]) < Rank(s[n + 1])
    BY <2>1 DEF Ordered
  <2> QED  BY <1>1, <2>2
<1>3. \A e \in Elems(Tail(s)) : Rank(Head(s)) < Rank(e)
  <2> SUFFICES ASSUME NEW n \in 1 .. Len(Tail(s)) PROVE Rank(s[1]) < Rank(Tail(s)[n])
    BY <1>1 DEF Elems
  <2>1. 1 \in 1 .. Len(s) /\ n + 1 \in 1 .. Len(s) /\ 1 < n + 1
    BY <1>1
  <2>2. Rank(s[1]) < Rank(s[n + 1])
    BY <2>1 DEF Ordered
  <2> QED  BY <1>1, <2>2
<1>4. Head(s) = Finished => Tail(s) = <<>>
  <2> SUFFICES ASSUME Head(s) = Finished, NEW e \in Elems(Tail(s)) PROVE FALSE
    BY <1>1, ElemsOf
  <2>1. e \in Item \cup {Finished}
    BY <1>1, ElemsOf
  <2>2. Rank(e) \in Nat /\ Rank(e) <= ItemCount + 1 /\ Rank(Head(s)) = ItemCount + 1
        /\ ItemCount \in Nat
    BY <2>1, Ranks
  <2>3. ItemCount + 1 < Rank(e)
    BY <1>3, <2>2
  <2> QED  BY <2>2, <2>3
<1> QED  BY <1>2, <1>3, <1>4

\* Order survives an element that is beyond all the others.
LEMMA OrderedAppend ==
    ASSUME NEW s \in Seq(Item \cup {Finished}), Ordered(s), NEW e \in Item \cup {Finished},
           \A x \in Elems(s) : Rank(x) < Rank(e)
    PROVE  Ordered(Append(s, e))
<1>1. /\ Len(Append(s, e)) = Len(s) + 1 /\ Len(s) \in Nat
      /\ \A n \in 1 .. Len(s) : Append(s, e)[n] = s[n]
      /\ Append(s, e)[Len(s) + 1] = e
  BY AppendElems
<1> SUFFICES ASSUME NEW m \in 1 .. Len(s) + 1, NEW n \in 1 .. Len(s) + 1, m < n
             PROVE  Rank(Append(s, e)[m]) < Rank(Append(s, e)[n])
  BY <1>1 DEF Ordered
<1>2. m \in 1 .. Len(s) /\ Append(s, e)[m] = s[m]
  BY <1>1
<1>3. CASE n \in 1 .. Len(s)
  BY <1>1, <1>2, <1>3 DEF Ordered
<1>4. CASE n = Len(s) + 1
  BY <1>1, <1>2, <1>4 DEF Elems
<1> QED  BY <1>1, <1>3, <1>4

\* Distinct tasks.
LEMMA DistinctTail ==
    ASSUME NEW s \in Seq(Task), Distinct(s), s # <<>>
    PROVE  Distinct(Tail(s)) /\ Head(s) \notin Elems(Tail(s))
<1>1. /\ Head(s) = s[1] /\ Len(s) \in Nat /\ Len(s) >= 1 /\ Len(Tail(s)) = Len(s) - 1
      /\ \A n \in 1 .. Len(Tail(s)) : Tail(s)[n] = s[n + 1]
  BY TailElems
<1>2. Distinct(Tail(s))
  <2> SUFFICES ASSUME NEW m \in 1 .. Len(Tail(s)), NEW n \in 1 .. Len(Tail(s)), m # n
               PROVE  Tail(s)[m] # Tail(s)[n]
    BY DEF Distinct
  <2>1. m + 1 \in 1 .. Len(s) /\ n + 1 \in 1 .. Len(s) /\ m + 1 # n + 1
    BY <1>1
  <2>2. s[m + 1] # s[n + 1]
    BY <2>1 DEF Distinct
  <2> QED  BY <1>1, <2>2
<1>3. Head(s) \notin Elems(Tail(s))
  <2> SUFFICES ASSUME NEW n \in 1 .. Len(Tail(s)) PROVE s[1] # Tail(s)[n]
    BY <1>1 DEF Elems
  <2>1. 1 \in 1 .. Len(s) /\ n + 1 \in 1 .. Len(s) /\ 1 # n + 1
    BY <1>1
  <2>2. s[1] # s[n + 1]
    BY <2>1 DEF Distinct
  <2> QED  BY <1>1, <2>2
<1> QED  BY <1>2, <1>3

\* Distinctness survives an element that was not there.
LEMMA DistinctAppend ==
    ASSUME NEW s \in Seq(Task), Distinct(s), NEW t \in Task, t \notin Elems(s)
    PROVE  Distinct(Append(s, t))
<1>1. /\ Len(Append(s, t)) = Len(s) + 1 /\ Len(s) \in Nat
      /\ \A n \in 1 .. Len(s) : Append(s, t)[n] = s[n]
      /\ Append(s, t)[Len(s) + 1] = t
  BY AppendElems
<1>2. \A n \in 1 .. Len(s) : s[n] # t
  BY DEF Elems
<1> SUFFICES ASSUME NEW m \in 1 .. Len(s) + 1, NEW n \in 1 .. Len(s) + 1, m # n
             PROVE  Append(s, t)[m] # Append(s, t)[n]
  BY <1>1 DEF Distinct
<1>3. CASE m \in 1 .. Len(s) /\ n \in 1 .. Len(s)
  BY <1>1, <1>3 DEF Distinct
<1>4. CASE m = Len(s) + 1 \/ n = Len(s) + 1
  BY <1>1, <1>2, <1>4
<1> QED  BY <1>1, <1>3, <1>4

\* Sets of items are finite and small.
LEMMA ItemSets ==
    \A S \in SUBSET Item : /\ IsFiniteSet(S) /\ Cardinality(S) \in 0 .. ItemCount
                           /\ Cardinality(S) \in Nat /\ (Cardinality(S) = 0 <=> S = {})
<1>1. ItemCount \in Nat
  BY PipelineAssumption
<1>2. IsFiniteSet(Item) /\ Cardinality(Item) = ItemCount
  BY <1>1, FS_Interval DEF Item
<1> SUFFICES ASSUME NEW S \in SUBSET Item
             PROVE  /\ IsFiniteSet(S) /\ Cardinality(S) \in 0 .. ItemCount
                    /\ Cardinality(S) \in Nat /\ (Cardinality(S) = 0 <=> S = {})
  OBVIOUS
<1>3. IsFiniteSet(S) /\ Cardinality(S) <= Cardinality(Item)
  BY <1>2, FS_Subset
<1>4. Cardinality(S) \in Nat /\ (Cardinality(S) = 0 <=> S = {})
  BY <1>3, FS_CardinalityType, FS_EmptySet
<1> QED  BY <1>1, <1>2, <1>3, <1>4

-----------------------------------------------------------------------------
(* What the dispatcher's longer steps do. *)

\* The types of what the pipeline holds, and of its ends.
LEMMA Types ==
    ASSUME TypeOK
    PROVE  /\ slots \in Seq(Item \cup {Finished}) /\ buffered \in Seq(Item)
           /\ buffered \in Seq(Item \cup {Finished})
           /\ lane \in Seq(Task) /\ dispatched \in Seq(Item)
           /\ current \in Nat /\ cursor \in Nat /\ cursor >= 1 /\ cursor <= ItemCount + 1
           /\ ItemCount \in Nat /\ pendingUploads \in Nat
           /\ Elems(slots) \subseteq Item \cup {Finished} /\ Elems(buffered) \subseteq Item
<1>1. ItemCount \in Nat
  BY PipelineAssumption
<1>2. /\ slots \in Seq(Item \cup {Finished}) /\ buffered \in Seq(Item)
      /\ lane \in Seq(Task) /\ dispatched \in Seq(Item)
  BY DEF TypeOK
<1>3. current \in Nat /\ cursor \in Nat /\ cursor >= 1 /\ cursor <= ItemCount + 1
  BY <1>1 DEF TypeOK, Item
<1>4. pendingUploads \in Nat
  BY <1>1 DEF TypeOK
<1>5. Elems(slots) \subseteq Item \cup {Finished} /\ Elems(buffered) \subseteq Item
  BY <1>2, ElemsOf
<1>6. buffered \in Seq(Item \cup {Finished})
  <2>1. Len(buffered) \in Nat /\ \A n \in 1 .. Len(buffered) : buffered[n] \in Item \cup {Finished}
    BY <1>2, LenProperties, ElementOfSeq
  <2>2. buffered = [n \in 1 .. Len(buffered) |-> buffered[n]]
    BY <1>2, LenProperties
  <2> QED  BY <2>1, <2>2, SeqDef
<1> QED  BY <1>1, <1>2, <1>3, <1>4, <1>5, <1>6

\* A slot is the end marker, is dropped, or becomes the current item.
LEMMA Accepts ==
    ASSUME TypeOK, dispPc = "next", NEW slot \in Item \cup {Finished}, Accept(slot)
    PROVE  \/ /\ slot = Finished /\ finished' = TRUE
              /\ UNCHANGED <<dispPc, current, stop, pendingUploads>>
           \/ /\ slot # Finished /\ (stop \/ cancelled) /\ stop' = TRUE
              /\ UNCHANGED <<dispPc, current, finished, pendingUploads>>
           \/ /\ slot \in Item /\ ~stop /\ ~cancelled /\ current' = slot
              /\ \/ dispPc' = "push" /\ pendingUploads' = pendingUploads + 1
                 \/ dispPc' = "pushCached" /\ pendingUploads' = pendingUploads
              /\ UNCHANGED <<finished, stop>>
BY DEF Accept

\* The dispatcher takes the next slot, from its buffer first, or ends.
LEMMA DispNextDoes ==
    ASSUME TypeOK, DispNext
    PROVE  /\ dispPc = "next"
           /\ \/ /\ buffered # <<>> /\ buffered' = Tail(buffered) /\ slots' = slots
                 /\ Head(buffered) \in Item /\ Accept(Head(buffered))
              \/ /\ buffered = <<>> /\ ~finished /\ slots # <<>> /\ slots' = Tail(slots)
                 /\ buffered' = buffered /\ Head(slots) \in Item \cup {Finished}
                 /\ Accept(Head(slots))
              \/ /\ buffered = <<>> /\ (finished \/ (slots = <<>> /\ lanePc = "dead"))
                 /\ dispPc' = "marker"
                 /\ UNCHANGED <<slots, buffered, current, finished, stop, pendingUploads>>
           /\ UNCHANGED <<cancelled, lanePc, cursor, resolution, rerip, lane, running, finalPc,
                          woken, workspace, summary, outcome, fatal, dispatched>>
<1>1. buffered # <<>> => Head(buffered) \in Item
  BY Types, TailElems
<1>2. slots # <<>> => Head(slots) \in Item \cup {Finished}
  BY Types, TailElems
<1> QED  BY <1>1, <1>2 DEF DispNext, laneOneVars, laneVars, finalVars

-----------------------------------------------------------------------------
(* Lane one is ahead. *)

\* A step that touches nothing of it.
LEMMA AheadKept ==
    ASSUME AheadInv,
           UNCHANGED <<slots, buffered, lanePc, cursor, current, finished, cancelled>>
    PROVE  AheadInv'
BY DEF AheadInv

\* Lane one appends behind everything it has sent.
LEMMA AheadLane ==
    ASSUME TypeOK, AheadInv, LaneOne
    PROVE  AheadInv'
<1> USE DEF dispVars, laneOneVars
<1>0. /\ UNCHANGED <<buffered, current, finished, cancelled>>
      /\ slots \in Seq(Item \cup {Finished}) /\ current \in Nat /\ cursor \in Nat
      /\ cursor <= ItemCount + 1 /\ ItemCount \in Nat /\ cursor >= 1
      /\ Elems(slots) \subseteq Item \cup {Finished} /\ Elems(buffered) \subseteq Item
  BY Types DEF LaneOne, LaneCheck, LaneRip, LanePanic, LaneSend, LaneFinish, LaneDied
<1>1. \A e \in Item : e \in Nat /\ e # Finished /\ Rank(e) = e
  BY Ranks
<1>2. \A b \in Elems(buffered) : b \in Nat
  BY <1>0, <1>1
<1>a. CASE LaneCheck
  <2>1. /\ lanePc = "check" /\ UNCHANGED <<slots, cursor>>
        /\ \/ lanePc' = "finish" /\ (cursor > ItemCount \/ cancelled)
           \/ lanePc' \in {"send", "rip"} /\ ~(cursor > ItemCount)
    BY <1>a DEF LaneCheck
  <2> QED  BY <1>0, <2>1 DEF AheadInv
<1>b. CASE LaneRip \/ LanePanic
  <2>1. /\ lanePc = "rip" /\ slots' = slots
        /\ \/ lanePc' = "send" /\ cursor' = cursor
           \/ lanePc' = "check" /\ cursor' = cursor + 1
           \/ lanePc' = "finish" /\ cursor' = cursor /\ cancelled
           \/ lanePc' = "dead" /\ cursor' = cursor
    BY <1>b DEF LaneRip, LanePanic
  <2>2. CASE cursor' = cursor
    BY <1>0, <2>1, <2>2 DEF AheadInv
  <2>3. CASE cursor' = cursor + 1 /\ lanePc' = "check"
    <3>1. \A e \in Elems(slots) : e # Finished => e < cursor + 1
      BY <1>0, <1>1, <2>1 DEF AheadInv
    <3>2. \A b \in Elems(buffered) : b < cursor + 1
      BY <1>0, <1>2 DEF AheadInv
    <3>3. current < cursor + 1
      BY <1>0 DEF AheadInv
    <3>4. /\ lanePc # "done" /\ slots' = slots /\ buffered' = buffered /\ current' = current
          /\ finished' = finished
      BY <1>0, <2>1
    <3> QED  BY <2>3, <3>1, <3>2, <3>3, <3>4 DEF AheadInv
  <2> QED  BY <2>1, <2>2, <2>3
<1>c. CASE LaneSend
  <2>1. CASE lanePc' = "finish" /\ cancelled /\ UNCHANGED <<slots, cursor>> /\ lanePc = "send"
    BY <1>0, <2>1 DEF AheadInv
  <2>2. CASE /\ lanePc = "send" /\ lanePc' = "check" /\ cursor' = cursor + 1
             /\ slots' = Append(slots, cursor)
    <3>1. cursor \in Item /\ cursor # Finished /\ Rank(cursor) = cursor
      BY <1>0, <1>1, <2>2 DEF AheadInv, Item
    <3>2. \A e \in Elems(slots) : e \in Item /\ e < cursor /\ current < e
      BY <1>0, <2>2 DEF AheadInv
    <3>3. Elems(slots') = Elems(slots) \cup {cursor}
      BY <1>0, <2>2, <3>1, AppendElems
    <3>4. Ordered(slots')
      BY <1>0, <1>1, <2>2, <3>1, <3>2, OrderedAppend DEF AheadInv
    <3>5. \A e \in Elems(slots') : /\ e # Finished /\ e < cursor + 1 /\ current < e
                                   /\ \A b \in Elems(buffered) : b < e
      <4> SUFFICES ASSUME NEW e \in Elems(slots')
                   PROVE  /\ e # Finished /\ e < cursor + 1 /\ current < e
                          /\ \A b \in Elems(buffered) : b < e
        OBVIOUS
      <4>1. CASE e = cursor
        BY <1>0, <3>1, <4>1 DEF AheadInv
      <4>2. CASE e \in Elems(slots)
        <5>1. e \in Nat /\ e # Finished /\ e < cursor /\ current < e
          BY <1>1, <3>2, <4>2
        <5>2. \A b \in Elems(buffered) : b < e
          BY <4>2, <5>1 DEF AheadInv
        <5> QED  BY <1>0, <5>1, <5>2
      <4> QED  BY <3>3, <4>1, <4>2
    <3>6. \A b \in Elems(buffered) : current < b /\ b < cursor + 1
      BY <1>0, <1>2 DEF AheadInv
    <3>7. current < cursor + 1 /\ ~finished
      BY <1>0, <2>2 DEF AheadInv
    <3>8. buffered' = buffered /\ current' = current /\ finished' = finished
      BY <1>0
    <3>9. Ordered(buffered) /\ \A n \in 1 .. Len(buffered) : n <= buffered[n]
      BY DEF AheadInv
    <3> QED  BY <2>2, <3>4, <3>5, <3>6, <3>7, <3>8, <3>9 DEF AheadInv
  <2> QED  BY <1>c, <2>1, <2>2 DEF LaneSend
<1>d. CASE LaneFinish
  <2>1. /\ lanePc = "finish" /\ lanePc' = "done" /\ cursor' = cursor
        /\ slots' = Append(slots, Finished)
    BY <1>d DEF LaneFinish
  <2>2. \A e \in Elems(slots) : e \in Item /\ Rank(e) < Rank(Finished)
    <3>1. \A e \in Elems(slots) : e \in Item
      BY <1>0, <2>1 DEF AheadInv
    <3>2. \A e \in Item : Rank(e) < Rank(Finished)
      BY Ranks
    <3> QED  BY <3>1, <3>2
  <2>3. Elems(slots') = Elems(slots) \cup {Finished}
    BY <1>0, <2>1, AppendElems
  <2>4. Ordered(slots')
    BY <1>0, <2>1, <2>2, OrderedAppend DEF AheadInv
  <2>5. ~finished
    BY <2>1 DEF AheadInv
  <2>6. buffered' = buffered /\ current' = current /\ finished' = finished /\ cancelled' = cancelled
    BY <1>0
  <2> QED  BY <2>1, <2>3, <2>4, <2>5, <2>6 DEF AheadInv
<1>e. CASE LaneDied
  BY <1>0, <1>e, AheadKept DEF LaneDied
<1> QED  BY <1>a, <1>b, <1>c, <1>d, <1>e DEF LaneOne

\* The dispatcher takes from the front.
LEMMA AheadNext ==
    ASSUME TypeOK, AheadInv, DispNext
    PROVE  AheadInv'
<1>0. /\ slots \in Seq(Item \cup {Finished}) /\ buffered \in Seq(Item \cup {Finished})
      /\ buffered \in Seq(Item) /\ current \in Nat /\ cursor \in Nat
      /\ Elems(slots) \subseteq Item \cup {Finished} /\ Elems(buffered) \subseteq Item
      /\ UNCHANGED <<cancelled, lanePc, cursor>> /\ dispPc = "next"
  BY Types, DispNextDoes
<1>1. \A e \in Item : e \in Nat /\ e # Finished /\ Rank(e) = e
  BY Ranks
<1>2. CASE /\ buffered # <<>> /\ buffered' = Tail(buffered) /\ slots' = slots
           /\ Head(buffered) \in Item /\ Accept(Head(buffered))
  <2>1. /\ Elems(buffered) = {Head(buffered)} \cup Elems(Tail(buffered))
        /\ Len(buffered) \in Nat /\ Len(Tail(buffered)) = Len(buffered) - 1
        /\ \A n \in 1 .. Len(Tail(buffered)) : Tail(buffered)[n] = buffered[n + 1]
    BY <1>0, <1>2, TailElems
  <2>2. Ordered(buffered') /\ \A e \in Elems(buffered') : Rank(Head(buffered)) < Rank(e)
    BY <1>0, <1>2, OrderedTail DEF AheadInv
  <2>3. \A e \in Elems(buffered') : e \in Item /\ Head(buffered) < e
    BY <1>0, <1>1, <1>2, <2>1, <2>2
  <2>4. \A n \in 1 .. Len(buffered') : n <= buffered'[n]
    <3> SUFFICES ASSUME NEW n \in 1 .. Len(Tail(buffered)) PROVE n <= Tail(buffered)[n]
      BY <1>2
    <3>1. n + 1 \in 1 .. Len(buffered)
      BY <2>1
    <3>2. n + 1 <= buffered[n + 1] /\ buffered[n + 1] \in Nat
      BY <1>0, <1>1, <3>1 DEF AheadInv, Elems
    <3> QED  BY <2>1, <3>2
  <2>5. /\ finished' = finished
        /\ current' = current \/ current' = Head(buffered)
    BY <1>0, <1>1, <1>2, Accepts
  <2>6. \A e \in Elems(slots) : e # Finished => current' < e
    BY <2>1, <2>5 DEF AheadInv
  <2>7. \A e \in Elems(buffered') : current' < e
    BY <1>2, <2>1, <2>3, <2>5 DEF AheadInv
  <2>8. current' < cursor
    BY <2>1, <2>5 DEF AheadInv
  <2>9. \A e \in Elems(buffered') : e \in Elems(buffered)
    BY <1>2, <2>1
  <2>10. slots' = slots /\ lanePc' = lanePc /\ cursor' = cursor /\ cancelled' = cancelled
    BY <1>0, <1>2
  <2> QED  BY <2>2, <2>4, <2>5, <2>6, <2>7, <2>8, <2>9, <2>10 DEF AheadInv
<1>3. CASE /\ buffered = <<>> /\ ~finished /\ slots # <<>> /\ slots' = Tail(slots)
           /\ buffered' = buffered /\ Head(slots) \in Item \cup {Finished}
           /\ Accept(Head(slots))
  <2>1. /\ Elems(slots) = {Head(slots)} \cup Elems(slots') /\ Elems(buffered') = {}
        /\ Len(buffered') = 0
    BY <1>0, <1>3, TailElems, ElemsOf
  <2>2. /\ Ordered(slots') /\ \A e \in Elems(slots') : Rank(Head(slots)) < Rank(e)
        /\ Head(slots) = Finished => slots' = <<>>
    BY <1>0, <1>3, OrderedTail DEF AheadInv
  <2>3. CASE Head(slots) = Finished /\ finished' = TRUE /\ current' = current
    <3>1. lanePc = "done" /\ slots' = <<>> /\ Elems(slots') = {}
      BY <1>0, <2>1, <2>2, <2>3, ElemsOf DEF AheadInv
    <3> QED  BY <1>0, <1>3, <2>1, <2>2, <2>3, <3>1 DEF AheadInv
  <2>4. CASE Head(slots) \in Item /\ finished' = finished
             /\ (current' = current \/ current' = Head(slots))
    <3>1. \A e \in Elems(slots') : e # Finished => Head(slots) < e
      BY <1>0, <1>1, <2>1, <2>2, <2>4
    <3>2. \A e \in Elems(slots') : e # Finished => current' < e
      BY <2>1, <2>4, <3>1 DEF AheadInv
    <3>3. current' < cursor
      BY <1>1, <2>1, <2>4 DEF AheadInv
    <3>4. \A e \in Elems(slots') : e \in Elems(slots)
      BY <2>1
    <3>5. /\ lanePc' = lanePc /\ cursor' = cursor /\ cancelled' = cancelled /\ ~finished'
          /\ buffered' = buffered
      BY <1>0, <1>3, <2>4
    <3> QED  BY <2>1, <2>2, <3>2, <3>3, <3>4, <3>5 DEF AheadInv
  <2> QED  BY <1>0, <1>1, <1>3, <2>3, <2>4, Accepts
<1>4. CASE UNCHANGED <<slots, buffered, current, finished>>
  BY <1>0, <1>4, AheadKept
<1> QED  BY <1>2, <1>3, <1>4, DispNextDoes

\* Draining moves the first slot to the end of the buffer; there is room,
\* because the buffer holds different items and Capacity is above their number.
LEMMA DrainDoes ==
    ASSUME TypeOK, AheadInv, DispDrain
    PROVE  /\ slots # <<>> /\ slots' = Tail(slots) /\ ~finished
           /\ \/ Head(slots) = Finished /\ finished' = TRUE /\ buffered' = buffered
              \/ /\ Head(slots) \in Item /\ finished' = finished
                 /\ buffered' = Append(buffered, Head(slots)) /\ Len(buffered) < Head(slots)
           /\ UNCHANGED <<cancelled, lanePc, cursor, dispPc, current, stop, resolution, rerip,
                          lane, running, pendingUploads, finalPc, woken, workspace, summary,
                          outcome, fatal, dispatched>>
<1>1. /\ slots # <<>> /\ slots' = Tail(slots) /\ ~finished
      /\ UNCHANGED <<cancelled, lanePc, cursor, dispPc, current, stop, resolution, rerip,
                     lane, running, pendingUploads, finalPc, woken, workspace, summary,
                     outcome, dispatched>>
  BY DEF DispDrain, laneOneVars, laneVars, finalVars
<1>2. Head(slots) \in Item \cup {Finished} /\ Head(slots) \in Elems(slots)
  BY <1>1, Types, TailElems
<1>3. CASE Head(slots) = Finished
  BY <1>1, <1>3 DEF DispDrain
<1>4. CASE Head(slots) \in Item
  <2>1. Head(slots) # Finished /\ Head(slots) \in Nat /\ Head(slots) <= ItemCount
        /\ Head(slots) >= 1
    BY <1>4, Ranks
  <2>2. Len(buffered) \in Nat
    BY Types, ElemsOf
  <2>3. Len(buffered) < Head(slots)
    <3>1. CASE Len(buffered) = 0
      BY <2>1, <3>1
    <3>2. CASE Len(buffered) # 0
      <4>1. Len(buffered) \in 1 .. Len(buffered)
        BY <2>2, <3>2
      <4>2. Len(buffered) <= buffered[Len(buffered)] /\ buffered[Len(buffered)] \in Elems(buffered)
        BY <4>1 DEF AheadInv, Elems
      <4>3. buffered[Len(buffered)] < Head(slots)
        BY <1>2, <2>1, <4>2 DEF AheadInv
      <4>4. buffered[Len(buffered)] \in Nat
        BY <4>2, Types, Ranks
      <4> QED  BY <2>1, <2>2, <4>2, <4>3, <4>4
    <3> QED  BY <3>1, <3>2
  <2>4. Len(buffered) < Capacity
    BY <2>1, <2>2, <2>3, PipelineAssumption
  <2> QED  BY <1>1, <1>4, <2>1, <2>3, <2>4 DEF DispDrain
<1> QED  BY <1>2, <1>3, <1>4

\* Draining the channel into the buffer keeps both ahead of the dispatcher.
LEMMA AheadDrain ==
    ASSUME TypeOK, AheadInv, DispDrain
    PROVE  AheadInv'
<1>0. /\ slots \in Seq(Item \cup {Finished}) /\ buffered \in Seq(Item \cup {Finished})
      /\ current \in Nat /\ cursor \in Nat
      /\ Elems(slots) \subseteq Item \cup {Finished} /\ Elems(buffered) \subseteq Item
      /\ UNCHANGED <<cancelled, lanePc, cursor, current>> /\ slots # <<>> /\ slots' = Tail(slots)
      /\ ~finished
  BY Types, DrainDoes
<1>1. \A e \in Item : e \in Nat /\ e # Finished /\ Rank(e) = e
  BY Ranks
<1>2. Elems(slots) = {Head(slots)} \cup Elems(slots')
  BY <1>0, TailElems
<1>3. /\ Ordered(slots') /\ \A e \in Elems(slots') : Rank(Head(slots)) < Rank(e)
      /\ Head(slots) = Finished => slots' = <<>>
  BY <1>0, OrderedTail DEF AheadInv
<1>4. CASE Head(slots) = Finished /\ finished' = TRUE /\ buffered' = buffered
  <2>1. lanePc = "done" /\ slots' = <<>> /\ Elems(slots') = {}
    BY <1>0, <1>2, <1>3, <1>4, ElemsOf DEF AheadInv
  <2> QED  BY <1>0, <1>3, <1>4, <2>1 DEF AheadInv
<1>5. CASE /\ Head(slots) \in Item /\ finished' = finished
           /\ buffered' = Append(buffered, Head(slots)) /\ Len(buffered) < Head(slots)
  <2> DEFINE h == Head(slots)
  <2>1. h < cursor /\ current < h /\ \A b \in Elems(buffered) : b < h
    BY <1>1, <1>2, <1>5 DEF AheadInv
  <2>2. /\ Elems(buffered') = Elems(buffered) \cup {h} /\ Len(buffered') = Len(buffered) + 1
        /\ Len(buffered) \in Nat
        /\ \A n \in 1 .. Len(buffered) : buffered'[n] = buffered[n]
        /\ buffered'[Len(buffered) + 1] = h
    BY <1>0, <1>5, AppendElems
  <2>3. Ordered(buffered')
    BY <1>0, <1>1, <1>5, <2>1, OrderedAppend DEF AheadInv
  <2>4. \A n \in 1 .. Len(buffered') : n <= buffered'[n]
    <3> SUFFICES ASSUME NEW n \in 1 .. Len(buffered) + 1 PROVE n <= buffered'[n]
      BY <2>2
    <3>1. CASE n \in 1 .. Len(buffered)
      BY <2>2, <3>1 DEF AheadInv
    <3>2. CASE n = Len(buffered) + 1
      BY <1>1, <1>5, <2>2, <3>2
    <3> QED  BY <2>2, <3>1, <3>2
  <2>5. \A e \in Elems(slots') : e # Finished => h < e
    BY <1>0, <1>1, <1>2, <1>3, <1>5
  <2>6. \A e \in Elems(slots') : e # Finished => \A b \in Elems(buffered') : b < e
    BY <1>2, <2>2, <2>5 DEF AheadInv
  <2>7. \A b \in Elems(buffered') : current < b /\ b < cursor
    BY <2>1, <2>2 DEF AheadInv
  <2>8. \A e \in Elems(slots') : e \in Elems(slots)
    BY <1>2
  <2>9. lanePc' = lanePc /\ cursor' = cursor /\ cancelled' = cancelled /\ current' = current
        /\ ~finished'
    BY <1>0, <1>5
  <2> QED  BY <1>3, <2>3, <2>4, <2>6, <2>7, <2>8, <2>9 DEF AheadInv
<1> QED  BY <1>4, <1>5, DrainDoes

\* Every step.
LEMMA AheadStep ==
    ASSUME TypeOK, AheadInv, Next
    PROVE  AheadInv'
<1> USE DEF laneOneVars, dispVars, laneVars, finalVars
<1>1. CASE DispPush \/ DispPushCached \/ DispCacheResolved \/ DispReripped \/ DispMarker
  BY <1>1, AheadKept DEF DispPush, DispPushCached, DispCacheResolved, DispReripped, DispMarker
<1>2. CASE ReripRun \/ LaneStart \/ LaneTask \/ Finalizer
  BY <1>2, AheadKept DEF ReripRun, LaneStart, LaneTask, UploadEnds, PanicRecorded, CachedEnds, Finalizer,
                         FinalLoad, FinalArm, FinalWake, FinalBuild, FinalBuildFails
<1>3. CASE CancelJob
  <2>1. UNCHANGED <<slots, buffered, lanePc, cursor, current, finished>> /\ cancelled'
    BY <1>3 DEF CancelJob
  <2> QED  BY <2>1 DEF AheadInv
<1> QED  BY <1>1, <1>2, <1>3, AheadLane, AheadNext, AheadDrain DEF Next, Dispatcher

-----------------------------------------------------------------------------
(* The dispatcher and what it has dispatched. *)

\* A slot the dispatcher takes up is beyond the current item.
LEMMA NextIsBeyond ==
    ASSUME TypeOK, AheadInv, DispNext
    PROVE  /\ finished => finished'
           /\ \/ /\ current' \in Item /\ current < current' /\ finished' = finished
                 /\ ~stop /\ ~cancelled /\ stop' = stop
                 /\ \/ dispPc' = "push" /\ pendingUploads' = pendingUploads + 1
                    \/ dispPc' = "pushCached" /\ pendingUploads' = pendingUploads
                 /\ \/ /\ buffered # <<>> /\ current' = Head(buffered) /\ slots' = slots
                       /\ buffered' = Tail(buffered)
                    \/ /\ buffered = <<>> /\ slots # <<>> /\ current' = Head(slots)
                       /\ slots' = Tail(slots) /\ buffered' = buffered
              \/ /\ dispPc' = "next" /\ UNCHANGED <<current, pendingUploads>>
                 /\ \/ stop \/ cancelled
                    \/ /\ stop' = stop /\ buffered' = buffered /\ slots # <<>>
                       /\ slots' = Tail(slots) /\ Head(slots) = Finished
                 /\ stop' = stop \/ (stop' /\ (stop \/ cancelled))
              \/ /\ dispPc' = "marker" /\ UNCHANGED <<current, pendingUploads, stop>>
                 /\ UNCHANGED <<buffered, slots, finished>>
                 /\ buffered = <<>> /\ (finished \/ (lanePc = "dead" /\ slots = <<>>))
<1>1. dispPc = "next" /\ finished \in BOOLEAN /\ stop \in BOOLEAN
  BY DispNextDoes DEF TypeOK
<1>2. \A e \in Item : e \in Nat /\ e # Finished
  BY Ranks
<1>3. CASE /\ buffered # <<>> /\ buffered' = Tail(buffered) /\ slots' = slots
           /\ Head(buffered) \in Item /\ Accept(Head(buffered))
  <2>1. current < Head(buffered)
    BY <1>3, Types, TailElems DEF AheadInv
  <2>2. \/ /\ stop \/ cancelled
           /\ stop' = TRUE /\ UNCHANGED <<dispPc, current, finished, pendingUploads>>
        \/ /\ ~stop /\ ~cancelled /\ current' = Head(buffered)
           /\ \/ dispPc' = "push" /\ pendingUploads' = pendingUploads + 1
              \/ dispPc' = "pushCached" /\ pendingUploads' = pendingUploads
           /\ UNCHANGED <<finished, stop>>
    BY <1>1, <1>2, <1>3, Accepts
  <2> QED  BY <1>1, <1>3, <2>1, <2>2
<1>4. CASE /\ buffered = <<>> /\ ~finished /\ slots # <<>> /\ slots' = Tail(slots)
           /\ buffered' = buffered /\ Head(slots) \in Item \cup {Finished}
           /\ Accept(Head(slots))
  <2>1. Head(slots) \in Item => current < Head(slots)
    BY <1>2, <1>4, Types, TailElems DEF AheadInv
  <2>2. CASE /\ Head(slots) = Finished /\ finished' = TRUE
             /\ UNCHANGED <<dispPc, current, stop, pendingUploads>>
    BY <1>1, <1>4, <2>2
  <2>3. CASE /\ Head(slots) # Finished /\ (stop \/ cancelled) /\ stop' = TRUE
             /\ UNCHANGED <<dispPc, current, finished, pendingUploads>>
    BY <1>1, <1>4, <2>3
  <2>4. CASE /\ Head(slots) \in Item /\ ~stop /\ ~cancelled /\ current' = Head(slots)
             /\ \/ dispPc' = "push" /\ pendingUploads' = pendingUploads + 1
                \/ dispPc' = "pushCached" /\ pendingUploads' = pendingUploads
             /\ UNCHANGED <<finished, stop>>
    BY <1>4, <2>1, <2>4
  <2> QED  BY <1>1, <1>4, <2>2, <2>3, <2>4, Accepts
<1> QED  BY <1>3, <1>4, DispNextDoes

\* What a step of anything does to the dispatcher's place.
LEMMA Moves ==
    ASSUME TypeOK, AheadInv, Next
    PROVE  /\ finished => finished'
           /\ cancelled => cancelled'
           /\ lanePc = "dead" => lanePc' = "dead"
           /\ dispPc = "done" => dispPc' = "done"
           /\ \/ current' \in Item /\ current < current' /\ dispPc = "next"
              \/ /\ current' = current /\ (dispPc' \in Busy => dispPc \in Busy)
                 /\ (dispPc' = "pushCached" => dispPc = "pushCached")
<1> USE DEF laneOneVars, dispVars, laneVars, finalVars
<1>1. CASE DispNext
  BY <1>1, NextIsBeyond, DispNextDoes DEF Busy
<1>2. CASE DispPush \/ DispPushCached \/ DispMarker
  BY <1>2 DEF DispPush, DispPushCached, DispMarker, Busy
<1>3. CASE DispCacheResolved \/ DispReripped
  BY <1>3 DEF DispCacheResolved, DispReripped, Busy
<1>4. CASE DispDrain
  BY <1>4, DrainDoes
<1>5. CASE LaneOne
  BY <1>5 DEF LaneOne, LaneCheck, LaneRip, LanePanic, LaneSend, LaneFinish, LaneDied
<1>6. CASE ReripRun \/ LaneStart \/ LaneTask
  BY <1>6 DEF ReripRun, LaneStart, LaneTask, UploadEnds, PanicRecorded, CachedEnds
<1>7. CASE Finalizer \/ CancelJob
  BY <1>7 DEF Finalizer, FinalLoad, FinalArm, FinalWake, FinalBuild, FinalBuildFails, CancelJob
<1> QED  BY <1>1, <1>2, <1>3, <1>4, <1>5, <1>6, <1>7 DEF Next, Dispatcher

\* Entering the upload lane at the current item keeps the item order.
LEMMA Enters ==
    ASSUME TypeOK, DispatchInv, current \in Item, current' = current,
           dispatched' = Append(dispatched, current)
    PROVE  /\ \A n \in 1 .. Len(dispatched') : dispatched'[n] <= current'
           /\ LaneInItemOrder'
<1>1. /\ Len(dispatched') = Len(dispatched) + 1 /\ Len(dispatched) \in Nat
      /\ \A n \in 1 .. Len(dispatched) : dispatched'[n] = dispatched[n]
      /\ dispatched'[Len(dispatched) + 1] = current
  BY Types, AppendElems
<1>2. current \in Nat
  BY Types
<1>3. \A n \in 1 .. Len(dispatched) : dispatched[n] <= current
  BY DEF DispatchInv
<1>4. \A n \in 1 .. Len(dispatched) + 1 : n \in 1 .. Len(dispatched) \/ n = Len(dispatched) + 1
  BY <1>1
<1>5. \A n \in 1 .. Len(dispatched') : dispatched'[n] <= current'
  BY <1>1, <1>2, <1>3, <1>4
<1>6. ASSUME NEW m \in 1 .. Len(dispatched'), NEW n \in 1 .. Len(dispatched'), m < n
      PROVE  dispatched'[m] <= dispatched'[n]
  <2>1. m \in 1 .. Len(dispatched)
    BY <1>1, <1>6
  <2>2. CASE n \in 1 .. Len(dispatched)
    BY <1>1, <1>6, <2>1, <2>2 DEF DispatchInv, LaneInItemOrder
  <2>3. CASE n = Len(dispatched) + 1
    BY <1>1, <1>3, <2>1, <2>3
  <2> QED  BY <1>1, <1>4, <2>2, <2>3
<1> QED  BY <1>5, <1>6 DEF LaneInItemOrder

\* The dispatcher's invariant, after a step of anything.
LEMMA DispatchStep ==
    ASSUME TypeOK, AheadInv, DispatchInv, Next
    PROVE  DispatchInv'
<1> USE DEF laneOneVars, dispVars, laneVars, finalVars
<1>0. current \in Nat /\ \A e \in Item : e \in Nat
  BY Types, Ranks
<1>1. CASE DispNext
  <2>1. UNCHANGED <<fatal, dispatched, lanePc>>
    BY <1>1, DispNextDoes
  <2>2. dispatched \in Seq(Item)
    BY Types
  <2>3. \A n \in 1 .. Len(dispatched) : dispatched[n] \in Nat /\ dispatched[n] <= current
    BY <1>0, <2>2, ElementOfSeq DEF DispatchInv
  <2>4. \A n \in 1 .. Len(dispatched) : dispatched[n] <= current'
    <3>1. current' = current \/ (current' \in Item /\ current < current')
      BY <1>1, NextIsBeyond
    <3> QED  BY <1>0, <2>3, <3>1
  <2>5. LaneInItemOrder' /\ BufferSuffices'
    BY <2>1 DEF DispatchInv, LaneInItemOrder, BufferSuffices
  <2>6. /\ dispPc' \in Busy => current' \in Item
        /\ dispPc' \in {"marker", "done"} =>
              buffered' = <<>> /\ (finished' \/ (lanePc' = "dead" /\ slots' = <<>>))
    BY <1>1, <2>1, NextIsBeyond DEF Busy
  <2> QED  BY <2>1, <2>4, <2>5, <2>6 DEF DispatchInv
<1>2. CASE DispPush \/ DispPushCached
  <2>1. /\ dispPc \in Busy /\ dispPc' \in {"next", "cacheWait"} /\ UNCHANGED <<current, fatal>>
        /\ dispatched' = dispatched \/ dispatched' = Append(dispatched, current)
    BY <1>2 DEF DispPush, DispPushCached, Busy
  <2>2. current \in Item /\ BufferSuffices'
    BY <2>1 DEF DispatchInv, BufferSuffices
  <2>3. (\A n \in 1 .. Len(dispatched') : dispatched'[n] <= current') /\ LaneInItemOrder'
    <3>1. CASE dispatched' = dispatched
      BY <2>1, <3>1 DEF DispatchInv, LaneInItemOrder
    <3>2. CASE dispatched' = Append(dispatched, current)
      BY <2>1, <2>2, <3>2, Enters
    <3> QED  BY <2>1, <3>1, <3>2
  <2>4. current' \in Item /\ dispPc' \notin {"marker", "done"}
    BY <2>1, <2>2
  <2> QED  BY <2>2, <2>3, <2>4 DEF DispatchInv
<1>3. CASE DispCacheResolved \/ DispReripped \/ DispMarker
  <2>1. /\ UNCHANGED <<current, dispatched, buffered, finished, lanePc, slots>>
        /\ dispPc' \in Busy => dispPc \in Busy
        /\ dispPc' \in {"marker", "done"} => dispPc = "marker"
        /\ fatal # "buffer" => fatal' # "buffer"
    BY <1>3 DEF DispCacheResolved, DispReripped, DispMarker, SetFatal, Busy
  <2> QED  BY <2>1 DEF DispatchInv, LaneInItemOrder, BufferSuffices
<1>4. CASE DispDrain
  <2>1. /\ UNCHANGED <<dispPc, current, dispatched, fatal>>
        /\ dispPc \notin {"marker", "done"}
    BY <1>4, DrainDoes DEF DispDrain
  <2> QED  BY <2>1 DEF DispatchInv, LaneInItemOrder, BufferSuffices
<1>5. CASE LaneOne
  <2>1. /\ UNCHANGED <<dispPc, current, buffered, finished, dispatched, fatal>>
        /\ lanePc = "dead" => UNCHANGED <<lanePc, slots>>
    BY <1>5 DEF LaneOne, LaneCheck, LaneRip, LanePanic, LaneSend, LaneFinish, LaneDied
  <2> QED  BY <2>1 DEF DispatchInv, LaneInItemOrder, BufferSuffices
<1>6. CASE ReripRun \/ LaneStart \/ LaneTask \/ Finalizer \/ CancelJob
  <2>1. /\ UNCHANGED <<dispPc, current, buffered, finished, dispatched, lanePc, slots>>
        /\ fatal # "buffer" => fatal' # "buffer"
    <3>1. CASE ReripRun \/ LaneStart \/ LaneTask
      BY <1>6, <3>1 DEF ReripRun, LaneStart, LaneTask, UploadEnds, PanicRecorded, CachedEnds, SetFatal
    <3>2. CASE Finalizer \/ CancelJob
      BY <1>6, <3>2 DEF Finalizer, FinalLoad, FinalArm, FinalWake, FinalBuild, FinalBuildFails,
                        CancelJob
    <3> QED  BY <1>6, <3>1, <3>2
  <2> QED  BY <2>1 DEF DispatchInv, LaneInItemOrder, BufferSuffices
<1> QED  BY <1>1, <1>2, <1>3, <1>4, <1>5, <1>6 DEF Next, Dispatcher

-----------------------------------------------------------------------------
(* The tasks of the upload lane. *)

\* Tasks by their kinds.
LEMMA TaskKinds ==
    /\ \A i \in Item : Upload(i) \in Task /\ Cached(i) \in Task
    /\ Marker \in Task
    /\ \A i : /\ Upload(i).kind = "upload" /\ Upload(i).item = i
             /\ Cached(i).kind = "cached" /\ Cached(i).item = i
             /\ Upload(i) # Marker /\ Cached(i) # Marker
    /\ \A i, j : Upload(i) # Cached(j) /\ (Upload(i) = Upload(j) => i = j)
                /\ (Cached(i) = Cached(j) => i = j)
    /\ Marker.kind = "finalize"
<1>1. /\ \A i \in Item : Upload(i) \in Task /\ Cached(i) \in Task
      /\ Marker \in Task
  BY DEF Upload, Cached, Marker, Task
<1>2. /\ \A i : /\ Upload(i).kind = "upload" /\ Upload(i).item = i
               /\ Cached(i).kind = "cached" /\ Cached(i).item = i
      /\ Marker.kind = "finalize"
  BY DEF Upload, Cached, Marker
<1>3. \A i : Upload(i) # Marker /\ Cached(i) # Marker
  BY <1>2
<1>4. \A i, j : Upload(i) # Cached(j) /\ (Upload(i) = Upload(j) => i = j)
                /\ (Cached(i) = Cached(j) => i = j)
  BY <1>2
<1> QED  BY <1>1, <1>2, <1>3, <1>4

\* A task stays behind the dispatcher.
LEMMA TaskStays ==
    ASSUME TypeOK, AheadInv, Next, NEW t, TaskAt(t)
    PROVE  TaskAt(t)'
<1>0. current \in Nat /\ \A e \in Item : e \in Nat
  BY Types, Ranks
<1>1. CASE t = Marker /\ dispPc = "done" /\ (finished \/ cancelled)
  BY <1>1, Moves DEF TaskAt
<1>2. CASE t.item \in Item /\ t.item <= current
  <2>1. CASE current' \in Item /\ current < current'
    <3>1. t.item < current' /\ t.item <= current' /\ t.item # current'
      BY <1>0, <1>2, <2>1
    <3>2. \/ t.kind = "upload" /\ t = Upload(t.item)
          \/ t.kind = "cached" /\ t = Cached(t.item)
          \/ t = Marker
      BY DEF TaskAt
    <3>3. CASE t = Marker
      BY <1>2, <3>3, Ranks DEF Marker, Finished
    <3> QED  BY <1>2, <3>1, <3>2, <3>3 DEF TaskAt
  <2>2. CASE /\ current' = current /\ (dispPc' \in Busy => dispPc \in Busy)
             /\ (dispPc' = "pushCached" => dispPc = "pushCached")
    <3>1. CASE t = Marker
      BY <1>2, <3>1, Ranks DEF Marker, Finished
    <3> QED  BY <1>2, <2>2, <3>1 DEF TaskAt
  <2> QED  BY <2>1, <2>2, Moves
<1> QED  BY <1>1, <1>2 DEF TaskAt

\* The lane's channel and its tasks, by what a step does to them.
LEMMA LaneAppend ==
    ASSUME TypeOK, AheadInv, LaneInv, Next, NEW t \in Task, t \notin Tasks,
           lane' = Append(lane, t), running' = running, dispPc # "done", TaskAt(t)',
           finalPc' = finalPc
    PROVE  LaneInv' /\ Tasks' = Tasks \cup {t}
<1>1. /\ Len(lane') = Len(lane) + 1 /\ Len(lane) \in Nat
      /\ \A n \in 1 .. Len(lane) : lane'[n] = lane[n]
      /\ lane'[Len(lane) + 1] = t /\ Elems(lane') = Elems(lane) \cup {t}
  BY Types, AppendElems
<1>2. Tasks' = Tasks \cup {t}
  BY <1>1 DEF Tasks
<1>3. Distinct(lane') /\ \A x \in Elems(lane') : x \notin running'
  <2>1. Distinct(lane')
    BY Types, DistinctAppend DEF LaneInv, Tasks
  <2> QED  BY <1>1, <2>1 DEF LaneInv, Tasks
<1>4. \A x \in Tasks' : TaskAt(x)'
  BY <1>2, TaskStays DEF LaneInv
<1>5. finalPc' = "none"
  BY DEF LaneInv
<1>6. \A x \in Tasks : x # Marker
  BY TaskKinds DEF LaneInv, TaskAt
<1>7. \A n \in 1 .. Len(lane) : lane[n] # Marker
  BY <1>6 DEF Tasks, Elems
<1>8. \A n \in 1 .. Len(lane') : lane'[n] = Marker => n = Len(lane')
  <2> SUFFICES ASSUME NEW n \in 1 .. Len(lane) + 1, lane'[n] = Marker PROVE n = Len(lane) + 1
    BY <1>1
  <2>1. n \notin 1 .. Len(lane)
    BY <1>1, <1>7
  <2> QED  BY <1>1, <2>1
<1> QED  BY <1>2, <1>3, <1>4, <1>5, <1>8 DEF LaneInv

\* Starting a task moves it from the channel to the running ones.
LEMMA LaneTakes ==
    ASSUME TypeOK, AheadInv, LaneInv, Next, LaneStart
    PROVE  LaneInv' /\ Tasks' = Tasks /\ finalPc = "none" /\ finalPc' \in {"none", "load"}
<1>1. /\ lane # <<>> /\ lane' = Tail(lane) /\ running' = running \cup {Head(lane)}
      /\ finalPc' = IF Head(lane) = Marker THEN "load" ELSE finalPc
      /\ UNCHANGED <<dispPc, finished, cancelled>>
  BY DEF LaneStart, dispVars
<1>2. /\ Head(lane) = lane[1] /\ Len(lane) \in Nat /\ Len(lane) >= 1
      /\ Len(lane') = Len(lane) - 1 /\ lane' \in Seq(Task)
      /\ \A n \in 1 .. Len(lane') : lane'[n] = lane[n + 1]
      /\ Elems(lane) = {Head(lane)} \cup Elems(lane')
  BY <1>1, Types, TailElems
<1>3. Tasks' = Tasks
  BY <1>1, <1>2 DEF Tasks
<1>4. Distinct(lane') /\ Head(lane) \notin Elems(lane')
  BY <1>1, Types, DistinctTail DEF LaneInv
<1>5. \A x \in Elems(lane') : x \notin running'
  BY <1>1, <1>2, <1>4 DEF LaneInv
<1>6. \A x \in Tasks' : TaskAt(x)'
  BY <1>3, TaskStays DEF LaneInv
<1>7. \A n \in 1 .. Len(lane') : lane'[n] = Marker => n = Len(lane')
  <2> SUFFICES ASSUME NEW n \in 1 .. Len(lane'), lane[n + 1] = Marker PROVE n = Len(lane')
    BY <1>2
  <2>1. n + 1 \in 1 .. Len(lane)
    BY <1>2
  <2>2. n + 1 = Len(lane)
    BY <2>1 DEF LaneInv
  <2> QED  BY <1>2, <2>2
<1>8. finalPc = "none"
  BY <1>1 DEF LaneInv
<1>9. Head(lane) = Marker => lane' = <<>> /\ dispPc = "done" /\ (finished \/ cancelled)
  <2> SUFFICES ASSUME Head(lane) = Marker
               PROVE  lane' = <<>> /\ dispPc = "done" /\ (finished \/ cancelled)
    OBVIOUS
  <2>1. Len(lane) = 1 /\ Len(lane') = Len(lane) - 1
    BY <1>2 DEF LaneInv
  <2>2. Len(lane') = 0
    BY <2>1
  <2>3. lane' = <<>>
    BY <1>2, <2>2, EmptySeq
  <2>4. Marker \in Tasks
    BY <1>2 DEF Tasks
  <2>5. dispPc = "done" /\ (finished \/ cancelled)
    BY <2>4, TaskKinds DEF LaneInv, TaskAt
  <2> QED  BY <2>3, <2>5
<1> QED  BY <1>1, <1>3, <1>4, <1>5, <1>6, <1>7, <1>8, <1>9 DEF LaneInv

\* A task ends, or nothing happens to the lane.
LEMMA LaneShrinks ==
    ASSUME TypeOK, AheadInv, LaneInv, Next, lane' = lane, running' \subseteq running,
           finalPc # "none" \/ finalPc' = finalPc
    PROVE  LaneInv' /\ Tasks' = Elems(lane) \cup running'
<1>1. Tasks' = Elems(lane) \cup running' /\ Tasks' \subseteq Tasks
  BY DEF Tasks
<1>2. \A x \in Tasks' : TaskAt(x)'
  BY <1>1, TaskStays DEF LaneInv
<1>3. finalPc' # "none" => lane = <<>> /\ dispPc' = "done" /\ (finished' \/ cancelled')
  BY Moves DEF LaneInv
<1> QED  BY <1>1, <1>2, <1>3 DEF LaneInv

\* The lane's invariant, and what happens to the set of tasks in a step.
LEMMA LaneStep ==
    ASSUME TypeOK, AheadInv, DispatchInv, LaneInv, Next
    PROVE  /\ LaneInv'
           /\ \/ Tasks' = Tasks
              \/ DispPush /\ Tasks' = Tasks \cup {Upload(current)} /\ pendingUploads' = pendingUploads
              \/ DispPushCached /\ Tasks' = Tasks \cup {Cached(current)} /\ dispPc' = "cacheWait"
                 /\ resolution' = "pending"
              \/ DispMarker /\ Tasks' = Tasks \cup {Marker}
              \/ \E i \in Item : /\ UploadEnds(i) /\ Upload(i) \in Tasks
                                /\ Tasks' = Tasks \ {Upload(i)}
              \/ \E i \in Item : /\ CachedEnds(i) /\ Cached(i) \in Tasks
                                /\ Tasks' = Tasks \ {Cached(i)}
              \/ (FinalBuild \/ FinalBuildFails) /\ Tasks' = Tasks \ {Marker}
           /\ DispPush => \/ Tasks' = Tasks \cup {Upload(current)} /\ pendingUploads' = pendingUploads
                          \/ /\ Tasks' = Tasks /\ cancelled /\ stop'
                             /\ pendingUploads' = pendingUploads - 1
<1> USE DEF laneOneVars, dispVars, laneVars, finalVars
<1>0. \A t \in Tasks : t \notin running => t \in Elems(lane)
  BY DEF Tasks
<1>1. CASE DispPush
  <2>1. /\ dispPc = "push" /\ dispPc' = "next" /\ UNCHANGED <<current, running, finalPc>>
        /\ \/ lane' = Append(lane, Upload(current)) /\ pendingUploads' = pendingUploads
           \/ lane' = lane /\ cancelled /\ pendingUploads' = pendingUploads - 1 /\ stop'
    BY <1>1 DEF DispPush
  <2>2. current \in Item /\ current \in Nat
    BY <2>1, Ranks DEF DispatchInv, Busy
  <2>3. CASE lane' = Append(lane, Upload(current)) /\ pendingUploads' = pendingUploads
    <3>1. PICK u : u = Upload(current)
      OBVIOUS
    <3>2. u \in Task /\ u \notin Tasks
      BY <2>1, <2>2, <3>1, TaskKinds DEF LaneInv, TaskAt, Busy
    <3>3. TaskAt(u)'
      <4>1. u = Upload(current')
        BY <2>1, <3>1
      <4>2. current' <= current' /\ current' \in Item /\ dispPc' \notin Busy
        BY <2>1, <2>2 DEF Busy
      <4> QED  BY <4>1, <4>2, TaskKinds DEF TaskAt
    <3>4. LaneInv' /\ Tasks' = Tasks \cup {u}
      BY <2>1, <2>3, <3>1, <3>2, <3>3, LaneAppend
    <3> QED  BY <1>1, <2>3, <3>1, <3>4
  <2>4. CASE lane' = lane /\ cancelled /\ pendingUploads' = pendingUploads - 1 /\ stop'
    <3>1. LaneInv' /\ Tasks' = Tasks
      BY <2>1, <2>4, LaneShrinks DEF Tasks
    <3> QED  BY <1>1, <2>4, <3>1
  <2> QED  BY <2>1, <2>3, <2>4
<1>2. CASE DispPushCached
  <2>1. /\ dispPc = "pushCached" /\ UNCHANGED <<current, running, finalPc>>
        /\ \/ /\ lane' = Append(lane, Cached(current)) /\ dispPc' = "cacheWait"
              /\ resolution' = "pending"
           \/ lane' = lane
    BY <1>2 DEF DispPushCached
  <2>2. current \in Item /\ current \in Nat
    BY <2>1, Ranks DEF DispatchInv, Busy
  <2>3. CASE /\ lane' = Append(lane, Cached(current)) /\ dispPc' = "cacheWait"
             /\ resolution' = "pending"
    <3>1. PICK u : u = Cached(current)
      OBVIOUS
    <3>2. u \in Task /\ u \notin Tasks
      BY <2>1, <2>2, <3>1, TaskKinds DEF LaneInv, TaskAt
    <3>3. TaskAt(u)'
      <4>1. u = Cached(current')
        BY <2>1, <3>1
      <4>2. current' <= current' /\ current' \in Item /\ dispPc' # "pushCached"
        BY <2>1, <2>2, <2>3
      <4> QED  BY <4>1, <4>2, TaskKinds DEF TaskAt
    <3>4. LaneInv' /\ Tasks' = Tasks \cup {u}
      BY <2>1, <2>3, <3>1, <3>2, <3>3, LaneAppend
    <3> QED  BY <1>2, <2>1, <2>3, <3>1, <3>4 DEF DispPush
  <2>4. CASE lane' = lane
    <3>1. LaneInv' /\ Tasks' = Tasks
      BY <2>1, <2>4, LaneShrinks DEF Tasks
    <3> QED  BY <2>1, <3>1 DEF DispPush
  <2> QED  BY <2>1, <2>3, <2>4
<1>3. CASE DispMarker
  <2>1. /\ dispPc = "marker" /\ dispPc' = "done" /\ UNCHANGED <<running, finalPc, finished, cancelled>>
        /\ \/ lane' = Append(lane, Marker) /\ (finished \/ cancelled)
           \/ lane' = lane
    BY <1>3 DEF DispMarker
  <2>2. CASE lane' = Append(lane, Marker) /\ (finished \/ cancelled)
    <3>1. Marker \in Task /\ Marker \notin Tasks
      BY <2>1, TaskKinds DEF LaneInv, TaskAt
    <3>2. TaskAt(Marker)'
      BY <2>1, <2>2 DEF TaskAt
    <3>3. LaneInv' /\ Tasks' = Tasks \cup {Marker}
      BY <2>1, <2>2, <3>1, <3>2, LaneAppend
    <3> QED  BY <1>3, <2>1, <3>3 DEF DispPush
  <2>3. CASE lane' = lane
    <3>1. LaneInv' /\ Tasks' = Tasks
      BY <2>1, <2>3, LaneShrinks DEF Tasks
    <3> QED  BY <2>1, <3>1 DEF DispPush
  <2> QED  BY <2>1, <2>2, <2>3
<1>4. CASE LaneStart
  <2>1. LaneInv' /\ Tasks' = Tasks
    BY <1>4, LaneTakes
  <2>2. ~DispPush
    BY <1>4 DEF LaneStart, DispPush
  <2> QED  BY <2>1, <2>2
<1>5. CASE \E i \in Item : UploadEnds(i)
  <2>1. PICK i \in Item : UploadEnds(i)
    BY <1>5
  <2>2. /\ Upload(i) \in running /\ running' = running \ {Upload(i)}
        /\ UNCHANGED <<lane, finalPc, dispPc>>
    BY <2>1 DEF UploadEnds
  <2>3. LaneInv' /\ Tasks' = Elems(lane) \cup running'
    BY <2>2, LaneShrinks
  <2>4. Upload(i) \notin Elems(lane)
    BY <2>2 DEF LaneInv
  <2>5. Tasks' = Tasks \ {Upload(i)} /\ Upload(i) \in Tasks
    BY <2>2, <2>3, <2>4 DEF Tasks
  <2>6. ~DispPush
    BY <2>2 DEF DispPush
  <2> QED  BY <2>1, <2>3, <2>5, <2>6
<1>6. CASE \E i \in Item : CachedEnds(i)
  <2>1. PICK i \in Item : CachedEnds(i)
    BY <1>6
  <2>2. /\ Cached(i) \in running /\ running' = running \ {Cached(i)}
        /\ UNCHANGED <<lane, finalPc, dispPc>>
    BY <2>1 DEF CachedEnds
  <2>3. LaneInv' /\ Tasks' = Elems(lane) \cup running'
    BY <2>2, LaneShrinks
  <2>4. Cached(i) \notin Elems(lane)
    BY <2>2 DEF LaneInv
  <2>5. Tasks' = Tasks \ {Cached(i)} /\ Cached(i) \in Tasks
    BY <2>2, <2>3, <2>4 DEF Tasks
  <2>6. ~DispPush
    BY <2>2 DEF DispPush
  <2> QED  BY <2>1, <2>3, <2>5, <2>6
<1>7. CASE FinalBuild \/ FinalBuildFails
  <2>1. /\ finalPc = "build" /\ running' = running \ {Marker} /\ lane' = lane
        /\ dispPc' = dispPc
    BY <1>7 DEF FinalBuild, FinalBuildFails
  <2>2. LaneInv' /\ Tasks' = Elems(lane) \cup running'
    BY <2>1, LaneShrinks
  <2>3. Elems(lane) = {}
    BY <2>1, Types, ElemsOf DEF LaneInv
  <2>4. Tasks' = Tasks \ {Marker}
    BY <2>1, <2>2, <2>3 DEF Tasks
  <2>5. ~DispPush
    BY <2>1 DEF DispPush
  <2> QED  BY <1>7, <2>2, <2>4, <2>5
<1>8. CASE FinalLoad \/ FinalArm \/ FinalWake
  <2>1. finalPc # "none" /\ UNCHANGED <<lane, running, dispPc>>
    BY <1>8 DEF FinalLoad, FinalArm, FinalWake
  <2>2. LaneInv' /\ Tasks' = Tasks
    BY <2>1, LaneShrinks DEF Tasks
  <2>3. ~DispPush
    BY <2>1 DEF DispPush
  <2> QED  BY <2>2, <2>3
<1>9. CASE \/ LaneOne \/ DispNext \/ DispCacheResolved \/ DispReripped \/ DispDrain \/ ReripRun
           \/ CancelJob \/ \E i \in Item : PanicRecorded(i)
  <2>1. UNCHANGED <<lane, running, finalPc>>
    <3>1. CASE LaneOne
      BY <3>1 DEF LaneOne, LaneCheck, LaneRip, LanePanic, LaneSend, LaneFinish, LaneDied
    <3>2. CASE DispNext
      BY <3>2, DispNextDoes
    <3>3. CASE DispCacheResolved \/ DispReripped \/ DispDrain \/ ReripRun \/ CancelJob
      BY <3>3 DEF DispCacheResolved, DispReripped, DispDrain, ReripRun, CancelJob
    <3>4. CASE \E i \in Item : PanicRecorded(i)
      BY <3>4 DEF PanicRecorded
    <3> QED  BY <1>9, <3>1, <3>2, <3>3, <3>4
  <2>2. LaneInv' /\ Tasks' = Tasks
    BY <2>1, LaneShrinks DEF Tasks
  <2>3. CASE DispPush
    BY <1>1, <2>3
  <2> QED  BY <2>2, <2>3
<1> QED  BY <1>1, <1>2, <1>3, <1>4, <1>5, <1>6, <1>7, <1>8, <1>9
         DEF Next, Dispatcher, LaneTask, Finalizer

-----------------------------------------------------------------------------
(* The counter of pending uploads. *)

\* Live, before and after a step.
LEMMA LiveIs ==
    /\ Live \subseteq Item /\ Live' \subseteq Item
    /\ \A i \in Item : i \in Live <=> Upload(i) \in Tasks \/ (dispPc = "push" /\ current = i)
    /\ \A i \in Item : i \in Live' <=> Upload(i) \in Tasks' \/ (dispPc' = "push" /\ current' = i)
BY DEF Live

\* The counter and Live change together.
LEMMA LiveStep ==
    ASSUME TypeOK, AheadInv, DispatchInv, LaneInv, Next
    PROVE  \/ Live' = Live /\ pendingUploads' = pendingUploads
           \/ /\ dispPc # "done" /\ pendingUploads' = pendingUploads + 1
              /\ \E i \in Item \ Live : Live' = Live \cup {i}
           \/ /\ pendingUploads' = pendingUploads - 1
              /\ \E i \in Live : Live' = Live \ {i}
<1> USE DEF laneOneVars, dispVars, laneVars, finalVars
<1>0. \A i \in Item : Upload(i) \in Tasks => i <= current /\ (i = current => dispPc \notin Busy)
  BY TaskKinds DEF LaneInv, TaskAt
<1>1. CASE DispNext
  <2>1. Tasks' = Tasks /\ dispPc = "next"
    BY <1>1, DispNextDoes DEF Tasks
  <2>2. CASE /\ current' \in Item /\ current < current' /\ dispPc' = "push"
             /\ pendingUploads' = pendingUploads + 1
    <3>1. Upload(current') \notin Tasks
      <4>1. ~(current' <= current)
        BY <2>2, Types, Ranks
      <4> QED  BY <1>0, <2>2, <4>1
    <3>2. current' \in Item \ Live
      BY <2>1, <2>2, <3>1, LiveIs
    <3>3. Live' = Live \cup {current'}
      BY <2>1, <2>2, LiveIs
    <3> QED  BY <2>1, <2>2, <3>2, <3>3
  <2>3. CASE dispPc' # "push" /\ pendingUploads' = pendingUploads
    BY <2>1, <2>3, LiveIs
  <2> QED  BY <1>1, <2>2, <2>3, NextIsBeyond
<1>2. CASE DispPush
  <2>1. dispPc = "push" /\ dispPc' = "next" /\ current' = current
    BY <1>2 DEF DispPush
  <2>2. current \in Item /\ Upload(current) \notin Tasks
    BY <1>0, <2>1 DEF DispatchInv, Busy
  <2>3. CASE Tasks' = Tasks \cup {Upload(current)} /\ pendingUploads' = pendingUploads
    <3>1. \A i \in Item : Upload(i) \in Tasks' <=> Upload(i) \in Tasks \/ i = current
      BY <2>3, TaskKinds
    <3>2. Live' = Live
      BY <2>1, <3>1, LiveIs
    <3> QED  BY <2>3, <3>2
  <2>4. CASE Tasks' = Tasks /\ pendingUploads' = pendingUploads - 1
    <3>1. Live' = Live \ {current} /\ current \in Live
      BY <2>1, <2>2, <2>4, LiveIs
    <3> QED  BY <2>4, <3>1
  <2> QED  BY <1>2, <2>3, <2>4, LaneStep
<1>3. CASE DispReripped
  <2>1. /\ dispPc = "reripWait" /\ current' = current /\ UNCHANGED <<lane, running>>
        /\ \/ dispPc' = "push" /\ pendingUploads' = pendingUploads + 1
           \/ dispPc' = "next" /\ pendingUploads' = pendingUploads
    BY <1>3 DEF DispReripped
  <2>2. Tasks' = Tasks
    BY <2>1 DEF Tasks
  <2>3. CASE dispPc' = "push" /\ pendingUploads' = pendingUploads + 1
    <3>1. current \in Item /\ Upload(current) \notin Tasks
      BY <1>0, <2>1 DEF DispatchInv, Busy
    <3>2. Live' = Live \cup {current} /\ current \in Item \ Live
      BY <2>1, <2>2, <2>3, <3>1, LiveIs
    <3> QED  BY <2>1, <2>3, <3>2
  <2>4. CASE dispPc' = "next" /\ pendingUploads' = pendingUploads
    BY <2>1, <2>2, <2>4, LiveIs
  <2> QED  BY <2>1, <2>3, <2>4
<1>4. CASE \E i \in Item : UploadEnds(i) /\ Upload(i) \in Tasks /\ Tasks' = Tasks \ {Upload(i)}
  <2>1. PICK i \in Item : UploadEnds(i) /\ Upload(i) \in Tasks /\ Tasks' = Tasks \ {Upload(i)}
    BY <1>4
  <2>2. UNCHANGED <<dispPc, current>> /\ pendingUploads' = pendingUploads - 1
    BY <2>1 DEF UploadEnds
  <2>3. ~(dispPc = "push" /\ current = i)
    BY <1>0, <2>1 DEF Busy
  <2>4. \A k \in Item : Upload(k) \in Tasks' <=> Upload(k) \in Tasks /\ k # i
    BY <2>1, TaskKinds
  <2>5. Live' = Live \ {i} /\ i \in Live
    BY <2>1, <2>2, <2>3, <2>4, LiveIs
  <2> QED  BY <2>2, <2>5
<1>5. CASE /\ pendingUploads' = pendingUploads /\ (dispPc = "push" <=> dispPc' = "push")
           /\ current' = current
           /\ \A i \in Item : Upload(i) \in Tasks' <=> Upload(i) \in Tasks
  BY <1>5, LiveIs
<1>6. CASE \/ LaneOne \/ DispCacheResolved \/ DispDrain \/ ReripRun \/ CancelJob
           \/ FinalLoad \/ FinalArm \/ FinalWake \/ \E i \in Item : PanicRecorded(i)
  <2>1. /\ pendingUploads' = pendingUploads /\ (dispPc = "push" <=> dispPc' = "push")
        /\ current' = current /\ UNCHANGED <<lane, running>>
    <3>1. CASE LaneOne
      BY <3>1 DEF LaneOne, LaneCheck, LaneRip, LanePanic, LaneSend, LaneFinish, LaneDied
    <3>2. CASE DispCacheResolved \/ DispDrain \/ ReripRun \/ CancelJob
      BY <3>2 DEF DispCacheResolved, DispDrain, ReripRun, CancelJob
    <3>3. CASE FinalLoad \/ FinalArm \/ FinalWake
      BY <3>3 DEF FinalLoad, FinalArm, FinalWake
    <3>4. CASE \E i \in Item : PanicRecorded(i)
      BY <3>4 DEF PanicRecorded
    <3> QED  BY <1>6, <3>1, <3>2, <3>3, <3>4
  <2>2. Tasks' = Tasks
    BY <2>1 DEF Tasks
  <2> QED  BY <1>5, <2>1, <2>2
<1>7. CASE LaneStart
  <2>1. Tasks' = Tasks
    BY <1>7, LaneTakes
  <2>2. UNCHANGED <<pendingUploads, dispPc, current>>
    BY <1>7 DEF LaneStart
  <2> QED  BY <1>5, <2>1, <2>2
<1>8. CASE DispPushCached \/ DispMarker
  <2>1. /\ dispPc # "push" /\ dispPc' # "push" /\ UNCHANGED <<pendingUploads, current, running>>
        /\ \/ lane' = lane \/ lane' = Append(lane, Marker) \/ lane' = Append(lane, Cached(current))
        /\ DispPushCached => current \in Item
    BY <1>8 DEF DispPushCached, DispMarker, DispatchInv, Busy
  <2>2. \/ Tasks' = Tasks \/ Tasks' = Tasks \cup {Marker} \/ Tasks' = Tasks \cup {Cached(current)}
    <3>1. CASE lane' = lane
      BY <2>1, <3>1 DEF Tasks
    <3>2. CASE lane' # lane
      <4>1. DispPushCached => lane' = Append(lane, Cached(current))
        BY <3>2 DEF DispPushCached
      <4>2. DispMarker => lane' = Append(lane, Marker)
        BY <3>2 DEF DispMarker
      <4>3. CASE DispPushCached
        <5>1. Cached(current) \in Task /\ lane \in Seq(Task)
          BY <2>1, <4>3, Types, TaskKinds
        <5>0. lane' = Append(lane, Cached(current))
          BY <4>1, <4>3
        <5>2. Elems(lane') = Elems(lane) \cup {Cached(current)}
          BY <5>0, <5>1, AppendElems
        <5> QED  BY <2>1, <5>2 DEF Tasks
      <4>4. CASE DispMarker
        <5>1. Marker \in Task /\ lane \in Seq(Task)
          BY Types, TaskKinds
        <5>0. lane' = Append(lane, Marker)
          BY <4>2, <4>4
        <5>2. Elems(lane') = Elems(lane) \cup {Marker}
          BY <5>0, <5>1, AppendElems
        <5> QED  BY <2>1, <5>2 DEF Tasks
      <4> QED  BY <1>8, <4>3, <4>4
    <3> QED  BY <3>1, <3>2
  <2>3. \A i \in Item : Upload(i) \in Tasks' <=> Upload(i) \in Tasks
    BY <2>2, TaskKinds
  <2> QED  BY <1>5, <2>1, <2>3
<1>9. CASE \/ FinalBuild \/ FinalBuildFails \/ \E i \in Item : CachedEnds(i)
  <2>1. UNCHANGED <<pendingUploads, dispPc, current, lane>>
    BY <1>9 DEF FinalBuild, FinalBuildFails, CachedEnds
  <2>2. \/ running' = running \ {Marker} \/ \E i \in Item : running' = running \ {Cached(i)}
    BY <1>9 DEF FinalBuild, FinalBuildFails, CachedEnds
  <2>3. \A i \in Item : Upload(i) \in running' <=> Upload(i) \in running
    BY <2>2, TaskKinds
  <2>4. \A i \in Item : Upload(i) \in Tasks' <=> Upload(i) \in Tasks
    BY <2>1, <2>3 DEF Tasks
  <2> QED  BY <1>5, <2>1, <2>4
<1>10. CASE \E i \in Item : UploadEnds(i)
  <2>1. PICK i \in Item : UploadEnds(i)
    BY <1>10
  <2>2. /\ Upload(i) \in running /\ running' = running \ {Upload(i)} /\ lane' = lane
    BY <2>1 DEF UploadEnds
  <2>3. Upload(i) \in Tasks /\ Tasks' = Tasks \ {Upload(i)}
    BY <2>2 DEF Tasks, LaneInv
  <2> QED  BY <1>4, <2>1, <2>3
<1> QED  BY <1>1, <1>2, <1>3, <1>6, <1>7, <1>8, <1>9, <1>10
         DEF Next, Dispatcher, LaneTask, Finalizer

\* Where the finalizer goes, and who removes the workspace.
LEMMA FinalMoves ==
    ASSUME TypeOK, LaneInv, Next
    PROVE  /\ finalPc = "none" => finalPc' \in {"none", "load"}
           /\ finalPc = "done" => finalPc' = "done"
           /\ finalPc' = "build" =>
                 finalPc = "build" \/ (finalPc = "load" /\ pendingUploads = 0) \/ cancelled
           /\ finalPc' = "done" => finalPc \in {"build", "done"}
           /\ \/ workspace' = workspace \/ lanePc = "dead" \/ finalPc' = "done"
              \/ DispMarker /\ ~finished /\ dispPc = "marker"
<1> USE DEF laneOneVars, dispVars, laneVars, finalVars
<1>1. CASE LaneOne
  BY <1>1 DEF LaneOne, LaneCheck, LaneRip, LanePanic, LaneSend, LaneFinish, LaneDied
<1>2. CASE DispNext
  BY <1>2, DispNextDoes
<1>3. CASE DispPush \/ DispPushCached \/ DispMarker
  BY <1>3 DEF DispPush, DispPushCached, DispMarker
<1>4. CASE DispCacheResolved \/ DispReripped \/ DispDrain \/ ReripRun \/ CancelJob
  BY <1>4 DEF DispCacheResolved, DispReripped, DispDrain, ReripRun, CancelJob
<1>5. CASE LaneStart
  BY <1>5 DEF LaneStart, LaneInv
<1>6. CASE LaneTask
  BY <1>6 DEF LaneTask, UploadEnds, PanicRecorded, CachedEnds
<1>7. CASE Finalizer
  BY <1>7 DEF Finalizer, FinalLoad, FinalArm, FinalWake, FinalBuild, FinalBuildFails
<1> QED  BY <1>1, <1>2, <1>3, <1>4, <1>5, <1>6, <1>7 DEF Next, Dispatcher

\* The count, after a step of anything.
LEMMA CountStep ==
    ASSUME TypeOK, AheadInv, DispatchInv, LaneInv, CountInv, Next
    PROVE  CountInv'
<1>0. Live \in SUBSET Item
  BY LiveIs
<1>1. pendingUploads' = Cardinality(Live')
  <2>0. IsFiniteSet(Live) /\ pendingUploads = Cardinality(Live) /\ Cardinality(Live) \in Nat
    BY <1>0, ItemSets DEF CountInv
  <2>1. CASE Live' = Live /\ pendingUploads' = pendingUploads
    BY <2>0, <2>1
  <2>2. CASE /\ pendingUploads' = pendingUploads + 1
             /\ \E i \in Item \ Live : Live' = Live \cup {i}
    BY <2>0, <2>2, FS_AddElement
  <2>3. CASE /\ pendingUploads' = pendingUploads - 1
             /\ \E i \in Live : Live' = Live \ {i}
    BY <2>0, <2>3, FS_RemoveElement
  <2> QED  BY <2>1, <2>2, <2>3, LiveStep
<1>2. finalPc' \in {"build", "done"} /\ ~cancelled' => Live' = {}
  <2> SUFFICES ASSUME finalPc' \in {"build", "done"}, ~cancelled' PROVE Live' = {}
    OBVIOUS
  <2>1. ~cancelled
    BY Moves
  <2>2. Live = {}
    <3>1. CASE finalPc = "load" /\ pendingUploads = 0
      BY <1>0, <3>1, ItemSets DEF CountInv
    <3> QED  BY <2>1, <3>1, FinalMoves DEF CountInv
  <2>3. dispPc = "done"
    <3>1. finalPc # "none"
      BY FinalMoves
    <3> QED  BY <3>1 DEF LaneInv
  <2> QED  BY <2>2, <2>3, LiveStep
<1>3. ~workspace' => lanePc' = "dead" \/ finalPc' = "done"
  <2>1. DispMarker /\ ~finished /\ dispPc = "marker" => lanePc = "dead"
    BY DEF DispatchInv
  <2>2. lanePc = "dead" => lanePc' = "dead"
    BY Moves
  <2> QED  BY <2>1, <2>2, FinalMoves DEF CountInv
<1> QED  BY <1>1, <1>2, <1>3 DEF CountInv

-----------------------------------------------------------------------------
(* Every item is accounted for. *)

\* An outcome, once there, stays; so does a fatal error.
LEMMA OutcomeStays ==
    ASSUME TypeOK, Next
    PROVE  /\ \A i \in Item : outcome[i] # "none" => outcome'[i] # "none"
           /\ fatal # "none" => fatal' # "none"
<1> USE DEF laneOneVars, dispVars, laneVars, finalVars
<1>0. DOMAIN outcome = Item
  BY DEF TypeOK
<1>1. CASE LaneOne
  BY <1>0, <1>1 DEF LaneOne, LaneCheck, LaneRip, LanePanic, LaneSend, LaneFinish, LaneDied
<1>2. CASE DispNext
  BY <1>2, DispNextDoes
<1>3. CASE DispPush \/ DispPushCached \/ DispMarker
  BY <1>3 DEF DispPush, DispPushCached, DispMarker
<1>4. CASE DispCacheResolved \/ DispReripped \/ DispDrain
  BY <1>4 DEF DispCacheResolved, DispReripped, DispDrain, SetFatal
<1>5. CASE ReripRun \/ LaneStart \/ CancelJob
  BY <1>0, <1>5 DEF ReripRun, LaneStart, CancelJob
<1>6. CASE \E k \in Item : UploadEnds(k) \/ PanicRecorded(k)
  BY <1>0, <1>6 DEF UploadEnds, PanicRecorded, SetFatal
<1>7. CASE \E k \in Item : CachedEnds(k)
  BY <1>0, <1>7 DEF CachedEnds
<1>8. CASE Finalizer
  BY <1>8 DEF Finalizer, FinalLoad, FinalArm, FinalWake, FinalBuild, FinalBuildFails
<1> QED  BY <1>1, <1>2, <1>3, <1>4, <1>5, <1>6, <1>7, <1>8 DEF Next, Dispatcher, LaneTask

\* Reasons, after a step of anything.
LEMMA ReasonStep ==
    ASSUME TypeOK, AheadInv, DispatchInv, ReasonInv, Next
    PROVE  ReasonInv'
<1> USE DEF laneOneVars, dispVars, laneVars, finalVars
<1>0. (fatal # "none" => fatal' # "none") /\ (cancelled => cancelled')
  BY OutcomeStays, Moves
<1>1. dispPc = "reripWait" => current \in Item
  BY DEF DispatchInv, Busy
<1>2. CASE UNCHANGED <<rerip, resolution, stop, dispPc, current>>
  <2>1. dispPc = "reripWait" /\ outcome[current] # "none" => outcome'[current] # "none"
    BY <1>1, OutcomeStays
  <2> QED  BY <1>0, <1>2, <2>1 DEF ReasonInv
<1>3. CASE LaneOne \/ LaneStart \/ Finalizer \/ DispDrain \/ CancelJob
  <2>1. CASE LaneOne
    BY <1>2, <2>1 DEF LaneOne, LaneCheck, LaneRip, LanePanic, LaneSend, LaneFinish, LaneDied
  <2>2. CASE LaneStart \/ DispDrain \/ CancelJob
    BY <1>2, <2>2 DEF LaneStart, DispDrain, CancelJob
  <2>3. CASE Finalizer
    BY <1>2, <2>3 DEF Finalizer, FinalLoad, FinalArm, FinalWake, FinalBuild, FinalBuildFails
  <2> QED  BY <1>3, <2>1, <2>2, <2>3
<1>4. CASE DispNext
  <2>1. dispPc = "next" /\ UNCHANGED <<rerip, resolution, cancelled, fatal>>
    BY <1>4, DispNextDoes
  <2>2. rerip = "none"
    BY <2>1 DEF ReasonInv
  <2>3. stop' => stop \/ cancelled
    BY <1>4, NextIsBeyond
  <2> QED  BY <2>1, <2>2, <2>3 DEF ReasonInv
<1>5. CASE DispPush \/ DispPushCached \/ DispMarker
  <2>1. /\ dispPc # "reripWait" /\ UNCHANGED <<rerip, cancelled, fatal>>
        /\ resolution' = resolution \/ resolution' = "pending"
        /\ stop' => stop \/ cancelled
    BY <1>5 DEF DispPush, DispPushCached, DispMarker
  <2>2. rerip = "none"
    BY <2>1 DEF ReasonInv
  <2> QED  BY <2>1, <2>2 DEF ReasonInv
<1>6. CASE DispCacheResolved
  <2>1. /\ dispPc = "cacheWait" /\ resolution' = "none" /\ cancelled' = cancelled
        /\ \/ rerip' = rerip
           \/ dispPc' = "reripWait" /\ rerip' = "queued"
           \/ dispPc' = "reripWait" /\ rerip' = "aborted" /\ cancelled
        /\ stop' => stop \/ cancelled \/ resolution = "cancelled"
    BY <1>6 DEF DispCacheResolved
  <2>2. rerip = "none"
    BY <2>1 DEF ReasonInv
  <2> QED  BY <1>0, <2>1, <2>2 DEF ReasonInv
<1>7. CASE DispReripped
  <2>1. /\ rerip' = "none" /\ resolution' = resolution /\ cancelled' = cancelled
        /\ stop' = stop \/ cancelled \/ fatal' # "none"
    BY <1>7 DEF DispReripped, SetFatal
  <2> QED  BY <1>0, <2>1 DEF ReasonInv
<1>8. CASE ReripRun
  <2>1. /\ rerip = "queued" /\ UNCHANGED <<dispPc, current, resolution, stop, cancelled, fatal>>
        /\ \/ rerip' = "ripped" \/ rerip' = "failed"
           \/ rerip' = "finished" /\ outcome' = [outcome EXCEPT ![current] = "failed"]
           \/ rerip' = "aborted" /\ cancelled
    BY <1>8 DEF ReripRun
  <2>2. dispPc = "reripWait" /\ current \in Item
    BY <1>1, <2>1 DEF ReasonInv
  <2>3. rerip' = "finished" => outcome'[current] # "none"
    BY <2>1, <2>2 DEF TypeOK
  <2> QED  BY <2>1, <2>2, <2>3 DEF ReasonInv
<1>9. CASE LaneTask
  <2>1. CASE \E i \in Item : UploadEnds(i) \/ PanicRecorded(i)
    BY <1>2, <2>1 DEF UploadEnds, PanicRecorded
  <2>2. CASE \E i \in Item : CachedEnds(i)
    <3>1. /\ UNCHANGED <<rerip, stop, dispPc, current, cancelled, fatal>>
          /\ resolution' = "cancelled" => resolution = "cancelled" \/ cancelled
      BY <2>2 DEF CachedEnds
    <3>2. dispPc = "reripWait" /\ outcome[current] # "none" => outcome'[current] # "none"
      BY <1>1, OutcomeStays
    <3> QED  BY <3>1, <3>2 DEF ReasonInv
  <2> QED  BY <1>9, <2>1, <2>2 DEF LaneTask
<1> QED  BY <1>3, <1>4, <1>5, <1>6, <1>7, <1>8, <1>9 DEF Next, Dispatcher

\* Cached items, after a step of anything.
LEMMA CachedStep ==
    ASSUME TypeOK, AheadInv, DispatchInv, LaneInv, CachedInv, ReasonInv, Next
    PROVE  CachedInv'
<1> USE DEF laneOneVars, dispVars, laneVars, finalVars
<1>0. SUFFICES ASSUME ~cancelled', fatal' = "none"
      PROVE  /\ \A i \in Item : Cached(i) \in Tasks' =>
                   i = current' /\ dispPc' = "cacheWait" /\ resolution' = "pending"
             /\ dispPc' = "cacheWait" /\ resolution' = "hit" => outcome'[current'] # "none"
  BY DEF CachedInv
<1>1. ~cancelled /\ fatal = "none"
  BY <1>0, Moves, OutcomeStays
<1>2. /\ \A i \in Item : Cached(i) \in Tasks =>
            i = current /\ dispPc = "cacheWait" /\ resolution = "pending"
      /\ dispPc = "cacheWait" /\ resolution = "hit" => outcome[current] # "none"
  BY <1>1 DEF CachedInv
<1>3. dispPc = "cacheWait" => current \in Item
  BY DEF DispatchInv, Busy
<1>4. \A i \in Item : \A j \in Item : Cached(i) # Upload(j) /\ (Cached(i) = Cached(j) => i = j)
  BY TaskKinds
<1>5. \A i : Cached(i) # Marker
  BY TaskKinds
<1>a. CASE UNCHANGED <<dispPc, current, resolution>> /\ Tasks' \subseteq Tasks \cup {Marker}
  <2>1. dispPc = "cacheWait" /\ outcome[current] # "none" => outcome'[current] # "none"
    BY <1>3, OutcomeStays
  <2> QED  BY <1>2, <1>5, <1>a, <2>1
<1>b. CASE \/ LaneOne \/ DispDrain \/ ReripRun \/ CancelJob \/ FinalLoad \/ FinalArm \/ FinalWake
           \/ \E k \in Item : PanicRecorded(k)
  <2>1. UNCHANGED <<dispPc, current, resolution, lane, running>>
    <3>1. CASE LaneOne
      BY <3>1 DEF LaneOne, LaneCheck, LaneRip, LanePanic, LaneSend, LaneFinish, LaneDied
    <3>2. CASE DispDrain \/ ReripRun \/ CancelJob
      BY <3>2 DEF DispDrain, ReripRun, CancelJob
    <3>3. CASE FinalLoad \/ FinalArm \/ FinalWake
      BY <3>3 DEF FinalLoad, FinalArm, FinalWake
    <3>4. CASE \E k \in Item : PanicRecorded(k)
      BY <3>4 DEF PanicRecorded
    <3> QED  BY <1>b, <3>1, <3>2, <3>3, <3>4
  <2> QED  BY <1>a, <2>1 DEF Tasks
<1>c. CASE LaneStart
  <2>1. UNCHANGED <<dispPc, current, resolution>> /\ Tasks' = Tasks
    BY <1>c, LaneTakes DEF LaneStart
  <2> QED  BY <1>a, <2>1
<1>d. CASE FinalBuild \/ FinalBuildFails
  <2>1. UNCHANGED <<dispPc, current, resolution, lane>> /\ running' \subseteq running
    BY <1>d DEF FinalBuild, FinalBuildFails
  <2> QED  BY <1>a, <2>1 DEF Tasks
<1>e. CASE DispNext \/ DispReripped
  <2>1. dispPc # "cacheWait" /\ dispPc' # "cacheWait" /\ UNCHANGED <<lane, running>>
    <3>1. CASE DispNext
      BY <3>1, DispNextDoes, NextIsBeyond
    <3>2. CASE DispReripped
      BY <3>2 DEF DispReripped
    <3> QED  BY <1>e, <3>1, <3>2
  <2>2. Tasks' = Tasks
    BY <2>1 DEF Tasks
  <2> QED  BY <1>2, <2>1, <2>2
<1>f. CASE DispPush \/ DispMarker
  <2>1. dispPc # "cacheWait" /\ dispPc' # "cacheWait"
    BY <1>f DEF DispPush, DispMarker
  <2>2. \A i \in Item : Cached(i) \in Tasks' => Cached(i) \in Tasks
    <3>1. CASE DispPush
      <4>1. current \in Item
        BY <3>1 DEF DispPush, DispatchInv, Busy
      <4> QED  BY <1>4, <3>1, <4>1, LaneStep
    <3>2. CASE DispMarker
      <4>1. lane' = lane \/ lane' = Append(lane, Marker)
        BY <3>2 DEF DispMarker
      <4>2. Elems(lane') \subseteq Elems(lane) \cup {Marker}
        <5>1. Marker \in Task /\ lane \in Seq(Task)
          BY Types, TaskKinds
        <5>2. CASE lane' = Append(lane, Marker)
          BY <5>1, <5>2, AppendElems
        <5> QED  BY <4>1, <5>2
      <4>3. running' = running
        BY <3>2 DEF DispMarker
      <4> QED  BY <1>5, <4>2, <4>3 DEF Tasks
    <3> QED  BY <1>f, <3>1, <3>2
  <2> QED  BY <1>2, <2>1, <2>2
<1>g. CASE DispPushCached
  <2>1. /\ dispPc = "pushCached" /\ current' = current /\ lane' = Append(lane, Cached(current))
        /\ resolution' = "pending" /\ dispPc' = "cacheWait" /\ running' = running
    BY <1>1, <1>g DEF DispPushCached
  <2>2. current \in Item
    BY <2>1 DEF DispatchInv, Busy
  <2>3. Cached(current) \in Task /\ lane \in Seq(Task)
    BY <2>2, Types, TaskKinds
  <2>4. Tasks' = Tasks \cup {Cached(current)}
    BY <2>1, <2>3, AppendElems DEF Tasks
  <2> QED  BY <1>2, <1>4, <2>1, <2>2, <2>4
<1>h. CASE DispCacheResolved
  <2>1. /\ dispPc = "cacheWait" /\ dispPc' # "cacheWait" /\ UNCHANGED <<lane, running>>
        /\ resolution # "pending"
    BY <1>0, <1>1, <1>h DEF DispCacheResolved, SetFatal
  <2>2. Tasks' = Tasks
    BY <2>1 DEF Tasks
  <2> QED  BY <1>2, <2>1, <2>2
<1>i. CASE \E k \in Item : UploadEnds(k)
  <2>1. UNCHANGED <<dispPc, current, resolution, lane>> /\ running' \subseteq running
    BY <1>i DEF UploadEnds
  <2> QED  BY <1>a, <2>1 DEF Tasks
<1>j. CASE \E k \in Item : CachedEnds(k)
  <2>1. PICK k \in Item : CachedEnds(k)
    BY <1>j
  <2>2. /\ Cached(k) \in running /\ running' = running \ {Cached(k)} /\ lane' = lane
        /\ UNCHANGED <<dispPc, current>>
        /\ resolution' = "hit" /\ dispPc = "cacheWait" => outcome' = [outcome EXCEPT ![k] = "hit"]
    BY <2>1 DEF CachedEnds
  <2>3. Cached(k) \in Tasks /\ Tasks' = Tasks \ {Cached(k)}
    BY <2>2 DEF Tasks, LaneInv
  <2>4. k = current
    BY <1>2, <2>1, <2>3
  <2>5. \A i \in Item : Cached(i) \notin Tasks'
    BY <1>2, <2>3, <2>4
  <2>6. dispPc = "cacheWait" /\ resolution' = "hit" => outcome'[k] = "hit"
    BY <2>1, <2>2 DEF TypeOK
  <2> QED  BY <2>2, <2>4, <2>5, <2>6
<1> QED  BY <1>b, <1>c, <1>d, <1>e, <1>f, <1>g, <1>h, <1>i, <1>j
         DEF Next, Dispatcher, LaneTask, Finalizer

\* No item is lost between two places.
LEMMA TrackedStep ==
    ASSUME TypeOK, AheadInv, DispatchInv, LaneInv, ReasonInv, CachedInv, Next,
           ~cancelled', fatal' = "none", NEW i \in Item, Tracked(i)
    PROVE  Tracked(i)'
<1> USE DEF laneOneVars, dispVars, laneVars, finalVars
<1>0. /\ ~cancelled /\ fatal = "none" /\ ~stop /\ resolution # "cancelled" /\ rerip # "aborted"
      /\ outcome[i] # "none" => outcome'[i] # "none"
  BY Moves, OutcomeStays DEF ReasonInv
<1>1. i # Finished /\ i \in Nat /\ cursor \in Nat
  BY Ranks, Types
<1>2. dispPc \in Busy => current \in Item
  BY DEF DispatchInv
<1>3. \/ outcome[i] # "none" \/ i >= cursor \/ i \in Elems(slots) \/ i \in Elems(buffered)
      \/ i = current /\ dispPc \in Busy
      \/ Upload(i) \in Tasks
  BY DEF Tracked
<1>a. CASE LaneOne
  <2>1. UNCHANGED <<dispPc, current, buffered, lane, running>>
    BY <1>a DEF LaneOne, LaneCheck, LaneRip, LanePanic, LaneSend, LaneFinish, LaneDied
  <2>2. Tasks' = Tasks
    BY <2>1 DEF Tasks
  <2>3. Elems(slots) \subseteq Elems(slots')
    <3>1. CASE slots' = slots
      BY <3>1
    <3>2. CASE LaneSend /\ slots' # slots
      <4>1. slots' = Append(slots, cursor) /\ lanePc = "send"
        BY <3>2 DEF LaneSend
      <4>2. cursor \in Item \cup {Finished} /\ slots \in Seq(Item \cup {Finished})
        BY <1>1, <4>1, Types DEF AheadInv, Item
      <4> QED  BY <4>1, <4>2, AppendElems
    <3>3. CASE LaneFinish
      <4>1. slots' = Append(slots, Finished)
        BY <3>3 DEF LaneFinish
      <4>2. Finished \in Item \cup {Finished} /\ slots \in Seq(Item \cup {Finished})
        BY Types
      <4> QED  BY <4>1, <4>2, AppendElems
    <3> QED  BY <1>a, <3>1, <3>2, <3>3 DEF LaneOne, LaneCheck, LaneRip, LanePanic, LaneDied
  <2>4. i >= cursor => i >= cursor' \/ outcome'[i] # "none" \/ i \in Elems(slots')
    <3>1. CASE cursor' = cursor
      BY <3>1
    <3>2. CASE LaneRip /\ cursor' # cursor
      <4>1. cursor' = cursor + 1 /\ outcome' = [outcome EXCEPT ![cursor] = "failed"]
        BY <3>2 DEF LaneRip
      <4>2. i = cursor => outcome'[i] # "none"
        BY <4>1 DEF TypeOK
      <4> QED  BY <1>1, <4>1, <4>2
    <3>3. CASE LaneSend /\ cursor' # cursor
      <4>1. cursor' = cursor + 1 /\ slots' = Append(slots, cursor) /\ lanePc = "send"
        BY <3>3 DEF LaneSend
      <4>2. cursor \in Item \cup {Finished} /\ slots \in Seq(Item \cup {Finished})
        BY <1>1, <4>1, Types DEF AheadInv, Item
      <4>3. cursor \in Elems(slots')
        BY <4>1, <4>2, AppendElems
      <4> QED  BY <1>1, <4>1, <4>3
    <3> QED  BY <1>a, <3>1, <3>2, <3>3 DEF LaneOne, LaneCheck, LanePanic, LaneFinish, LaneDied
  <2> QED  BY <1>0, <1>3, <2>1, <2>2, <2>3, <2>4 DEF Tracked
<1>b. CASE DispNext
  <2>1. UNCHANGED <<cursor, outcome, lane, running>> /\ dispPc = "next"
    BY <1>b, DispNextDoes
  <2>2. Tasks' = Tasks
    BY <2>1 DEF Tasks
  <2>3. \/ i \in Elems(slots) => i \in Elems(slots') \/ (i = current' /\ dispPc' \in Busy)
    <3>1. CASE slots' = slots
      BY <3>1
    <3>2. CASE slots # <<>> /\ slots' = Tail(slots)
      <4>1. Elems(slots) = {Head(slots)} \cup Elems(slots')
        BY <3>2, Types, TailElems
      <4>2. i = Head(slots) => (i = current' /\ dispPc' \in Busy) \/ slots' = slots
        BY <1>0, <1>1, <1>b, NextIsBeyond DEF Busy
      <4> QED  BY <4>1, <4>2
    <3> QED  BY <1>b, <3>1, <3>2, DispNextDoes
  <2>4. i \in Elems(buffered) => i \in Elems(buffered') \/ (i = current' /\ dispPc' \in Busy)
    <3>1. CASE buffered' = buffered
      BY <3>1
    <3>2. CASE buffered # <<>> /\ buffered' = Tail(buffered)
      <4>1. Elems(buffered) = {Head(buffered)} \cup Elems(buffered')
        BY <3>2, Types, TailElems
      <4>2. i = Head(buffered) => (i = current' /\ dispPc' \in Busy) \/ buffered' = buffered
        BY <1>0, <1>1, <1>b, NextIsBeyond DEF Busy
      <4> QED  BY <4>1, <4>2
    <3> QED  BY <1>b, <3>1, <3>2, DispNextDoes
  <2>5. dispPc \notin Busy
    BY <2>1 DEF Busy
  <2> QED  BY <1>3, <2>1, <2>2, <2>3, <2>4, <2>5 DEF Tracked
<1>c. CASE DispPush
  <2>1. UNCHANGED <<cursor, outcome, slots, buffered>>
    BY <1>c DEF DispPush
  <2>2. Tasks' = Tasks \cup {Upload(current)}
    BY <1>0, <1>c, LaneStep
  <2> QED  BY <1>3, <2>1, <2>2 DEF Tracked
<1>d. CASE DispPushCached
  <2>1. UNCHANGED <<cursor, outcome, slots, buffered, current, running>> /\ dispPc' = "cacheWait"
        /\ lane' = Append(lane, Cached(current)) /\ dispPc = "pushCached"
    BY <1>0, <1>d DEF DispPushCached
  <2>2. Cached(current) \in Task /\ lane \in Seq(Task)
    BY <1>2, <2>1, Types, TaskKinds DEF Busy
  <2>3. Tasks \subseteq Tasks'
    BY <2>1, <2>2, AppendElems DEF Tasks
  <2> QED  BY <1>3, <2>1, <2>3 DEF Tracked, Busy
<1>e. CASE DispDrain
  <2>1. /\ UNCHANGED <<cursor, outcome, current, dispPc, lane, running>>
        /\ slots # <<>> /\ slots' = Tail(slots)
        /\ \/ Head(slots) = Finished /\ buffered' = buffered
           \/ Head(slots) \in Item /\ buffered' = Append(buffered, Head(slots))
    BY <1>e, DrainDoes
  <2>2. Elems(slots) = {Head(slots)} \cup Elems(slots')
    BY <2>1, Types, TailElems
  <2>3. Head(slots) \in Item /\ buffered' = Append(buffered, Head(slots)) =>
           Elems(buffered') = Elems(buffered) \cup {Head(slots)}
    <3> SUFFICES ASSUME Head(slots) \in Item, buffered' = Append(buffered, Head(slots))
                 PROVE  Elems(buffered') = Elems(buffered) \cup {Head(slots)}
      OBVIOUS
    <3>1. buffered \in Seq(Item)
      BY Types
    <3> QED  BY <3>1, AppendElems
  <2>4. /\ i \in Elems(buffered) => i \in Elems(buffered')
        /\ i \in Elems(slots) => i \in Elems(slots') \cup Elems(buffered')
    BY <1>1, <2>1, <2>2, <2>3
  <2>5. Tasks' = Tasks
    BY <2>1 DEF Tasks
  <2> QED  BY <1>3, <2>1, <2>4, <2>5 DEF Tracked
<1>f. CASE DispCacheResolved
  <2>1. /\ UNCHANGED <<cursor, outcome, slots, buffered, current, lane, running>>
        /\ dispPc = "cacheWait" /\ (dispPc' = "reripWait" \/ resolution = "hit")
    BY <1>0, <1>f DEF DispCacheResolved, SetFatal
  <2>2. resolution = "hit" => outcome[current] # "none"
    BY <1>0, <2>1 DEF CachedInv
  <2>3. Tasks' = Tasks
    BY <2>1 DEF Tasks
  <2> QED  BY <1>3, <2>1, <2>2, <2>3 DEF Tracked, Busy
<1>g. CASE DispReripped
  <2>1. /\ UNCHANGED <<cursor, outcome, slots, buffered, current, lane, running>>
        /\ dispPc = "reripWait" /\ (dispPc' = "push" \/ rerip = "finished")
    BY <1>0, <1>g DEF DispReripped, SetFatal
  <2>2. rerip = "finished" => outcome[current] # "none"
    BY DEF ReasonInv
  <2>3. Tasks' = Tasks
    BY <2>1 DEF Tasks
  <2> QED  BY <1>3, <2>1, <2>2, <2>3 DEF Tracked, Busy
<1>h. CASE DispMarker
  <2>1. /\ UNCHANGED <<cursor, outcome, slots, buffered, current, running>>
        /\ dispPc = "marker" /\ (lane' = lane \/ lane' = Append(lane, Marker))
    BY <1>h DEF DispMarker
  <2>2. Marker \in Task /\ lane \in Seq(Task)
    BY Types, TaskKinds
  <2>3. Tasks \subseteq Tasks'
    <3>1. CASE lane' = Append(lane, Marker)
      BY <2>1, <2>2, <3>1, AppendElems DEF Tasks
    <3> QED  BY <2>1, <3>1 DEF Tasks
  <2> QED  BY <1>3, <2>1, <2>3 DEF Tracked, Busy
<1>i. CASE \/ ReripRun \/ CancelJob \/ FinalLoad \/ FinalArm \/ FinalWake
           \/ \E k \in Item : PanicRecorded(k)
  <2>1. UNCHANGED <<cursor, slots, buffered, current, dispPc, lane, running>>
    <3>1. CASE ReripRun \/ CancelJob
      BY <3>1 DEF ReripRun, CancelJob
    <3>2. CASE FinalLoad \/ FinalArm \/ FinalWake
      BY <3>2 DEF FinalLoad, FinalArm, FinalWake
    <3>3. CASE \E k \in Item : PanicRecorded(k)
      BY <3>3 DEF PanicRecorded
    <3> QED  BY <1>i, <3>1, <3>2, <3>3
  <2>2. Tasks' = Tasks
    BY <2>1 DEF Tasks
  <2> QED  BY <1>0, <1>3, <2>1, <2>2 DEF Tracked
<1>j. CASE LaneStart
  <2>1. UNCHANGED <<cursor, slots, buffered, current, dispPc>>
    BY <1>j DEF LaneStart
  <2>2. Tasks' = Tasks
    BY <1>j, LaneTakes
  <2> QED  BY <1>0, <1>3, <2>1, <2>2 DEF Tracked
<1>k. CASE \E k \in Item : UploadEnds(k)
  <2>1. PICK k \in Item : UploadEnds(k)
    BY <1>k
  <2>2. /\ UNCHANGED <<cursor, slots, buffered, current, dispPc, lane>>
        /\ running' = running \ {Upload(k)}
        /\ \E how \in {"uploaded", "failed", "panicked"} : outcome' = [outcome EXCEPT ![k] = how]
    BY <1>0, <2>1 DEF UploadEnds
  <2>3. i = k => outcome'[i] # "none"
    BY <2>1, <2>2 DEF TypeOK
  <2>4. i # k /\ Upload(i) \in Tasks => Upload(i) \in Tasks'
    BY <2>2, TaskKinds DEF Tasks
  <2> QED  BY <1>0, <1>3, <2>2, <2>3, <2>4 DEF Tracked
<1>l. CASE FinalBuild \/ FinalBuildFails \/ \E k \in Item : CachedEnds(k)
  <2>1. /\ UNCHANGED <<cursor, slots, buffered, current, dispPc, lane>>
        /\ \/ running' = running \ {Marker}
           \/ \E k \in Item : running' = running \ {Cached(k)}
    BY <1>l DEF FinalBuild, FinalBuildFails, CachedEnds
  <2>2. Upload(i) \in Tasks => Upload(i) \in Tasks'
    BY <2>1, TaskKinds DEF Tasks
  <2> QED  BY <1>0, <1>3, <2>1, <2>2 DEF Tracked
<1> QED  BY <1>a, <1>b, <1>c, <1>d, <1>e, <1>f, <1>g, <1>h, <1>i, <1>j, <1>k, <1>l
         DEF Next, Dispatcher, LaneTask, Finalizer

\* When the finalizer builds the result, nothing is anywhere any more.
LEMMA BuildIsLast ==
    ASSUME TypeOK, AheadInv, DispatchInv, LaneInv, CountInv, AllTracked,
           finalPc = "build", ~cancelled, fatal = "none"
    PROVE  \A i \in Item : outcome[i] # "none"
<1>1. lane = <<>> /\ dispPc = "done" /\ finished /\ Live = {}
  BY DEF LaneInv, CountInv
<1>2. buffered = <<>> /\ slots = <<>> /\ lanePc = "done" /\ cursor > ItemCount
  BY <1>1 DEF DispatchInv, AheadInv
<1>3. Elems(slots) = {} /\ Elems(buffered) = {}
  BY <1>2, Types, ElemsOf
<1> SUFFICES ASSUME NEW i \in Item PROVE outcome[i] # "none"
  OBVIOUS
<1>4. ~(i >= cursor)
  BY <1>2, Types, Ranks
<1>5. Upload(i) \notin Tasks
  BY <1>1, LiveIs
<1> QED  BY <1>1, <1>3, <1>4, <1>5 DEF AllTracked, Tracked, Busy

\* The summary is complete: FinalBuild sees an outcome for every item.
LEMMA SummaryStep ==
    ASSUME TypeOK, AheadInv, DispatchInv, LaneInv, CountInv, AllTracked, Covered, Next
    PROVE  Covered'
<1> USE DEF laneOneVars, dispVars, laneVars, finalVars
<1> SUFFICES ASSUME summary' = "ok", ~cancelled' PROVE \A i \in Item : outcome'[i] # "none"
  BY DEF Covered
<1>1. ~cancelled
  BY Moves
<1>2. CASE summary = "ok"
  BY <1>1, <1>2, OutcomeStays DEF Covered
<1>3. CASE summary # "ok"
  <2>1. FinalBuild /\ fatal = "none"
    <3>1. CASE LaneOne
      BY <1>3, <3>1 DEF LaneOne, LaneCheck, LaneRip, LanePanic, LaneSend, LaneFinish, LaneDied
    <3>2. CASE DispNext
      BY <1>3, <3>2, DispNextDoes
    <3>3. CASE DispPush \/ DispPushCached \/ DispCacheResolved \/ DispReripped \/ DispMarker
      BY <1>3, <3>3 DEF DispPush, DispPushCached, DispCacheResolved, DispReripped, DispMarker
    <3>4. CASE DispDrain \/ ReripRun \/ LaneStart \/ LaneTask \/ CancelJob
      BY <1>3, <3>4 DEF DispDrain, ReripRun, LaneStart, LaneTask, UploadEnds, PanicRecorded, CachedEnds, CancelJob
    <3>5. CASE Finalizer
      BY <1>3, <3>5 DEF Finalizer, FinalLoad, FinalArm, FinalWake, FinalBuild, FinalBuildFails
    <3> QED  BY <3>1, <3>2, <3>3, <3>4, <3>5 DEF Next, Dispatcher
  <2>2. finalPc = "build"
    BY <2>1 DEF FinalBuild
  <2> QED  BY <1>1, <2>1, <2>2, BuildIsLast, OutcomeStays
<1> QED  BY <1>2, <1>3

\* Every step keeps account of every item.
LEMMA AccountStep ==
    ASSUME TypeOK, AheadInv, DispatchInv, LaneInv, CountInv, AccountInv, Next
    PROVE  AccountInv'
<1>0. ReasonInv /\ CachedInv /\ AllTracked /\ Covered
  BY DEF AccountInv
<1>1. ReasonInv' /\ CachedInv' /\ Covered'
  BY <1>0, ReasonStep, CachedStep, SummaryStep
<1>2. AllTracked'
  <2> SUFFICES ASSUME ~cancelled', fatal' = "none", NEW i \in Item PROVE Tracked(i)'
    BY DEF AllTracked
  <2>1. ~cancelled /\ fatal = "none"
    BY Moves, OutcomeStays
  <2>2. Tracked(i)
    BY <1>0, <2>1 DEF AllTracked
  <2> QED  BY <1>0, <2>2, TrackedStep
<1> QED  BY <1>1, <1>2 DEF AccountInv

\* A serial lane has one task at a time, and records its panic first.
LEMMA SerialStep ==
    ASSUME TypeOK, DispatchInv, LaneInv, SerialInv, Next
    PROVE  SerialInv'
<1> USE DEF laneOneVars, dispVars, laneVars, finalVars
<1>0. DOMAIN outcome = Item
  BY DEF TypeOK
<1>1. CASE /\ running' \subseteq running /\ Unwound' \subseteq Unwound
           /\ finalPc' = "none" <=> finalPc = "none"
           /\ summary' = "ok" => summary = "ok" \/ finalPc # "none"
  BY <1>1 DEF SerialInv
<1>2. \A i : outcome' = outcome \/ outcome' = [outcome EXCEPT ![i] = "failed"]
             \/ outcome' = [outcome EXCEPT ![i] = "hit"] => Unwound' \subseteq Unwound
  BY <1>0 DEF Unwound
<1>3. CASE LaneOne
  <2>1. /\ UNCHANGED <<running, finalPc, summary>>
        /\ outcome' = outcome \/ outcome' = [outcome EXCEPT ![cursor] = "failed"]
    BY <1>3 DEF LaneOne, LaneCheck, LaneRip, LanePanic, LaneSend, LaneFinish, LaneDied
  <2> QED  BY <1>1, <1>2, <2>1
<1>4. CASE DispNext
  <2>1. UNCHANGED <<running, finalPc, summary, outcome>>
    BY <1>4, DispNextDoes
  <2> QED  BY <1>1, <1>2, <2>1
<1>5. CASE \/ DispPush \/ DispPushCached \/ DispMarker \/ DispCacheResolved \/ DispReripped
           \/ DispDrain \/ CancelJob
  <2>1. UNCHANGED <<running, finalPc, outcome>> /\ (summary' = "ok" => summary = "ok")
    BY <1>5 DEF DispPush, DispPushCached, DispMarker, DispCacheResolved, DispReripped, DispDrain,
                CancelJob
  <2> QED  BY <1>1, <1>2, <2>1
<1>6. CASE ReripRun
  <2>1. /\ UNCHANGED <<running, finalPc, summary>>
        /\ outcome' = outcome \/ outcome' = [outcome EXCEPT ![current] = "failed"]
    BY <1>6 DEF ReripRun
  <2> QED  BY <1>1, <1>2, <2>1
<1>7. CASE LaneStart
  <2>1. /\ lane # <<>> /\ running' = running \cup {Head(lane)} /\ UNCHANGED <<summary, outcome>>
        /\ finalPc' = IF Head(lane) = Marker THEN "load" ELSE finalPc
        /\ Concurrency = 1 => running = {} /\ Unwound = {}
    BY <1>7 DEF LaneStart
  <2>2. finalPc = "none"
    BY <2>1 DEF LaneInv
  <2>3. Unwound' = Unwound
    BY <2>1 DEF Unwound
  <2> QED  BY <2>1, <2>2, <2>3 DEF SerialInv
<1>8. CASE \E i \in Item : UploadEnds(i)
  <2>1. PICK i \in Item : UploadEnds(i)
    BY <1>8
  <2>2. /\ Upload(i) \in running /\ running' = running \ {Upload(i)} /\ UNCHANGED <<finalPc, summary>>
    BY <2>1 DEF UploadEnds
  <2>3. Concurrency = 1 => running' = {} /\ finalPc = "none"
    BY <2>2, TaskKinds DEF SerialInv
  <2> QED  BY <2>2, <2>3 DEF SerialInv
<1>9. CASE \E i \in Item : PanicRecorded(i)
  <2>1. /\ UNCHANGED <<running, finalPc, summary>>
        /\ \E i \in Item : outcome' = [outcome EXCEPT ![i] = "failed"]
    BY <1>9 DEF PanicRecorded
  <2> QED  BY <1>1, <1>2, <2>1
<1>10. CASE \E i \in Item : CachedEnds(i)
  <2>1. /\ running' \subseteq running /\ UNCHANGED <<finalPc, summary>>
        /\ \E i \in Item : outcome' = outcome \/ outcome' = [outcome EXCEPT ![i] = "hit"]
    BY <1>10 DEF CachedEnds
  <2> QED  BY <1>1, <1>2, <2>1
<1>11. CASE Finalizer
  <2>1. /\ running' \subseteq running /\ outcome' = outcome /\ finalPc # "none" /\ finalPc' # "none"
    BY <1>11 DEF Finalizer, FinalLoad, FinalArm, FinalWake, FinalBuild, FinalBuildFails
  <2> QED  BY <1>1, <1>2, <2>1
<1> QED  BY <1>3, <1>4, <1>5, <1>6, <1>7, <1>8, <1>9, <1>10, <1>11 DEF Next, Dispatcher, LaneTask

-----------------------------------------------------------------------------
(* Types. *)

\* Every step keeps the types; the counter's follows from what it counts.
LEMMA TypeStep ==
    ASSUME TypeOK, AheadInv, DispatchInv, LaneInv, CountInv, ReasonInv, Next
    PROVE  TypeOK'
<1> USE DEF laneOneVars, dispVars, laneVars, finalVars
<1>0. pendingUploads' \in 0 .. ItemCount
  <2>1. pendingUploads' = Cardinality(Live') /\ Live' \in SUBSET Item
    BY CountStep, LiveIs DEF CountInv
  <2> QED  BY <2>1, ItemSets
<1>1. /\ slots \in Seq(Item \cup {Finished}) /\ buffered \in Seq(Item)
      /\ lane \in Seq(Task) /\ dispatched \in Seq(Item)
      /\ cursor \in Nat /\ cursor >= 1 /\ ItemCount \in Nat
  BY Types
<1>2. dispPc \in Busy => current \in Item
  BY DEF DispatchInv
<1>3. /\ Marker \in Task /\ (current \in Item => Upload(current) \in Task /\ Cached(current) \in Task)
  BY TaskKinds
<1>4. outcome \in [Item -> {"none", "hit", "uploaded", "panicked", "failed"}]
  BY DEF TypeOK
<1>5. \A r \in {"hit", "uploaded", "failed"} : \A i :
         [outcome EXCEPT ![i] = r] \in [Item -> {"none", "hit", "uploaded", "panicked", "failed"}]
  BY <1>4
<1>6. fatal \in {"none", "buffer", "other"}
  BY DEF TypeOK
<1>a. CASE LaneOne
  <2>1. /\ UNCHANGED <<cancelled, dispPc, current, buffered, finished, stop, resolution, rerip,
                       lane, running, pendingUploads, finalPc, woken, summary, fatal, dispatched>>
        /\ workspace' \in BOOLEAN
    BY <1>a DEF LaneOne, LaneCheck, LaneRip, LanePanic, LaneSend, LaneFinish, LaneDied, TypeOK
  <2>2. lanePc' \in {"check", "rip", "send", "finish", "done", "dead"}
    BY <1>a DEF LaneOne, LaneCheck, LaneRip, LanePanic, LaneSend, LaneFinish, LaneDied, TypeOK
  <2>3. cursor' \in 1 .. ItemCount + 1
    <3>1. cursor' = cursor \/ (cursor' = cursor + 1 /\ lanePc \in {"rip", "send"})
      BY <1>a DEF LaneOne, LaneCheck, LaneRip, LanePanic, LaneSend, LaneFinish, LaneDied
    <3>2. lanePc \in {"rip", "send"} => cursor <= ItemCount
      BY DEF AheadInv
    <3>3. cursor \in 1 .. ItemCount + 1
      BY DEF TypeOK
    <3> QED  BY <1>1, <3>1, <3>2, <3>3
  <2>4. slots' \in Seq(Item \cup {Finished})
    <3>1. \/ slots' = slots \/ slots' = Append(slots, Finished)
          \/ slots' = Append(slots, cursor) /\ lanePc = "send"
      BY <1>a DEF LaneOne, LaneCheck, LaneRip, LanePanic, LaneSend, LaneFinish, LaneDied
    <3>2. lanePc = "send" => cursor \in Item \cup {Finished}
      BY <1>1 DEF AheadInv, Item
    <3>3. Finished \in Item \cup {Finished}
      OBVIOUS
    <3>4. CASE lanePc = "send"
      <4>1. cursor \in Item \cup {Finished}
        BY <3>2, <3>4
      <4>2. slots' = slots \/ slots' = Append(slots, cursor)
        BY <1>a, <3>4 DEF LaneOne, LaneCheck, LaneRip, LanePanic, LaneSend, LaneFinish, LaneDied
      <4> QED  BY <1>1, <4>1, <4>2, SeqGrows
    <3>5. CASE lanePc # "send"
      <4>1. slots' = slots \/ slots' = Append(slots, Finished)
        BY <3>1, <3>5
      <4> QED  BY <1>1, <3>3, <4>1, SeqGrows
    <3> QED  BY <3>4, <3>5
  <2>5. outcome' \in [Item -> {"none", "hit", "uploaded", "panicked", "failed"}]
    BY <1>4, <1>5, <1>a DEF LaneOne, LaneCheck, LaneRip, LanePanic, LaneSend, LaneFinish, LaneDied
  <2> QED  BY <2>1, <2>2, <2>3, <2>4, <2>5 DEF TypeOK
<1>b. CASE DispNext
  <2>1. UNCHANGED <<cancelled, lanePc, cursor, resolution, rerip, lane, running, finalPc,
                    woken, workspace, summary, outcome, fatal, dispatched>>
    BY <1>b, DispNextDoes
  <2>2. slots' \in Seq(Item \cup {Finished}) /\ buffered' \in Seq(Item)
    BY <1>1, <1>b, DispNextDoes, TailElems
  <2>3. /\ current' \in Item \cup {0}
        /\ dispPc' \in {"next", "push", "pushCached", "cacheWait", "reripWait", "marker", "done"}
    BY <1>b, NextIsBeyond DEF TypeOK
  <2>4. finished' \in BOOLEAN /\ stop' \in BOOLEAN
    BY <1>b, DispNextDoes, Accepts DEF TypeOK
  <2> QED  BY <1>0, <2>1, <2>2, <2>3, <2>4 DEF TypeOK
<1>c. CASE DispPush
  <2>1. dispPc = "push" /\ current \in Item
    BY <1>2, <1>c DEF DispPush, Busy
  <2>2. lane' \in Seq(Task) /\ dispatched' \in Seq(Item)
    <3>1. /\ lane' = lane \/ lane' = Append(lane, Upload(current))
          /\ dispatched' = dispatched \/ dispatched' = Append(dispatched, current)
      BY <1>c DEF DispPush
    <3>2. Upload(current) \in Task
      BY <1>3, <2>1
    <3>3. lane' \in Seq(Task)
      BY <1>1, <3>1, <3>2, SeqGrows
    <3>4. dispatched' \in Seq(Item)
      BY <1>1, <2>1, <3>1, SeqGrows
    <3> QED  BY <3>3, <3>4
  <2>3. woken' \in BOOLEAN /\ stop' \in BOOLEAN
    BY <1>c DEF DispPush, TypeOK
  <2> QED  BY <1>0, <1>c, <2>2, <2>3 DEF DispPush, TypeOK
<1>d. CASE DispPushCached
  <2>1. dispPc = "pushCached" /\ current \in Item
    BY <1>2, <1>d DEF DispPushCached, Busy
  <2>2. lane' \in Seq(Task) /\ dispatched' \in Seq(Item)
    <3>1. /\ lane' = lane \/ lane' = Append(lane, Cached(current))
          /\ dispatched' = dispatched \/ dispatched' = Append(dispatched, current)
      BY <1>d DEF DispPushCached
    <3>2. Cached(current) \in Task
      BY <1>3, <2>1
    <3>3. lane' \in Seq(Task)
      BY <1>1, <3>1, <3>2, SeqGrows
    <3>4. dispatched' \in Seq(Item)
      BY <1>1, <2>1, <3>1, SeqGrows
    <3> QED  BY <3>3, <3>4
  <2>3. resolution' \in {"none", "pending", "hit", "rerip", "cancelled", "failed"}
        /\ stop' \in BOOLEAN
    BY <1>d DEF DispPushCached, TypeOK
  <2> QED  BY <1>d, <2>2, <2>3 DEF DispPushCached, TypeOK
<1>e. CASE DispDrain
  <2>1. slots' \in Seq(Item \cup {Finished})
    BY <1>1, <1>e, DrainDoes, TailElems
  <2>2. buffered' \in Seq(Item) /\ finished' \in BOOLEAN
    <3>1. CASE Head(slots) \in Item
      <4>1. buffered' = buffered \/ buffered' = Append(buffered, Head(slots))
        BY <1>e, DrainDoes
      <4>2. buffered' \in Seq(Item)
        BY <1>1, <3>1, <4>1, SeqGrows
      <4> QED  BY <1>e, <4>2, DrainDoes DEF TypeOK
    <3>2. CASE Head(slots) \notin Item
      BY <1>1, <1>e, <3>2, DrainDoes DEF TypeOK
    <3> QED  BY <3>1, <3>2
  <2>3. UNCHANGED <<cancelled, lanePc, cursor, dispPc, current, stop, resolution, rerip,
                    lane, running, pendingUploads, finalPc, woken, workspace, summary,
                    outcome, fatal, dispatched>>
    BY <1>e, DrainDoes
  <2> QED  BY <2>1, <2>2, <2>3 DEF TypeOK
<1>f. CASE DispCacheResolved
  <2>1. stop' \in BOOLEAN /\ fatal' \in {"none", "buffer", "other"}
    BY <1>6, <1>f DEF DispCacheResolved, SetFatal, TypeOK
  <2>2. rerip' \in {"none", "queued", "ripped", "finished", "aborted", "failed"}
    BY <1>f DEF DispCacheResolved, TypeOK
  <2> QED  BY <1>f, <2>1, <2>2 DEF DispCacheResolved, TypeOK
<1>g. CASE DispReripped
  <2>1. stop' \in BOOLEAN /\ fatal' \in {"none", "buffer", "other"}
    BY <1>6, <1>g DEF DispReripped, SetFatal, TypeOK
  <2>2. dispPc' \in {"push", "next"} /\ rerip' = "none"
    BY <1>g DEF DispReripped
  <2>3. UNCHANGED <<cancelled, laneOneVars, slots, current, buffered, finished, resolution,
                    laneVars, finalVars, outcome, dispatched>>
    BY <1>g DEF DispReripped
  <2> QED  BY <1>0, <2>1, <2>2, <2>3 DEF TypeOK
<1>h. CASE DispMarker
  <2>1. lane' \in Seq(Task)
    <3>1. lane' = lane \/ lane' = Append(lane, Marker)
      BY <1>h DEF DispMarker
    <3> QED  BY <1>1, <1>3, <3>1, SeqGrows
  <2>2. workspace' \in BOOLEAN /\ summary' \in {"none", "ok", "err"}
    BY <1>h DEF DispMarker, TypeOK
  <2> QED  BY <1>h, <2>1, <2>2 DEF DispMarker, TypeOK
<1>i. CASE ReripRun
  <2>1. outcome' \in [Item -> {"none", "hit", "uploaded", "panicked", "failed"}]
    BY <1>4, <1>5, <1>i DEF ReripRun
  <2>2. rerip' \in {"none", "queued", "ripped", "finished", "aborted", "failed"}
    BY <1>i DEF ReripRun
  <2> QED  BY <1>i, <2>1, <2>2 DEF ReripRun, TypeOK
<1>j. CASE LaneStart
  <2>1. lane # <<>> /\ lane' = Tail(lane) /\ running' = running \cup {Head(lane)}
    BY <1>j DEF LaneStart
  <2>2. lane' \in Seq(Task) /\ Head(lane) \in Task
    BY <1>1, <2>1, TailElems
  <2>3. running' \subseteq Task
    BY <2>1, <2>2 DEF TypeOK
  <2>4. finalPc' \in {"none", "load", "arm", "wait", "build", "done"}
    BY <1>j DEF LaneStart, TypeOK
  <2> QED  BY <1>j, <2>2, <2>3, <2>4 DEF LaneStart, TypeOK
<1>k. CASE \E k \in Item : UploadEnds(k)
  <2>1. outcome' \in [Item -> {"none", "hit", "uploaded", "panicked", "failed"}]
    BY <1>4, <1>5, <1>k DEF UploadEnds
  <2>2. running' \subseteq Task /\ woken' \in BOOLEAN
    BY <1>k DEF UploadEnds, TypeOK
  <2> QED  BY <1>0, <1>k, <2>1, <2>2 DEF UploadEnds, TypeOK
<1>o. CASE \E k \in Item : PanicRecorded(k)
  <2>1. outcome' \in [Item -> {"none", "hit", "uploaded", "panicked", "failed"}]
    BY <1>4, <1>5, <1>o DEF PanicRecorded
  <2>2. fatal' \in {"none", "buffer", "other"}
    BY <1>6, <1>o DEF PanicRecorded, SetFatal
  <2> QED  BY <1>o, <2>1, <2>2 DEF PanicRecorded, TypeOK
<1>l. CASE \E k \in Item : CachedEnds(k)
  <2>1. outcome' \in [Item -> {"none", "hit", "uploaded", "panicked", "failed"}]
    BY <1>4, <1>5, <1>l DEF CachedEnds
  <2>2. resolution' \in {"none", "pending", "hit", "rerip", "cancelled", "failed"}
    BY <1>l DEF CachedEnds, TypeOK
  <2>3. running' \subseteq Task
    BY <1>l DEF CachedEnds, TypeOK
  <2> QED  BY <1>l, <2>1, <2>2, <2>3 DEF CachedEnds, TypeOK
<1>m. CASE Finalizer
  <2>1. finalPc' \in {"none", "load", "arm", "wait", "build", "done"} /\ woken' \in BOOLEAN
    BY <1>m DEF Finalizer, FinalLoad, FinalArm, FinalWake, FinalBuild, FinalBuildFails, TypeOK
  <2>2. /\ workspace' \in BOOLEAN /\ summary' \in {"none", "ok", "err"}
        /\ running' \subseteq Task
    BY <1>m DEF Finalizer, FinalLoad, FinalArm, FinalWake, FinalBuild, FinalBuildFails, TypeOK
  <2>3. UNCHANGED <<cancelled, laneOneVars, slots, dispVars, resolution, rerip, lane,
                    pendingUploads, outcome, fatal, dispatched>>
    BY <1>m DEF Finalizer, FinalLoad, FinalArm, FinalWake, FinalBuild, FinalBuildFails
  <2> QED  BY <2>1, <2>2, <2>3 DEF TypeOK
<1>n. CASE CancelJob
  BY <1>n DEF CancelJob, TypeOK
<1> QED  BY <1>a, <1>b, <1>c, <1>d, <1>e, <1>f, <1>g, <1>h, <1>i, <1>j, <1>k, <1>l, <1>m, <1>n,
            <1>o
         DEF Next, Dispatcher, LaneTask

-----------------------------------------------------------------------------
(* The invariant. *)

\* A job that has just been started.
LEMMA PipeInit == Init => PipeInv
<1> SUFFICES ASSUME Init PROVE PipeInv
  OBVIOUS
<1>0. ItemCount \in Nat /\ \A S : <<>> \in Seq(S)
  BY PipelineAssumption, EmptySeq
<1>1. TypeOK
  <2>1. <<>> \in Seq(Item) /\ <<>> \in Seq(Item \cup {Finished}) /\ <<>> \in Seq(Task)
    BY <1>0
  <2>2. 1 \in 1 .. ItemCount + 1 /\ 0 \in 0 .. ItemCount
    BY <1>0
  <2>3. [i \in Item |-> "none"] \in [Item -> {"none", "hit", "uploaded", "panicked", "failed"}]
    OBVIOUS
  <2> QED  BY <2>1, <2>2, <2>3 DEF Init, TypeOK
<1>2. Elems(<<>>) = {} /\ Len(<<>>) = 0 /\ \A n \in 1 .. Len(<<>>) : FALSE
  <2>1. <<>> \in Seq(Item)
    BY <1>0
  <2>2. Elems(<<>>) = {} /\ Len(<<>>) = 0
    BY <2>1, ElemsOf
  <2> QED  BY <2>2
<1>3. AheadInv
  BY <1>0, <1>2 DEF Init, AheadInv, Ordered
<1>4. DispatchInv
  BY <1>2 DEF Init, DispatchInv, Busy, LaneInItemOrder, BufferSuffices
<1>5. Tasks = {}
  BY <1>2 DEF Init, Tasks
<1>6. LaneInv
  BY <1>2, <1>5 DEF Init, LaneInv, Distinct
<1>7. CountInv
  <2>1. Live = {}
    BY <1>5 DEF Live, Init
  <2>2. Cardinality({}) = 0
    BY FS_EmptySet
  <2> QED  BY <2>1, <2>2 DEF Init, CountInv
<1>8. ReasonInv /\ CachedInv /\ Covered
  BY <1>5 DEF Init, ReasonInv, CachedInv, Covered
<1>9. AllTracked
  <2>1. \A i \in Item : i >= cursor
    BY Ranks DEF Init
  <2> QED  BY <2>1 DEF AllTracked, Tracked
<1>10. SerialInv
  BY DEF Init, SerialInv, Unwound
<1> QED  BY <1>1, <1>3, <1>4, <1>6, <1>7, <1>8, <1>9, <1>10 DEF PipeInv, AccountInv

\* A step that changes nothing keeps the invariant.
LEMMA PipeStutter ==
    ASSUME PipeInv, UNCHANGED vars
    PROVE  PipeInv'
<1> USE DEF vars, laneOneVars, dispVars, laneVars, finalVars
<1>1. TypeOK'
  BY DEF PipeInv, TypeOK
<1>2. AheadInv'
  BY AheadKept DEF PipeInv
<1>3. DispatchInv'
  BY DEF PipeInv, DispatchInv, LaneInItemOrder, BufferSuffices
<1>4. LaneInv'
  BY DEF PipeInv, LaneInv, TaskAt, Tasks
<1>5. CountInv'
  BY DEF PipeInv, CountInv, Live, Tasks
<1>6. ReasonInv' /\ CachedInv' /\ Covered'
  BY DEF PipeInv, AccountInv, ReasonInv, CachedInv, Covered, Tasks
<1>7. AllTracked'
  BY DEF PipeInv, AccountInv, AllTracked, Tracked, Tasks
<1>8. SerialInv'
  BY DEF PipeInv, SerialInv, Unwound
<1> QED  BY <1>1, <1>2, <1>3, <1>4, <1>5, <1>6, <1>7, <1>8 DEF PipeInv, AccountInv

\* For any number of items and any lane, PipeInv holds of the pipeline of a job
\* (run_lane_one, run_ordered_dispatch, ensure_upload_lane, finalize_job).
THEOREM PipelineInvariant == Spec => []PipeInv
<1>1. Init => PipeInv
  BY PipeInit
<1>2. PipeInv /\ [Next]_vars => PipeInv'
  <2> SUFFICES ASSUME PipeInv, [Next]_vars PROVE PipeInv'
    OBVIOUS
  <2>1. CASE Next
    <3>1. TypeOK /\ AheadInv /\ DispatchInv /\ LaneInv /\ CountInv /\ AccountInv /\ ReasonInv
         /\ SerialInv
      BY DEF PipeInv, AccountInv
    <3>2. TypeOK' /\ AheadInv' /\ DispatchInv'
      BY <2>1, <3>1, TypeStep, AheadStep, DispatchStep
    <3>3. LaneInv' /\ CountInv' /\ AccountInv'
      BY <2>1, <3>1, LaneStep, CountStep, AccountStep
    <3>4. SerialInv'
      BY <2>1, <3>1, SerialStep
    <3> QED  BY <3>2, <3>3, <3>4 DEF PipeInv
  <2>2. CASE UNCHANGED vars
    BY <2>2, PipeStutter
  <2> QED  BY <2>1, <2>2
<1> QED  BY <1>1, <1>2, PTL DEF Spec

\* For any number of items and any capacities: items enter the upload lane in
\* item order, the dispatcher's buffer never overflows, and the counter of
\* pending uploads stays within the items (run_ordered_dispatch).
THEOREM LanesSoundAlways == Spec => []LanesSound
<1>1. PipeInv => LanesSound
  BY DEF PipeInv, LanesSound, DispatchInv
<1> QED  BY <1>1, PipelineInvariant, PTL

\* For any number of items, a summary that reports success of a job that was
\* not cancelled covers every item, but for one whose upload panicked in a lane
\* of more than one upload (finalize_job, PendingUploadGuard).
THEOREM SummaryIsCompleteAlways == Spec => []SummaryIsComplete
<1>1. PipeInv => SummaryIsComplete
  <2> SUFFICES ASSUME PipeInv, summary = "ok", ~cancelled, NEW i \in Item
               PROVE  \/ outcome[i] \in {"hit", "uploaded", "failed"}
                      \/ outcome[i] = "panicked" /\ Concurrency > 1
    BY DEF SummaryIsComplete
  <2>1. outcome[i] \in {"hit", "uploaded", "panicked", "failed"}
    BY DEF PipeInv, AccountInv, Covered, TypeOK
  <2>2. Concurrency = 1 => outcome[i] # "panicked"
    BY DEF PipeInv, SerialInv, Unwound
  <2> QED  BY <2>1, <2>2, PipelineAssumption
<1> QED  BY <1>1, PipelineInvariant, PTL

\* For any number of items and any upload concurrency, the finalizer does not
\* remove the workspace under an upload (finalize_job, FinalizationGuard).
THEOREM WorkspaceOutlivesUploadsAlways == Spec => []WorkspaceOutlivesUploads
<1>1. PipeInv => WorkspaceOutlivesUploads
  <2> SUFFICES ASSUME PipeInv, ~cancelled, lanePc # "dead", NEW t \in running,
                      t.kind = "upload", ~workspace
               PROVE  FALSE
    BY DEF WorkspaceOutlivesUploads, PipeInv, TypeOK
  <2>1. Live = {}
    BY DEF PipeInv, CountInv
  <2>2. t \in Tasks
    BY DEF Tasks
  <2>3. t = Upload(t.item) /\ t.item \in Item
    BY <2>2, TaskKinds DEF PipeInv, LaneInv, TaskAt
  <2>4. t.item \in Live
    BY <2>2, <2>3, LiveIs
  <2> QED  BY <2>1, <2>4
<1> QED  BY <1>1, PipelineInvariant, PTL
=============================================================================
