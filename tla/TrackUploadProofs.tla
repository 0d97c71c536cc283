-------------------------- MODULE TrackUploadProofs --------------------------
(***************************************************************************)
(* Proofs about TrackUpload for any number of uploads, any assignment of   *)
(* them to jobs, tracks and places, any concurrency and any number of      *)
(* retries.  The sequencer, the stores and the counters each need more     *)
(* than they promise: where an upload is decides what it may have left in  *)
(* the dump channel, in the database and in the summary.                   *)
(***************************************************************************)
EXTENDS TrackUpload, SequenceTheorems, FiniteSetTheorems, TLAPS

\* An upload inside deliver_sequenced, called from `site`.
Delivering == {"insert", "acquire", "drain", "send", "direct"}
At(u, site) == pc[u] \in Delivering /\ frame[u].site = site

\* What deliver_sequenced relies on: the arguments of its caller, and an
\* index it may still move past.
SequencerInv ==
    /\ \A u \in Upload :
          /\ pc[u] = "insert" => Index[u] > 0 /\ frame[u].msg \in Msg \cup {Skip}
          /\ pc[u] = "direct" => Index[u] = 0 /\ frame[u].msg \in Msg
          /\ pc[u] = "send" => sending[u] \in Msg /\ next[JobOf[u]] <= MaxIndex
    /\ \A j \in Job : pend[j][MaxIndex + 1] = Absent

\* Nothing of u has been published yet.
Unpublished(u) ==
    pc[u] \in {"queued", "lookup", "stale", "hit", "publish"} \/ At(u, "pre")

\* What an upload has left in the dump channel and in the database, by where
\* it is.
Published(u) ==
    /\ Unpublished(u) => New(u) \notin dump
    /\ pc[u] \in {"posted", "saving"} => New(u) \in dump
    /\ pc[u] = "unrow" => New(u) \notin dump
    /\ Alone(u) /\ New(u) \in dump /\ New(u) \notin residue =>
          pc[u] \in {"posted", "saving", "retract"} \/ row[TrackOf[u]] = New(u)

RowOf(u) ==
    /\ Unpublished(u) \/ pc[u] \in {"posted", "saving", "retract"} =>
          \A t \in Track : row[t] # New(u)
    /\ \A t \in Track : row[t] = New(u) =>
          TrackOf[u] = t /\ (New(u) \in dump \cup residue \/ pc[u] = "unrow")

StoreInv == \A u \in Upload : Published(u) /\ RowOf(u)

\* How an upload has been counted, by where it is.
Tallied(u) ==
    /\ tally[u] \in {{}, {"ripped"}, {"cached"}, {"failed"}}
    /\ pc[u] # "end" /\ ~At(u, "last") => tally[u] = {}
    /\ At(u, "last") => "ripped" \notin tally[u]
    /\ Unpublished(u) /\ pc[u] # "publish" => attempt[u] = 0
    /\ pc[u] = "publish" /\ attempt[u] > MaxRetries => plain[u]
    /\ u \in Primary /\ (pc[u] = "end" \/ At(u, "last")) =>
          Stopped(u) \/ plain[u] \/ tally[u] # {}

TallyInv == \A u \in Upload : Tallied(u)

\* An upload that got past the save has a row, if nobody else has its track.
HasRow(u) ==
    Alone(u) /\ (pc[u] \in {"saved", "confirm"} \/ At(u, "post") \/ "ripped" \in tally[u])
    => row[TrackOf[u]] = New(u)

RowInv == \A u \in Upload : HasRow(u)

UploadInv == TypeOK /\ OneDrainer /\ SequencerInv /\ StoreInv /\ TallyInv /\ RowInv

\* Whose message waits for which place, and which places have been served.
Placed ==
    \A j \in Job : \A n \in Slots : pend[j][n] \in Msg =>
        \E v \in Of(j) : Index[v] = n /\ TrackOf[v] = TrackOfMsg(pend[j][n])

\* Where an upload without a place can be before its one copy.
Before == {"queued", "lookup", "direct", "stale", "publish", "posted", "saving", "retract", "saved"}

Unsent(u) ==
    \A n \in 1 .. Len(sent[JobOf[u]]) : TrackOfMsg(sent[JobOf[u]][n]) # TrackOf[u]

OwnTrack(u) ==
    /\ pc[u] \in {"insert", "direct"} /\ frame[u].msg \in Msg =>
          TrackOfMsg(frame[u].msg) = TrackOf[u]
    /\ pc[u] = "send" => \E v \in Of(JobOf[u]) :
          Index[v] = next[JobOf[u]] /\ TrackOf[v] = TrackOfMsg(sending[u])
    /\ pc[u] \in {"acquire", "drain", "send"} => Index[u] > 0
    /\ Index[u] = 0 /\ pc[u] \in Before => Unsent(u)

Served ==
    \A j \in Job : \A n \in 1 .. Len(sent[j]) : \A u \in Of(j) :
        TrackOfMsg(sent[j][n]) = TrackOf[u] => Index[u] < next[j]

RowTracks == \A t \in Track : row[t] \in Msg => TrackOfMsg(row[t]) = t

Quiet == (\A u \in Upload : pc[u] \notin Delivering) /\ \A j \in Job : sent[j] = <<>>

OrderInv ==
    /\ RowTracks
    /\ IF Delivers
       THEN Placed /\ (\A u \in Upload : OwnTrack(u)) /\ Served /\ InTrackOrder
       ELSE Quiet

\* The steps of upload_one outside deliver_sequenced.
OwnStep(u) ==
    \/ Begin(u) \/ Lookup(u) \/ DropStaleRow(u) \/ CacheHit(u) \/ Publish(u) \/ PostUpload(u)

-----------------------------------------------------------------------------
(* Messages and places. *)

\* Messages of different uploads differ, and none is a marker.
LEMMA Messages ==
    /\ \A u \in Upload : New(u) \in Msg
    /\ \A t \in Track : Old(t) \in Msg
    /\ \A u, v : New(u) = New(v) => u = v
    /\ \A u, t : New(u) # Old(t)
    /\ \A u : New(u) \notin {NoMsg, Skip, Absent}
    /\ Skip \notin Msg /\ Absent \notin Msg /\ NoMsg \notin Msg /\ Skip # Absent
BY DEF Msg, New, Old, NoMsg, Skip, Absent

\* Uploads, places and the constants in the form the provers use.
LEMMA Constants ==
    /\ UploadCount \in Nat /\ MaxIndex \in Nat /\ MaxRetries \in Nat
    /\ \A u \in Upload : /\ u \in Nat /\ u > 0 /\ u \in 0 .. UploadCount
                         /\ JobOf[u] \in Job /\ TrackOf[u] \in Track
                         /\ Index[u] \in 0 .. MaxIndex
    /\ Slots \subseteq Nat /\ 1 \in Slots /\ MaxIndex + 1 \in Slots
    /\ \A n \in 1 .. MaxIndex : n \in Slots /\ n + 1 \in Slots
BY UploadAssumption DEF Upload, Slots

\* Where a call of deliver_sequenced leads to.
LEMMA CallDeliverGoes ==
    ASSUME NEW u \in Upload, NEW msg, NEW site \in Site, CallDeliver(u, msg, site)
    PROVE  /\ frame' = [frame EXCEPT ![u] = [msg |-> msg, site |-> site]]
           /\ \/ pc' = [pc EXCEPT ![u] = "insert"] /\ Index[u] > 0
              \/ pc' = [pc EXCEPT ![u] = "direct"] /\ Index[u] = 0 /\ msg # Skip
              \/ pc' = [pc EXCEPT ![u] = AfterOk[site]]
<1>1. Index[u] \in Nat /\ (Index[u] > 0 \/ Index[u] = 0)
  BY Constants
<1> QED  BY <1>1 DEF CallDeliver, Goto

\* Where upload_one goes on.
LEMMA AfterGoes ==
    \A site \in Site :
        /\ AfterOk[site] \in {"hit", "confirm", "errDone", "end"}
        /\ AfterErr[site] \in {"stale", "err", "errDone", "end"}
        /\ AfterOk[site] = "hit" \/ AfterErr[site] = "stale" => site = "pre"
        /\ AfterOk[site] = "confirm" \/ AfterErr[site] = "err" => site = "post"
        /\ AfterOk[site] = "end" \/ AfterErr[site] = "end" => site = "last"
        /\ AfterOk[site] = "errDone" \/ AfterErr[site] = "errDone" => site = "err"
BY DEF AfterOk, AfterErr, Site

-----------------------------------------------------------------------------
(* Types and the sequencer. *)

\* The types hold when the job's lane is created.
LEMMA InitTypeOK == Init => TypeOK
<1> SUFFICES ASSUME Init PROVE TypeOK
  OBVIOUS
<1>1. dump \subseteq Msg
  BY Messages, UploadAssumption DEF Init
<1>2. row \in [Track -> Msg \cup {NoMsg}]
  BY Messages DEF Init
<1>3. \A j \in Job : <<>> \in Seq(Msg) /\ 0 \in 0 .. UploadCount
  BY Constants, EmptySeq
<1> QED  BY <1>1, <1>2, <1>3, Constants DEF Init, TypeOK, Pc, Site

\* The steps of deliver_sequenced keep the types; the sequencer's index stays
\* inside its bounds because an entry that is there has an index.
LEMMA DeliverTypeOK ==
    ASSUME TypeOK, SequencerInv, NEW u \in Upload, DeliverSequenced(u)
    PROVE  TypeOK'
<1> USE Constants, Messages
<1>0. /\ frame[u].site \in Site
      /\ AfterOk[frame[u].site] \in Pc /\ AfterErr[frame[u].site] \in Pc
  BY AfterGoes DEF TypeOK, Pc
<1>1. CASE Insert(u)
  BY <1>1 DEF Insert, Goto, storeVars, TypeOK, SequencerInv, Pc
<1>2. CASE Acquire(u)
  BY <1>2 DEF Acquire, Goto, storeVars, TypeOK, Pc
<1>3. CASE Drain(u)
  <2> DEFINE j == JobOf[u]
             entry == pend[j][next[j]]
  <2>1. /\ pend' = [pend EXCEPT ![j][next[j]] = Absent]
        /\ pend' \in [Job -> [Slots -> Msg \cup {Skip, Absent}]]
    BY <1>3 DEF Drain, TypeOK
  <2>2. CASE entry \in Msg
    BY <1>3, <2>1, <2>2 DEF Drain, Goto, storeVars, TypeOK, Pc
  <2>3. CASE entry = Skip
    <3>1. next[j] \in 1 .. MaxIndex
      BY <2>3 DEF SequencerInv, TypeOK, Slots
    <3>2. /\ next' = [next EXCEPT ![j] = @ + 1]
          /\ UNCHANGED <<pc, sending, lock, frame, attempt, plain, cancelled, dump, row,
                         residue, sent, tally>>
      BY <1>3, <2>3 DEF Drain, storeVars
    <3>3. next' \in [Job -> Slots]
      BY <3>1, <3>2 DEF TypeOK
    <3> QED  BY <2>1, <3>2, <3>3 DEF TypeOK
  <2>4. CASE entry = Absent
    <3>1. /\ lock' = [lock EXCEPT ![j] = 0] /\ pc' = [pc EXCEPT ![u] = AfterOk[frame[u].site]]
          /\ UNCHANGED <<next, sending, frame, attempt, plain, cancelled, dump, row,
                         residue, sent, tally>>
      BY <1>3, <2>4 DEF Drain, Goto, storeVars
    <3>2. pc' \in [Upload -> Pc] /\ lock' \in [Job -> 0 .. UploadCount]
      BY <1>0, <3>1 DEF TypeOK
    <3> QED  BY <2>1, <3>1, <3>2 DEF TypeOK
  <2> QED  BY <1>3, <2>2, <2>3, <2>4 DEF Drain
<1>4. CASE SendOk(u)
  <2>1. next[JobOf[u]] \in 1 .. MaxIndex /\ sending[u] \in Msg
    BY <1>4 DEF SendOk, SequencerInv, TypeOK, Slots
  <2>2. Append(sent[JobOf[u]], sending[u]) \in Seq(Msg)
    BY <2>1, AppendProperties DEF TypeOK
  <2> QED  BY <1>4, <2>1, <2>2 DEF SendOk, Goto, storeVars, TypeOK, Pc
<1>5. CASE SendFail(u)
  BY <1>0, <1>5 DEF SendFail, Goto, storeVars, TypeOK
<1>6. CASE Direct(u)
  <2>1. frame[u].msg \in Msg
    BY <1>6 DEF Direct, SequencerInv
  <2>2. Append(sent[JobOf[u]], frame[u].msg) \in Seq(Msg)
    BY <2>1, AppendProperties DEF TypeOK
  <2>3. \/ sent' = [sent EXCEPT ![JobOf[u]] = Append(@, frame[u].msg)]
        \/ sent' = sent
    BY <1>6 DEF Direct
  <2>4. \/ pc' = [pc EXCEPT ![u] = AfterOk[frame[u].site]]
        \/ pc' = [pc EXCEPT ![u] = AfterErr[frame[u].site]]
    BY <1>6 DEF Direct, Goto
  <2>5. sent' \in [Job -> Seq(Msg)]
    BY <2>2, <2>3 DEF TypeOK
  <2>6. pc' \in [Upload -> Pc]
    BY <1>0, <2>4 DEF TypeOK
  <2> QED  BY <1>6, <2>5, <2>6 DEF Direct, storeVars, TypeOK
<1> QED  BY <1>1, <1>2, <1>3, <1>4, <1>5, <1>6 DEF DeliverSequenced

\* A call of deliver_sequenced with a proper message keeps the types of pc
\* and frame.
LEMMA CallDeliverType ==
    ASSUME TypeOK, NEW u \in Upload, NEW msg \in Msg \cup {Skip}, NEW site \in Site,
           CallDeliver(u, msg, site)
    PROVE  /\ pc' \in [Upload -> Pc]
           /\ frame' \in [Upload -> [msg : Msg \cup {Skip, NoMsg}, site : Site]]
<1>1. AfterOk[site] \in Pc /\ "insert" \in Pc /\ "direct" \in Pc
  BY AfterGoes DEF Pc
<1>2. pc' \in [Upload -> Pc]
  <2>1. pc \in [Upload -> Pc]
    BY DEF TypeOK
  <2>2. \/ pc' = [pc EXCEPT ![u] = "insert"]
        \/ pc' = [pc EXCEPT ![u] = "direct"]
        \/ pc' = [pc EXCEPT ![u] = AfterOk[site]]
    BY CallDeliverGoes
  <2> QED  BY <1>1, <2>1, <2>2
<1>3. [msg |-> msg, site |-> site] \in [msg : Msg \cup {Skip, NoMsg}, site : Site]
  OBVIOUS
<1>4. frame' \in [Upload -> [msg : Msg \cup {Skip, NoMsg}, site : Site]]
  BY <1>3, CallDeliverGoes DEF TypeOK
<1> QED  BY <1>2, <1>4

\* The summary's counters keep their type.
LEMMA CountType ==
    ASSUME TypeOK, NEW u \in Upload, NEW how \in {"ripped", "cached", "failed"},
           Count(u, how) \/ UNCHANGED tally
    PROVE  tally' \in [Upload -> SUBSET {"ripped", "cached", "failed"}]
<1>1. tally \in [Upload -> SUBSET {"ripped", "cached", "failed"}]
  BY DEF TypeOK
<1>2. tally[u] \cup {how} \in SUBSET {"ripped", "cached", "failed"}
  BY <1>1
<1>3. tally' = tally \/ tally' = [tally EXCEPT ![u] = @ \cup {how}]
  BY DEF Count
<1> QED  BY <1>1, <1>2, <1>3

\* The other steps of upload_one, and a cancellation, keep the types.
LEMMA UploadTypeOK ==
    ASSUME TypeOK, NEW u \in Upload, OwnStep(u)
    PROVE  TypeOK'
<1> USE Constants, Messages DEF storeVars, seqVars
<1>1. CASE Begin(u)
  BY <1>1 DEF Begin, Goto, TypeOK, Pc
<1>2. CASE Lookup(u)
  <2>1. CASE row[TrackOf[u]] # NoMsg /\ CallDeliver(u, row[TrackOf[u]], "pre")
    <3>1. row[TrackOf[u]] \in Msg \cup {Skip} /\ "pre" \in Site
      BY <2>1 DEF TypeOK, Site
    <3>2. /\ pc' \in [Upload -> Pc]
          /\ frame' \in [Upload -> [msg : Msg \cup {Skip, NoMsg}, site : Site]]
      BY <2>1, <3>1, CallDeliverType
    <3> QED  BY <1>2, <3>2 DEF Lookup, TypeOK
  <2>2. CASE Goto(u, "end") /\ UNCHANGED frame
    BY <1>2, <2>2 DEF Lookup, Goto, TypeOK, Pc
  <2>3. CASE Goto(u, "publish") /\ UNCHANGED frame
    BY <1>2, <2>3 DEF Lookup, Goto, TypeOK, Pc
  <2> QED  BY <1>2, <2>1, <2>2, <2>3 DEF Lookup
<1>3. CASE DropStaleRow(u)
  BY <1>3 DEF DropStaleRow, Goto, TypeOK, Pc
<1>4. CASE CacheHit(u)
  <2>1. tally' \in [Upload -> SUBSET {"ripped", "cached", "failed"}]
    BY <1>4, CountType DEF CacheHit
  <2> QED  BY <1>4, <2>1 DEF CacheHit, Goto, TypeOK, Pc
<1>5. CASE Publish(u)
  <2>0. Skip \in Msg \cup {Skip} /\ "last" \in Site
    BY DEF Site
  <2>1. CASE PublishStop(u)
    <3>1. /\ pc' \in [Upload -> Pc]
          /\ frame' \in [Upload -> [msg : Msg \cup {Skip, NoMsg}, site : Site]]
      BY <2>0, <2>1, CallDeliverType DEF PublishStop
    <3>2. dump' \subseteq Msg /\ residue' \subseteq Msg
      BY <2>1 DEF PublishStop, TypeOK
    <3>3. /\ attempt' \in [Upload -> 0 .. MaxRetries + 1]
          /\ plain' \in [Upload -> BOOLEAN]
      BY <2>1 DEF PublishStop, LeaveLoop, TypeOK
    <3>4. UNCHANGED <<sending, cancelled, row, pend, next, lock, sent, tally>>
      BY <2>1 DEF PublishStop
    <3> QED  BY <3>1, <3>2, <3>3, <3>4 DEF TypeOK
  <2>2. CASE PublishOk(u)
    BY <2>2 DEF PublishOk, LeaveLoop, Goto, TypeOK, Pc
  <2>3. CASE PublishPlain(u)
    BY <2>3 DEF PublishPlain, TypeOK
  <2>4. CASE PublishRetry(u)
    BY <2>4 DEF PublishRetry, TypeOK
  <2>5. CASE PublishFail(u)
    <3>1. /\ pc' \in [Upload -> Pc]
          /\ frame' \in [Upload -> [msg : Msg \cup {Skip, NoMsg}, site : Site]]
      BY <2>0, <2>5, CallDeliverType DEF PublishFail
    <3>2. tally' \in [Upload -> SUBSET {"ripped", "cached", "failed"}]
      BY <2>5, CountType DEF PublishFail
    <3>3. /\ attempt' \in [Upload -> 0 .. MaxRetries + 1]
          /\ plain' \in [Upload -> BOOLEAN]
      BY <2>5 DEF PublishFail, LeaveLoop, TypeOK
    <3>4. UNCHANGED <<sending, cancelled, dump, row, pend, next, lock, sent, residue>>
      BY <2>5 DEF PublishFail
    <3> QED  BY <3>1, <3>2, <3>3, <3>4 DEF TypeOK
  <2>6. CASE PublishNothing(u)
    <3>1. /\ pc' \in [Upload -> Pc]
          /\ frame' \in [Upload -> [msg : Msg \cup {Skip, NoMsg}, site : Site]]
      BY <2>0, <2>6, CallDeliverType DEF PublishNothing
    <3> QED  BY <2>6, <3>1 DEF PublishNothing, TypeOK
  <2>7. CASE PublishPanic(u)
    BY <2>7 DEF PublishPanic, LeaveLoop, Goto, TypeOK, Pc
  <2> QED  BY <1>5, <2>1, <2>2, <2>3, <2>4, <2>5, <2>6, <2>7 DEF Publish
<1>6. CASE PostUpload(u)
  <2>1. CASE Posted(u)
    BY <2>1 DEF Posted, Goto, TypeOK, Pc
  <2>2. CASE Save(u)
    <3>1. CASE UNCHANGED row /\ Goto(u, "retract")
      BY <2>2, <3>1 DEF Save, Goto, TypeOK, Pc
    <3>2. CASE row' = [row EXCEPT ![TrackOf[u]] = New(u)] /\ Goto(u, "saved")
      <4>1. row' \in [Track -> Msg \cup {NoMsg}]
        BY <3>2 DEF TypeOK
      <4> QED  BY <2>2, <3>2, <4>1 DEF Save, Goto, TypeOK, Pc
    <3> QED  BY <2>2, <3>1, <3>2 DEF Save
  <2>3. CASE Retract(u)
    BY <2>3 DEF Retract, Goto, TypeOK, Pc
  <2>4. CASE Saved(u)
    <3>1. CASE Stopped(u)
      BY <2>4, <3>1 DEF Saved, Goto, TypeOK, Pc
    <3>2. CASE ~Stopped(u)
      <4>1. New(u) \in Msg \cup {Skip} /\ "post" \in Site
        BY DEF Site
      <4>2. /\ pc' \in [Upload -> Pc]
            /\ frame' \in [Upload -> [msg : Msg \cup {Skip, NoMsg}, site : Site]]
        BY <2>4, <3>2, <4>1, CallDeliverType DEF Saved
      <4> QED  BY <2>4, <4>2 DEF Saved, TypeOK
    <3> QED  BY <3>1, <3>2
  <2>5. CASE Rollback(u)
    BY <2>5 DEF Rollback, Goto, TypeOK, Pc
  <2>6. CASE DeleteRow(u)
    BY <2>6 DEF DeleteRow, Goto, TypeOK, Pc
  <2>7. CASE Confirm(u)
    <3>1. tally' \in [Upload -> SUBSET {"ripped", "cached", "failed"}]
      BY <2>7, CountType DEF Confirm
    <3> QED  BY <2>7, <3>1 DEF Confirm, Goto, TypeOK, Pc
  <2>8. CASE PostError(u)
    <3>1. Skip \in Msg \cup {Skip} /\ "err" \in Site
      BY DEF Site
    <3>2. /\ pc' \in [Upload -> Pc]
          /\ frame' \in [Upload -> [msg : Msg \cup {Skip, NoMsg}, site : Site]]
      BY <2>8, <3>1, CallDeliverType DEF PostError
    <3> QED  BY <2>8, <3>2 DEF PostError, TypeOK
  <2>9. CASE RecordFailure(u)
    <3>1. tally' \in [Upload -> SUBSET {"ripped", "cached", "failed"}]
      BY <2>9, CountType DEF RecordFailure
    <3> QED  BY <2>9, <3>1 DEF RecordFailure, Goto, TypeOK, Pc
  <2> QED
    BY <1>6, <2>1, <2>2, <2>3, <2>4, <2>5, <2>6, <2>7, <2>8, <2>9 DEF PostUpload
<1> QED  BY <1>1, <1>2, <1>3, <1>4, <1>5, <1>6 DEF OwnStep

-----------------------------------------------------------------------------
(* What one step changes. *)

\* Where a call of deliver_sequenced leaves its caller.
LEMMA CallDeliverLands ==
    ASSUME TypeOK, NEW u \in Upload, NEW msg, NEW site \in Site, CallDeliver(u, msg, site)
    PROVE  /\ frame'[u].msg = msg /\ frame'[u].site = site
           /\ \/ pc'[u] = "insert" /\ Index[u] > 0
              \/ pc'[u] = "direct" /\ Index[u] = 0 /\ msg # Skip
              \/ pc'[u] = AfterOk[site]
           /\ \A v \in Upload : v # u => pc'[v] = pc[v] /\ frame'[v] = frame[v]
<1>1. /\ frame' = [frame EXCEPT ![u] = [msg |-> msg, site |-> site]]
      /\ \/ pc' = [pc EXCEPT ![u] = "insert"] /\ Index[u] > 0
         \/ pc' = [pc EXCEPT ![u] = "direct"] /\ Index[u] = 0 /\ msg # Skip
         \/ pc' = [pc EXCEPT ![u] = AfterOk[site]]
  BY CallDeliverGoes
<1>2. DOMAIN pc = Upload /\ DOMAIN frame = Upload
  BY DEF TypeOK
<1> QED  BY <1>1, <1>2

\* A step of one upload leaves what the others know alone.
LEMMA OthersKeep ==
    ASSUME TypeOK, NEW u \in Upload, UploadOne(u), NEW v \in Upload, v # u
    PROVE  /\ pc'[v] = pc[v] /\ frame'[v] = frame[v] /\ sending'[v] = sending[v]
           /\ attempt'[v] = attempt[v] /\ plain'[v] = plain[v] /\ tally'[v] = tally[v]
<1> USE DEF storeVars, seqVars
<1>0. /\ DOMAIN pc = Upload /\ DOMAIN frame = Upload /\ DOMAIN sending = Upload
      /\ DOMAIN attempt = Upload /\ DOMAIN plain = Upload /\ DOMAIN tally = Upload
  BY DEF TypeOK
<1>1. \A label : Goto(u, label) => pc'[v] = pc[v]
  BY <1>0 DEF Goto
<1>2. \A how : Count(u, how) => tally'[v] = tally[v]
  BY <1>0 DEF Count
<1>3. LeaveLoop(u) => attempt'[v] = attempt[v] /\ plain'[v] = plain[v]
  BY <1>0 DEF LeaveLoop
<1>4. \A msg : \A site \in Site :
         CallDeliver(u, msg, site) => pc'[v] = pc[v] /\ frame'[v] = frame[v]
  BY CallDeliverLands
<1>5. "pre" \in Site /\ "post" \in Site /\ "err" \in Site /\ "last" \in Site
  BY DEF Site
<1>a. CASE DeliverSequenced(u)
  BY <1>0, <1>1, <1>a
  DEF DeliverSequenced, Insert, Acquire, Drain, SendOk, SendFail, Direct
<1>b. CASE Begin(u) \/ DropStaleRow(u) \/ CacheHit(u)
  BY <1>0, <1>1, <1>2, <1>b DEF Begin, DropStaleRow, CacheHit
<1>c. CASE Lookup(u)
  BY <1>0, <1>1, <1>4, <1>5, <1>c DEF Lookup
<1>d. CASE Publish(u)
  <2>1. CASE PublishStop(u)
    BY <1>3, <1>4, <1>5, <2>1 DEF PublishStop
  <2>2. CASE PublishFail(u)
    BY <1>2, <1>3, <1>4, <1>5, <2>2 DEF PublishFail
  <2>3. CASE PublishNothing(u)
    BY <1>4, <1>5, <2>3 DEF PublishNothing
  <2>4. CASE PublishOk(u)
    BY <1>1, <1>3, <2>4 DEF PublishOk
  <2>5. CASE PublishPlain(u) \/ PublishRetry(u)
    BY <1>0, <2>5 DEF PublishPlain, PublishRetry
  <2>6. CASE PublishPanic(u)
    BY <1>0, <1>1, <1>3, <2>6 DEF PublishPanic
  <2> QED  BY <1>d, <2>1, <2>2, <2>3, <2>4, <2>5, <2>6 DEF Publish
<1>e. CASE PostUpload(u)
  <2>1. CASE Posted(u) \/ Save(u) \/ Retract(u) \/ Rollback(u) \/ DeleteRow(u)
    BY <1>1, <2>1 DEF Posted, Save, Retract, Rollback, DeleteRow
  <2>2. CASE Saved(u) \/ PostError(u)
    BY <1>1, <1>4, <1>5, <2>2 DEF Saved, PostError
  <2>3. CASE Confirm(u) \/ RecordFailure(u)
    BY <1>1, <1>2, <2>3 DEF Confirm, RecordFailure
  <2> QED  BY <1>e, <2>1, <2>2, <2>3 DEF PostUpload
<1> QED  BY <1>a, <1>b, <1>c, <1>d, <1>e DEF UploadOne

\* A step of one upload only adds or removes its own message, and only
\* writes the row of its own track: its own message, or nothing.
LEMMA OwnStores ==
    ASSUME TypeOK, NEW u \in Upload, UploadOne(u)
    PROVE  /\ \A v \in Upload : v # u =>
                 /\ New(v) \in dump' <=> New(v) \in dump
                 /\ New(v) \in residue' <=> New(v) \in residue
           /\ \/ row' = row
              \/ row' = [row EXCEPT ![TrackOf[u]] = NoMsg]
              \/ row' = [row EXCEPT ![TrackOf[u]] = New(u)]
           /\ cancelled' = cancelled
           /\ residue \subseteq residue'
<1> USE Messages DEF storeVars
<1>1. CASE DeliverSequenced(u)
  BY <1>1 DEF DeliverSequenced, Insert, Acquire, Drain, SendOk, SendFail, Direct
<1>2. CASE Begin(u) \/ Lookup(u) \/ CacheHit(u) \/ DropStaleRow(u)
  BY <1>2 DEF Begin, Lookup, CacheHit, DropStaleRow
<1>3. CASE Publish(u)
  BY <1>3 DEF Publish, PublishStop, PublishOk, PublishPlain, PublishRetry, PublishFail,
              PublishNothing, PublishPanic
<1>4. CASE PostUpload(u)
  <2>1. CASE Posted(u) \/ Save(u) \/ Saved(u) \/ Confirm(u) \/ PostError(u) \/ RecordFailure(u)
    BY <2>1 DEF Posted, Save, Saved, Confirm, PostError, RecordFailure
  <2>2. CASE Retract(u) \/ Rollback(u)
    BY <2>2 DEF Retract, Rollback
  <2>3. CASE DeleteRow(u)
    BY <2>3 DEF DeleteRow
  <2> QED  BY <1>4, <2>1, <2>2, <2>3 DEF PostUpload
<1> QED  BY <1>1, <1>2, <1>3, <1>4 DEF UploadOne

\* Inside deliver_sequenced only the sequencer changes, and an upload leaves
\* it for the place its call site prescribes.
LEMMA DeliverKeeps ==
    ASSUME TypeOK, NEW u \in Upload, DeliverSequenced(u)
    PROVE  /\ UNCHANGED <<frame, attempt, plain, tally, dump, row, residue, cancelled>>
           /\ pc[u] \in Delivering
           /\ \/ pc'[u] \in {"acquire", "drain", "send"}
              \/ pc'[u] = AfterOk[frame[u].site]
              \/ pc'[u] = AfterErr[frame[u].site]
<1> USE DEF storeVars, Delivering
<1>0. DOMAIN pc = Upload
  BY DEF TypeOK
<1>1. CASE Insert(u) \/ Acquire(u) \/ SendOk(u) \/ SendFail(u)
  BY <1>0, <1>1 DEF Insert, Acquire, SendOk, SendFail, Goto
<1>2. CASE Drain(u)
  BY <1>0, <1>2 DEF Drain, Goto
<1>3. CASE Direct(u)
  BY <1>0, <1>3 DEF Direct, Goto
<1> QED  BY <1>1, <1>2, <1>3 DEF DeliverSequenced

\* Outside it the sequencer stays as it is, unless the step calls it with a
\* proper message.
LEMMA OwnStepKeeps ==
    ASSUME TypeOK, NEW u \in Upload, OwnStep(u)
    PROVE  /\ UNCHANGED seqVars
           /\ pc[u] \notin Delivering
           /\ \/ pc'[u] \notin Delivering
              \/ pc'[u] = "insert" /\ Index[u] > 0 /\ frame'[u].msg \in Msg \cup {Skip}
              \/ pc'[u] = "direct" /\ Index[u] = 0 /\ frame'[u].msg \in Msg
<1> USE Messages, AfterGoes DEF Delivering
<1>0. DOMAIN pc = Upload
  BY DEF TypeOK
<1>1. \A label : Goto(u, label) => pc'[u] = label
  BY <1>0 DEF Goto
<1>2. \A msg \in Msg \cup {Skip} : \A site \in Site : CallDeliver(u, msg, site) =>
           \/ pc'[u] \notin Delivering
           \/ pc'[u] = "insert" /\ Index[u] > 0 /\ frame'[u].msg \in Msg \cup {Skip}
           \/ pc'[u] = "direct" /\ Index[u] = 0 /\ frame'[u].msg \in Msg
  BY CallDeliverLands
<1>5. "pre" \in Site /\ "post" \in Site /\ "err" \in Site /\ "last" \in Site
  BY DEF Site
<1>6. Skip \in Msg \cup {Skip} /\ New(u) \in Msg \cup {Skip}
  OBVIOUS
<1>b. CASE Begin(u) \/ DropStaleRow(u) \/ CacheHit(u)
  BY <1>1, <1>b DEF Begin, DropStaleRow, CacheHit
<1>c. CASE Lookup(u)
  <2>1. row[TrackOf[u]] # NoMsg => row[TrackOf[u]] \in Msg \cup {Skip}
    BY Constants DEF TypeOK
  <2> QED  BY <1>1, <1>2, <1>5, <2>1, <1>c DEF Lookup
<1>d. CASE Publish(u)
  <2>1. CASE PublishStop(u) \/ PublishFail(u) \/ PublishNothing(u)
    BY <1>2, <1>5, <1>6, <2>1 DEF PublishStop, PublishFail, PublishNothing
  <2>2. CASE PublishOk(u) \/ PublishPanic(u)
    BY <1>1, <2>2 DEF PublishOk, PublishPanic
  <2>3. CASE PublishPlain(u) \/ PublishRetry(u)
    BY <2>3 DEF PublishPlain, PublishRetry
  <2> QED  BY <1>d, <2>1, <2>2, <2>3 DEF Publish
<1>e. CASE PostUpload(u)
  <2>1. CASE Posted(u) \/ Save(u) \/ Retract(u) \/ Rollback(u) \/ DeleteRow(u)
    BY <1>1, <2>1 DEF Posted, Save, Retract, Rollback, DeleteRow
  <2>2. CASE Saved(u) \/ PostError(u)
    BY <1>1, <1>2, <1>5, <1>6, <2>2 DEF Saved, PostError
  <2>3. CASE Confirm(u) \/ RecordFailure(u)
    BY <1>1, <2>3 DEF Confirm, RecordFailure
  <2> QED  BY <1>e, <2>1, <2>2, <2>3 DEF PostUpload
<1> QED  BY <1>b, <1>c, <1>d, <1>e DEF OwnStep

-----------------------------------------------------------------------------
(* The sequencer. *)

\* A step of upload_one outside deliver_sequenced disturbs neither the lock
\* nor the sequencer.
LEMMA OwnStepSequencer ==
    ASSUME TypeOK, OneDrainer, SequencerInv, NEW u \in Upload, OwnStep(u)
    PROVE  OneDrainer' /\ SequencerInv'
<1> USE Constants, Messages
<1>1. UploadOne(u)
  BY DEF UploadOne, OwnStep
<1>2. \A v \in Upload : v # u => pc'[v] = pc[v] /\ frame'[v] = frame[v]
  BY <1>1, OthersKeep
<1>3. /\ UNCHANGED <<pend, next, lock, sent, sending>>
      /\ pc[u] \notin Delivering
      /\ \/ pc'[u] \notin Delivering
         \/ pc'[u] = "insert" /\ Index[u] > 0 /\ frame'[u].msg \in Msg \cup {Skip}
         \/ pc'[u] = "direct" /\ Index[u] = 0 /\ frame'[u].msg \in Msg
  BY OwnStepKeeps DEF seqVars
<1>4. pc[u] \notin {"drain", "send"} /\ pc'[u] \notin {"drain", "send"}
  BY <1>3 DEF Delivering
<1>5. OneDrainer'
  <2>1. \A v \in Upload : pc'[v] \in {"drain", "send"} => lock'[JobOf[v]] = v
    BY <1>2, <1>3, <1>4 DEF OneDrainer
  <2>2. \A j \in Job : lock'[j] # 0 =>
           JobOf[lock'[j]] = j /\ pc'[lock'[j]] \in {"drain", "send"}
    <3> SUFFICES ASSUME NEW j \in Job, lock'[j] # 0
                 PROVE  JobOf[lock'[j]] = j /\ pc'[lock'[j]] \in {"drain", "send"}
      OBVIOUS
    <3>1. JobOf[lock[j]] = j /\ pc[lock[j]] \in {"drain", "send"} /\ lock[j] \in Upload
      BY <1>3 DEF OneDrainer, TypeOK, Upload
    <3> QED  BY <1>2, <1>3, <1>4, <3>1
  <2> QED  BY <2>1, <2>2 DEF OneDrainer
<1>6. SequencerInv'
  BY <1>2, <1>3 DEF SequencerInv, Delivering
<1> QED  BY <1>5, <1>6

\* The steps of deliver_sequenced hand the lock over and keep the entries of
\* the sequencer within their indices.
LEMMA DeliverSequencer ==
    ASSUME TypeOK, OneDrainer, SequencerInv, NEW u \in Upload, DeliverSequenced(u)
    PROVE  OneDrainer' /\ SequencerInv'
<1> USE Constants, Messages
<1>1. UploadOne(u)
  BY DEF UploadOne
<1>2. \A v \in Upload : v # u =>
         pc'[v] = pc[v] /\ frame'[v] = frame[v] /\ sending'[v] = sending[v]
  BY <1>1, OthersKeep
<1>3. frame' = frame
  BY DeliverKeeps
<1> DEFINE j == JobOf[u]
<1>4. /\ DOMAIN pc = Upload /\ DOMAIN sending = Upload /\ DOMAIN next = Job
      /\ DOMAIN lock = Job /\ j \in Job
  BY DEF TypeOK
<1>5. \A i \in Job : lock[i] # 0 => lock[i] \in Upload
  BY DEF TypeOK, Upload
<1>6. \A v \in Upload : v # 0
  BY DEF Upload
<1>7. AfterOk[frame[u].site] \notin Delivering /\ AfterErr[frame[u].site] \notin Delivering
  BY AfterGoes DEF TypeOK, Delivering
<1>8. /\ \A v \in Upload : pc[v] \in {"drain", "send"} => lock[JobOf[v]] = v
      /\ \A i \in Job : lock[i] # 0 => JobOf[lock[i]] = i /\ pc[lock[i]] \in {"drain", "send"}
  BY DEF OneDrainer
<1>a. CASE Insert(u)
  <2>1. pc[u] = "insert" /\ pc'[u] = "acquire" /\ UNCHANGED <<lock, next, sending>>
    BY <1>4, <1>a DEF Insert, Goto
  <2>2. OneDrainer'
    BY <1>2, <1>5, <1>8, <2>1 DEF OneDrainer
  <2>3. \A i \in Job : pend'[i][MaxIndex + 1] = Absent
    BY <1>a DEF Insert, SequencerInv, TypeOK
  <2> QED  BY <1>2, <2>1, <2>2, <2>3 DEF SequencerInv
<1>b. CASE Acquire(u)
  <2>1. /\ pc[u] = "acquire" /\ pc'[u] = "drain" /\ UNCHANGED <<pend, next, sending>>
        /\ lock[j] = 0 /\ lock'[j] = u /\ \A i \in Job : i # j => lock'[i] = lock[i]
    BY <1>4, <1>b DEF Acquire, Goto
  <2>2. OneDrainer'
    BY <1>2, <1>5, <1>6, <1>8, <2>1 DEF OneDrainer
  <2> QED  BY <1>2, <2>1, <2>2 DEF SequencerInv
<1>c. CASE Drain(u)
  <2>0. /\ pc[u] = "drain" /\ lock[j] = u
        /\ pend' = [pend EXCEPT ![j][next[j]] = Absent]
    BY <1>c, <1>8 DEF Drain
  <2>1. \A i \in Job : pend'[i][MaxIndex + 1] = Absent
    BY <2>0 DEF SequencerInv, TypeOK
  <2>2. CASE pend[j][next[j]] \in Msg
    <3>1. /\ pc'[u] = "send" /\ UNCHANGED <<next, lock>> /\ sending'[u] \in Msg
      BY <1>4, <1>c, <2>2 DEF Drain, Goto
    <3>2. OneDrainer'
      BY <1>2, <1>5, <1>8, <2>0, <3>1 DEF OneDrainer
    <3>3. next[j] <= MaxIndex
      BY <2>2 DEF SequencerInv, TypeOK, Slots
    <3> QED  BY <1>2, <2>1, <3>1, <3>2, <3>3 DEF SequencerInv
  <2>3. CASE pend[j][next[j]] = Skip
    <3>1. /\ UNCHANGED <<pc, sending, lock>> /\ \A i \in Job : i # j => next'[i] = next[i]
      BY <1>4, <1>c, <2>3 DEF Drain
    <3>2. OneDrainer'
      BY <1>8, <3>1 DEF OneDrainer
    <3>3. \A v \in Upload : pc[v] = "send" => JobOf[v] # j
      BY <1>8, <2>0
    <3> QED  BY <1>3, <2>1, <3>1, <3>2, <3>3 DEF SequencerInv
  <2>4. CASE pend[j][next[j]] = Absent
    <3>1. /\ pc'[u] \notin Delivering /\ UNCHANGED <<next, sending>>
          /\ lock'[j] = 0 /\ \A i \in Job : i # j => lock'[i] = lock[i]
      BY <1>4, <1>7, <1>c, <2>4 DEF Drain, Goto
    <3>2. OneDrainer'
      BY <1>2, <1>5, <1>6, <1>8, <2>0, <3>1 DEF OneDrainer, Delivering
    <3> QED  BY <1>2, <2>1, <3>1, <3>2 DEF SequencerInv, Delivering
  <2> QED  BY <1>c, <2>2, <2>3, <2>4 DEF Drain
<1>d. CASE SendOk(u)
  <2>1. /\ pc[u] = "send" /\ pc'[u] = "drain" /\ UNCHANGED <<pend, lock>>
        /\ \A i \in Job : i # j => next'[i] = next[i]
    BY <1>4, <1>d DEF SendOk, Goto
  <2>2. OneDrainer'
    BY <1>2, <1>5, <1>8, <2>1 DEF OneDrainer
  <2>3. \A v \in Upload : pc'[v] = "send" => JobOf[v] # j
    BY <1>2, <1>8, <2>1
  <2> QED  BY <1>2, <2>1, <2>2, <2>3 DEF SequencerInv
<1>e. CASE SendFail(u)
  <2>1. /\ pc[u] = "send" /\ pc'[u] \notin Delivering /\ UNCHANGED <<pend, next>>
        /\ lock'[j] = 0 /\ \A i \in Job : i # j => lock'[i] = lock[i]
    BY <1>4, <1>7, <1>e DEF SendFail, Goto
  <2>2. OneDrainer'
    BY <1>2, <1>5, <1>6, <1>8, <2>1 DEF OneDrainer, Delivering
  <2> QED  BY <1>2, <2>1, <2>2 DEF SequencerInv, Delivering
<1>f. CASE Direct(u)
  <2>1. /\ pc[u] = "direct" /\ pc'[u] \notin Delivering /\ UNCHANGED <<pend, next, lock, sending>>
    BY <1>4, <1>7, <1>f DEF Direct, Goto
  <2>2. OneDrainer'
    BY <1>2, <1>5, <1>8, <2>1 DEF OneDrainer, Delivering
  <2> QED  BY <1>2, <2>1, <2>2 DEF SequencerInv, Delivering
<1> QED  BY <1>a, <1>b, <1>c, <1>d, <1>e, <1>f DEF DeliverSequenced

-----------------------------------------------------------------------------
(* The dump channel, the database and the counters. *)

\* What a step of u means for another upload.
LEMMA OthersStore ==
    ASSUME TypeOK, NEW u \in Upload, UploadOne(u), NEW v \in Upload, v # u,
           Published(v), RowOf(v), Tallied(v), HasRow(v)
    PROVE  (Published(v) /\ RowOf(v) /\ Tallied(v) /\ HasRow(v))'
<1> USE Constants, Messages
<1>1. /\ pc'[v] = pc[v] /\ frame'[v] = frame[v]
      /\ attempt'[v] = attempt[v] /\ plain'[v] = plain[v] /\ tally'[v] = tally[v]
  BY OthersKeep
<1>2. /\ New(v) \in dump' <=> New(v) \in dump
      /\ New(v) \in residue' <=> New(v) \in residue
      /\ cancelled' = cancelled
  BY OwnStores
<1>3. /\ \A t \in Track : t # TrackOf[u] => row'[t] = row[t]
      /\ \A t \in Track : row'[t] = New(v) => row[t] = New(v)
  <2>1. DOMAIN row = Track /\ New(v) # NoMsg /\ New(v) # New(u)
    BY DEF TypeOK
  <2>2. \/ row' = row
        \/ row' = [row EXCEPT ![TrackOf[u]] = NoMsg]
        \/ row' = [row EXCEPT ![TrackOf[u]] = New(u)]
    BY OwnStores
  <2> QED  BY <2>1, <2>2
<1>4. Alone(v) => row'[TrackOf[v]] = row[TrackOf[v]]
  BY <1>3 DEF Alone
<1>5. /\ Unpublished(v)' <=> Unpublished(v)
      /\ At(v, "last")' <=> At(v, "last")
      /\ At(v, "post")' <=> At(v, "post")
  BY <1>1 DEF Unpublished, At
<1>6. Published(v)'
  BY <1>1, <1>2, <1>4, <1>5 DEF Published, Alone
<1>7. RowOf(v)'
  BY <1>1, <1>2, <1>3, <1>5 DEF RowOf
<1>8. Tallied(v)'
  BY <1>1, <1>2, <1>5 DEF Tallied, Stopped
<1>9. HasRow(v)'
  BY <1>1, <1>4, <1>5 DEF HasRow, Alone
<1> QED  BY <1>6, <1>7, <1>8, <1>9

\* Within deliver_sequenced an upload keeps what it has; on the way out its
\* call site decides where that is looked after.
LEMMA DeliverStore ==
    ASSUME TypeOK, NEW u \in Upload, DeliverSequenced(u),
           Published(u), RowOf(u), Tallied(u), HasRow(u)
    PROVE  (Published(u) /\ RowOf(u) /\ Tallied(u) /\ HasRow(u))'
<1>1. /\ UNCHANGED <<frame, attempt, plain, tally, dump, row, residue, cancelled>>
      /\ pc[u] \in Delivering
      /\ \/ pc'[u] \in {"acquire", "drain", "send"}
         \/ pc'[u] = AfterOk[frame[u].site]
         \/ pc'[u] = AfterErr[frame[u].site]
  BY DeliverKeeps
<1>2. frame[u].site \in Site
  BY DEF TypeOK
<1>3. CASE pc'[u] \in {"acquire", "drain", "send"}
  <2>1. \A site : At(u, site)' <=> At(u, site)
    BY <1>1, <1>3 DEF At, Delivering
  <2>2. Unpublished(u)' <=> Unpublished(u)
    BY <1>1, <1>3, <2>1 DEF Unpublished, Delivering
  <2>3. \A site : At(u, site) => At(u, site)'
    BY <2>1
  <2> QED  BY <1>1, <1>3, <2>1, <2>2
           DEF Published, RowOf, Tallied, HasRow, Alone, Stopped, Delivering
<1>4. CASE pc'[u] \in {AfterOk[frame[u].site], AfterErr[frame[u].site]}
  <2>1. /\ pc'[u] \in {"hit", "stale"} => frame[u].site = "pre"
        /\ pc'[u] \in {"confirm", "err"} => frame[u].site = "post"
        /\ pc'[u] = "errDone" => frame[u].site = "err"
        /\ pc'[u] = "end" => frame[u].site = "last"
        /\ pc'[u] \in {"hit", "stale", "confirm", "err", "end", "errDone"}
    BY <1>2, <1>4, AfterGoes
  <2>2. \A site : ~At(u, site)'
    BY <2>1 DEF At, Delivering
  <2>3. Published(u)' /\ RowOf(u)'
    BY <1>1, <2>1, <2>2 DEF Published, RowOf, Unpublished, At, Alone, Delivering
  <2>4. Tallied(u)'
    BY <1>1, <2>1, <2>2 DEF Tallied, At, Stopped, Delivering, Unpublished
  <2>5. HasRow(u)'
    BY <1>1, <2>1, <2>2 DEF HasRow, At, Alone, Delivering
  <2> QED  BY <2>3, <2>4, <2>5
<1> QED  BY <1>1, <1>3, <1>4

\* The four facts about one upload.
Accounted(u) == Published(u) /\ RowOf(u) /\ Tallied(u) /\ HasRow(u)

\* The other steps of upload_one: what a step leaves in a store is either
\* cleaned up by the place it goes to, or named by the row.
LEMMA OwnStepStore ==
    ASSUME TypeOK, NEW u \in Upload, OwnStep(u), Accounted(u)
    PROVE  Accounted(u)'
<1> USE Constants, Messages, AfterGoes DEF Accounted, storeVars
<1>0. /\ DOMAIN pc = Upload /\ DOMAIN tally = Upload /\ DOMAIN row = Track
      /\ DOMAIN plain = Upload /\ DOMAIN attempt = Upload
      /\ attempt[u] \in 0 .. MaxRetries + 1
  BY DEF TypeOK
<1>1. \A label : Goto(u, label) => pc'[u] = label
  BY <1>0 DEF Goto
<1>2. \A how : Count(u, how) /\ tally[u] = {} =>
         tally'[u] = IF u \in Primary THEN {how} ELSE {}
  BY <1>0 DEF Count
<1>3. \A msg : \A site \in Site : CallDeliver(u, msg, site) =>
         /\ frame'[u].site = site
         /\ pc'[u] \in {"insert", "direct"} \/ pc'[u] = AfterOk[site]
  BY CallDeliverLands
<1>4. "pre" \in Site /\ "post" \in Site /\ "err" \in Site /\ "last" \in Site
  BY DEF Site
<1>5. /\ AfterOk["pre"] = "hit" /\ AfterOk["post"] = "confirm"
      /\ AfterOk["err"] = "errDone" /\ AfterOk["last"] = "end"
  BY DEF AfterOk
<1>6. UNCHANGED cancelled
  BY OwnStores DEF UploadOne, OwnStep
<1> USE DEF Published, RowOf, Tallied, HasRow, Unpublished, At, Alone, Stopped, Delivering
<1>a. CASE Begin(u)
  BY <1>1, <1>a DEF Begin
<1>b. CASE Lookup(u)
  <2>0. pc[u] = "lookup" /\ UNCHANGED <<attempt, plain, dump, row, residue, tally>>
    BY <1>b DEF Lookup
  <2>1. CASE CallDeliver(u, row[TrackOf[u]], "pre")
    <3>1. /\ frame'[u].site = "pre" /\ pc'[u] \in {"insert", "direct", "hit"}
      BY <1>3, <1>4, <1>5, <2>1
    <3> QED  BY <1>6, <2>0, <3>1
  <2>2. CASE Goto(u, "publish") \/ (Stopped(u) /\ Goto(u, "end"))
    BY <1>0, <1>1, <1>6, <2>0, <2>2 
  <2> QED  BY <1>b, <2>1, <2>2 DEF Lookup
<1>c. CASE DropStaleRow(u)
  BY <1>0, <1>1, <1>c DEF DropStaleRow
<1>d. CASE CacheHit(u)
  <2>1. /\ pc[u] = "hit" /\ pc'[u] = "end" /\ tally[u] = {}
        /\ UNCHANGED <<frame, attempt, plain, dump, row, residue>>
    BY <1>1, <1>d DEF CacheHit
  <2>2. tally'[u] = {"cached"} \/ (tally'[u] = {} /\ (Stopped(u) \/ u \notin Primary))
    BY <1>2, <1>d, <2>1 DEF CacheHit
  <2>3. "ripped" \notin tally'[u]
    BY <2>2
  <2> QED  BY <1>6, <2>1, <2>2, <2>3
<1>e. CASE Publish(u)
  <2>0. pc[u] = "publish" /\ tally[u] = {} /\ New(u) \notin dump /\ row' = row
    BY <1>e DEF Publish, PublishStop, PublishOk, PublishPlain, PublishRetry, PublishFail,
                PublishNothing, PublishPanic
  <2>1. CASE PublishStop(u)
    BY <1>0, <1>3, <1>4, <1>5, <2>0, <2>1 DEF PublishStop, LeaveLoop
  <2>2. CASE PublishOk(u)
    BY <1>0, <1>1, <2>0, <2>2 DEF PublishOk, LeaveLoop
  <2>3. CASE PublishPlain(u) \/ PublishRetry(u)
    BY <1>0, <2>0, <2>3 DEF PublishPlain, PublishRetry
  <2>4. CASE PublishFail(u)
    <3>1. /\ frame'[u].site = "last" /\ pc'[u] \in {"insert", "direct", "end"}
          /\ UNCHANGED <<dump, residue>>
      BY <1>3, <1>4, <1>5, <2>4 DEF PublishFail
    <3>2. tally'[u] = {"failed"} \/ (tally'[u] = {} /\ u \notin Primary)
      BY <1>2, <2>0, <2>4 DEF PublishFail
    <3>3. "ripped" \notin tally'[u]
      BY <3>2
    <3> QED  BY <2>0, <3>1, <3>2, <3>3
  <2>5. CASE PublishNothing(u)
    BY <1>0, <1>3, <1>4, <1>5, <2>0, <2>5 DEF PublishNothing
  <2>6. CASE PublishPanic(u)
    BY <1>0, <1>1, <2>0, <2>6 DEF PublishPanic, LeaveLoop
  <2> QED  BY <1>e, <2>1, <2>2, <2>3, <2>4, <2>5, <2>6 DEF Publish
<1>f. CASE PostUpload(u)
  <2>1. CASE Posted(u)
    BY <1>1, <2>1 DEF Posted
  <2>2. CASE Save(u)
    BY <1>0, <1>1, <2>2 DEF Save
  <2>3. CASE Retract(u)
    BY <1>1, <2>3 DEF Retract
  <2>4. CASE Saved(u)
    BY <1>1, <1>3, <1>4, <1>5, <2>4 DEF Saved
  <2>5. CASE Rollback(u)
    BY <1>1, <2>5 DEF Rollback
  <2>6. CASE DeleteRow(u)
    BY <1>0, <1>1, <2>6 DEF DeleteRow
  <2>7. CASE Confirm(u)
    <3>1. /\ pc[u] = "confirm" /\ tally[u] = {}
          /\ UNCHANGED <<frame, attempt, plain, dump, row, residue>>
      BY <2>7 DEF Confirm
    <3>2. CASE pc'[u] = "rollback" /\ UNCHANGED tally
      BY <3>1, <3>2
    <3>3. CASE pc'[u] = "end" /\ Count(u, "ripped")
      <4>1. tally'[u] = {"ripped"} \/ (tally'[u] = {} /\ u \notin Primary)
        BY <1>2, <3>1, <3>3
      <4> QED  BY <3>1, <3>3, <4>1
    <3> QED  BY <1>1, <2>7, <3>2, <3>3 DEF Confirm
  <2>8. CASE PostError(u)
    BY <1>3, <1>4, <1>5, <2>8 DEF PostError
  <2>9. CASE RecordFailure(u)
    <3>1. /\ pc[u] = "errDone" /\ pc'[u] = "end" /\ tally[u] = {}
          /\ UNCHANGED <<frame, attempt, plain, dump, row, residue>>
      BY <1>1, <2>9 DEF RecordFailure
    <3>2. tally'[u] = {"failed"} \/ (tally'[u] = {} /\ (Stopped(u) \/ u \notin Primary))
      BY <1>2, <2>9, <3>1 DEF RecordFailure
    <3>3. "ripped" \notin tally'[u]
      BY <3>2
    <3> QED  BY <1>6, <3>1, <3>2, <3>3
  <2> QED
    BY <1>f, <2>1, <2>2, <2>3, <2>4, <2>5, <2>6, <2>7, <2>8, <2>9 DEF PostUpload
<1> QED  BY <1>a, <1>b, <1>c, <1>d, <1>e, <1>f DEF OwnStep

-----------------------------------------------------------------------------
(* The invariant and what follows from it. *)

\* A cancellation changes nothing but what it allows.
LEMMA CancelKeeps ==
    ASSUME UploadInv, NEW j \in Job, CancelJob(j)
    PROVE  UploadInv'
<1>1. /\ UNCHANGED <<pc, frame, sending, attempt, plain, dump, row, pend, next, lock, sent,
                     tally, residue>>
      /\ cancelled' = [cancelled EXCEPT ![j] = TRUE]
  BY DEF CancelJob, seqVars, storeVars
<1>2. cancelled' \in [Job -> BOOLEAN]
  BY <1>1 DEF UploadInv, TypeOK
<1>3. \A u \in Upload : Stopped(u) => Stopped(u)'
  BY <1>1, Constants DEF UploadInv, TypeOK, Stopped
<1>4. TypeOK'
  BY <1>1, <1>2 DEF UploadInv, TypeOK
<1>5. OneDrainer' /\ SequencerInv'
  BY <1>1 DEF UploadInv, OneDrainer, SequencerInv
<1>6. StoreInv'
  BY <1>1 DEF UploadInv, StoreInv, Published, RowOf, Unpublished, At, Alone
<1>7. TallyInv'
  <2> SUFFICES ASSUME NEW u \in Upload PROVE Tallied(u)'
    BY DEF TallyInv
  <2>1. Tallied(u)
    BY DEF UploadInv, TallyInv
  <2> QED  BY <1>1, <1>3, <2>1 DEF Tallied, At, Unpublished
<1>8. RowInv'
  BY <1>1 DEF UploadInv, RowInv, HasRow, At, Alone
<1> QED  BY <1>4, <1>5, <1>6, <1>7, <1>8 DEF UploadInv

\* The invariant holds when the lane starts: nothing is published or counted.
LEMMA InitInv == Init => UploadInv
<1> SUFFICES ASSUME Init PROVE UploadInv
  OBVIOUS
<1> USE Constants, Messages
<1>1. TypeOK
  BY InitTypeOK
<1>2. OneDrainer /\ SequencerInv
  BY DEF Init, OneDrainer, SequencerInv
<1>3. ASSUME NEW u \in Upload PROVE Accounted(u)
  <2>1. /\ pc[u] = "queued" /\ tally[u] = {} /\ attempt[u] = 0
        /\ New(u) \notin dump /\ \A t \in Track : row[t] # New(u)
    BY DEF Init
  <2> QED
    BY <2>1 DEF Accounted, Published, RowOf, Tallied, HasRow, Unpublished, At, Delivering
<1> QED  BY <1>1, <1>2, <1>3 DEF UploadInv, StoreInv, TallyInv, RowInv, Accounted

\* Every step keeps the invariant.
LEMMA StepInv == UploadInv /\ [Next]_vars => UploadInv'
<1> SUFFICES ASSUME UploadInv, [Next]_vars PROVE UploadInv'
  OBVIOUS
<1>1. ASSUME NEW u \in Upload, UploadOne(u) PROVE UploadInv'
  <2>0. TypeOK /\ OneDrainer /\ SequencerInv /\ \A v \in Upload : Accounted(v)
    BY DEF UploadInv, StoreInv, TallyInv, RowInv, Accounted
  <2>1. DeliverSequenced(u) \/ OwnStep(u)
    BY <1>1 DEF UploadOne, OwnStep
  <2>2. TypeOK'
    BY <2>0, <2>1, DeliverTypeOK, UploadTypeOK
  <2>3. OneDrainer' /\ SequencerInv'
    BY <2>0, <2>1, DeliverSequencer, OwnStepSequencer
  <2>4. Accounted(u)'
    <3>1. Published(u) /\ RowOf(u) /\ Tallied(u) /\ HasRow(u)
      BY <2>0 DEF Accounted
    <3> QED  BY <2>0, <2>1, <3>1, DeliverStore, OwnStepStore DEF Accounted
  <2>5. ASSUME NEW v \in Upload, v # u PROVE Accounted(v)'
    <3>1. Published(v) /\ RowOf(v) /\ Tallied(v) /\ HasRow(v)
      BY <2>0 DEF Accounted
    <3> QED  BY <1>1, <2>0, <2>5, <3>1, OthersStore DEF Accounted
  <2> QED  BY <2>2, <2>3, <2>4, <2>5 DEF UploadInv, StoreInv, TallyInv, RowInv, Accounted
<1>2. CASE UNCHANGED vars
  <2> USE <1>2 DEF vars
  <2>1. TypeOK' /\ OneDrainer' /\ SequencerInv'
    BY DEF UploadInv, TypeOK, OneDrainer, SequencerInv
  <2>2. StoreInv'
    BY DEF UploadInv, StoreInv, Published, RowOf, Unpublished, At, Alone
  <2>3. TallyInv'
    BY DEF UploadInv, TallyInv, Tallied, Unpublished, At, Stopped
  <2>4. RowInv'
    BY DEF UploadInv, RowInv, HasRow, At, Alone
  <2> QED  BY <2>1, <2>2, <2>3, <2>4 DEF UploadInv
<1> QED  BY <1>1, <1>2, CancelKeeps DEF Next

\* The inductive invariant of the upload lane: where upload_one has got to
\* decides what it has left in the dump channel, the database, the sequencer
\* and the summary.
THEOREM UploadsInvariant == Spec => []UploadInv
BY InitInv, StepInv, PTL DEF Spec

\* Cancellation, failed saves and failed deliveries leak no publication, no
\* row names a retracted message, what the summary calls ripped has a row
\* unless another upload publishes the same track, and delivery_lock is given
\* back: for any number of uploads, jobs and retries.
THEOREM DumpAndRowsAgreeAlways == Spec => []DumpAndRowsAgree
<1>1. UploadInv => DumpAndRowsAgree
  <2> SUFFICES ASSUME UploadInv PROVE DumpAndRowsAgree
    OBVIOUS
  <2>1. \A u \in Upload : Published(u) /\ RowOf(u)
    BY DEF UploadInv, StoreInv
  <2>2. NoOrphanMessage
    BY <2>1 DEF NoOrphanMessage, Published, Ended
  <2>3. RowsPointToMessages
    BY <2>1 DEF RowsPointToMessages, RowOf, Ended
  <2>4. RippedIsCached
    BY Messages DEF UploadInv, RowInv, HasRow, RippedIsCached
  <2> QED  BY <2>2, <2>3, <2>4 DEF DumpAndRowsAgree, UploadInv
<1> QED  BY <1>1, UploadsInvariant, PTL

\* An upload is counted at most once however it ends, and an ended primary
\* one exactly once unless its job was cancelled or its last attempt went
\* into the plain caption.
THEOREM CountedOnceAlways == Spec => []CountedOnce
<1>1. UploadInv => CountedOnce
  <2> SUFFICES ASSUME UploadInv, NEW u \in Upload
               PROVE  /\ Cardinality(tally[u]) <= 1
                      /\ u \in Primary /\ Ended(u) /\ ~Stopped(u) /\ ~plain[u] => tally[u] # {}
    BY DEF CountedOnce
  <2>1. Tallied(u)
    BY DEF UploadInv, TallyInv
  <2>2. tally[u] = {} => Cardinality(tally[u]) = 0
    BY FS_EmptySet
  <2>3. \A how : Cardinality({how}) = 1
    BY FS_Singleton
  <2>4. Cardinality(tally[u]) \in {0, 1}
    BY <2>1, <2>2, <2>3 DEF Tallied
  <2>5. u \in Primary /\ Ended(u) /\ ~Stopped(u) /\ ~plain[u] => tally[u] # {}
    BY <2>1 DEF Tallied, Ended
  <2> QED  BY <2>4, <2>5
<1> QED  BY <1>1, UploadsInvariant, PTL

-----------------------------------------------------------------------------
(* Delivery in track order. *)

\* The track of a message.
LEMMA TrackOfMessages ==
    /\ \A u \in Upload : TrackOfMsg(New(u)) = TrackOf[u]
    /\ \A t \in Track : TrackOfMsg(Old(t)) = t
BY DEF TrackOfMsg, New, Old

\* The rows keep naming messages of their own track.
LEMMA RowTracksKeep ==
    ASSUME TypeOK, RowTracks, NEW u \in Upload, UploadOne(u)
    PROVE  RowTracks'
<1>1. \/ row' = row
      \/ row' = [row EXCEPT ![TrackOf[u]] = NoMsg]
      \/ row' = [row EXCEPT ![TrackOf[u]] = New(u)]
  BY OwnStores
<1>2. DOMAIN row = Track /\ NoMsg \notin Msg /\ TrackOfMsg(New(u)) = TrackOf[u]
  BY Messages, TrackOfMessages DEF TypeOK
<1> QED  BY <1>1, <1>2 DEF RowTracks

\* A step of upload_one outside deliver_sequenced passes a message of its own
\* track, and returns to no place before its delivery.
LEMMA OwnStepTrack ==
    ASSUME TypeOK, RowTracks, NEW u \in Upload, OwnStep(u)
    PROVE  /\ pc'[u] \in {"insert", "direct"} /\ frame'[u].msg \in Msg =>
                 TrackOfMsg(frame'[u].msg) = TrackOf[u]
           /\ pc'[u] \in Before => pc[u] \in Before
           /\ ~Delivers => pc'[u] \notin Delivering
<1> USE Constants, Messages, TrackOfMessages, AfterGoes DEF Delivering, Before
<1>0. DOMAIN pc = Upload
  BY DEF TypeOK
<1>1. \A label : Goto(u, label) => pc'[u] = label
  BY <1>0 DEF Goto
<1>2. \A msg : \A site \in Site : CallDeliver(u, msg, site) =>
         /\ frame'[u].msg = msg
         /\ pc'[u] \in {"insert", "direct", AfterOk[site]}
         /\ pc'[u] = "direct" => msg # Skip
  BY CallDeliverLands
<1>3. \A msg : \A site \in Site : CallDeliver(u, msg, site) /\ ~Delivers => pc'[u] = AfterOk[site]
  BY <1>0 DEF CallDeliver, Goto
<1>4. "pre" \in Site /\ "post" \in Site /\ "err" \in Site /\ "last" \in Site
  BY DEF Site
<1>5. /\ AfterOk["pre"] = "hit" /\ AfterOk["post"] = "confirm"
      /\ AfterOk["err"] = "errDone" /\ AfterOk["last"] = "end"
  BY DEF AfterOk
<1>a. CASE Begin(u) \/ DropStaleRow(u) \/ CacheHit(u)
  BY <1>1, <1>a DEF Begin, DropStaleRow, CacheHit
<1>b. CASE Lookup(u)
  <2>1. row[TrackOf[u]] \in Msg => TrackOfMsg(row[TrackOf[u]]) = TrackOf[u]
    BY DEF RowTracks
  <2> QED  BY <1>1, <1>2, <1>3, <1>4, <1>5, <1>b, <2>1 DEF Lookup
<1>c. CASE Publish(u)
  <2>1. CASE PublishStop(u) \/ PublishFail(u) \/ PublishNothing(u)
    BY <1>2, <1>3, <1>4, <1>5, <2>1 DEF PublishStop, PublishFail, PublishNothing
  <2>2. CASE PublishOk(u) \/ PublishPanic(u)
    BY <1>1, <2>2 DEF PublishOk, PublishPanic
  <2>3. CASE PublishPlain(u) \/ PublishRetry(u)
    BY <2>3 DEF PublishPlain, PublishRetry
  <2> QED  BY <1>c, <2>1, <2>2, <2>3 DEF Publish
<1>d. CASE PostUpload(u)
  <2>1. CASE Posted(u) \/ Save(u) \/ Retract(u) \/ Rollback(u) \/ DeleteRow(u)
    BY <1>1, <2>1 DEF Posted, Save, Retract, Rollback, DeleteRow
  <2>2. CASE Saved(u)
    BY <1>1, <1>2, <1>3, <1>4, <1>5, <2>2 DEF Saved
  <2>3. CASE PostError(u)
    BY <1>2, <1>3, <1>4, <1>5, <2>3 DEF PostError
  <2>4. CASE Confirm(u) \/ RecordFailure(u)
    BY <1>1, <2>4 DEF Confirm, RecordFailure
  <2> QED  BY <1>d, <2>1, <2>2, <2>3, <2>4 DEF PostUpload
<1> QED  BY <1>a, <1>b, <1>c, <1>d DEF OwnStep

\* Those steps keep the order.
LEMMA OwnStepOrder ==
    ASSUME TypeOK, OrderInv, NEW u \in Upload, OwnStep(u)
    PROVE  OrderInv'
<1>1. UploadOne(u)
  BY DEF UploadOne, OwnStep
<1>2. /\ UNCHANGED <<pend, next, lock, sent, sending>>
      /\ pc[u] \notin Delivering
      /\ pc'[u] \notin Delivering \/ pc'[u] \in {"insert", "direct"}
  BY OwnStepKeeps DEF seqVars
<1>3. \A v \in Upload : v # u => pc'[v] = pc[v] /\ frame'[v] = frame[v]
  BY <1>1, OthersKeep
<1>4. CASE Delivers
  <2>1. Placed /\ (\A v \in Upload : OwnTrack(v)) /\ Served /\ RowTracks /\ InTrackOrder
    BY <1>4 DEF OrderInv
  <2>2. Placed' /\ Served' /\ InTrackOrder'
    BY <1>2, <2>1 DEF Placed, Served, InTrackOrder, TrackOfMsg, Of
  <2>3. RowTracks'
    BY <1>1, <2>1, RowTracksKeep
  <2>4. \A v \in Upload : v # u => OwnTrack(v)'
    BY <1>2, <1>3, <2>1 DEF OwnTrack, Before, Unsent, TrackOfMsg, Of
  <2>5. OwnTrack(u)'
    <3>1. /\ pc'[u] \in {"insert", "direct"} /\ frame'[u].msg \in Msg =>
                TrackOfMsg(frame'[u].msg) = TrackOf[u]
          /\ pc'[u] \in Before => pc[u] \in Before
      BY <2>1, OwnStepTrack
    <3>2. pc'[u] \notin {"acquire", "drain", "send"}
      BY <1>2 DEF Delivering
    <3> QED  BY <1>2, <2>1, <3>1, <3>2 DEF OwnTrack, Before, Unsent, TrackOfMsg, Of
  <2> QED  BY <1>4, <2>2, <2>3, <2>4, <2>5 DEF OrderInv
<1>5. CASE ~Delivers
  <2>1. pc'[u] \notin Delivering /\ RowTracks'
    BY <1>1, <1>5, OwnStepTrack, RowTracksKeep DEF OrderInv
  <2> QED  BY <1>2, <1>3, <1>5, <2>1 DEF OrderInv, Quiet
<1> QED  BY <1>4, <1>5

\* An upload of a job is known by its track (id and codec), and either all
\* uploads of a job have a place or none has.
LEMMA OneUpload ==
    ASSUME NEW j, NEW u \in Of(j), NEW v \in Of(j)
    PROVE  /\ TrackOf[u] = TrackOf[v] => u = v
           /\ Index[u] = 0 <=> Index[v] = 0
BY PlaceAssumption DEF Of

\* A sequence and one more element.
LEMMA Appended ==
    ASSUME NEW S, NEW s \in Seq(S), NEW x \in S, NEW t, t = Append(s, x)
    PROVE  /\ Len(s) \in Nat /\ Len(t) = Len(s) + 1 /\ t[Len(s) + 1] = x
           /\ \A n \in 1 .. Len(s) : t[n] = s[n]
           /\ \A n, m \in 1 .. Len(t) : n < m =>
                 /\ n \in 1 .. Len(s)
                 /\ m \in 1 .. Len(s) \/ m = Len(s) + 1
OBVIOUS

\* The order is kept when the copy that is sent comes after those before it.
LEMMA AppendInOrder ==
    ASSUME InTrackOrder, NEW j \in Job, NEW x \in Msg, sent[j] \in Seq(Msg),
           sent'[j] = Append(sent[j], x), \A i \in Job : i # j => sent'[i] = sent[i],
           \A n \in 1 .. Len(sent[j]) : \A a, b \in Of(j) :
               TrackOfMsg(sent[j][n]) = TrackOf[a] /\ TrackOfMsg(x) = TrackOf[b]
               => Index[a] < Index[b] \/ (Index[a] = 0 /\ a # b)
    PROVE  InTrackOrder'
<1> DEFINE InOrder(s, n, m, i) == \A a, b \in Of(i) :
               TrackOfMsg(s[n]) = TrackOf[a] /\ TrackOfMsg(s[m]) = TrackOf[b]
               => Index[a] < Index[b] \/ (Index[a] = 0 /\ a # b)
<1>1. \A i \in Job : \A n, m \in 1 .. Len(sent[i]) : n < m => InOrder(sent[i], n, m, i)
  BY Zenon DEF InTrackOrder
<1>2. SUFFICES ASSUME NEW i \in Job, NEW n \in 1 .. Len(sent'[i]), NEW m \in 1 .. Len(sent'[i]), n < m
               PROVE  InOrder(sent'[i], n, m, i)
  BY Zenon DEF InTrackOrder, TrackOfMsg, Of
<1>3. CASE i # j
  <2>1. sent'[i] = sent[i]
    BY <1>3
  <2> HIDE DEF InOrder
  <2> QED  BY <1>1, <1>2, <2>1
<1>4. CASE i = j
  <2>1. /\ n \in 1 .. Len(sent[j]) /\ sent'[j][n] = sent[j][n]
        /\ m \in 1 .. Len(sent[j]) \/ m = Len(sent[j]) + 1
    BY <1>2, <1>4, Appended
  <2>2. CASE m \in 1 .. Len(sent[j])
    <3>1. sent'[j][m] = sent[j][m]
      BY <2>2, Appended
    <3>2. InOrder(sent[j], n, m, j)
      BY <1>1, <1>2, <2>1, <2>2, Zenon
    <3> QED  BY <1>4, <2>1, <3>1, <3>2, Zenon
  <2>3. CASE m = Len(sent[j]) + 1
    <3>1. sent'[j][m] = x
      BY <2>3, Appended
    <3> QED  BY <1>4, <2>1, <3>1, Zenon
  <2> QED  BY <2>1, <2>2, <2>3
<1> QED  BY <1>3, <1>4

\* deliver_sequenced sends what waits for the next place, so what it sends
\* comes after everything it has sent.
LEMMA DeliverOrder ==
    ASSUME TypeOK, OneDrainer, SequencerInv, OrderInv, NEW u \in Upload, DeliverSequenced(u)
    PROVE  OrderInv'
<1> USE Constants, Messages
<1> DEFINE j == JobOf[u]
<1>1. UploadOne(u)
  BY DEF UploadOne
<1>2. \A v \in Upload : v # u =>
         pc'[v] = pc[v] /\ frame'[v] = frame[v] /\ sending'[v] = sending[v]
  BY <1>1, OthersKeep
<1>3. frame' = frame /\ pc[u] \in Delivering
  BY DeliverKeeps
<1>4. Delivers
  BY <1>3 DEF OrderInv, Quiet
<1>5. Placed /\ (\A v \in Upload : OwnTrack(v)) /\ Served /\ RowTracks /\ InTrackOrder
  BY <1>4 DEF OrderInv
<1>6. /\ DOMAIN pc = Upload /\ DOMAIN sending = Upload /\ DOMAIN next = Job /\ DOMAIN sent = Job
      /\ j \in Job /\ u \in Of(j)
  BY DEF TypeOK, Of
<1>7. RowTracks'
  BY <1>1, <1>5, RowTracksKeep
<1>8. frame[u].site \in Site
  BY DEF TypeOK
<1>9. \A v \in Upload : pc[v] \in {"drain", "send"} => lock[JobOf[v]] = v
  BY DEF OneDrainer
<1>a. CASE Insert(u)
  <2>1. /\ pc[u] = "insert" /\ pc'[u] = "acquire" /\ UNCHANGED <<next, sending, sent>>
        /\ pend' = [pend EXCEPT ![j][Index[u]] = frame[u].msg]
    BY <1>6, <1>a DEF Insert, Goto
  <2>2. Index[u] > 0 /\ Index[u] \in Slots /\ frame[u].msg \in Msg \cup {Skip}
    BY <2>1 DEF SequencerInv
  <2>3. Placed'
    <3> SUFFICES ASSUME NEW i \in Job, NEW n \in Slots, pend'[i][n] \in Msg
                 PROVE  \E v \in Of(i) : Index[v] = n /\ TrackOf[v] = TrackOfMsg(pend'[i][n])
      BY DEF Placed, Of, TrackOfMsg
    <3>1. CASE i = j /\ n = Index[u]
      <4>1. pend'[i][n] = frame[u].msg
        BY <2>1, <2>2, <3>1 DEF TypeOK
      <4> QED  BY <1>5, <1>6, <2>1, <3>1, <4>1 DEF OwnTrack, Before
    <3>2. CASE ~(i = j /\ n = Index[u])
      <4>1. pend'[i][n] = pend[i][n]
        BY <2>1, <2>2, <3>2 DEF TypeOK
      <4> QED  BY <1>5, <4>1 DEF Placed
    <3> QED  BY <3>1, <3>2
  <2>4. Served' /\ InTrackOrder'
    BY <1>5, <2>1 DEF Served, InTrackOrder, TrackOfMsg, Of
  <2>4a. \A v \in Upload : Unsent(v) => Unsent(v)'
    BY <2>1 DEF Unsent, TrackOfMsg
  <2>5. \A v \in Upload : OwnTrack(v)'
    BY <1>2, <1>3, <1>5, <2>1, <2>2, <2>4a DEF OwnTrack, Before, TrackOfMsg, Of
  <2> QED  BY <1>4, <1>7, <2>3, <2>4, <2>5 DEF OrderInv
<1>b. CASE Acquire(u)
  <2>1. /\ pc[u] = "acquire" /\ pc'[u] = "drain" /\ UNCHANGED <<pend, next, sending, sent>>
    BY <1>6, <1>b DEF Acquire, Goto
  <2>2. Placed' /\ Served' /\ InTrackOrder'
    BY <1>5, <2>1 DEF Placed, Served, InTrackOrder, TrackOfMsg, Of
  <2>2a. \A v \in Upload : Unsent(v) => Unsent(v)'
    BY <2>1 DEF Unsent, TrackOfMsg
  <2>3. \A v \in Upload : OwnTrack(v)'
    BY <1>2, <1>3, <1>5, <2>1, <2>2a DEF OwnTrack, Before, TrackOfMsg, Of
  <2> QED  BY <1>4, <1>7, <2>2, <2>3 DEF OrderInv
<1>c. CASE Drain(u)
  <2>0. /\ pc[u] = "drain" /\ sent' = sent
        /\ pend' = [pend EXCEPT ![j][next[j]] = Absent]
    BY <1>c DEF Drain
  <2>1. next[j] \in Slots /\ \A i \in Job : next[i] \in Nat
    BY DEF TypeOK, Slots
  <2>2. Placed'
    <3> SUFFICES ASSUME NEW i \in Job, NEW n \in Slots, pend'[i][n] \in Msg
                 PROVE  \E v \in Of(i) : Index[v] = n /\ TrackOf[v] = TrackOfMsg(pend'[i][n])
      BY DEF Placed, Of, TrackOfMsg
    <3>1. pend'[i][n] = pend[i][n]
      BY <2>0, <2>1 DEF TypeOK
    <3> QED  BY <1>5, <3>1 DEF Placed
  <2>3. InTrackOrder'
    <3>1. sent' = sent
      BY <2>0
    <3> QED  BY <1>5, <3>1 DEF InTrackOrder, TrackOfMsg, Of
  <2>3a. \A v \in Upload : Unsent(v) => Unsent(v)'
    BY <2>0 DEF Unsent, TrackOfMsg
  <2>4. CASE pend[j][next[j]] \in Msg
    <3>1. pc'[u] = "send" /\ UNCHANGED next /\ sending'[u] = pend[j][next[j]]
      BY <1>6, <1>c, <2>4 DEF Drain, Goto
    <3>2. OwnTrack(u)'
      <4>1. PICK v \in Of(j) : Index[v] = next[j] /\ TrackOf[v] = TrackOfMsg(pend[j][next[j]])
        BY <1>5, <1>6, <2>1, <2>4 DEF Placed
      <4>2. Index[u] > 0
        BY <1>5, <2>0 DEF OwnTrack, Before
      <4> QED  BY <3>1, <4>1, <4>2 DEF OwnTrack, Before, Unsent, TrackOfMsg, Of
    <3>3. \A v \in Upload : v # u => OwnTrack(v)'
      BY <1>2, <1>5, <2>0, <2>3a, <3>1 DEF OwnTrack, Before, TrackOfMsg, Of
    <3>4. Served'
      BY <1>5, <2>0, <3>1 DEF Served, TrackOfMsg, Of
    <3> QED  BY <1>4, <1>7, <2>2, <2>3, <3>2, <3>3, <3>4 DEF OrderInv
  <2>5. CASE pend[j][next[j]] = Skip
    <3>1. /\ UNCHANGED <<pc, sending>> /\ next'[j] = next[j] + 1
          /\ \A i \in Job : i # j => next'[i] = next[i]
      BY <1>6, <1>c, <2>5 DEF Drain
    <3>2. \A v \in Upload : pc[v] = "send" => JobOf[v] # j
      BY <1>9, <2>0
    <3>3. \A v \in Upload : OwnTrack(v)'
      BY <1>3, <1>5, <2>0, <3>1, <3>2 DEF OwnTrack, Before, Unsent, TrackOfMsg, Of
    <3>4. Served'
      <4> SUFFICES ASSUME NEW i \in Job, NEW n \in 1 .. Len(sent[i]), NEW v \in Of(i),
                          TrackOfMsg(sent[i][n]) = TrackOf[v]
                   PROVE  Index[v] < next'[i]
        BY <2>0 DEF Served, TrackOfMsg, Of
      <4>1. Index[v] < next[i] /\ Index[v] \in Nat
        BY <1>5 DEF Served, Of
      <4> QED  BY <2>1, <3>1, <4>1
    <3> QED  BY <1>4, <1>7, <2>2, <2>3, <3>3, <3>4 DEF OrderInv
  <2>6. CASE pend[j][next[j]] = Absent
    <3>1. /\ UNCHANGED <<next, sending>> /\ pc'[u] = AfterOk[frame[u].site]
      BY <1>6, <1>c, <2>6 DEF Drain, Goto
    <3>2. pc'[u] \in {"hit", "confirm", "errDone", "end"}
      BY <1>8, <3>1, AfterGoes
    <3>3. \A v \in Upload : OwnTrack(v)'
      BY <1>2, <1>5, <2>0, <2>3a, <3>1, <3>2 DEF OwnTrack, Before, TrackOfMsg, Of
    <3>4. Served'
      BY <1>5, <2>0, <3>1 DEF Served, TrackOfMsg, Of
    <3> QED  BY <1>4, <1>7, <2>2, <2>3, <3>3, <3>4 DEF OrderInv
  <2> QED  BY <1>c, <2>4, <2>5, <2>6 DEF Drain
<1>d. CASE SendOk(u)
  <2>0. /\ pc[u] = "send" /\ pc'[u] = "drain" /\ UNCHANGED pend
        /\ next'[j] = next[j] + 1 /\ sent'[j] = Append(sent[j], sending[u])
        /\ \A i \in Job : i # j => next'[i] = next[i] /\ sent'[i] = sent[i]
    BY <1>6, <1>d DEF SendOk, Goto
  <2>1. /\ sending[u] \in Msg /\ sent[j] \in Seq(Msg) /\ \A i \in Job : next[i] \in Nat
        /\ Index[u] > 0
    BY <1>5, <2>0 DEF SequencerInv, TypeOK, Slots, OwnTrack, Before
  <2>2. PICK w \in Of(j) : Index[w] = next[j] /\ TrackOf[w] = TrackOfMsg(sending[u])
    BY <1>5, <2>0 DEF OwnTrack, Before
  <2>3. /\ Len(sent'[j]) = Len(sent[j]) + 1 /\ Len(sent[j]) \in Nat
        /\ sent'[j][Len(sent[j]) + 1] = sending[u]
        /\ \A n \in 1 .. Len(sent[j]) : sent'[j][n] = sent[j][n]
    BY <2>0, <2>1, Appended
  <2>4. \A v \in Of(j) : TrackOfMsg(sending[u]) = TrackOf[v] => Index[v] = next[j]
    BY <2>2, OneUpload
  <2>5. Placed'
    BY <1>5, <2>0 DEF Placed, TrackOfMsg, Of
  <2>6. Served'
    <3> SUFFICES ASSUME NEW i \in Job, NEW n \in 1 .. Len(sent'[i]), NEW v \in Of(i),
                        TrackOfMsg(sent'[i][n]) = TrackOf[v]
                 PROVE  Index[v] < next'[i]
      BY DEF Served, TrackOfMsg, Of
    <3>1. v \in Upload /\ Index[v] \in Nat
      BY DEF Of
    <3>2. CASE i # j
      BY <1>5, <2>0, <3>2 DEF Served
    <3>3. CASE i = j /\ n <= Len(sent[j])
      <4>1. Index[v] < next[j]
        BY <1>5, <2>3, <3>3 DEF Served
      <4>2. next[j] \in Nat /\ next'[j] = next[j] + 1
        BY <1>6, <2>0, <2>1
      <4> QED  BY <3>1, <3>3, <4>1, <4>2
    <3>4. CASE i = j /\ n = Len(sent[j]) + 1
      <4>1. Index[v] = next[j]
        BY <2>3, <2>4, <3>4
      <4> QED  BY <2>0, <2>1, <3>4, <4>1
    <3> QED  BY <2>3, <3>2, <3>3, <3>4
  <2>7. InTrackOrder'
    <3>1. \A n \in 1 .. Len(sent[j]) : \A a, b \in Of(j) :
             TrackOfMsg(sent[j][n]) = TrackOf[a] /\ TrackOfMsg(sending[u]) = TrackOf[b]
             => Index[a] < Index[b] \/ (Index[a] = 0 /\ a # b)
      <4> SUFFICES ASSUME NEW n \in 1 .. Len(sent[j]), NEW a \in Of(j), NEW b \in Of(j),
                          TrackOfMsg(sent[j][n]) = TrackOf[a],
                          TrackOfMsg(sending[u]) = TrackOf[b]
                   PROVE  Index[a] < Index[b]
        OBVIOUS
      <4>1. Index[a] < next[j]
        BY <1>5, <1>6, Zenon DEF Served
      <4>2. Index[b] = next[j]
        BY <2>4, Zenon
      <4> QED  BY <4>1, <4>2
    <3>2. /\ InTrackOrder /\ sending[u] \in Msg /\ sent[j] \in Seq(Msg)
          /\ sent'[j] = Append(sent[j], sending[u]) /\ \A i \in Job : i # j => sent'[i] = sent[i]
      BY <1>5, <2>0, <2>1
    <3> HIDE DEF j
    <3> QED  BY <1>6, <3>1, <3>2, AppendInOrder, ZenonT(30)
  <2>8. \A v \in Upload : v # u => OwnTrack(v)'
    <3> SUFFICES ASSUME NEW v \in Upload, v # u PROVE OwnTrack(v)'
      OBVIOUS
    <3>1. pc[v] = "send" => JobOf[v] # j
      BY <1>9, <2>0
    <3>2. Index[v] = 0 => JobOf[v] # j
      <4>1. ~(Index[u] = 0)
        BY <2>1, Constants
      <4> QED  BY <1>6, <4>1, OneUpload DEF Of
    <3>3. OwnTrack(v) /\ pc'[v] = pc[v] /\ frame'[v] = frame[v] /\ sending'[v] = sending[v]
      BY <1>2, <1>5
    <3>4. /\ pc[v] = "send" => next'[JobOf[v]] = next[JobOf[v]]
          /\ Index[v] = 0 => sent'[JobOf[v]] = sent[JobOf[v]]
      BY <2>0, <3>1, <3>2
    <3> QED  BY <3>3, <3>4 DEF OwnTrack, Before, Unsent, TrackOfMsg, Of
  <2>9. OwnTrack(u)'
    BY <2>0, <2>1 DEF OwnTrack, Before
  <2> QED  BY <1>4, <1>7, <2>5, <2>6, <2>7, <2>8, <2>9 DEF OrderInv
<1>e. CASE SendFail(u)
  <2>1. /\ pc[u] = "send" /\ pc'[u] = AfterErr[frame[u].site] /\ UNCHANGED <<pend, next, sent>>
    BY <1>6, <1>e DEF SendFail, Goto
  <2>2. pc'[u] \in {"stale", "err", "errDone", "end"} /\ Index[u] > 0
    BY <1>5, <1>8, <2>1, AfterGoes DEF OwnTrack, Before
  <2>3. Placed' /\ Served' /\ InTrackOrder'
    BY <1>5, <2>1 DEF Placed, Served, InTrackOrder, TrackOfMsg, Of
  <2>3a. \A v \in Upload : Unsent(v) => Unsent(v)'
    BY <2>1 DEF Unsent, TrackOfMsg
  <2>4. \A v \in Upload : OwnTrack(v)'
    BY <1>2, <1>5, <2>1, <2>2, <2>3a DEF OwnTrack, Before, TrackOfMsg, Of
  <2> QED  BY <1>4, <1>7, <2>3, <2>4 DEF OrderInv
<1>f. CASE Direct(u)
  <2>1. /\ pc[u] = "direct" /\ UNCHANGED <<pend, next, sending>>
        /\ Index[u] = 0 /\ Unsent(u) /\ \A i \in Job : next[i] \in Nat /\ next[i] > 0
        /\ frame[u].msg \in Msg => TrackOfMsg(frame[u].msg) = TrackOf[u]
    BY <1>5, <1>f DEF Direct, SequencerInv, OwnTrack, Before, TypeOK, Slots
  <2>2. \A v \in Of(j) : Index[v] = 0
    BY <1>6, <2>1, OneUpload
  <2>3. Placed'
    BY <1>5, <2>1 DEF Placed, TrackOfMsg, Of
  <2>4. CASE /\ sent' = [sent EXCEPT ![j] = Append(@, frame[u].msg)]
             /\ frame[u].msg \in dump
             /\ pc'[u] = AfterOk[frame[u].site]
    <3>0. sent[j] \in Seq(Msg) /\ frame[u].msg \in Msg
      BY <1>6, <2>4 DEF TypeOK
    <3>1. /\ sent'[j] = Append(sent[j], frame[u].msg)
          /\ \A i \in Job : i # j => sent'[i] = sent[i]
      BY <1>6, <2>4
    <3>2. /\ Len(sent'[j]) = Len(sent[j]) + 1 /\ Len(sent[j]) \in Nat
          /\ sent'[j][Len(sent[j]) + 1] = frame[u].msg
          /\ \A n \in 1 .. Len(sent[j]) : sent'[j][n] = sent[j][n]
      BY <3>0, <3>1, Appended
    <3>3. OwnTrack(u)'
      <4>1. pc'[u] \in {"hit", "confirm", "errDone", "end"}
        BY <1>8, <2>4, AfterGoes
      <4> QED  BY <4>1 DEF OwnTrack, Before
    <3>4. \A v \in Upload : v # u => OwnTrack(v)'
      <4> SUFFICES ASSUME NEW v \in Upload, v # u PROVE OwnTrack(v)'
        OBVIOUS
      <4>1. /\ OwnTrack(v) /\ pc'[v] = pc[v] /\ frame'[v] = frame[v]
            /\ sending'[v] = sending[v] /\ next' = next
        BY <1>2, <1>5, <2>1
      <4>2. Unsent(v) => Unsent(v)'
        <5> SUFFICES ASSUME Unsent(v), NEW n \in 1 .. Len(sent'[JobOf[v]])
                     PROVE  TrackOfMsg(sent'[JobOf[v]][n]) # TrackOf[v]
          BY DEF Unsent, TrackOfMsg
        <5>1. CASE JobOf[v] # j
          <6>1. sent'[JobOf[v]] = sent[JobOf[v]]
            BY <3>1, <5>1
          <6> QED  BY <6>1 DEF Unsent
        <5>2. CASE JobOf[v] = j /\ n <= Len(sent[j])
          <6>1. n \in 1 .. Len(sent[j]) /\ sent'[j][n] = sent[j][n]
            BY <3>2, <5>2
          <6> QED  BY <5>2, <6>1 DEF Unsent
        <5>3. CASE JobOf[v] = j /\ n = Len(sent[j]) + 1
          <6>1. TrackOf[v] # TrackOf[u]
            BY <1>6, <5>3, OneUpload DEF Of
          <6> QED  BY <2>1, <3>0, <3>2, <5>3, <6>1
        <5>4. JobOf[v] = j => n <= Len(sent[j]) \/ n = Len(sent[j]) + 1
          BY <3>2
        <5> QED  BY <5>1, <5>2, <5>3, <5>4
      <4> QED  BY <4>1, <4>2 DEF OwnTrack, Before, TrackOfMsg, Of
    <3>5. Served'
      <4> SUFFICES ASSUME NEW i \in Job, NEW n \in 1 .. Len(sent'[i]), NEW v \in Of(i),
                          TrackOfMsg(sent'[i][n]) = TrackOf[v]
                   PROVE  Index[v] < next'[i]
        BY DEF Served, TrackOfMsg, Of
      <4>1. CASE i = j
        BY <2>1, <2>2, <4>1
      <4>2. CASE i # j
        BY <1>5, <2>1, <3>1, <4>2 DEF Served
      <4> QED  BY <4>1, <4>2
    <3>6. InTrackOrder'
      <4>1. \A n \in 1 .. Len(sent[j]) : \A a, b \in Of(j) :
               TrackOfMsg(sent[j][n]) = TrackOf[a] /\ TrackOfMsg(frame[u].msg) = TrackOf[b]
               => Index[a] < Index[b] \/ (Index[a] = 0 /\ a # b)
        <5> SUFFICES ASSUME NEW n \in 1 .. Len(sent[j]), NEW a \in Of(j), NEW b \in Of(j),
                            TrackOfMsg(sent[j][n]) = TrackOf[a],
                            TrackOfMsg(frame[u].msg) = TrackOf[b]
                     PROVE  Index[a] = 0 /\ a # b
          OBVIOUS
        <5>1. TrackOf[b] = TrackOf[u]
          BY <2>1, <3>0
        <5>2. TrackOf[a] # TrackOf[u]
          BY <2>1, Zenon DEF Unsent
        <5> QED  BY <2>2, <5>1, <5>2, Zenon
      <4> QED  BY <1>5, <1>6, <3>0, <3>1, <4>1, AppendInOrder, Zenon
    <3> QED  BY <1>4, <1>7, <2>3, <3>3, <3>4, <3>5, <3>6 DEF OrderInv
  <2>5. CASE sent' = sent /\ pc'[u] = AfterErr[frame[u].site]
    <3>1. pc'[u] \in {"stale", "err", "errDone", "end"}
      BY <1>8, <2>5, AfterGoes
    <3>2. Served' /\ InTrackOrder'
      <4>1. UNCHANGED <<sent, next>>
        BY <2>1, <2>5
      <4>2. InTrackOrder'
        BY <1>5, <4>1 DEF InTrackOrder, TrackOfMsg, Of
      <4>3. Served'
        BY <1>5, <4>1 DEF Served, TrackOfMsg, Of
      <4> QED  BY <4>2, <4>3
    <3>3. OwnTrack(u)'
      BY <2>1, <2>5, <3>1 DEF OwnTrack, Before, Unsent, TrackOfMsg
    <3>3a. \A v \in Upload : Unsent(v) => Unsent(v)'
      BY <2>5 DEF Unsent, TrackOfMsg
    <3>4. \A v \in Upload : v # u => OwnTrack(v)'
      BY <1>2, <1>5, <2>1, <2>5, <3>3a DEF OwnTrack, Before, TrackOfMsg, Of
    <3> QED  BY <1>4, <1>7, <2>3, <3>2, <3>3, <3>4 DEF OrderInv
  <2> QED  BY <1>6, <1>f, <2>4, <2>5 DEF Direct, Goto
<1> QED  BY <1>a, <1>b, <1>c, <1>d, <1>e, <1>f DEF DeliverSequenced

\* Nothing has been sent when the lane starts, and the rows are those of the
\* other job's messages.
LEMMA InitOrder == Init => OrderInv
<1> SUFFICES ASSUME Init PROVE OrderInv
  OBVIOUS
<1>1. RowTracks
  BY Messages, TrackOfMessages DEF Init, RowTracks
<1>2. \A j \in Job : sent[j] = <<>> /\ Len(sent[j]) = 0
  BY DEF Init
<1>3. Quiet
  BY <1>2 DEF Init, Quiet, Delivering
<1>4. Placed /\ \A u \in Upload : OwnTrack(u)
  BY <1>2, Messages, Constants DEF Init, Placed, OwnTrack, Before, Unsent
<1>5. Served /\ InTrackOrder
  BY <1>2 DEF Served, InTrackOrder
<1> QED  BY <1>1, <1>3, <1>4, <1>5 DEF OrderInv

\* The copies of a job arrive in track order, each track at most once, for
\* any number of uploads that drain for each other in any order.
THEOREM InTrackOrderAlways == Spec => []InTrackOrder
<1>1. UploadInv /\ OrderInv /\ [Next]_vars => OrderInv'
  <2> SUFFICES ASSUME UploadInv, OrderInv, [Next]_vars PROVE OrderInv'
    OBVIOUS
  <2>1. TypeOK /\ OneDrainer /\ SequencerInv
    BY DEF UploadInv
  <2>2. ASSUME NEW u \in Upload, UploadOne(u) PROVE OrderInv'
    <3>1. DeliverSequenced(u) \/ OwnStep(u)
      BY <2>2 DEF UploadOne, OwnStep
    <3> QED  BY <2>1, <3>1, DeliverOrder, OwnStepOrder
  <2>3. CASE UNCHANGED <<pc, frame, sending, row, pend, next, sent>>
    BY <2>3 DEF OrderInv, Placed, OwnTrack, Before, Unsent, Served, RowTracks, Quiet, InTrackOrder,
                TrackOfMsg, Of
  <2>4. ASSUME NEW j \in Job, CancelJob(j) PROVE OrderInv'
    BY <2>3, <2>4 DEF CancelJob, seqVars, storeVars
  <2>5. CASE UNCHANGED vars
    BY <2>3, <2>5 DEF vars
  <2> QED  BY <2>2, <2>4, <2>5 DEF Next
<1>2. OrderInv => InTrackOrder
  BY DEF OrderInv, Quiet, InTrackOrder
<1> QED  BY <1>1, <1>2, InitOrder, UploadsInvariant, PTL DEF Spec
=============================================================================
