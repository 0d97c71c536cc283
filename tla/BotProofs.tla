------------------------------ MODULE BotProofs ------------------------------
(***************************************************************************)
(* Proofs about the components a user talks to: the playback room, and the *)
(* bot's SettingsStore, TelegramSink, Dashboard and CacheAdmin.  They      *)
(* share no state; each part has its own invariant, the lemmas for its     *)
(* steps, and its theorems.                                                *)
(*                                                                         *)
(* PlaybackRoom is proved for any connections, devices, tasks and any      *)
(* channel capacity.  NoGhostDevice needs ClaimInv: the room's owner of a  *)
(* listed device is the connection that claimed it last, so that the guard *)
(* of remove_device_connection is exact.  TaskFeedConverges needs FeedInv: *)
(* whatever a client's view still lacks is announced by an event it has    *)
(* yet to read, unless the task is hidden; and LateInv: a removal it has   *)
(* yet to read of a task that is registered again is followed by an update *)
(* or has hidden the task.                                                 *)
(***************************************************************************)
EXTENDS PlaybackRoom, SettingsStore, TelegramSink, Dashboard, CacheAdmin, SequenceTheorems,
        TLAPS

-----------------------------------------------------------------------------
(* PlaybackRoom. *)

Elems(s) == {s[n] : n \in 1 .. Len(s)}
Updated(t) == [kind |-> "updated", task |-> t]
Dismissed(t) == [kind |-> "dismissed", task |-> t]

\* Events about to be broadcast, and the ones a connection has yet to read too.
Outgoing == {Said(u) : u \in unsent}
Pending(c) == Outgoing \cup Elems(feed[c])

\* The feeds are sequences of events.
FeedType == feed \in [Conn -> Seq(Event)]

\* Who may remove a device is who claimed it last.
ClaimInv ==
    /\ \A d \in Device : owner[d] = IF d \in devices THEN claim[d] ELSE None
    /\ \A c \in Conn : up[c] = "new" => mine[c] = None

\* A registered task was put at least once.
PutInv == \A t \in registry : puts[t] >= 1

\* After event n of its feed the client is told of the task, or the task is hidden.
Covered(c, t, n) ==
    \/ t \in hidden
    \/ Updated(t) \in Outgoing
    \/ \E m \in 1 .. Len(feed[c]) : m > n /\ feed[c][m] = Updated(t)

\* A removal of a task that is registered again does not have the last word.
LateInv ==
    /\ \A c \in Open, t \in registry : \A n \in 1 .. Len(feed[c]) :
          feed[c][n] = Dismissed(t) => Covered(c, t, n)
    /\ \A c \in Conn : up[c] = "new" => feed[c] = <<>>

\* What the view of a client lacks, or has too much, is announced.
FeedInv ==
    \A c \in Open : mine[c] # None /\ ~ lagged[c] =>
        \A t \in Task :
            /\ t \in registry \ view[c] => t \in hidden \/ Updated(t) \in Pending(c)
            /\ t \in view[c] \ registry => Dismissed(t) \in Pending(c)

RoomInv ==
    TypeOK /\ FeedType /\ PutInv /\ ClaimInv /\ NoGhostDevice /\ LateInv /\ FeedInv

-----------------------------------------------------------------------------
(* Sequences. *)

\* A receiver's buffer and the event that is sent to it.
LEMMA AppendElems ==
    ASSUME NEW S, NEW s \in Seq(S), NEW e \in S
    PROVE  /\ Append(s, e) \in Seq(S) /\ Len(Append(s, e)) = Len(s) + 1 /\ Len(s) \in Nat
           /\ \A n \in 1 .. Len(s) : Append(s, e)[n] = s[n]
           /\ Append(s, e)[Len(s) + 1] = e
           /\ Elems(Append(s, e)) = Elems(s) \cup {e}
<1>1. /\ Append(s, e) \in Seq(S) /\ Len(Append(s, e)) = Len(s) + 1 /\ Len(s) \in Nat
      /\ \A n \in 1 .. Len(s) : Append(s, e)[n] = s[n]
      /\ Append(s, e)[Len(s) + 1] = e
  BY AppendProperties, LenProperties
<1>2. 1 .. Len(s) + 1 = (1 .. Len(s)) \cup {Len(s) + 1}
  BY <1>1
<1>3. Elems(Append(s, e)) = Elems(s) \cup {e}
  BY <1>1, <1>2 DEF Elems
<1> QED  BY <1>1, <1>3

\* A receiver's buffer and the event that is read from it, or lost.
LEMMA TailElems ==
    ASSUME NEW S, NEW s \in Seq(S), s # <<>>
    PROVE  /\ Head(s) \in S /\ Head(s) = s[1] /\ Tail(s) \in Seq(S)
           /\ Len(s) \in Nat /\ Len(s) >= 1 /\ Len(Tail(s)) = Len(s) - 1
           /\ \A n \in 1 .. Len(Tail(s)) : Tail(s)[n] = s[n + 1]
           /\ Elems(s) = {Head(s)} \cup Elems(Tail(s))
<1>1. /\ Head(s) \in S /\ Head(s) = s[1] /\ Tail(s) \in Seq(S)
      /\ Len(s) \in Nat /\ Len(s) >= 1 /\ Len(Tail(s)) = Len(s) - 1
      /\ \A n \in 1 .. Len(Tail(s)) : Tail(s)[n] = s[n + 1]
  BY HeadTailProperties, LenProperties, EmptySeq
<1>2. \A x : x \in Elems(s) => x = Head(s) \/ x \in Elems(Tail(s))
  <2> SUFFICES ASSUME NEW n \in 1 .. Len(s), n # 1 PROVE s[n] \in Elems(Tail(s))
    BY <1>1 DEF Elems
  <2>1. n - 1 \in 1 .. Len(Tail(s)) /\ Tail(s)[n - 1] = s[n]
    BY <1>1
  <2> QED  BY <2>1 DEF Elems
<1>3. \A x : x \in Elems(Tail(s)) => x \in Elems(s)
  <2> SUFFICES ASSUME NEW n \in 1 .. Len(Tail(s)) PROVE Tail(s)[n] \in Elems(s)
    BY DEF Elems
  <2>1. n + 1 \in 1 .. Len(s) /\ Tail(s)[n] = s[n + 1]
    BY <1>1
  <2> QED  BY <2>1 DEF Elems
<1>4. Head(s) \in Elems(s)
  BY <1>1 DEF Elems
<1> QED  BY <1>1, <1>2, <1>3, <1>4

-----------------------------------------------------------------------------
(* What the steps do to the feeds. *)

\* The steps of the connections and of the room, which leave the feeds alone.
RoomStep ==
    \/ \E c \in Conn : \/ Connect(c) \/ ReportState(c) \/ Disconnect(c) \/ AuthRecheck(c)
                       \/ Revoke(c)
    \/ \E c \in Conn, d \in Device : Hello(c, d) \/ TransferPlayback(c, d)

\* The steps of the task feed, which leave the room alone.
TaskStep ==
    \/ \E c \in Conn : RecvLagged(c) \/ RecvTaskEvent(c)
    \/ \E t \in Task : PutTask(t) \/ UpdateTask(t) \/ DropTask(t)
    \/ \E u \in Notice : Broadcast(u)

\* The two kinds of events are different, and a notice says one of them.
LEMMA Events ==
    /\ \A t \in Task : Updated(t) \in Event /\ Dismissed(t) \in Event
    /\ \A t, x : Updated(t) # Dismissed(x)
    /\ \A t, x : Updated(t) = Updated(x) => t = x
    /\ \A t, x : Dismissed(t) = Dismissed(x) => t = x
    /\ \A e \in Event : /\ e.task \in Task
                        /\ e.kind = "dismissed" => e = Dismissed(e.task)
                        /\ e.kind # "dismissed" => e = Updated(e.task)
    /\ \A u \in Notice : /\ u.task \in Task /\ Said(u) \in Event
                         /\ u.kind = "updated" => Said(u) = Updated(u.task)
                         /\ u.kind # "updated" => Said(u) = Dismissed(u.task)
    /\ \A t, n : /\ Said([kind |-> "updated", task |-> t, put |-> n]) = Updated(t)
                 /\ Said([kind |-> "dismissed", task |-> t, put |-> n]) = Dismissed(t)
<1>1. \A t, x : /\ Updated(t).kind = "updated" /\ Updated(t).task = t
                /\ Dismissed(x).kind = "dismissed" /\ Dismissed(x).task = x
  BY DEF Updated, Dismissed
<1>2. \A e \in Event : /\ e.task \in Task
                       /\ e.kind = "dismissed" => e = Dismissed(e.task)
                       /\ e.kind # "dismissed" => e = Updated(e.task)
  BY DEF Event, Updated, Dismissed
<1>3. \A t \in Task : Updated(t) \in Event /\ Dismissed(t) \in Event
  BY DEF Event, Updated, Dismissed
<1>4. \A u \in Notice : /\ u.task \in Task /\ Said(u) \in Event
                        /\ u.kind = "updated" => Said(u) = Updated(u.task)
                        /\ u.kind # "updated" => Said(u) = Dismissed(u.task)
  BY DEF Notice, Event, Said, Updated, Dismissed
<1>5. \A t, n : /\ Said([kind |-> "updated", task |-> t, put |-> n]) = Updated(t)
                /\ Said([kind |-> "dismissed", task |-> t, put |-> n]) = Dismissed(t)
  BY DEF Said, Updated, Dismissed
<1> QED  BY <1>1, <1>2, <1>3, <1>4, <1>5

\* Every step is of one of the two kinds.
LEMMA Steps == Next => RoomStep \/ TaskStep
BY DEF Next, RoomStep, TaskStep

\* task_sync_tx.send: the event comes last, and a receiver that is not told it
\* lagged loses nothing.
LEMMA BroadcastDoes ==
    ASSUME TypeOK, FeedType, NEW u \in Notice, Broadcast(u), NEW c \in Conn,
           NEW e, e = Said(u)
    PROVE  /\ feed'[c] \in Seq(Event) /\ Len(feed'[c]) <= Capacity
           /\ c \in Open => /\ e \in Elems(feed'[c])
                           /\ feed'[c][Len(feed'[c])] = e
                           /\ \E k \in {0, 1} :
                                 /\ Len(feed[c]) = Len(feed'[c]) - 1 + k
                                 /\ \A n \in 1 .. Len(feed'[c]) - 1 : feed'[c][n] = feed[c][n + k]
           /\ c \in Open /\ ~ lagged'[c] =>
                  ~ lagged[c] /\ Elems(feed'[c]) = Elems(feed[c]) \cup {e}
<1>1. feed[c] \in Seq(Event) /\ Len(feed[c]) <= Capacity /\ Len(feed[c]) \in Nat
      /\ Capacity \in Nat /\ Capacity > 0 /\ e \in Event
  BY LenProperties, RoomAssumption, Events DEF FeedType, TypeOK
<1>2. lagged'[c] = (lagged[c] \/ (c \in Open /\ Len(feed[c]) = Capacity))
  BY DEF Broadcast
<1>3. CASE c \notin Open
  <2>1. feed'[c] = feed[c]
    BY <1>3 DEF Broadcast
  <2> QED  BY <1>1, <1>3, <2>1
<1>4. CASE c \in Open /\ Len(feed[c]) # Capacity
  <2>1. PICK s : s = Append(feed[c], e)
    OBVIOUS
  <2>2. feed'[c] = s
    BY <1>4, <2>1 DEF Broadcast
  <2>3. /\ s \in Seq(Event) /\ Len(s) = Len(feed[c]) + 1 /\ s[Len(s)] = e
        /\ \A n \in 1 .. Len(feed[c]) : s[n] = feed[c][n]
        /\ Elems(s) = Elems(feed[c]) \cup {e}
    BY <1>1, <2>1, AppendElems
  <2>4. Len(s) <= Capacity /\ Len(feed[c]) = Len(s) - 1 + 0
        /\ \A n \in 1 .. Len(s) - 1 : s[n] = feed[c][n + 0]
    BY <1>1, <1>4, <2>3
  <2> QED  BY <1>2, <1>4, <2>2, <2>3, <2>4
<1>5. CASE c \in Open /\ Len(feed[c]) = Capacity
  <2>0. feed[c] # <<>>
    BY <1>1, <1>5, EmptySeq
  <2>a. PICK r : r = Tail(feed[c])
    OBVIOUS
  <2>1. /\ r = Tail(feed[c]) /\ r \in Seq(Event) /\ Len(r) = Len(feed[c]) - 1
        /\ \A n \in 1 .. Len(r) : r[n] = feed[c][n + 1]
    BY <1>1, <2>0, <2>a, TailElems
  <2>2. PICK s : s = Append(r, e)
    OBVIOUS
  <2>3. feed'[c] = s /\ lagged'[c]
    BY <1>2, <1>5, <2>1, <2>2 DEF Broadcast
  <2>b. r \in Seq(Event) /\ e \in Event
    BY <1>1, <2>1
  <2>4. /\ s \in Seq(Event) /\ Len(s) = Len(r) + 1 /\ s[Len(s)] = e
        /\ \A n \in 1 .. Len(r) : s[n] = r[n]
        /\ e \in Elems(s)
    BY <2>b, <2>2, AppendElems
  <2>5. Len(s) <= Capacity /\ Len(feed[c]) = Len(s) - 1 + 1
        /\ \A n \in 1 .. Len(s) - 1 : s[n] = feed[c][n + 1]
    BY <1>1, <1>5, <2>1, <2>4
  <2> QED  BY <2>3, <2>4, <2>5
<1> QED  BY <1>3, <1>4, <1>5

\* task_rx.recv takes the oldest event.
LEMMA RecvDoes ==
    ASSUME TypeOK, FeedType, NEW c \in Conn, RecvTaskEvent(c)
    PROVE  /\ Head(feed[c]) \in Event /\ feed'[c] \in Seq(Event)
           /\ Len(feed'[c]) = Len(feed[c]) - 1 /\ Len(feed[c]) \in Nat
           /\ \A n \in 1 .. Len(feed'[c]) : feed'[c][n] = feed[c][n + 1]
           /\ Elems(feed[c]) = {Head(feed[c])} \cup Elems(feed'[c])
           /\ \A x \in Conn \ {c} : feed'[x] = feed[x]
<1>1. feed[c] \in Seq(Event) /\ feed[c] # <<>>
  BY DEF FeedType, RecvTaskEvent
<1>2. feed'[c] = Tail(feed[c]) /\ \A x \in Conn \ {c} : feed'[x] = feed[x]
  BY DEF FeedType, RecvTaskEvent
<1>3. /\ Head(feed[c]) \in Event /\ Tail(feed[c]) \in Seq(Event)
      /\ Len(feed[c]) \in Nat /\ Len(Tail(feed[c])) = Len(feed[c]) - 1
      /\ \A n \in 1 .. Len(Tail(feed[c])) : Tail(feed[c])[n] = feed[c][n + 1]
      /\ Elems(feed[c]) = {Head(feed[c])} \cup Elems(Tail(feed[c]))
  BY <1>1, TailElems
<1> QED  BY <1>2, <1>3

-----------------------------------------------------------------------------
(* Types. *)

\* Every step keeps the types, and the feeds within the channel's capacity.
LEMMA TypeStep ==
    ASSUME TypeOK, FeedType, PutInv, Next
    PROVE  TypeOK' /\ FeedType' /\ PutInv'
<1> USE DEF roomVars, taskVars, feedVars
<1>a. CASE RoomStep
  <2>1. feed' = feed /\ registry' = registry /\ puts' = puts /\ unsent' = unsent
        /\ hidden' = hidden /\ lagged' = lagged
    BY <1>a DEF RoomStep, Connect, ReportState, Disconnect, AuthRecheck, Leave, Revoke, Hello,
                TransferPlayback
  <2>2. up' \in [Conn -> {"new", "open", "closed"}] /\ session' \in [Conn -> BOOLEAN]
    BY <1>a DEF RoomStep, Connect, ReportState, Disconnect, AuthRecheck, Leave, Revoke, Hello,
                TransferPlayback, TypeOK
  <2>3. /\ mine' \in [Conn -> Device \cup {None}] /\ claim' \in [Device -> Conn \cup {None}]
        /\ snapshot' \in Device \cup {None} /\ view' \in [Conn -> SUBSET Task]
    BY <1>a DEF RoomStep, Connect, ReportState, Disconnect, AuthRecheck, Leave, Revoke, Hello,
                TransferPlayback, TypeOK
  <2>4. devices' \subseteq Device /\ owner' \in [Device -> Conn \cup {None}]
    BY <1>a DEF RoomStep, Connect, ReportState, Disconnect, AuthRecheck, Leave, Revoke, Hello,
                TransferPlayback, RemoveDeviceConnection, TypeOK
  <2>5. active' \in Device \cup {None}
    BY <1>a, <2>4 DEF RoomStep, Connect, ReportState, Disconnect, AuthRecheck, Leave, Revoke,
                      Hello, TransferPlayback, TypeOK
  <2>6. FeedType' /\ PutInv'
    BY <2>1 DEF FeedType, PutInv
  <2> QED  BY <2>1, <2>2, <2>3, <2>4, <2>5, <2>6 DEF TypeOK
<1>b. CASE TaskStep
  <2>1. UNCHANGED <<up, mine, devices, owner, claim, active, snapshot, session>>
    BY <1>b DEF TaskStep, RecvLagged, RecvTaskEvent, PutTask, UpdateTask, DropTask, Broadcast
  <2>2. /\ registry' \subseteq Task /\ hidden' \subseteq Task
        /\ puts' \in [Task -> 0 .. MaxPuts] /\ unsent' \subseteq Notice /\ PutInv'
    <3>1. CASE \E t \in Task : PutTask(t) \/ UpdateTask(t) \/ DropTask(t)
      <4>1. PICK t \in Task : PutTask(t) \/ UpdateTask(t) \/ DropTask(t)
        BY <3>1
      <4>2. puts[t] \in 0 .. MaxPuts /\ MaxPuts \in Nat /\ (t \in registry => puts[t] >= 1)
        BY RoomAssumption DEF TypeOK, PutInv
      <4>3. \A k \in 1 .. MaxPuts : /\ [kind |-> "updated", task |-> t, put |-> k] \in Notice
                                   /\ [kind |-> "dismissed", task |-> t, put |-> k] \in Notice
        BY DEF Notice
      <4>4. CASE PutTask(t)
        <5>1. puts[t] + 1 \in 1 .. MaxPuts
          BY <4>2, <4>4 DEF PutTask
        <5>a. PICK k \in 1 .. MaxPuts : k = puts[t] + 1
          BY <5>1
        <5>b. unsent' = unsent \cup {[kind |-> "updated", task |-> t, put |-> k]}
          BY <4>4, <5>a DEF PutTask
        <5>2. unsent' \subseteq Notice /\ registry' \subseteq Task /\ hidden' \subseteq Task
          <6>1. unsent' \subseteq Notice
            BY <4>3, <5>b DEF TypeOK
          <6> QED  BY <4>4, <6>1 DEF PutTask, TypeOK
        <5>3. puts' \in [Task -> 0 .. MaxPuts]
              /\ puts'[t] = puts[t] + 1 /\ \A x \in Task \ {t} : puts'[x] = puts[x]
          BY <4>2, <4>4, <5>1 DEF PutTask, TypeOK
        <5>4. registry' = registry \cup {t} /\ registry \subseteq Task
          BY <4>4 DEF PutTask, TypeOK
        <5> QED  BY <4>2, <5>2, <5>3, <5>4 DEF PutInv
      <4>5. CASE UpdateTask(t) \/ DropTask(t)
        <5>1. t \in registry /\ puts' = puts /\ hidden' = hidden /\ registry' \subseteq registry
          BY <4>5 DEF UpdateTask, DropTask
        <5>2. unsent' \subseteq Notice
          <6>1. PICK k \in 1 .. MaxPuts : k = puts[t]
            BY <4>2, <5>1
          <6>2. \/ unsent' = unsent \cup {[kind |-> "updated", task |-> t, put |-> k]}
                \/ unsent' = unsent \cup {[kind |-> "dismissed", task |-> t, put |-> k]}
            BY <4>5, <6>1 DEF UpdateTask, DropTask
          <6>3. unsent \subseteq Notice
            BY DEF TypeOK
          <6>4. PICK u, v : /\ u = [kind |-> "updated", task |-> t, put |-> k]
                            /\ v = [kind |-> "dismissed", task |-> t, put |-> k]
            OBVIOUS
          <6>5. u \in Notice /\ v \in Notice
            BY <4>3, <6>4
          <6>6. unsent' = unsent \cup {u} \/ unsent' = unsent \cup {v}
            BY <6>2, <6>4
          <6> QED  BY <6>3, <6>5, <6>6
        <5> QED  BY <5>1, <5>2 DEF TypeOK, PutInv
      <4> QED  BY <4>1, <4>4, <4>5
    <3>2. CASE \E u \in Notice : Broadcast(u)
      BY <3>2 DEF Broadcast, TypeOK, PutInv
    <3>3. CASE \E c \in Conn : RecvLagged(c) \/ RecvTaskEvent(c)
      BY <3>3 DEF RecvLagged, RecvTaskEvent, TypeOK, PutInv
    <3> QED  BY <1>b, <3>1, <3>2, <3>3 DEF TaskStep
  <2>3. lagged' \in [Conn -> BOOLEAN]
    BY <1>b DEF TaskStep, RecvLagged, RecvTaskEvent, PutTask, UpdateTask, DropTask, Broadcast, TypeOK
  <2>4. view' \in [Conn -> SUBSET Task]
    <3>1. CASE \E c \in Conn : RecvTaskEvent(c)
      <4>1. PICK c \in Conn : RecvTaskEvent(c)
        BY <3>1
      <4> QED  BY <4>1 DEF RecvTaskEvent, TypeOK
    <3>2. CASE ~ \E c \in Conn : RecvTaskEvent(c)
      BY <1>b, <3>2 DEF TaskStep, RecvLagged, PutTask, UpdateTask, DropTask, Broadcast, TypeOK
    <3> QED  BY <3>1, <3>2
  <2>5. DOMAIN feed' = Conn
        /\ feed' = [c \in Conn |-> feed'[c]]
    BY <1>b DEF TaskStep, RecvLagged, RecvTaskEvent, PutTask, UpdateTask, DropTask, Broadcast, FeedType
  <2>6. ASSUME NEW c \in Conn PROVE feed'[c] \in Seq(Event) /\ Len(feed'[c]) <= Capacity
    <3>0. feed[c] \in Seq(Event) /\ Len(feed[c]) <= Capacity /\ Capacity \in Nat
          /\ Len(feed[c]) \in Nat
      BY LenProperties, RoomAssumption DEF FeedType, TypeOK
    <3>1. CASE \E u \in Notice : Broadcast(u)
      BY <3>1, BroadcastDoes
    <3>2. CASE \E x \in Conn : RecvTaskEvent(x)
      <4>1. PICK x \in Conn : RecvTaskEvent(x)
        BY <3>2
      <4>2. /\ feed'[x] \in Seq(Event) /\ Len(feed'[x]) = Len(feed[x]) - 1
            /\ \A y \in Conn \ {x} : feed'[y] = feed[y]
        BY <4>1, RecvDoes
      <4>3. CASE x = c
        <5>1. Len(feed'[c]) \in Nat
          BY <4>2, <4>3, LenProperties
        <5> QED  BY <3>0, <4>2, <4>3, <5>1
      <4> QED  BY <3>0, <4>2, <4>3
    <3>3. CASE feed' = feed
      BY <3>0, <3>3
    <3> QED  BY <1>b, <3>1, <3>2, <3>3 DEF TaskStep, RecvLagged, PutTask, UpdateTask, DropTask
  <2>7. FeedType'
    BY <2>5, <2>6 DEF FeedType
  <2>8. \A c \in Conn : /\ Len(feed'[c]) <= Capacity
                        /\ \A n \in DOMAIN feed'[c] : feed'[c][n] \in Event
    BY <2>6, LenProperties
  <2> QED  BY <2>1, <2>2, <2>3, <2>4, <2>7, <2>8 DEF TypeOK
<1> QED  BY <1>a, <1>b, Steps

-----------------------------------------------------------------------------
(* Devices. *)

\* Every step keeps the claims and lists no ghost.
LEMMA DeviceStep ==
    ASSUME TypeOK, ClaimInv, NoGhostDevice, Next
    PROVE  ClaimInv' /\ NoGhostDevice'
<1> USE DEF roomVars, taskVars, feedVars
<1>0. None \notin Conn /\ None \notin Device
  BY RoomAssumption
<1>a. CASE UNCHANGED <<up, mine, devices, owner, claim>>
  <2>1. ClaimInv'
    BY <1>a DEF ClaimInv
  <2>2. NoGhostDevice'
    BY <1>a DEF NoGhostDevice, Open
  <2> QED  BY <2>1, <2>2
<1>b. ASSUME NEW c \in Conn, Connect(c) PROVE ClaimInv' /\ NoGhostDevice'
  <2>1. /\ mine[c] = None /\ mine' = mine /\ devices' = devices /\ owner' = owner
        /\ claim' = claim /\ up' = [up EXCEPT ![c] = "open"]
    BY <1>b DEF Connect, ClaimInv
  <2>2. ClaimInv'
    BY <2>1 DEF ClaimInv, TypeOK
  <2>3. Open' = Open \cup {c}
    BY <2>1 DEF Open, TypeOK
  <2>4. NoGhostDevice'
    BY <1>0, <2>1, <2>3 DEF NoGhostDevice
  <2> QED  BY <2>2, <2>4
<1>c. ASSUME NEW c \in Conn, NEW d \in Device, Hello(c, d) PROVE ClaimInv' /\ NoGhostDevice'
  <2> DEFINE left == IF mine[c] \notin {None, d} /\ owner[mine[c]] = c THEN {mine[c]} ELSE {}
  <2>1. /\ c \in Open /\ up' = up /\ mine' = [mine EXCEPT ![c] = d]
        /\ devices' = (devices \ left) \cup {d}
        /\ owner' = [x \in Device |-> IF x = d THEN c ELSE IF x \in left THEN None ELSE owner[x]]
        /\ claim' = [claim EXCEPT ![d] = c]
    BY <1>c DEF Hello
  <2>2. Open' = Open /\ \A x \in Conn : up[x] = "new" => x # c
    BY <2>1 DEF Open
  <2>3. d \notin left /\ \A x \in Device : x \in left <=> x # d /\ x = mine[c] /\ owner[x] = c
    BY <1>0
  <2> HIDE DEF left
  <2>4. ASSUME NEW x \in Device
        PROVE  /\ owner'[x] = IF x \in devices' THEN claim'[x] ELSE None
               /\ x \in devices' <=> /\ claim'[x] # None /\ claim'[x] \in Open
                                    /\ mine'[claim'[x]] = x
    <3>1. CASE x = d
      <4>1. claim'[x] = c /\ owner'[x] = c /\ x \in devices' /\ mine'[c] = d
        BY <2>1, <3>1 DEF TypeOK
      <4> QED  BY <1>0, <2>1, <3>1, <4>1
    <3>2. CASE x # d
      <4>1. /\ claim'[x] = claim[x] /\ owner'[x] = IF x \in left THEN None ELSE owner[x]
            /\ x \in devices' <=> x \in devices /\ x \notin left
        BY <2>1, <3>2 DEF TypeOK
      <4>2. owner[x] = IF x \in devices THEN claim[x] ELSE None
        BY DEF ClaimInv
      <4>3. x \in devices <=> /\ claim[x] # None /\ claim[x] \in Open /\ mine[claim[x]] = x
        BY DEF NoGhostDevice
      <4>4. claim[x] \in Conn \cup {None} /\ \A y \in Conn : mine'[y] = IF y = c THEN d ELSE mine[y]
        BY <2>1 DEF TypeOK
      <4> QED  BY <1>0, <2>3, <3>2, <4>1, <4>2, <4>3, <4>4
    <3> QED  BY <3>1, <3>2
  <2>5. ClaimInv'
    <3>1. \A x \in Conn : up'[x] = "new" => mine'[x] = None
      BY <2>1, <2>2 DEF ClaimInv, TypeOK
    <3> QED  BY <2>4, <3>1 DEF ClaimInv
  <2>6. NoGhostDevice'
    BY <2>2, <2>4 DEF NoGhostDevice
  <2> QED  BY <2>5, <2>6
<1>d. ASSUME NEW c \in Conn, c \in Open, Leave(c) PROVE ClaimInv' /\ NoGhostDevice'
  <2>1. up' = [up EXCEPT ![c] = "closed"] /\ mine' = mine /\ claim' = claim
    BY <1>d DEF Leave
  <2>2. Open' = Open \ {c}
    BY <2>1 DEF Open, TypeOK
  <2>3. ASSUME NEW x \in Device
        PROVE  IF x = mine[c] /\ owner[x] = c THEN x \notin devices' /\ owner'[x] = None
               ELSE (x \in devices' <=> x \in devices) /\ owner'[x] = owner[x]
    <3>1. CASE mine[c] = None
      BY <1>0, <1>d, <3>1 DEF Leave
    <3>2. CASE mine[c] # None
      <4>1. mine[c] \in Device /\ RemoveDeviceConnection(mine[c], c)
        BY <1>d, <3>2 DEF Leave, TypeOK
      <4> QED  BY <4>1 DEF RemoveDeviceConnection, TypeOK
    <3> QED  BY <3>1, <3>2
  <2>4. ASSUME NEW x \in Device
        PROVE  /\ owner'[x] = IF x \in devices' THEN claim'[x] ELSE None
               /\ x \in devices' <=> /\ claim'[x] # None /\ claim'[x] \in Open'
                                    /\ mine'[claim'[x]] = x
    <3>1. owner[x] = IF x \in devices THEN claim[x] ELSE None
      BY DEF ClaimInv
    <3>2. x \in devices <=> /\ claim[x] # None /\ claim[x] \in Open /\ mine[claim[x]] = x
      BY DEF NoGhostDevice
    <3> QED  BY <1>0, <2>1, <2>2, <2>3, <3>1, <3>2
  <2>5. ClaimInv'
    <3>1. \A x \in Conn : up'[x] = "new" => mine'[x] = None
      BY <2>1 DEF ClaimInv, TypeOK
    <3> QED  BY <2>4, <3>1 DEF ClaimInv
  <2>6. NoGhostDevice'
    BY <2>4 DEF NoGhostDevice
  <2> QED  BY <2>5, <2>6
<1>e. CASE RoomStep
  BY <1>a, <1>b, <1>c, <1>d, <1>e
     DEF RoomStep, ReportState, Disconnect, AuthRecheck, Revoke, TransferPlayback, Open
<1>f. CASE TaskStep
  BY <1>a, <1>f DEF TaskStep, RecvLagged, RecvTaskEvent, PutTask, UpdateTask, DropTask, Broadcast
<1> QED  BY <1>e, <1>f, Steps
-----------------------------------------------------------------------------
(* The task feed. *)

\* What is about to be broadcast after a task is put or updated.
LEMMA OutgoingUpdated ==
    ASSUME NEW t \in Task, PutTask(t) \/ UpdateTask(t)
    PROVE  Outgoing' = Outgoing \cup {Updated(t)}
<1>1. PICK u : /\ \E k : u = [kind |-> "updated", task |-> t, put |-> k]
               /\ unsent' = unsent \cup {u}
  BY DEF PutTask, UpdateTask
<1>2. Said(u) = Updated(t)
  BY <1>1, Events
<1>3. Outgoing' = {Said(x) : x \in unsent'}
  BY DEF Outgoing, Said
<1> QED  BY <1>1, <1>2, <1>3 DEF Outgoing

\* What is about to be broadcast after a task is removed.
LEMMA OutgoingDismissed ==
    ASSUME NEW t \in Task, DropTask(t)
    PROVE  Outgoing' = Outgoing \cup {Dismissed(t)}
<1>1. PICK u : /\ \E k : u = [kind |-> "dismissed", task |-> t, put |-> k]
               /\ unsent' = unsent \cup {u}
  BY DEF DropTask
<1>2. Said(u) = Dismissed(t)
  BY <1>1, Events
<1>3. Outgoing' = {Said(x) : x \in unsent'}
  BY DEF Outgoing, Said
<1> QED  BY <1>1, <1>2, <1>3 DEF Outgoing

\* What is about to be broadcast after a broadcast, or a step that leaves it alone.
LEMMA OutgoingStep ==
    /\ \A u \in Notice : Broadcast(u) => /\ Said(u) \in Outgoing /\ Outgoing' \subseteq Outgoing
                                        /\ Outgoing \subseteq Outgoing' \cup {Said(u)}
    /\ unsent' = unsent => Outgoing' = Outgoing
<1>0. Outgoing' = {Said(u) : u \in unsent'}
  BY DEF Outgoing, Said
<1>1. ASSUME NEW u \in Notice, Broadcast(u)
      PROVE  /\ Said(u) \in Outgoing /\ Outgoing' \subseteq Outgoing
             /\ Outgoing \subseteq Outgoing' \cup {Said(u)}
  <2>1. u \in unsent /\ unsent' = unsent \ {u}
    BY <1>1 DEF Broadcast
  <2> QED  BY <1>0, <2>1 DEF Outgoing
<1>2. unsent' = unsent => Outgoing' = Outgoing
  BY <1>0 DEF Outgoing
<1> QED  BY <1>1, <1>2

\* An event leaves what a connection has yet to read only when it reads it.
LEMMA PendingStep ==
    ASSUME TypeOK, FeedType, Next, NEW c \in Conn
    PROVE  /\ c \in Open /\ ~ lagged'[c] /\ ~ RecvTaskEvent(c) /\ ~ RecvLagged(c) =>
                 Pending(c) \subseteq Pending(c)'
           /\ RecvTaskEvent(c) => /\ Head(feed[c]) \in Event /\ Head(feed[c]) \in Pending(c)
                                 /\ Pending(c) = {Head(feed[c])} \cup Pending(c)'
<1> USE DEF roomVars, taskVars, feedVars
<1>0. Pending(c)' = Outgoing' \cup Elems(feed'[c])
  BY DEF Pending, Elems
<1>1. ASSUME NEW u \in Notice, Broadcast(u)
      PROVE  c \in Open /\ ~ lagged'[c] => Pending(c) \subseteq Pending(c)'
  <2>1. c \in Open /\ ~ lagged'[c] => Elems(feed'[c]) = Elems(feed[c]) \cup {Said(u)}
    BY <1>1, BroadcastDoes
  <2>2. Outgoing \subseteq Outgoing' \cup {Said(u)}
    BY <1>1, OutgoingStep
  <2> QED  BY <1>0, <2>1, <2>2 DEF Pending
<1>2. CASE RecvTaskEvent(c)
  <2>1. /\ Head(feed[c]) \in Event
        /\ Elems(feed[c]) = {Head(feed[c])} \cup Elems(feed'[c])
    BY <1>2, RecvDoes
  <2>2. Outgoing' = Outgoing
    BY <1>2, OutgoingStep DEF RecvTaskEvent
  <2> QED  BY <1>0, <1>2, <2>1, <2>2 DEF Pending
<1>3. CASE feed'[c] = feed[c] /\ Outgoing \subseteq Outgoing' /\ ~ RecvTaskEvent(c)
  BY <1>0, <1>3 DEF Pending
<1>4. CASE RoomStep
  <2>1. feed' = feed /\ unsent' = unsent
    BY <1>4 DEF RoomStep, Connect, ReportState, Disconnect, AuthRecheck, Leave, Revoke, Hello,
                TransferPlayback
  <2> QED  BY <1>2, <1>3, <2>1, OutgoingStep
<1>5. CASE TaskStep
  <2>1. CASE \E u \in Notice : Broadcast(u)
    BY <1>1, <1>2, <2>1
  <2>2. CASE \E x \in Conn \ {c} : RecvTaskEvent(x)
    <3>1. feed'[c] = feed[c]
      BY <2>2, RecvDoes
    <3>2. unsent' = unsent
      BY <2>2 DEF RecvTaskEvent
    <3> QED  BY <1>2, <1>3, <3>1, <3>2, OutgoingStep
  <2>3. CASE \E x \in Conn : RecvLagged(x)
    BY <1>2, <1>3, <2>3, OutgoingStep DEF RecvLagged
  <2>4. CASE \E t \in Task : PutTask(t) \/ UpdateTask(t) \/ DropTask(t)
    <3>1. feed' = feed
      BY <2>4 DEF PutTask, UpdateTask, DropTask
    <3>2. Outgoing \subseteq Outgoing'
      <4>1. PICK t \in Task : PutTask(t) \/ UpdateTask(t) \/ DropTask(t)
        BY <2>4
      <4>2. Outgoing' = Outgoing \cup {Updated(t)} \/ Outgoing' = Outgoing \cup {Dismissed(t)}
        BY <4>1, OutgoingUpdated, OutgoingDismissed
      <4> QED  BY <4>2
    <3> QED  BY <1>2, <1>3, <3>1, <3>2
  <2> QED  BY <1>2, <1>5, <2>1, <2>2, <2>3, <2>4 DEF TaskStep
<1> QED  BY <1>4, <1>5, Steps

\* Every step keeps late removals from having the last word.
LEMMA LateStep ==
    ASSUME TypeOK, FeedType, LateInv, Next
    PROVE  LateInv'
<1> USE DEF roomVars, taskVars, feedVars
<1>0. /\ \A c \in Conn : feed[c] \in Seq(Event) /\ Len(feed[c]) \in Nat
      /\ \A c \in Conn, t \in registry : up[c] = "open" => \A n \in 1 .. Len(feed[c]) :
            feed[c][n] = Dismissed(t) => Covered(c, t, n)
      /\ \A c \in Conn : up[c] = "new" => feed[c] = <<>>
  BY LenProperties DEF LateInv, FeedType, Open
<1>1. ASSUME NEW c \in Conn, up'[c] = "new" PROVE feed'[c] = <<>>
  <2>1. up[c] = "new" /\ c \notin Open
    <3>1. CASE RoomStep
      BY <1>1, <3>1 DEF RoomStep, Connect, ReportState, Disconnect, AuthRecheck, Leave, Revoke,
                        Hello, TransferPlayback, TypeOK, Open
    <3>2. CASE TaskStep
      BY <1>1, <3>2 DEF TaskStep, RecvLagged, RecvTaskEvent, PutTask, UpdateTask, DropTask,
                        Broadcast, Open
    <3> QED  BY <3>1, <3>2, Steps
  <2>2. feed'[c] = feed[c]
    <3>1. CASE RoomStep
      BY <3>1 DEF RoomStep, Connect, ReportState, Disconnect, AuthRecheck, Leave, Revoke,
                  Hello, TransferPlayback
    <3>2. CASE TaskStep
      BY <2>1, <3>2 DEF TaskStep, RecvLagged, RecvTaskEvent, PutTask, UpdateTask, DropTask,
                        Broadcast, FeedType
    <3> QED  BY <3>1, <3>2, Steps
  <2> QED  BY <1>0, <2>1, <2>2
<1>2. ASSUME NEW c \in Conn, up'[c] = "open", NEW t \in registry',
             NEW n \in 1 .. Len(feed'[c]), feed'[c][n] = Dismissed(t)
      PROVE  Covered(c, t, n)'
  <2>0. Covered(c, t, n)' = \/ t \in hidden'
                            \/ Updated(t) \in Outgoing'
                            \/ \E m \in 1 .. Len(feed'[c]) : m > n /\ feed'[c][m] = Updated(t)
    BY DEF Covered, Updated
  <2>1. CASE /\ feed'[c] = feed[c] /\ Outgoing \subseteq Outgoing' /\ hidden' = hidden
             /\ t \in registry \/ Updated(t) \in Outgoing'
             /\ up[c] \in {"new", "open"}
    <3>1. up[c] = "open"
      <4>1. Len(<<>>) = 0 /\ \A m \in 1 .. Len(<<>>) : FALSE
        BY EmptySeq
      <4> QED  BY <1>0, <1>2, <2>1, <4>1
    <3>2. t \in registry => Covered(c, t, n)
      BY <1>0, <1>2, <2>1, <3>1
    <3> QED  BY <2>0, <2>1, <3>2 DEF Covered
  <2>2. CASE RecvTaskEvent(c)
    <3>1. /\ Len(feed'[c]) = Len(feed[c]) - 1
          /\ \A m \in 1 .. Len(feed'[c]) : feed'[c][m] = feed[c][m + 1]
      BY <2>2, RecvDoes
    <3>2. up[c] = "open" /\ t \in registry /\ hidden' = hidden /\ unsent' = unsent
      BY <1>2, <2>2 DEF RecvTaskEvent, Open
    <3>3. n + 1 \in 1 .. Len(feed[c]) /\ feed[c][n + 1] = Dismissed(t)
      BY <1>0, <1>2, <3>1
    <3>4. Covered(c, t, n + 1)
      BY <1>0, <3>2, <3>3
    <3>5. Outgoing' = Outgoing
      BY <3>2, OutgoingStep
    <3>6. ASSUME NEW m \in 1 .. Len(feed[c]), m > n + 1, feed[c][m] = Updated(t)
          PROVE  \E k \in 1 .. Len(feed'[c]) : k > n /\ feed'[c][k] = Updated(t)
      <4>0. Len(feed[c]) \in Nat /\ n \in Nat
        BY <1>0, <1>2
      <4>1. /\ m - 1 \in 1 .. Len(feed'[c]) /\ m - 1 > n /\ (m - 1) + 1 = m
        BY <3>1, <3>6, <4>0
      <4>2. feed'[c][m - 1] = feed[c][m]
        BY <3>1, <4>1
      <4> QED  BY <3>6, <4>1, <4>2
    <3> QED  BY <2>0, <3>2, <3>4, <3>5, <3>6 DEF Covered
  <2>3. ASSUME NEW u \in Notice, Broadcast(u) PROVE Covered(c, t, n)'
    <3>0. /\ up[c] = "open" /\ c \in Open /\ t \in registry
          /\ hidden' = IF u.kind = "updated" THEN hidden \ {u.task}
                       ELSE hidden \cup ({u.task} \cap registry)
      BY <1>2, <2>3 DEF Broadcast, Open
    <3>1. PICK k \in {0, 1} :
             /\ feed'[c][Len(feed'[c])] = Said(u)
             /\ Len(feed[c]) = Len(feed'[c]) - 1 + k
             /\ \A m \in 1 .. Len(feed'[c]) - 1 : feed'[c][m] = feed[c][m + k]
      BY <2>3, <3>0, BroadcastDoes
    <3>2. Len(feed'[c]) \in Nat
      BY <2>3, BroadcastDoes, LenProperties
    <3>3. CASE n = Len(feed'[c])
      <4>1. Said(u) = Dismissed(t)
        BY <1>2, <3>1, <3>3
      <4>2. u.kind # "updated" /\ u.task = t
        BY <4>1, Events
      <4> QED  BY <2>0, <3>0, <4>2
    <3>4. CASE n # Len(feed'[c]) /\ Said(u) = Updated(t)
      <4>1. Len(feed'[c]) > n /\ Len(feed'[c]) \in 1 .. Len(feed'[c])
        BY <1>2, <3>2, <3>4
      <4> QED  BY <2>0, <3>1, <3>4, <4>1
    <3>5. CASE n # Len(feed'[c]) /\ Said(u) # Updated(t)
      <4>1. n + k \in 1 .. Len(feed[c]) /\ feed[c][n + k] = Dismissed(t)
        BY <1>0, <1>2, <3>1, <3>2, <3>5
      <4>2. Covered(c, t, n + k)
        BY <1>0, <3>0, <4>1
      <4>3. t \in hidden => t \in hidden'
        BY <3>0, <3>5, Events
      <4>4. Updated(t) \in Outgoing => Updated(t) \in Outgoing'
        BY <2>3, <3>5, OutgoingStep
      <4>5. ASSUME NEW m \in 1 .. Len(feed[c]), m > n + k, feed[c][m] = Updated(t)
            PROVE  \E p \in 1 .. Len(feed'[c]) : p > n /\ feed'[c][p] = Updated(t)
        <5>1. /\ m - k \in 1 .. Len(feed'[c]) - 1 /\ m - k > n /\ (m - k) + k = m
              /\ m - k \in 1 .. Len(feed'[c])
          BY <1>0, <1>2, <3>1, <3>2, <4>5
        <5>2. feed'[c][m - k] = feed[c][m]
          BY <3>1, <5>1
        <5> QED  BY <4>5, <5>1, <5>2
      <4> QED  BY <2>0, <4>2, <4>3, <4>4, <4>5 DEF Covered
    <3> QED  BY <3>3, <3>4, <3>5
  <2>4. CASE RoomStep
    <3>1. UNCHANGED <<feed, unsent, hidden, registry>>
      BY <2>4 DEF RoomStep, Connect, ReportState, Disconnect, AuthRecheck, Leave, Revoke,
                  Hello, TransferPlayback
    <3>2. up[c] \in {"new", "open"}
      BY <1>2, <2>4 DEF RoomStep, Connect, ReportState, Disconnect, AuthRecheck, Leave, Revoke,
                        Hello, TransferPlayback, TypeOK
    <3> QED  BY <2>1, <3>1, <3>2, OutgoingStep
  <2>5. CASE TaskStep
    <3>1. CASE \E x \in Conn \ {c} : RecvTaskEvent(x)
      <4>1. feed'[c] = feed[c]
        BY <3>1, RecvDoes
      <4>2. up[c] = "open" /\ hidden' = hidden /\ unsent' = unsent /\ t \in registry
        BY <1>2, <3>1 DEF RecvTaskEvent
      <4> QED  BY <2>1, <4>1, <4>2, OutgoingStep
    <3>2. CASE \E x \in Conn : RecvLagged(x)
      <4>1. up[c] = "open" /\ UNCHANGED <<feed, hidden, unsent>> /\ t \in registry
        BY <1>2, <3>2 DEF RecvLagged
      <4> QED  BY <2>1, <4>1, OutgoingStep
    <3>3. CASE \E x \in Task : PutTask(x) \/ UpdateTask(x) \/ DropTask(x)
      <4>1. PICK x \in Task : PutTask(x) \/ UpdateTask(x) \/ DropTask(x)
        BY <3>3
      <4>2. /\ up[c] = "open" /\ feed' = feed /\ hidden' = hidden
            /\ t \in registry \/ (PutTask(x) /\ t = x)
        BY <1>2, <4>1 DEF PutTask, UpdateTask, DropTask
      <4>3. Outgoing \subseteq Outgoing' /\ (PutTask(x) => Updated(x) \in Outgoing')
        <5>1. /\ PutTask(x) \/ UpdateTask(x) => Outgoing' = Outgoing \cup {Updated(x)}
              /\ DropTask(x) => Outgoing' = Outgoing \cup {Dismissed(x)}
          BY OutgoingUpdated, OutgoingDismissed
        <5> QED  BY <4>1, <5>1
      <4> QED  BY <2>1, <4>2, <4>3
    <3> QED  BY <2>2, <2>3, <2>5, <3>1, <3>2, <3>3 DEF TaskStep
  <2> QED  BY <2>4, <2>5, Steps
<1>3. Open' = {c \in Conn : up'[c] = "open"}
  BY DEF Open
<1> QED  BY <1>1, <1>2, <1>3 DEF LateInv

\* Every step keeps what a view lacks announced.
LEMMA FeedStep ==
    ASSUME TypeOK, FeedType, ClaimInv, LateInv, FeedInv, Next
    PROVE  FeedInv'
<1> USE DEF roomVars, taskVars, feedVars
<1> SUFFICES ASSUME NEW c \in Conn, up'[c] = "open", mine'[c] # None, ~ lagged'[c], NEW t \in Task
             PROVE  /\ t \in registry' \ view'[c] => t \in hidden' \/ Updated(t) \in Pending(c)'
                    /\ t \in view'[c] \ registry' => Dismissed(t) \in Pending(c)'
  BY DEF FeedInv, Open
<1>1. CASE registry' = registry /\ view'[c] = registry
  BY <1>1
<1>2. CASE /\ up[c] = "open" /\ mine[c] # None /\ ~ lagged[c]
           /\ view'[c] = view[c] /\ ~ RecvTaskEvent(c) /\ ~ RecvLagged(c)
           /\ t \in registry' \ registry => Updated(t) \in Outgoing'
           /\ t \in registry \ registry' => Dismissed(t) \in Outgoing'
           /\ t \in hidden \ hidden' => Updated(t) \in Elems(feed'[c])
  <2>1. Pending(c) \subseteq Pending(c)'
    BY <1>2, PendingStep DEF Open
  <2>2. /\ t \in registry \ view[c] => t \in hidden \/ Updated(t) \in Pending(c)
        /\ t \in view[c] \ registry => Dismissed(t) \in Pending(c)
    BY <1>2 DEF FeedInv, Open
  <2>3. Outgoing' \subseteq Pending(c)' /\ Elems(feed'[c]) \subseteq Pending(c)'
    BY DEF Pending, Elems
  <2> QED  BY <1>2, <2>1, <2>2, <2>3
<1>3. CASE RecvTaskEvent(c)
  <2>0. /\ mine[c] # None /\ ~ lagged[c] /\ c \in Open /\ registry' = registry /\ hidden' = hidden
    BY <1>3 DEF RecvTaskEvent
  <2>1. PICK e \in Event : /\ e = Head(feed[c]) /\ e \in Pending(c)
                           /\ Pending(c) = {e} \cup Pending(c)'
    BY <1>3, PendingStep
  <2>2. view'[c] = IF e.kind = "dismissed" THEN view[c] \ {e.task}
                   ELSE view[c] \cup ({e.task} \cap registry)
    BY <1>3, <2>0, <2>1 DEF RecvTaskEvent, TypeOK
  <2>3. /\ t \in registry \ view[c] => t \in hidden \/ Updated(t) \in Pending(c)
        /\ t \in view[c] \ registry => Dismissed(t) \in Pending(c)
    BY <2>0 DEF FeedInv
  <2>4. CASE e.kind = "dismissed"
    <3>1. e = Dismissed(e.task) /\ e.task \in Task
      BY <2>4, Events
    <3>2. e.task \in registry => e.task \in hidden \/ Updated(e.task) \in Pending(c)
      <4> SUFFICES ASSUME e.task \in registry
                   PROVE  e.task \in hidden \/ Updated(e.task) \in Pending(c)
        OBVIOUS
      <4>1. feed[c] \in Seq(Event) /\ feed[c] # <<>>
        BY <1>3 DEF RecvTaskEvent, FeedType
      <4>2. 1 \in 1 .. Len(feed[c]) /\ feed[c][1] = e
        BY <2>1, <4>1, TailElems
      <4>3. Covered(c, e.task, 1)
        BY <2>0, <3>1, <4>2 DEF LateInv
      <4> QED  BY <4>3 DEF Covered, Pending, Elems
    <3>3. view'[c] = view[c] \ {e.task}
      BY <2>2, <2>4
    <3>4. Updated(t) # e /\ (Dismissed(t) = e => t = e.task)
      BY <3>1, Events
    <3> QED  BY <2>0, <2>1, <2>3, <3>2, <3>3, <3>4
  <2>5. CASE e.kind # "dismissed"
    <3>1. e = Updated(e.task)
      BY <2>5, Events
    <3>2. view'[c] = view[c] \cup ({e.task} \cap registry)
      BY <2>2, <2>5
    <3>3. Dismissed(t) # e /\ (Updated(t) = e => t = e.task)
      BY <3>1, Events
    <3> QED  BY <2>0, <2>1, <2>3, <3>2, <3>3
  <2> QED  BY <2>4, <2>5
<1>4. CASE RecvLagged(c)
  <2>1. mine[c] # None /\ registry' = registry /\ view'[c] = registry
    BY <1>4 DEF RecvLagged, TypeOK
  <2> QED  BY <1>1, <2>1
<1>5. CASE \E d \in Device : Hello(c, d)
  <2>1. registry' = registry /\ view'[c] = registry
    BY <1>5 DEF Hello, TypeOK
  <2> QED  BY <1>1, <2>1
<1>6. CASE RoomStep /\ ~ \E d \in Device : Hello(c, d)
  <2>1. UNCHANGED <<registry, unsent, hidden, feed, lagged>> /\ view'[c] = view[c]
    BY <1>6 DEF RoomStep, Connect, ReportState, Disconnect, AuthRecheck, Leave, Revoke, Hello,
                TransferPlayback, TypeOK
  <2>2. mine'[c] = mine[c]
    BY <1>6 DEF RoomStep, Connect, ReportState, Disconnect, AuthRecheck, Leave, Revoke, Hello,
                TransferPlayback, TypeOK
  <2>3. up[c] # "new"
    BY <2>2 DEF ClaimInv
  <2>4. up[c] = "open"
    BY <1>6, <2>3 DEF RoomStep, Connect, ReportState, Disconnect, AuthRecheck, Leave, Revoke,
                      Hello, TransferPlayback, TypeOK
  <2>5. Pending(c)' = Pending(c)
    BY <2>1 DEF Pending, Outgoing, Said, Elems
  <2>6. /\ t \in registry \ view[c] => t \in hidden \/ Updated(t) \in Pending(c)
        /\ t \in view[c] \ registry => Dismissed(t) \in Pending(c)
    BY <2>1, <2>2, <2>4 DEF FeedInv, Open
  <2> QED  BY <2>1, <2>5, <2>6
<1>7. CASE TaskStep /\ ~ RecvLagged(c) /\ ~ RecvTaskEvent(c)
  <2>1. up' = up /\ mine' = mine
    BY <1>7 DEF TaskStep, RecvLagged, RecvTaskEvent, PutTask, UpdateTask, DropTask, Broadcast
  <2>2. ~ lagged[c]
    BY <1>7 DEF TaskStep, RecvLagged, RecvTaskEvent, PutTask, UpdateTask, DropTask, Broadcast, TypeOK
  <2>3. view'[c] = view[c]
    BY <1>7 DEF TaskStep, RecvLagged, RecvTaskEvent, PutTask, UpdateTask, DropTask, Broadcast, TypeOK
  <2>4. /\ t \in registry' \ registry => Updated(t) \in Outgoing'
        /\ t \in registry \ registry' => Dismissed(t) \in Outgoing'
    <3>1. ASSUME NEW x \in Task, PutTask(x) \/ UpdateTask(x) \/ DropTask(x)
          PROVE  /\ t \in registry' \ registry => Updated(t) \in Outgoing'
                 /\ t \in registry \ registry' => Dismissed(t) \in Outgoing'
      <4>1. /\ t \in registry' \ registry => t = x /\ PutTask(x)
            /\ t \in registry \ registry' => t = x /\ DropTask(x)
        BY <3>1 DEF PutTask, UpdateTask, DropTask
      <4>2. /\ PutTask(x) => Outgoing' = Outgoing \cup {Updated(x)}
            /\ DropTask(x) => Outgoing' = Outgoing \cup {Dismissed(x)}
        BY OutgoingUpdated, OutgoingDismissed
      <4> QED  BY <4>1, <4>2
    <3>2. CASE registry' = registry
      BY <3>2
    <3> QED  BY <1>7, <3>1, <3>2 DEF TaskStep, RecvLagged, RecvTaskEvent, Broadcast
  <2>5. t \in hidden \ hidden' => Updated(t) \in Elems(feed'[c])
    <3>1. ASSUME NEW u \in Notice, Broadcast(u), t \in hidden \ hidden'
          PROVE  Updated(t) \in Elems(feed'[c])
      <4>1. u.kind = "updated" /\ u.task = t
        BY <3>1 DEF Broadcast
      <4>2. Said(u) = Updated(t) /\ c \in Open
        BY <2>1, <4>1, Events DEF Open
      <4> QED  BY <3>1, <4>2, BroadcastDoes
    <3>2. CASE hidden' = hidden
      BY <3>2
    <3> QED  BY <1>7, <3>1, <3>2
             DEF TaskStep, RecvLagged, RecvTaskEvent, PutTask, UpdateTask, DropTask
  <2> QED  BY <1>2, <1>7, <2>1, <2>2, <2>3, <2>4, <2>5
<1> QED  BY <1>3, <1>4, <1>5, <1>6, <1>7, Steps

-----------------------------------------------------------------------------
(* The invariant. *)

\* An empty room.
LEMMA RoomInit == ASSUME Init PROVE RoomInv
<1>0. /\ Capacity \in Nat /\ None \notin Device /\ <<>> \in Seq(Event)
      /\ Len(<<>>) = 0 /\ \A n \in 1 .. Len(<<>>) : FALSE
  BY EmptySeq, RoomAssumption
<1>1. FeedType /\ \A c \in Conn : feed[c] = <<>>
  BY <1>0 DEF Init, FeedType
<1>2. \A c \in Conn : Len(feed[c]) <= Capacity /\ \A n \in DOMAIN feed[c] : feed[c][n] \in Event
  <2> SUFFICES ASSUME NEW c \in Conn
               PROVE  Len(feed[c]) <= Capacity /\ \A n \in DOMAIN feed[c] : feed[c][n] \in Event
    OBVIOUS
  <2>1. feed[c] \in Seq(Event) /\ Len(feed[c]) = 0
    BY <1>0, <1>1
  <2>2. DOMAIN feed[c] = 1 .. Len(feed[c])
    BY <2>1, LenProperties
  <2> QED  BY <1>0, <2>1, <2>2
<1>3. TypeOK
  BY <1>2, RoomAssumption DEF Init, TypeOK
<1>4. ClaimInv /\ NoGhostDevice
  BY <1>0 DEF Init, ClaimInv, NoGhostDevice
<1>5. PutInv
  BY DEF Init, PutInv
<1>6. LateInv
  BY <1>1 DEF Init, LateInv, Open
<1>7. FeedInv
  BY DEF Init, FeedInv, Open
<1> QED  BY <1>1, <1>3, <1>4, <1>5, <1>6, <1>7 DEF RoomInv

\* A step that changes nothing keeps the invariant.
LEMMA RoomStutter == ASSUME RoomInv, UNCHANGED vars PROVE RoomInv'
<1> USE DEF vars
<1>1. TypeOK' /\ FeedType' /\ PutInv'
  BY DEF RoomInv, TypeOK, FeedType, PutInv
<1>2. ClaimInv'
  BY DEF RoomInv, ClaimInv
<1>3. NoGhostDevice'
  BY DEF RoomInv, NoGhostDevice, Open
<1>4. LateInv'
  BY DEF RoomInv, LateInv, Covered, Outgoing, Said, Updated, Dismissed, Open
<1>5. FeedInv'
  <2>1. \A c \in Conn : Pending(c)' = Pending(c)
    BY DEF Pending, Outgoing, Said, Elems
  <2>2. Open' = Open
    BY DEF Open
  <2>3. \A t : Updated(t)' = Updated(t) /\ Dismissed(t)' = Dismissed(t)
    BY DEF Updated, Dismissed
  <2> QED  BY <2>1, <2>2, <2>3 DEF RoomInv, FeedInv, Open
<1> QED  BY <1>1, <1>2, <1>3, <1>4, <1>5 DEF RoomInv

\* For any connections, devices, tasks and channel capacity, RoomInv holds of a
\* playback room (handle_socket, RoomManager, the task_sync channel).
THEOREM RoomInvariant == Spec => []RoomInv
<1>1. Init => RoomInv
  BY RoomInit
<1>2. RoomInv /\ [Next]_vars => RoomInv'
  <2> SUFFICES ASSUME RoomInv, [Next]_vars PROVE RoomInv'
    OBVIOUS
  <2>1. CASE Next
    <3>1. TypeOK /\ FeedType /\ PutInv /\ ClaimInv /\ NoGhostDevice /\ LateInv /\ FeedInv
      BY DEF RoomInv
    <3>2. TypeOK' /\ FeedType' /\ PutInv' /\ ClaimInv' /\ NoGhostDevice'
      BY <2>1, <3>1, TypeStep, DeviceStep
    <3>3. LateInv' /\ FeedInv'
      BY <2>1, <3>1, LateStep, FeedStep
    <3> QED  BY <3>2, <3>3 DEF RoomInv
  <2>2. CASE UNCHANGED vars
    BY <2>2, RoomStutter
  <2> QED  BY <2>1, <2>2
<1> QED  BY <1>1, <1>2, PTL DEF Spec

\* For any connections, devices, tasks and channel capacity: a device is listed
\* exactly while its last connection is open, and a client that has read its
\* feed shows only registered tasks, and all of them but those that the late
\* removal of an earlier registration hides, however many events it lost
\* (remove_device_connection, task_rx.recv).
THEOREM RoomAgreesAlways == Spec => []RoomAgrees
<1>1. RoomInv => RoomAgrees
  <2> SUFFICES ASSUME RoomInv PROVE TaskFeedConverges
    BY DEF RoomInv, RoomAgrees
  <2> SUFFICES ASSUME NEW c \in Open, Settled(c)
               PROVE  view[c] \subseteq registry /\ registry \ view[c] \subseteq hidden
    BY DEF TaskFeedConverges
  <2>1. Pending(c) = {}
    <3>1. Len(<<>>) = 0 /\ \A n \in 1 .. Len(<<>>) : FALSE
      BY EmptySeq
    <3> QED  BY <3>1 DEF Settled, Pending, Outgoing, Elems
  <2>2. \A t \in Task : (t \in registry \ view[c] => t \in hidden) /\ t \notin view[c] \ registry
    BY <2>1 DEF Settled, RoomInv, FeedInv
  <2>3. view[c] \subseteq Task /\ registry \subseteq Task
    BY DEF RoomInv, TypeOK, Open
  <2> QED  BY <2>2, <2>3
<1> QED  BY <1>1, RoomInvariant, PTL

-----------------------------------------------------------------------------
(* SettingsStore. *)

\* Where a command may be, and the fields it has.
Stage == {"idle", "set", "persist", "cache", "endpoint", "load", "loaded", "reloaded"}
CommandFields == {"at", "key", "value", "next"}

CommandInv ==
    /\ DOMAIN command = Command
    /\ \A o \in Command : /\ DOMAIN command[o] = CommandFields
                          /\ command[o].at \in Stage
                          /\ command[o].next \in Settings

\* What is served, or about to be, has been stored.
SavedInv ==
    /\ Stored \in saved /\ cache \in saved
    /\ endpoint \in {s.url : s \in saved}
    /\ \A o \in Command : command[o].at \in {"cache", "endpoint", "loaded", "reloaded"}
                            => command[o].next \in saved

\* While commands do not overlap, where the one that runs is says which of the three
\* copies it has brought up to date.
SteadyInv ==
    steady =>
        /\ \A o, p \in Command : Resting(o) \/ Resting(p) \/ o = p
        /\ (\A o \in Command : Resting(o)) => cache = Stored /\ endpoint = Stored.url
        /\ \A o \in Command :
              /\ command[o].at \in {"set", "persist"} => cache = Stored /\ endpoint = Stored.url
              /\ command[o].at \in {"cache", "endpoint", "loaded", "reloaded"}
                    => command[o].next = Stored
              /\ command[o].at = "endpoint" => cache = Stored
              /\ command[o].at = "reloaded" => endpoint = Stored.url

SettingsInv ==
    /\ row \in Rows /\ cache \in Settings /\ saved \subseteq Settings
    /\ endpoint \in Url \cup {NoUrl}
    /\ count \in 0 .. MaxCommands /\ steady \in BOOLEAN
    /\ CommandInv /\ SavedInv /\ SteadyInv

\* The default settings are settings, and an imported row is a row.
LEMMA DefaultIsSettings ==
    default_settings \in Settings /\ ImportedRows \subseteq Rows
BY DEF default_settings, Settings, Mode, ImportedRows

\* Every row decodes to settings (from_row).
LEMMA RowsDecode ==
    ASSUME NEW r \in Rows
    PROVE  from_row(r) \in Settings
BY DefaultIsSettings DEF from_row, Rows, Settings

\* Settings that are stored decode to themselves (persist, from_row).
LEMMA SettingsDecode ==
    ASSUME NEW s \in Settings
    PROVE  s \in Rows /\ from_row(s) = s
<1>1. s.mode \in Mode /\ s.url \in Url \cup {NoUrl} /\ s \in Rows
  BY DEF Settings, Rows
<1>2. (IF s.url \in Url THEN s.url ELSE NoUrl) = s.url
  BY <1>1
<1>3. [s EXCEPT !.url = s.url] = s
  BY DEF Settings
<1> QED BY <1>1, <1>2, <1>3 DEF from_row

\* A task without a command rests.
LEMMA NoCommandRests ==
    /\ DOMAIN NoCommand = CommandFields /\ NoCommand.at = "idle"
    /\ NoCommand.next \in Settings
BY DefaultIsSettings DEF NoCommand, CommandFields

\* A setting that takes one of its values gives settings.
LEMMA AppliedIsSettings ==
    ASSUME NEW s \in Settings, NEW k, NEW v, v \in Values(k)
    PROVE  ApplyValue(s, k, v) \in Settings
<1> USE SettingsAssumption DEF Settings
<1>1. CASE k \in Flag
  <2>1. v \in BOOLEAN /\ k # "mode" /\ k # "url"
    BY <1>1 DEF Values
  <2>2. [s.on EXCEPT ![k] = v] \in [Flag -> BOOLEAN]
    BY <1>1, <2>1
  <2> QED BY <1>1, <2>1, <2>2 DEF ApplyValue
<1>2. CASE k \notin Flag /\ k = "mode"
  BY <1>2 DEF ApplyValue, Values
<1>3. CASE k \notin Flag /\ k # "mode"
  BY <1>3 DEF ApplyValue, Values
<1> QED BY <1>1, <1>2, <1>3

\* One command moves: what the others need does not change.
LEMMA OneCommandMoves ==
    ASSUME CommandInv, NEW o \in Command, NEW r, DOMAIN r = CommandFields,
           r.at \in Stage, r.next \in Settings,
           command' = [command EXCEPT ![o] = r]
    PROVE  /\ CommandInv' /\ command'[o] = r
           /\ \A p \in Command : p # o => command'[p] = command[p]
BY DEF CommandInv

\* The invariant after a step of one command, from what it needs of that command.
LEMMA StepOfOne ==
    ASSUME SettingsInv, NEW o \in Command, NEW r, DOMAIN r = CommandFields,
           r.at \in Stage, r.next \in Settings,
           command' = [command EXCEPT ![o] = r],
           row' \in Rows, cache' \in saved', saved \subseteq saved', Stored' \in saved',
           saved' \subseteq Settings, endpoint' \in {s.url : s \in saved'},
           count' \in 0 .. MaxCommands, steady' \in BOOLEAN,
           r.at \in {"cache", "endpoint", "loaded", "reloaded"} => r.next \in saved',
           steady' =>
              /\ \A p \in Command : p # o => Resting(p)
              /\ r.at \in {"idle", "set", "persist"} => cache' = Stored' /\ endpoint' = Stored'.url
              /\ r.at \in {"cache", "endpoint", "loaded", "reloaded"} => r.next = Stored'
              /\ r.at = "endpoint" => cache' = Stored'
              /\ r.at = "reloaded" => endpoint' = Stored'.url
    PROVE  SettingsInv'
<1>1. /\ CommandInv' /\ command'[o] = r
      /\ \A p \in Command : p # o => command'[p] = command[p]
  BY OneCommandMoves DEF SettingsInv
<1>2. SavedInv'
  BY <1>1 DEF SettingsInv, SavedInv
<1>3. SteadyInv'
  BY <1>1 DEF SteadyInv, Resting
<1>4. endpoint' \in Url \cup {NoUrl} /\ cache' \in Settings
  BY DEF Settings
<1> QED BY <1>1, <1>2, <1>3, <1>4 DEF SettingsInv

\* At the start the three copies agree.
LEMMA InitSettingsInv == SettingsInit => SettingsInv
<1> SUFFICES ASSUME SettingsInit PROVE SettingsInv
  OBVIOUS
<1>1. row \in Rows /\ Stored \in Settings
  BY DefaultIsSettings, RowsDecode DEF SettingsInit, Stored
<1>2. endpoint \in Url \cup {NoUrl}
  BY <1>1 DEF SettingsInit, Settings
<1>3. CommandInv
  BY NoCommandRests DEF SettingsInit, CommandInv, Stage
<1>4. SavedInv
  BY NoCommandRests DEF SettingsInit, SavedInv
<1>5. SteadyInv
  BY NoCommandRests DEF SettingsInit, SteadyInv, Resting
<1> QED BY <1>1, <1>2, <1>3, <1>4, <1>5, SettingsAssumption DEF SettingsInit, SettingsInv

\* A command that begins keeps things steady only when no other runs.
LEMMA BeginIsSteady ==
    ASSUME SettingsInv, NEW o \in Command, BeginCommand(o)
    PROVE  /\ count' \in 0 .. MaxCommands /\ steady' \in BOOLEAN
           /\ steady' => steady /\ \A p \in Command : Resting(p)
<1>1. count' \in 0 .. MaxCommands
  BY SettingsAssumption DEF BeginCommand, SettingsInv
<1>2. steady' = (steady /\ \A p \in Command : Resting(p))
  BY DEF BeginCommand
<1>3. steady' \in BOOLEAN
  BY <1>2
<1>4. steady' => steady /\ \A p \in Command : Resting(p)
  BY <1>2
<1> QED BY <1>1, <1>3, <1>4

\* A command to set one key begins.
LEMMA SetToKeeps ==
    ASSUME SettingsInv, NEW o \in Command, NEW k, NEW v, SetTo(o, k, v)
    PROVE  SettingsInv'
<1>1. PICK r : r = [NoCommand EXCEPT !.at = "set", !.key = k, !.value = v]
  OBVIOUS
<1>2. DOMAIN r = CommandFields /\ r.at = "set" /\ r.next \in Settings
  BY <1>1, NoCommandRests DEF CommandFields
<1>3. command' = [command EXCEPT ![o] = r]
  BY <1>1 DEF SetTo
<1>4. /\ row' = row /\ Stored' = Stored /\ cache' = cache /\ endpoint' = endpoint /\ saved' = saved
      /\ count' \in 0 .. MaxCommands /\ steady' \in BOOLEAN
      /\ steady' => steady /\ \A p \in Command : Resting(p)
  BY BeginIsSteady DEF SetTo, Stored
<1>5. steady' => cache = Stored /\ endpoint = Stored.url
  BY <1>4 DEF SettingsInv, SteadyInv
<1> QED BY <1>2, <1>3, <1>4, <1>5, StepOfOne DEF SettingsInv, SavedInv, Stage

\* The cached settings with the new value.
LEMMA ApplyKeeps ==
    ASSUME SettingsInv, NEW o \in Command, Apply(o)
    PROVE  SettingsInv'
<1>1. /\ row' = row /\ Stored' = Stored
      /\ cache' = cache /\ endpoint' = endpoint /\ saved' = saved
      /\ count' = count /\ steady' = steady /\ command[o].at = "set"
  BY DEF Stored, Apply
<1>2. steady => /\ \A p \in Command : p # o => Resting(p)
                /\ cache = Stored /\ endpoint = Stored.url
  BY <1>1 DEF SettingsInv, SteadyInv, Resting
<1>3. CASE command[o].value \in Values(command[o].key)
  <2>1. PICK n : n = ApplyValue(cache, command[o].key, command[o].value)
    OBVIOUS
  <2>2. n \in Settings
    BY <1>3, <2>1, AppliedIsSettings DEF SettingsInv
  <2>3. PICK r : r = [command[o] EXCEPT !.at = "persist", !.next = n]
    OBVIOUS
  <2>4. DOMAIN r = CommandFields /\ r.at = "persist" /\ r.next = n
    BY <2>3 DEF SettingsInv, CommandInv, CommandFields
  <2>5. command' = [command EXCEPT ![o] = r]
    BY <1>3, <2>1, <2>3 DEF Apply, SettingsInv, CommandInv
  <2> QED BY <1>1, <1>2, <2>2, <2>4, <2>5, StepOfOne DEF SettingsInv, SavedInv, Stage
<1>4. CASE command[o].value \notin Values(command[o].key)
  <2>1. command' = [command EXCEPT ![o] = NoCommand]
    BY <1>4 DEF Apply, EndCommand
  <2> QED BY <1>1, <1>2, <2>1, NoCommandRests, StepOfOne DEF SettingsInv, SavedInv, Stage
<1> QED BY <1>3, <1>4

\* The row is written.
LEMMA PersistKeeps ==
    ASSUME SettingsInv, NEW o \in Command, NEW ok \in BOOLEAN, Persist(o, ok)
    PROVE  SettingsInv'
<1>1. /\ cache' = cache /\ endpoint' = endpoint /\ saved' = saved \cup {Stored'}
      /\ count' = count /\ steady' = steady /\ command[o].at = "persist"
  BY DEF Persist, Stored
<1>2. steady => /\ \A p \in Command : p # o => Resting(p)
                /\ cache = Stored /\ endpoint = Stored.url
  BY <1>1 DEF SettingsInv, SteadyInv, Resting
<1>3. command[o].next \in Settings /\ DOMAIN command[o] = CommandFields
  BY DEF SettingsInv, CommandInv
<1>4. endpoint' \in {s.url : s \in saved'}
  BY <1>1 DEF SettingsInv, SavedInv
<1>5. CASE ok
  <2>1. PICK r : r = [command[o] EXCEPT !.at = "cache"]
    OBVIOUS
  <2>2. DOMAIN r = CommandFields /\ r.at = "cache" /\ r.next = command[o].next
    BY <1>3, <2>1 DEF CommandFields
  <2>3. command' = [command EXCEPT ![o] = r] /\ row' = command[o].next
    BY <1>5, <2>1 DEF Persist, SettingsInv, CommandInv
  <2>4. row' \in Rows /\ Stored' = command[o].next
    BY <1>3, <2>3, SettingsDecode DEF Stored
  <2> QED BY <1>1, <1>2, <1>3, <1>4, <2>2, <2>3, <2>4, StepOfOne DEF SettingsInv, SavedInv, Stage
<1>6. CASE ~ ok
  <2>1. command' = [command EXCEPT ![o] = NoCommand] /\ row' = row /\ Stored' = Stored
    BY <1>6 DEF Persist, EndCommand, Stored
  <2> QED BY <1>1, <1>2, <1>4, <2>1, NoCommandRests, StepOfOne DEF SettingsInv, SavedInv, Stage
<1> QED BY <1>5, <1>6

\* The cache follows the row.
LEMMA SetCacheKeeps ==
    ASSUME SettingsInv, NEW o \in Command, SetCache(o)
    PROVE  SettingsInv'
<1>1. /\ row' = row /\ Stored' = Stored
      /\ cache' = command[o].next /\ endpoint' = endpoint /\ saved' = saved
      /\ count' = count /\ steady' = steady /\ command[o].at = "cache"
  BY DEF Stored, SetCache
<1>2. steady => (\A p \in Command : p # o => Resting(p)) /\ command[o].next = Stored
  BY <1>1 DEF SettingsInv, SteadyInv, Resting
<1>3. /\ command[o].next \in Settings /\ DOMAIN command[o] = CommandFields
      /\ command[o].next \in saved
  BY <1>1 DEF SettingsInv, CommandInv, SavedInv
<1>4. PICK r : r = [command[o] EXCEPT !.at = "endpoint"]
  OBVIOUS
<1>5. DOMAIN r = CommandFields /\ r.at = "endpoint" /\ r.next = command[o].next
  BY <1>3, <1>4 DEF CommandFields
<1>6. command' = [command EXCEPT ![o] = r]
  BY <1>4 DEF SetCache, SettingsInv, CommandInv
<1> QED BY <1>1, <1>2, <1>3, <1>5, <1>6, StepOfOne DEF SettingsInv, SavedInv, Stage

\* The lyrics endpoint follows the cache.
LEMMA SetEndpointKeeps ==
    ASSUME SettingsInv, NEW o \in Command, SetEndpoint(o)
    PROVE  SettingsInv'
<1>1. /\ row' = row /\ Stored' = Stored
      /\ cache' = cache /\ endpoint' = command[o].next.url /\ saved' = saved
      /\ count' = count /\ steady' = steady /\ command[o].at = "endpoint"
      /\ command' = [command EXCEPT ![o] = NoCommand]
  BY DEF Stored, SetEndpoint, EndCommand
<1>2. steady => /\ \A p \in Command : p # o => Resting(p)
                /\ command[o].next = Stored /\ cache = Stored
  BY <1>1 DEF SettingsInv, SteadyInv, Resting
<1>3. endpoint' \in {s.url : s \in saved'}
  BY <1>1 DEF SettingsInv, SavedInv
<1> QED BY <1>1, <1>2, <1>3, NoCommandRests, StepOfOne DEF SettingsInv, SavedInv, Stage

\* An import writes a row of its own and is to be loaded.
LEMMA ImportRowKeeps ==
    ASSUME SettingsInv, NEW o \in Command, NEW s \in Rows, ImportRow(o, s)
    PROVE  SettingsInv'
<1>1. PICK r : r = [NoCommand EXCEPT !.at = "load"]
  OBVIOUS
<1>2. DOMAIN r = CommandFields /\ r.at = "load" /\ r.next \in Settings
  BY <1>1, NoCommandRests DEF CommandFields
<1>3. command' = [command EXCEPT ![o] = r]
  BY <1>1 DEF ImportRow
<1>4. /\ row' = s /\ cache' = cache /\ endpoint' = endpoint
      /\ Stored' = from_row(s) /\ saved' = saved \cup {from_row(s)}
      /\ count' \in 0 .. MaxCommands /\ steady' \in BOOLEAN
      /\ steady' => steady /\ \A p \in Command : Resting(p)
  BY BeginIsSteady DEF ImportRow, Stored
<1>5. endpoint' \in {t.url : t \in saved'}
  BY <1>4 DEF SettingsInv, SavedInv
<1>6. from_row(s) \in Settings
  BY RowsDecode
<1> QED BY <1>2, <1>3, <1>4, <1>5, <1>6, StepOfOne DEF SettingsInv, SavedInv, Stage

\* reload reads the row.
LEMMA LoadKeeps ==
    ASSUME SettingsInv, NEW o \in Command, NEW ok \in BOOLEAN, Load(o, ok)
    PROVE  SettingsInv'
<1>1. /\ row' = row /\ Stored' = Stored
      /\ cache' = cache /\ endpoint' = endpoint /\ saved' = saved
      /\ count' = count /\ command[o].at = "load"
      /\ steady' \in BOOLEAN /\ (steady' => steady /\ ok)
  BY DEF Stored, Load, SettingsInv
<1>2. steady => \A p \in Command : p # o => Resting(p)
  BY <1>1 DEF SettingsInv, SteadyInv, Resting
<1>3. CASE ok
  <2>1. PICK r : r = [command[o] EXCEPT !.at = "loaded", !.next = Stored]
    OBVIOUS
  <2>2. DOMAIN r = CommandFields /\ r.at = "loaded" /\ r.next = Stored
    BY <2>1 DEF SettingsInv, CommandInv, CommandFields
  <2>3. command' = [command EXCEPT ![o] = r]
    BY <1>3, <2>1 DEF Load, SettingsInv, CommandInv
  <2> QED BY <1>1, <1>2, <2>2, <2>3, StepOfOne DEF SettingsInv, SavedInv, Stage
<1>4. CASE ~ ok
  <2>1. command' = [command EXCEPT ![o] = NoCommand]
    BY <1>4 DEF Load, EndCommand
  <2> QED BY <1>1, <1>2, <1>4, <2>1, NoCommandRests, StepOfOne DEF SettingsInv, SavedInv, Stage
<1> QED BY <1>3, <1>4

\* reload sets the endpoint first.
LEMMA ReloadEndpointKeeps ==
    ASSUME SettingsInv, NEW o \in Command, ReloadEndpoint(o)
    PROVE  SettingsInv'
<1>1. /\ row' = row /\ Stored' = Stored
      /\ cache' = cache /\ endpoint' = command[o].next.url /\ saved' = saved
      /\ count' = count /\ steady' = steady /\ command[o].at = "loaded"
  BY DEF Stored, ReloadEndpoint
<1>2. steady => (\A p \in Command : p # o => Resting(p)) /\ command[o].next = Stored
  BY <1>1 DEF SettingsInv, SteadyInv, Resting
<1>3. /\ command[o].next \in Settings /\ DOMAIN command[o] = CommandFields
      /\ command[o].next \in saved
  BY <1>1 DEF SettingsInv, CommandInv, SavedInv
<1>4. PICK r : r = [command[o] EXCEPT !.at = "reloaded"]
  OBVIOUS
<1>5. DOMAIN r = CommandFields /\ r.at = "reloaded" /\ r.next = command[o].next
  BY <1>3, <1>4 DEF CommandFields
<1>6. command' = [command EXCEPT ![o] = r]
  BY <1>4 DEF ReloadEndpoint, SettingsInv, CommandInv
<1>7. endpoint' \in {s.url : s \in saved'}
  BY <1>1, <1>3
<1> QED BY <1>1, <1>2, <1>3, <1>5, <1>6, <1>7, StepOfOne DEF SettingsInv, SavedInv, Stage

\* reload sets the cache last.
LEMMA ReloadCacheKeeps ==
    ASSUME SettingsInv, NEW o \in Command, ReloadCache(o)
    PROVE  SettingsInv'
<1>1. /\ row' = row /\ Stored' = Stored
      /\ cache' = command[o].next /\ endpoint' = endpoint /\ saved' = saved
      /\ count' = count /\ steady' = steady /\ command[o].at = "reloaded"
      /\ command' = [command EXCEPT ![o] = NoCommand]
  BY DEF Stored, ReloadCache, EndCommand
<1>2. steady => /\ \A p \in Command : p # o => Resting(p)
                /\ command[o].next = Stored /\ endpoint = Stored.url
  BY <1>1 DEF SettingsInv, SteadyInv, Resting
<1>3. command[o].next \in saved
  BY <1>1 DEF SettingsInv, SavedInv
<1> QED BY <1>1, <1>2, <1>3, NoCommandRests, StepOfOne DEF SettingsInv, SavedInv, Stage

\* SettingsInv holds in every reachable state of the settings store, for any switches,
\* URLs and number of commands.
THEOREM SettingsInvariant == SettingsSpec => []SettingsInv
<1>1. SettingsInv /\ [SettingsNext]_settingVars => SettingsInv'
  <2> SUFFICES ASSUME SettingsInv, [SettingsNext]_settingVars PROVE SettingsInv'
    OBVIOUS
  <2>1. CASE UNCHANGED settingVars
    BY <2>1 DEF settingVars, SettingsInv, CommandInv, SavedInv, SteadyInv, Resting, Stored
  <2>2. CASE SettingsNext
    <3>1. PICK o \in Command :
            \/ \E f \in Flag : Toggle(o, f)
            \/ CycleMode(o)
            \/ \E k \in SettingKey : \E v \in Values(k) \cup {Bad} : SetTo(o, k, v)
            \/ Apply(o)
            \/ \E ok \in BOOLEAN : Persist(o, ok)
            \/ SetCache(o) \/ SetEndpoint(o)
            \/ \E s \in ImportedRows : ImportRow(o, s)
            \/ \E ok \in BOOLEAN : Load(o, ok)
            \/ ReloadEndpoint(o) \/ ReloadCache(o)
      BY <2>2 DEF SettingsNext
    <3>2. CASE \E f \in Flag : Toggle(o, f)
      BY <3>2, SetToKeeps DEF Toggle
    <3>3. CASE CycleMode(o)
      BY <3>3, SetToKeeps DEF CycleMode
    <3>4. CASE \E k \in SettingKey : \E v \in Values(k) \cup {Bad} : SetTo(o, k, v)
      BY <3>4, SetToKeeps
    <3>5. CASE \E s \in ImportedRows : ImportRow(o, s)
      BY <3>5, ImportRowKeeps, DefaultIsSettings
    <3> QED BY <3>1, <3>2, <3>3, <3>4, <3>5, ApplyKeeps, PersistKeeps, SetCacheKeeps,
               SetEndpointKeeps, LoadKeeps, ReloadEndpointKeeps, ReloadCacheKeeps
  <2> QED BY <2>1, <2>2
<1> QED BY <1>1, InitSettingsInv, PTL DEF SettingsSpec

\* Nothing is served that was never stored, and commands that do not overlap leave row,
\* cache and endpoint equal (set_setting, reload).
THEOREM SettingsKeptAlways == SettingsSpec => []SettingsKept
<1>1. SettingsInv => SettingsKept
  BY DEF SettingsInv, CommandInv, SavedInv, SteadyInv, SettingsKept, SettingsTypeOK,
         NothingUnsaved, SettingsAgree, Stage
<1> QED BY <1>1, SettingsInvariant, PTL

-----------------------------------------------------------------------------
(* TelegramSink. *)

\* The tasks of a queue wait at one stage, each at one place of it.
Waiting(q, stage, f) ==
    /\ q \in Seq(Op)
    /\ \A i \in 1 .. Len(q) : f[q[i]].at = stage
    /\ \A i, j \in 1 .. Len(q) : q[i] = q[j] => i = j

\* How many messages an operation may have left, by where it is.
SentRule(r, d, l) ==
    /\ r.at \notin {"ok", "failed", "dropped"} => d = l /\ l <= r.attempt
    /\ r.at \in {"ok", "failed", "dropped"} => d <= l + 1
    /\ r.at \in {"ok", "dropped"} => l <= r.attempt
    /\ r.at = "ok" /\ r.kind # "chat" => d = l + 1
    /\ r.at = "failed" => d <= r.attempt + 1 /\ l <= r.attempt + 1
    /\ r.at = "idle" => r.attempt = 0

\* Of the stall timeout, what the watcher has left and how long nothing has been
\* acknowledged make up the whole, unless it has an acknowledgement to see; and a
\* transfer has a session.
TransferRule(r) ==
    /\ r.at = "upload" /\ r.unseen = FALSE => r.still + r.left >= Stall
    /\ r.at \in {"upload", "send"} => r.session \in Session

SinkInv ==
    /\ op \in [Op -> Operation]
    /\ slow \subseteq Session /\ flooded \subseteq Worker
    /\ dump \in [Op -> 0 .. MaxAttempts] /\ lost \in [Op -> 0 .. MaxAttempts]
    /\ Waiting(slotQueue, "slot", op) /\ Waiting(mainQueue, "main", op)
    /\ \A o \in Op : SentRule(op[o], dump[o], lost[o]) /\ TransferRule(op[o])
    /\ OneTransferPerSession

-----------------------------------------------------------------------------
(* The queues of waiting tasks. *)

\* A queue stands while no task of it moves.
LEMMA WaitersStay ==
    ASSUME NEW q, NEW stage, NEW f, NEW g, NEW o \in Op, Waiting(q, stage, f),
           \A p \in Op : p # o => g[p] = f[p],
           f[o].at # stage \/ g[o].at = stage
    PROVE  Waiting(q, stage, g)
BY DEF Waiting

\* A task that begins to wait is the last of the queue.
LEMMA WaiterJoins ==
    ASSUME NEW q, NEW stage, NEW f, NEW g, NEW o \in Op, Waiting(q, stage, f),
           \A p \in Op : p # o => g[p] = f[p],
           f[o].at # stage, g[o].at = stage
    PROVE  Waiting(Append(q, o), stage, g)
<1> DEFINE r == Append(q, o)
<1>1. /\ q \in Seq(Op) /\ r \in Seq(Op) /\ Len(r) = Len(q) + 1 /\ Len(q) \in Nat
      /\ \A i \in 1 .. Len(q) : r[i] = q[i] /\ q[i] \in Op
      /\ r[Len(q) + 1] = o
  BY DEF Waiting
<1>2. \A i \in 1 .. Len(q) : q[i] # o
  BY DEF Waiting
<1>3. \A i \in 1 .. Len(r) : g[r[i]].at = stage
  BY <1>1, <1>2 DEF Waiting
<1>4. \A i, j \in 1 .. Len(r) : r[i] = r[j] => i = j
  BY <1>1, <1>2 DEF Waiting
<1> QED BY <1>1, <1>3, <1>4 DEF Waiting

\* The first of a queue waits.
LEMMA FirstWaits ==
    ASSUME NEW q, NEW stage, NEW f, NEW o \in Op, Waiting(q, stage, f), q # <<>>, Head(q) = o
    PROVE  f[o].at = stage
<1>1. 1 \in 1 .. Len(q) /\ q[1] = o
  BY DEF Waiting
<1> QED BY <1>1 DEF Waiting

\* The first of a queue leaves it.
LEMMA WaiterServed ==
    ASSUME NEW q, NEW stage, NEW f, NEW g, NEW o \in Op, Waiting(q, stage, f),
           \A p \in Op : p # o => g[p] = f[p],
           q # <<>>, Head(q) = o
    PROVE  Waiting(Tail(q), stage, g)
<1> DEFINE r == Tail(q)
<1>1. /\ q \in Seq(Op) /\ r \in Seq(Op) /\ Len(r) = Len(q) - 1 /\ Len(q) \in Nat
      /\ Len(q) > 0 /\ q[1] = o
      /\ \A i \in 1 .. Len(r) : r[i] = q[i + 1]
      /\ \A i \in 1 .. Len(q) : q[i] \in Op
  BY DEF Waiting
<1>2. \A i \in 1 .. Len(r) : i + 1 \in 1 .. Len(q) /\ i + 1 # 1
  BY <1>1
<1>3. 1 \in 1 .. Len(q)
  BY <1>1
<1>4. \A i \in 1 .. Len(r) : r[i] # o /\ r[i] \in Op
  BY <1>1, <1>2, <1>3 DEF Waiting
<1>5. \A i \in 1 .. Len(r) : g[r[i]].at = stage
  BY <1>1, <1>2, <1>4 DEF Waiting
<1>6. \A i, j \in 1 .. Len(r) : r[i] = r[j] => i = j
  BY <1>1, <1>2 DEF Waiting
<1> QED BY <1>1, <1>5, <1>6 DEF Waiting

\* A task that gives up leaves the queue wherever it is.
LEMMA WaiterLeaves ==
    ASSUME NEW q, NEW stage, NEW f, NEW g, NEW o \in Op, Waiting(q, stage, f),
           \A p \in Op : p # o => g[p] = f[p]
    PROVE  Waiting(Dequeued(q, o), stage, g)
<1> DEFINE i == CHOOSE j \in 1 .. Len(q) : q[j] = o
           r == [j \in 1 .. Len(q) - 1 |-> IF j < i THEN q[j] ELSE q[j + 1]]
<1>1. q \in Seq(Op) /\ Len(q) \in Nat /\ \A j \in 1 .. Len(q) : q[j] \in Op
  BY DEF Waiting
<1>2. CASE \E j \in 1 .. Len(q) : q[j] = o
  <2>1. Dequeued(q, o) = r
    BY <1>2 DEF Dequeued
  <2>2. i \in 1 .. Len(q) /\ q[i] = o
    BY <1>2
  <2> HIDE DEF i
  <2>3. Len(q) - 1 \in Nat /\ \A j \in 1 .. Len(q) - 1 : r[j] \in Op
    BY <1>1, <2>2
  <2>4. r \in Seq(Op) /\ Len(r) = Len(q) - 1
    <3>1. r \in [1 .. Len(q) - 1 -> Op]
      BY <2>3
    <3> QED BY <2>3, <3>1
  <2>5. \A j \in 1 .. Len(q) - 1 : \E k \in 1 .. Len(q) :
           k # i /\ r[j] = q[k] /\ k = IF j < i THEN j ELSE j + 1
    BY <1>1, <2>2
  <2> HIDE DEF r
  <2>6. \A j \in 1 .. Len(q) - 1 : r[j] # o /\ g[r[j]].at = stage
    BY <1>1, <2>2, <2>5 DEF Waiting
  <2>7. \A j, k \in 1 .. Len(q) - 1 : r[j] = r[k] => j = k
    BY <1>1, <2>2, <2>5 DEF Waiting
  <2> QED BY <2>1, <2>4, <2>6, <2>7 DEF Waiting
<1>3. CASE ~ \E j \in 1 .. Len(q) : q[j] = o
  <2>1. Dequeued(q, o) = q
    BY <1>3 DEF Dequeued
  <2> QED BY <1>1, <1>3, <2>1 DEF Waiting
<1> QED BY <1>2, <1>3

-----------------------------------------------------------------------------
(* One operation moves. *)

\* The parts of the invariant that are not about the queues.
OpsInv ==
    /\ op \in [Op -> Operation]
    /\ dump \in [Op -> 0 .. MaxAttempts] /\ lost \in [Op -> 0 .. MaxAttempts]
    /\ \A o \in Op : SentRule(op[o], dump[o], lost[o]) /\ TransferRule(op[o])
    /\ OneTransferPerSession

\* One operation moves, with what it left in the dump.
LEMMA OneOperationMoves ==
    ASSUME SinkInv, NEW o \in Op, NEW r \in Operation, op' = [op EXCEPT ![o] = r],
           NEW d \in 0 .. MaxAttempts, dump' = [dump EXCEPT ![o] = d],
           NEW l \in 0 .. MaxAttempts, lost' = [lost EXCEPT ![o] = l],
           SentRule(r, d, l), TransferRule(r),
           r.at \in {"upload", "send"} =>
              \A p \in Op : p # o /\ op[p].at \in {"upload", "send"}
                              => op[p].session # r.session
    PROVE  /\ OpsInv' /\ op'[o] = r
           /\ \A p \in Op : p # o => op'[p] = op[p]
<1>1. /\ op' \in [Op -> Operation] /\ op'[o] = r
      /\ \A p \in Op : p # o => op'[p] = op[p]
  BY DEF SinkInv
<1>2. /\ dump' \in [Op -> 0 .. MaxAttempts] /\ dump'[o] = d
      /\ \A p \in Op : p # o => dump'[p] = dump[p]
  BY DEF SinkInv
<1>3. /\ lost' \in [Op -> 0 .. MaxAttempts] /\ lost'[o] = l
      /\ \A p \in Op : p # o => lost'[p] = lost[p]
  BY DEF SinkInv
<1>4. \A p \in Op : SentRule(op'[p], dump'[p], lost'[p]) /\ TransferRule(op'[p])
  BY <1>1, <1>2, <1>3 DEF SinkInv
<1>5. OneTransferPerSession'
  BY <1>1 DEF SinkInv, OneTransferPerSession
<1> QED BY <1>1, <1>2, <1>3, <1>4, <1>5 DEF OpsInv

\* The same when the messages do not change.
LEMMA OneOperationMovesQuietly ==
    ASSUME SinkInv, NEW o \in Op, NEW r \in Operation, op' = [op EXCEPT ![o] = r],
           dump' = dump, lost' = lost,
           SentRule(r, dump[o], lost[o]), TransferRule(r),
           r.at \in {"upload", "send"} =>
              \A p \in Op : p # o /\ op[p].at \in {"upload", "send"}
                              => op[p].session # r.session
    PROVE  /\ OpsInv' /\ op'[o] = r
           /\ \A p \in Op : p # o => op'[p] = op[p]
<1>1. dump' = [dump EXCEPT ![o] = dump[o]] /\ lost' = [lost EXCEPT ![o] = lost[o]]
  BY DEF SinkInv
<1>2. dump[o] \in 0 .. MaxAttempts /\ lost[o] \in 0 .. MaxAttempts
  BY DEF SinkInv
<1> QED BY <1>1, <1>2, OneOperationMoves

\* The parts of the invariant make it up.
LEMMA PartsMakeSinkInv ==
    ASSUME OpsInv', slow' \subseteq Session, flooded' \subseteq Worker,
           Waiting(slotQueue', "slot", op'), Waiting(mainQueue', "main", op')
    PROVE  SinkInv'
BY DEF OpsInv, SinkInv

\* An operation that is not waiting moves to a place where it does not wait.
LEMMA QueuesStay ==
    ASSUME SinkInv, NEW o \in Op, slotQueue' = slotQueue, mainQueue' = mainQueue,
           \A p \in Op : p # o => op'[p] = op[p],
           op[o].at \notin {"slot", "main"}
    PROVE  Waiting(slotQueue', "slot", op') /\ Waiting(mainQueue', "main", op')
BY WaitersStay DEF SinkInv

\* An operation that has not begun an attempt.
LEMMA FreshIsOperation ==
    ASSUME NEW k \in Kind, NEW at \in Quiescent \cup Holding \cup {"slot"}
    PROVE  /\ Fresh(k, at) \in Operation /\ Fresh(k, at).at = at
           /\ Fresh(k, at).attempt = 0 /\ Fresh(k, at).kind = k
<1>1. 0 \in 0 .. MaxAttempts - 1 /\ 0 \in 0 .. MaxAcks /\ 0 \in 0 .. Stall
  BY SinkAssumption
<1>2. FALSE \in BOOLEAN /\ NoSession \in Session \cup {NoSession}
  OBVIOUS
<1> QED BY <1>1, <1>2 DEF Fresh, Operation

\* What is left of an operation whose attempt is over: its kind and its count.
Ended(k, at, a) == [Fresh(k, at) EXCEPT !.attempt = a]

\* An operation between two attempts, or over.
LEMMA EndedIsOperation ==
    ASSUME NEW k \in Kind, NEW at \in Quiescent \cup Holding \cup {"slot"},
           NEW a \in 0 .. MaxAttempts - 1
    PROVE  /\ Ended(k, at, a) \in Operation /\ Ended(k, at, a).at = at
           /\ Ended(k, at, a).attempt = a
BY FreshIsOperation DEF Operation, Ended

\* An operation at another place.
Moved(r, at) == [r EXCEPT !.at = at]

\* An operation at another place.
LEMMA MovedIsOperation ==
    ASSUME NEW r \in Operation, NEW at \in Quiescent \cup Holding \cup {"slot"}
    PROVE  /\ Moved(r, at) \in Operation /\ Moved(r, at).at = at
           /\ Moved(r, at).attempt = r.attempt /\ Moved(r, at).session = r.session
<1>1. Moved(r, at) \in Operation /\ Moved(r, at).at = at
  BY DEF Operation, Moved
<1>2. Moved(r, at).attempt = r.attempt /\ Moved(r, at).session = r.session
  BY DEF Operation, Moved
<1> QED BY <1>1, <1>2

\* A step that changes only where an operation is.
LEMMA MoveIsMoved ==
    ASSUME SinkInv, NEW o \in Op, NEW at, op' = [op EXCEPT ![o].at = at]
    PROVE  op' = [op EXCEPT ![o] = Moved(op[o], at)]
BY DEF SinkInv, Moved

\* At the start no operation runs.
LEMMA InitSinkInv == SinkInit => SinkInv
<1> SUFFICES ASSUME SinkInit PROVE SinkInv
  OBVIOUS
<1>1. 0 \in 0 .. MaxAttempts - 1 /\ "track" \in Kind /\ "idle" \in Quiescent
  BY SinkAssumption DEF Kind, Quiescent
<1>2. Fresh("track", "idle") \in Operation /\ Fresh("track", "idle").at = "idle"
      /\ Fresh("track", "idle").attempt = 0
  BY <1>1, FreshIsOperation
<1>3. op \in [Op -> Operation] /\ \A o \in Op : op[o].at = "idle" /\ op[o].attempt = 0
  BY <1>2 DEF SinkInit
<1>4. dump \in [Op -> 0 .. MaxAttempts] /\ lost \in [Op -> 0 .. MaxAttempts]
      /\ \A o \in Op : dump[o] = 0 /\ lost[o] = 0
  BY SinkAssumption DEF SinkInit
<1>5. Waiting(slotQueue, "slot", op) /\ Waiting(mainQueue, "main", op)
  BY DEF SinkInit, Waiting
<1>6. \A o \in Op : SentRule(op[o], dump[o], lost[o]) /\ TransferRule(op[o])
  BY <1>3, <1>4 DEF SentRule, TransferRule
<1>7. OneTransferPerSession
  BY <1>3 DEF OneTransferPerSession
<1> QED BY <1>3, <1>4, <1>5, <1>6, <1>7 DEF SinkInit, SinkInv

\* The engine asks for an upload or a copy.
LEMMA RequestKeeps ==
    ASSUME SinkInv, NEW o \in Op, NEW k \in Kind, Request(o, k)
    PROVE  SinkInv'
<1>1. PICK r : r = Fresh(k, "slot")
  OBVIOUS
<1>2. 0 \in 0 .. MaxAttempts - 1
  BY SinkAssumption
<1>3. r \in Operation /\ r.at = "slot" /\ r.attempt = 0
  BY <1>1, FreshIsOperation
<1>4. SentRule(op[o], dump[o], lost[o]) /\ op[o].at = "idle"
  BY DEF SinkInv, Request
<1>5. SentRule(r, dump[o], lost[o]) /\ TransferRule(r)
  BY <1>3, <1>4 DEF SentRule, TransferRule
<1>6. op' = [op EXCEPT ![o] = r] /\ dump' = dump /\ lost' = lost
  BY <1>1 DEF Request
<1>7. OpsInv' /\ op'[o] = r /\ \A p \in Op : p # o => op'[p] = op[p]
  BY <1>3, <1>5, <1>6, OneOperationMovesQuietly
<1>8. Waiting(slotQueue', "slot", op')
  BY <1>3, <1>4, <1>7, WaiterJoins DEF SinkInv, Request
<1>9. Waiting(mainQueue', "main", op')
  BY <1>4, <1>7, WaitersStay DEF SinkInv, Request
<1> QED BY <1>7, <1>8, <1>9, PartsMakeSinkInv DEF SinkInv, Request

\* An operation gets a slot, with a session or without.
LEMMA TakeSlotKeeps ==
    ASSUME SinkInv, NEW o \in Op, TakeSlot(o)
    PROVE  SinkInv'
<1>1. /\ Waiting(slotQueue, "slot", op) /\ Waiting(mainQueue, "main", op)
      /\ slotQueue # <<>> /\ Head(slotQueue) = o
      /\ slotQueue' = Tail(slotQueue) /\ slow' = slow /\ flooded' = flooded
      /\ dump' = dump /\ lost' = lost
  BY DEF SinkInv, TakeSlot
<1>2. op[o].at = "slot"
  BY <1>1, FirstWaits
<1>3. SentRule(op[o], dump[o], lost[o]) /\ op[o].attempt \in 0 .. MaxAttempts - 1
      /\ dump[o] \in 0 .. MaxAttempts /\ lost[o] \in 0 .. MaxAttempts
  BY DEF SinkInv, Operation
<1>4. PICK at \in {"main", "attempt", "failed"} :
         /\ op' = [op EXCEPT ![o].at = at]
         /\ mainQueue' = IF at = "main" THEN Append(mainQueue, o) ELSE mainQueue
  BY DEF TakeSlot
<1>5. at \in Quiescent \cup Holding \cup {"slot"}
  BY DEF Quiescent, Holding
<1>6. PICK r : r = Moved(op[o], at)
  OBVIOUS
<1>7. /\ r \in Operation /\ r.at = at /\ r.attempt = op[o].attempt
      /\ op' = [op EXCEPT ![o] = r]
  BY <1>4, <1>5, <1>6, MoveIsMoved, MovedIsOperation DEF SinkInv
<1>8. SentRule(r, dump[o], lost[o]) /\ TransferRule(r)
  BY <1>2, <1>3, <1>7, SinkAssumption DEF SentRule, TransferRule
<1>9. OpsInv' /\ op'[o] = r /\ \A p \in Op : p # o => op'[p] = op[p]
  BY <1>1, <1>7, <1>8, OneOperationMovesQuietly
<1>10. Waiting(slotQueue', "slot", op')
  BY <1>1, <1>9, WaiterServed
<1>11. Waiting(mainQueue', "main", op')
  <2>1. CASE at = "main"
    <3>1. mainQueue' = Append(mainQueue, o) /\ op'[o].at = "main" /\ op[o].at # "main"
      BY <1>2, <1>4, <1>7, <1>9, <2>1
    <3> QED BY <1>1, <1>9, <3>1, WaiterJoins
  <2>2. CASE at # "main"
    BY <1>1, <1>2, <1>4, <1>9, <2>2, WaitersStay
  <2> QED BY <2>1, <2>2
<1> QED BY <1>1, <1>9, <1>10, <1>11, PartsMakeSinkInv DEF SinkInv

\* A transfer begins on a session nobody uses.
LEMMA BeginMoves ==
    ASSUME SinkInv, NEW o \in Op, NEW s \in Session, NEW leased \in BOOLEAN,
           op[o].at \in {"attempt", "main"}, s \notin InUse, Begin(o, s, leased),
           dump' = dump, lost' = lost
    PROVE  OpsInv' /\ \A p \in Op : p # o => op'[p] = op[p]
<1>1. op[o] \in Operation /\ SentRule(op[o], dump[o], lost[o])
  BY DEF SinkInv
<1>2. PICK r : r = [op[o] EXCEPT !.at = "upload", !.session = s, !.leased = leased,
                                 !.acks = 0, !.unseen = FALSE, !.left = Stall, !.still = 0]
  OBVIOUS
<1>3. op' = [op EXCEPT ![o] = r]
  BY <1>2 DEF Begin
<1>4. r \in Operation
  <2>1. 0 \in 0 .. MaxAcks /\ 0 \in 0 .. Stall /\ Stall \in 0 .. Stall /\ FALSE \in BOOLEAN
        /\ "upload" \in Quiescent \cup Holding \cup {"slot"}
        /\ s \in Session \cup {NoSession}
    BY SinkAssumption DEF Holding
  <2> QED BY <1>1, <1>2, <2>1 DEF Operation
<1>5. /\ r.at = "upload" /\ r.session = s /\ r.attempt = op[o].attempt
      /\ r.left = Stall /\ r.still = 0
  BY <1>1, <1>2 DEF Operation
<1>6. SentRule(r, dump[o], lost[o]) /\ TransferRule(r)
  BY <1>1, <1>5, SinkAssumption DEF SentRule, TransferRule
<1>7. \A p \in Op : p # o /\ op[p].at \in {"upload", "send"} => op[p].session # r.session
  BY <1>5 DEF InUse
<1> QED BY <1>3, <1>4, <1>6, <1>7, OneOperationMovesQuietly

\* A free session is leased.
LEMMA LeaseKeeps ==
    ASSUME SinkInv, NEW o \in Op, Lease(o)
    PROVE  SinkInv'
<1>1. PICK s \in Leasable : Begin(o, s, TRUE)
  BY DEF Lease
<1>2. s \in Session /\ s \notin InUse
  BY DEF Leasable, TryAcquire, Session
<1>3. /\ op[o].at = "attempt" /\ dump' = dump /\ lost' = lost
      /\ slotQueue' = slotQueue /\ mainQueue' = mainQueue
      /\ slow' = slow /\ flooded' = flooded
  BY DEF Lease
<1>4. OpsInv' /\ \A p \in Op : p # o => op'[p] = op[p]
  BY <1>1, <1>2, <1>3, BeginMoves
<1> QED BY <1>3, <1>4, QueuesStay, PartsMakeSinkInv DEF SinkInv

\* No session to lease, or the last attempt: the operation waits for the primary.
LEMMA NoLeaseKeeps ==
    ASSUME SinkInv, NEW o \in Op, NoLease(o)
    PROVE  SinkInv'
<1>1. /\ op[o].at = "attempt" /\ dump' = dump /\ lost' = lost
      /\ slotQueue' = slotQueue /\ mainQueue' = Append(mainQueue, o)
      /\ slow' = slow /\ flooded' = flooded /\ op' = [op EXCEPT ![o].at = "main"]
  BY DEF NoLease
<1>2. PICK r : r = Moved(op[o], "main")
  OBVIOUS
<1>3. /\ r \in Operation /\ r.at = "main" /\ r.attempt = op[o].attempt
      /\ op' = [op EXCEPT ![o] = r]
  <2>1. "main" \in Quiescent \cup Holding \cup {"slot"}
    BY DEF Holding
  <2> QED BY <1>1, <1>2, <2>1, MoveIsMoved, MovedIsOperation DEF SinkInv
<1>4. SentRule(r, dump[o], lost[o]) /\ TransferRule(r)
  BY <1>1, <1>3 DEF SinkInv, SentRule, TransferRule
<1>5. OpsInv' /\ op'[o] = r /\ \A p \in Op : p # o => op'[p] = op[p]
  BY <1>1, <1>3, <1>4, OneOperationMovesQuietly
<1>6. Waiting(slotQueue', "slot", op')
  BY <1>1, <1>5, WaitersStay DEF SinkInv
<1>7. Waiting(mainQueue', "main", op')
  BY <1>1, <1>3, <1>5, WaiterJoins DEF SinkInv
<1> QED BY <1>1, <1>5, <1>6, <1>7, PartsMakeSinkInv DEF SinkInv

\* The first that waits for the primary gets it.
LEMMA TakeMainKeeps ==
    ASSUME SinkInv, NEW o \in Op, TakeMain(o)
    PROVE  SinkInv'
<1>1. /\ Waiting(slotQueue, "slot", op) /\ Waiting(mainQueue, "main", op)
      /\ mainQueue # <<>> /\ Head(mainQueue) = o /\ Primary \notin InUse
      /\ Begin(o, Primary, FALSE) /\ mainQueue' = Tail(mainQueue)
      /\ slotQueue' = slotQueue /\ slow' = slow /\ flooded' = flooded
      /\ dump' = dump /\ lost' = lost
  BY DEF SinkInv, TakeMain
<1>2. op[o].at = "main"
  BY <1>1, FirstWaits
<1>3. OpsInv' /\ \A p \in Op : p # o => op'[p] = op[p]
  BY <1>1, <1>2, BeginMoves DEF Session
<1>4. Waiting(mainQueue', "main", op')
  BY <1>1, <1>3, WaiterServed
<1>5. Waiting(slotQueue', "slot", op')
  BY <1>1, <1>2, <1>3, WaitersStay
<1> QED BY <1>1, <1>3, <1>4, <1>5, PartsMakeSinkInv DEF SinkInv

\* What an attempt that failed leaves: the next one, or the end of the operation.
LEMMA RetryMoves ==
    ASSUME SinkInv, NEW o \in Op, Retry(o), op[o].at \in {"upload", "send"},
           NEW d \in 0 .. MaxAttempts, dump' = [dump EXCEPT ![o] = d],
           NEW l \in 0 .. MaxAttempts, lost' = [lost EXCEPT ![o] = l],
           d = l, l <= op[o].attempt + 1
    PROVE  OpsInv' /\ \A p \in Op : p # o => op'[p] = op[p]
<1>1. /\ op[o] \in Operation /\ op[o].kind \in Kind
      /\ op[o].attempt \in 0 .. MaxAttempts - 1
  BY DEF SinkInv, Operation
<1>2. CASE op[o].kind # "chat" /\ op[o].attempt + 1 < MaxAttempts
  <2>1. PICK r : r = Ended(op[o].kind, "attempt", op[o].attempt + 1)
    OBVIOUS
  <2>2. op' = [op EXCEPT ![o] = r]
    BY <1>2, <2>1 DEF Retry, Ended
  <2>3. op[o].attempt + 1 \in 0 .. MaxAttempts - 1
    BY <1>1, <1>2, SinkAssumption
  <2>4. r \in Operation /\ r.at = "attempt" /\ r.attempt = op[o].attempt + 1
    <3>1. "attempt" \in Quiescent \cup Holding \cup {"slot"}
      BY DEF Holding
    <3> QED BY <1>1, <2>1, <2>3, <3>1, EndedIsOperation
  <2>5. SentRule(r, d, l) /\ TransferRule(r)
    BY <2>4 DEF SentRule, TransferRule
  <2> QED BY <2>2, <2>4, <2>5, OneOperationMoves
<1>3. CASE ~ (op[o].kind # "chat" /\ op[o].attempt + 1 < MaxAttempts)
  <2>1. PICK r : r = Ended(op[o].kind, "failed", op[o].attempt)
    OBVIOUS
  <2>2. op' = [op EXCEPT ![o] = r]
    BY <1>3, <2>1 DEF Retry, Ended
  <2>3. r \in Operation /\ r.at = "failed" /\ r.attempt = op[o].attempt
    <3>1. "failed" \in Quiescent \cup Holding \cup {"slot"}
      BY DEF Quiescent
    <3> QED BY <1>1, <2>1, <3>1, EndedIsOperation
  <2>4. SentRule(r, d, l) /\ TransferRule(r)
    BY <2>3 DEF SentRule, TransferRule
  <2> QED BY <2>2, <2>3, <2>4, OneOperationMoves
<1> QED BY <1>2, <1>3

\* An attempt fails: the next one, or the end.
LEMMA FailUploadKeeps ==
    ASSUME SinkInv, NEW o \in Op, Uploading(o), FailUpload(o)
    PROVE  SinkInv'
<1>1. /\ op[o].at = "upload" /\ Retry(o) /\ dump' = dump /\ lost' = lost
      /\ slotQueue' = slotQueue /\ mainQueue' = mainQueue /\ flooded' = flooded
  BY DEF Uploading, FailUpload
<1>2. /\ dump[o] \in 0 .. MaxAttempts /\ lost[o] \in 0 .. MaxAttempts
      /\ dump' = [dump EXCEPT ![o] = dump[o]] /\ lost' = [lost EXCEPT ![o] = lost[o]]
  BY <1>1 DEF SinkInv
<1>3. dump[o] = lost[o] /\ lost[o] <= op[o].attempt + 1
  BY <1>1, <1>2 DEF SinkInv, SentRule, Operation
<1>4. OpsInv' /\ \A p \in Op : p # o => op'[p] = op[p]
  BY <1>1, <1>2, <1>3, RetryMoves
<1>5. slow' \subseteq Session
  <2>1. op[o].session \in Session
    BY <1>1 DEF SinkInv, TransferRule
  <2> QED BY <2>1 DEF FailUpload, SinkInv
<1> QED BY <1>1, <1>4, <1>5, QueuesStay, PartsMakeSinkInv DEF SinkInv

\* The file is with Telegram, or the upload failed.
LEMMA UploadDoneKeeps ==
    ASSUME SinkInv, NEW o \in Op, UploadDone(o)
    PROVE  SinkInv'
<1>1. /\ op[o].at = "upload" /\ dump' = dump /\ lost' = lost
      /\ slotQueue' = slotQueue /\ mainQueue' = mainQueue
      /\ slow' = slow /\ flooded' = flooded /\ op' = [op EXCEPT ![o].at = "send"]
  BY DEF UploadDone, Uploading
<1>2. PICK r : r = Moved(op[o], "send")
  OBVIOUS
<1>3. /\ r \in Operation /\ r.at = "send" /\ r.attempt = op[o].attempt
      /\ r.session = op[o].session /\ op' = [op EXCEPT ![o] = r]
  <2>1. "send" \in Quiescent \cup Holding \cup {"slot"}
    BY DEF Holding
  <2> QED BY <1>1, <1>2, <2>1, MoveIsMoved, MovedIsOperation DEF SinkInv
<1>4. SentRule(r, dump[o], lost[o]) /\ TransferRule(r)
  BY <1>1, <1>3 DEF SinkInv, SentRule, TransferRule
<1>5. \A p \in Op : p # o /\ op[p].at \in {"upload", "send"} => op[p].session # r.session
  BY <1>1, <1>3 DEF SinkInv, OneTransferPerSession
<1>6. OpsInv' /\ \A p \in Op : p # o => op'[p] = op[p]
  BY <1>1, <1>3, <1>4, <1>5, OneOperationMovesQuietly
<1> QED BY <1>1, <1>6, QueuesStay, PartsMakeSinkInv DEF SinkInv

\* The watcher's clock, its looks and the acknowledgements: the transfer stays where
\* it is.
LEMMA WatcherMoves ==
    ASSUME SinkInv, NEW o \in Op, NEW r \in Operation, op[o].at = "upload",
           op' = [op EXCEPT ![o] = r], r.at = "upload", r.session = op[o].session,
           r.attempt = op[o].attempt, TransferRule(r),
           UNCHANGED <<slotQueue, mainQueue, slow, flooded, dump, lost>>
    PROVE  SinkInv'
<1>1. SentRule(r, dump[o], lost[o])
  BY DEF SinkInv, SentRule
<1>2. \A p \in Op : p # o /\ op[p].at \in {"upload", "send"} => op[p].session # r.session
  BY DEF SinkInv, OneTransferPerSession
<1>3. OpsInv' /\ \A p \in Op : p # o => op'[p] = op[p]
  BY <1>1, <1>2, OneOperationMovesQuietly
<1> QED BY <1>3, QueuesStay, PartsMakeSinkInv DEF SinkInv

\* A part is acknowledged.
LEMMA AckKeeps ==
    ASSUME SinkInv, NEW o \in Op, Ack(o)
    PROVE  SinkInv'
<1>1. op[o] \in Operation /\ op[o].at = "upload" /\ TransferRule(op[o])
  BY DEF SinkInv, Ack, Uploading
<1>2. PICK r : r = [op[o] EXCEPT !.acks = op[o].acks + 1, !.unseen = TRUE, !.still = 0]
  OBVIOUS
<1>3. op' = [op EXCEPT ![o] = r]
  BY <1>2 DEF Ack
<1>4. op[o].acks + 1 \in 0 .. MaxAcks /\ 0 \in 0 .. Stall /\ TRUE \in BOOLEAN
  BY <1>1, SinkAssumption DEF Ack, Operation
<1>5. r \in Operation
  BY <1>1, <1>2, <1>4 DEF Operation
<1>6. /\ r.at = "upload" /\ r.session = op[o].session /\ r.attempt = op[o].attempt
      /\ r.unseen = TRUE
  BY <1>1, <1>2 DEF Operation
<1>7. TransferRule(r)
  BY <1>1, <1>6 DEF TransferRule
<1> QED BY <1>1, <1>3, <1>5, <1>6, <1>7, WatcherMoves DEF Ack

\* A tick of the stall clock.
LEMMA TimePassesKeeps ==
    ASSUME SinkInv, NEW o \in Op, TimePasses(o)
    PROVE  SinkInv'
<1>1. /\ op[o] \in Operation /\ op[o].at = "upload" /\ TransferRule(op[o])
      /\ op[o].left > 0
  BY DEF SinkInv, TimePasses, Uploading
<1>2. PICK t : t = IF op[o].still < Stall THEN op[o].still + 1 ELSE op[o].still
  OBVIOUS
<1>3. op[o].left \in 0 .. Stall /\ op[o].still \in 0 .. Stall
  BY <1>1 DEF Operation
<1>4. op[o].left - 1 \in 0 .. Stall /\ t \in 0 .. Stall
  BY <1>1, <1>2, <1>3, SinkAssumption
<1>5. PICK r : r = [op[o] EXCEPT !.left = op[o].left - 1, !.still = t]
  OBVIOUS
<1>6. op' = [op EXCEPT ![o] = r]
  BY <1>2, <1>5 DEF TimePasses
<1>7. r \in Operation
  BY <1>1, <1>4, <1>5 DEF Operation
<1>8. /\ r.at = "upload" /\ r.session = op[o].session /\ r.attempt = op[o].attempt
      /\ r.unseen = op[o].unseen /\ r.left = op[o].left - 1 /\ r.still = t
  BY <1>1, <1>5 DEF Operation
<1>9. TransferRule(r)
  BY <1>1, <1>2, <1>3, <1>8, SinkAssumption DEF TransferRule
<1> QED BY <1>1, <1>6, <1>7, <1>8, <1>9, WatcherMoves DEF TimePasses

\* The watcher has seen the acknowledgement and starts anew.
LEMMA WatchedKeeps ==
    ASSUME SinkInv, NEW o \in Op, op[o].at = "upload", op' = [op EXCEPT ![o] = Watched(o)],
           UNCHANGED <<slotQueue, mainQueue, slow, flooded, dump, lost>>
    PROVE  SinkInv'
<1>1. op[o] \in Operation /\ TransferRule(op[o])
  BY DEF SinkInv
<1>2. PICK r : r = Watched(o)
  OBVIOUS
<1>3. Stall \in 0 .. Stall /\ FALSE \in BOOLEAN
  BY SinkAssumption
<1>4. r \in Operation
  BY <1>1, <1>2, <1>3 DEF Operation, Watched
<1>5. /\ r.at = "upload" /\ r.session = op[o].session /\ r.attempt = op[o].attempt
      /\ r.left = Stall /\ r.still = op[o].still
  BY <1>1, <1>2 DEF Operation, Watched
<1>6. TransferRule(r)
  <2>1. op[o].still \in 0 .. Stall
    BY <1>1 DEF Operation
  <2> QED BY <1>1, <1>5, <2>1, SinkAssumption DEF TransferRule
<1> QED BY <1>2, <1>4, <1>5, <1>6, WatcherMoves

\* The tick of a watcher that has an acknowledgement to see.
LEMMA TickKeeps ==
    ASSUME SinkInv, NEW o \in Op, Tick(o)
    PROVE  SinkInv'
BY WatchedKeeps DEF Tick, Uploading

\* The stall timeout: a last look, or the attempt fails.
LEMMA DeadlineKeeps ==
    ASSUME SinkInv, NEW o \in Op, Deadline(o)
    PROVE  SinkInv'
BY WatchedKeeps, FailUploadKeeps DEF Deadline, Uploading

\* The message is sent, refused, or sent with its answer lost.
LEMMA SendKeeps ==
    ASSUME SinkInv, NEW o \in Op, NEW answer, Send(o, answer)
    PROVE  SinkInv'
<1>1. /\ op[o].at = "send" /\ slotQueue' = slotQueue /\ mainQueue' = mainQueue
      /\ slow' = slow /\ flooded' = flooded
  BY DEF Send
<1>2. /\ op[o].attempt \in 0 .. MaxAttempts - 1 /\ dump[o] = lost[o]
      /\ dump[o] \in 0 .. MaxAttempts /\ lost[o] <= op[o].attempt
  BY <1>1 DEF SinkInv, SentRule, Operation
<1>3. PICK d : d = IF op[o].kind # "chat" /\ answer # "refused" THEN dump[o] + 1 ELSE dump[o]
  OBVIOUS
<1>4. PICK l : l = IF op[o].kind # "chat" /\ answer = "lost" THEN lost[o] + 1 ELSE lost[o]
  OBVIOUS
<1>5. d \in 0 .. MaxAttempts /\ l \in 0 .. MaxAttempts
  BY <1>2, <1>3, <1>4, SinkAssumption
<1>6. dump' = [dump EXCEPT ![o] = d] /\ lost' = [lost EXCEPT ![o] = l]
  BY <1>3, <1>4 DEF Send
<1>7. OpsInv' /\ \A p \in Op : p # o => op'[p] = op[p]
  <2>1. CASE answer = "ok" /\ op' = [op EXCEPT ![o].at = "ok"]
    <3>1. PICK r : r = Moved(op[o], "ok")
      OBVIOUS
    <3>2. "ok" \in Quiescent \cup Holding \cup {"slot"}
      BY DEF Quiescent
    <3>3. /\ r \in Operation /\ r.at = "ok" /\ r.attempt = op[o].attempt
          /\ op' = [op EXCEPT ![o] = r]
      BY <2>1, <3>1, <3>2, MoveIsMoved, MovedIsOperation DEF SinkInv
    <3>a. r.kind = op[o].kind
      BY <3>1 DEF Moved
    <3>4. SentRule(r, d, l) /\ TransferRule(r)
      BY <1>2, <1>3, <1>4, <2>1, <3>3, <3>a DEF SentRule, TransferRule
    <3> QED BY <1>5, <1>6, <3>3, <3>4, OneOperationMoves
  <2>2. CASE answer = "odd" /\ op' = [op EXCEPT ![o].at = "failed"]
    <3>1. PICK r : r = Moved(op[o], "failed")
      OBVIOUS
    <3>2. "failed" \in Quiescent \cup Holding \cup {"slot"}
      BY DEF Quiescent
    <3>3. /\ r \in Operation /\ r.at = "failed" /\ r.attempt = op[o].attempt
          /\ op' = [op EXCEPT ![o] = r]
      BY <2>2, <3>1, <3>2, MoveIsMoved, MovedIsOperation DEF SinkInv
    <3>4. SentRule(r, d, l) /\ TransferRule(r)
      BY <1>2, <1>3, <1>4, <2>2, <3>3 DEF SentRule, TransferRule
    <3> QED BY <1>5, <1>6, <3>3, <3>4, OneOperationMoves
  <2>3. CASE answer \in {"refused", "lost"} /\ Retry(o)
    <3>1. d = l /\ l <= op[o].attempt + 1
      BY <1>2, <1>3, <1>4, <2>3
    <3> QED BY <1>1, <1>5, <1>6, <2>3, <3>1, RetryMoves
  <2> QED BY <2>1, <2>2, <2>3 DEF Send
<1> QED BY <1>1, <1>7, QueuesStay, PartsMakeSinkInv DEF SinkInv

\* A cancelled operation is dropped wherever it is.
LEMMA DropKeeps ==
    ASSUME SinkInv, NEW o \in Op, Drop(o)
    PROVE  SinkInv'
<1>1. /\ op[o].at \notin Quiescent /\ lost' = lost
      /\ slotQueue' = Dequeued(slotQueue, o) /\ mainQueue' = Dequeued(mainQueue, o)
      /\ slow' = slow /\ flooded' = flooded
  BY DEF Drop
<1>2. /\ op[o].kind \in Kind /\ op[o].attempt \in 0 .. MaxAttempts - 1
      /\ dump[o] \in 0 .. MaxAttempts /\ lost[o] \in 0 .. MaxAttempts
      /\ SentRule(op[o], dump[o], lost[o])
  BY DEF SinkInv, Operation
<1>a. PICK d \in {dump[o], dump[o] + 1} : dump' = [dump EXCEPT ![o] = d]
  <2>1. dump = [dump EXCEPT ![o] = dump[o]]
    BY DEF SinkInv
  <2> QED BY <2>1 DEF Drop
<1>b. dump[o] = lost[o] /\ lost[o] <= op[o].attempt /\ d \in 0 .. MaxAttempts
  BY <1>1, <1>2, SinkAssumption DEF SentRule, Quiescent
<1>c. lost' = [lost EXCEPT ![o] = lost[o]]
  BY <1>1 DEF SinkInv
<1>3. PICK r : r = Ended(op[o].kind, "dropped", op[o].attempt)
  OBVIOUS
<1>4. op' = [op EXCEPT ![o] = r]
  BY <1>3 DEF Drop, Ended
<1>5. r \in Operation /\ r.at = "dropped" /\ r.attempt = op[o].attempt
  <2>1. "dropped" \in Quiescent \cup Holding \cup {"slot"}
    BY DEF Quiescent
  <2> QED BY <1>2, <1>3, <2>1, EndedIsOperation
<1>6. SentRule(r, d, lost[o]) /\ TransferRule(r)
  BY <1>2, <1>5, <1>b DEF SentRule, TransferRule
<1>7. OpsInv' /\ \A p \in Op : p # o => op'[p] = op[p]
  BY <1>2, <1>4, <1>5, <1>6, <1>a, <1>b, <1>c, OneOperationMoves
<1>8. Waiting(slotQueue', "slot", op') /\ Waiting(mainQueue', "main", op')
  BY <1>1, <1>7, WaiterLeaves DEF SinkInv
<1> QED BY <1>1, <1>7, <1>8, PartsMakeSinkInv DEF SinkInv

\* SinkInv holds in every reachable state of the uploads, for any operations, workers,
\* attempts and stall timeout.
THEOREM SinkInvariant == SinkSpec => []SinkInv
<1>1. SinkInv /\ [SinkNext]_sinkVars => SinkInv'
  <2> SUFFICES ASSUME SinkInv, [SinkNext]_sinkVars PROVE SinkInv'
    OBVIOUS
  <2>1. CASE UNCHANGED sinkVars
    BY <2>1 DEF sinkVars, SinkInv, OneTransferPerSession
  <2>2. CASE \E o \in Op, k \in Kind : Request(o, k)
    BY <2>2, RequestKeeps
  <2>3. ASSUME NEW o \in Op, Step(o) PROVE SinkInv'
    BY <2>3, TakeSlotKeeps, LeaseKeeps, NoLeaseKeeps, TakeMainKeeps, TimePassesKeeps,
       DeadlineKeeps, SendKeeps DEF Step
  <2>4. ASSUME NEW o \in Op,
               UploadDone(o) \/ UploadFails(o) \/ Ack(o) \/ Tick(o) \/ Drop(o)
        PROVE  SinkInv'
    BY <2>4, UploadDoneKeeps, FailUploadKeeps, AckKeeps, TickKeeps, DropKeeps
       DEF UploadFails
  <2>5. CASE \E s \in Session : SlowEnds(s)
    BY <2>5 DEF SlowEnds, SinkInv, OneTransferPerSession
  <2>6. CASE \E w \in Worker : Quarantine(w)
    BY <2>6 DEF Quarantine, SinkInv, OneTransferPerSession
  <2> QED BY <2>1, <2>2, <2>3, <2>4, <2>5, <2>6 DEF SinkNext
<1> QED BY <1>1, InitSinkInv, PTL DEF SinkSpec

\* No session carries two transfers, a message the engine does not know of is a lost
\* answer or the last send of an operation that failed or was dropped, and only a transfer that stalled is dropped as stalled
\* (publish_to_dump, lease_upload_worker, monitor_upload).
THEOREM SinkIsExactAlways == SinkSpec => []SinkIsExact
<1>1. SinkInv => SinkIsExact
  <2> SUFFICES ASSUME SinkInv PROVE SinkIsExact
    OBVIOUS
  <2>1. SinkTypeOK
    BY DEF SinkInv, SinkTypeOK, Waiting
  <2>2. StrayMessagesAreLostAnswers
    BY DEF SinkInv, SentRule, StrayMessagesAreLostAnswers
  <2>3. StallIsReal
    <3> SUFFICES ASSUME NEW o \in Op, op[o].at = "upload", op[o].left = 0, ~ op[o].unseen
                 PROVE  op[o].still = Stall
      BY DEF StallIsReal, Uploading, LastLook
    <3>1. op[o].unseen \in BOOLEAN /\ op[o].still \in 0 .. Stall
      BY DEF SinkInv, Operation
    <3>2. op[o].unseen = FALSE
      BY <3>1
    <3>3. op[o].still + op[o].left >= Stall
      BY <3>2 DEF SinkInv, TransferRule
    <3> QED BY <3>1, <3>3, SinkAssumption
  <2> QED BY <2>1, <2>2, <2>3 DEF SinkInv, SinkIsExact
<1> QED BY <1>1, SinkInvariant, PTL

-----------------------------------------------------------------------------
(* Dashboard. *)

\* The terminal event of a job; that a queue holds an event, or one of a job; and that
\* a terminal event is the last of its job, but for the jobs of T.
End(j) == [type |-> "terminal", job |-> j]
InQueue(s, e) == \E i \in 1 .. Len(s) : s[i] = e
SpeaksOf(s, j) == \E i \in 1 .. Len(s) : s[i].job = j
EndIsLast(s, T) ==
    \A i, k \in 1 .. Len(s) :
        i < k /\ s[i].job = s[k].job /\ s[k].job \notin T => s[i].type # "terminal"

\* The phases of a job whose terminal event was emitted.
PastEnd == {"over", "left", "tardy"}

\* The terminal event of the job is on its way; something still speaks of the job.
Ending(j) == End(j) \in late \/ InQueue(chan, End(j)) \/ InQueue(events, End(j))
Mentioned(j) == \/ j \in contexts \cup batch.created
                \/ SpeaksOf(chan, j) \/ SpeaksOf(events, j)

BridgeTypeOK ==
    /\ phase \in [Job -> Phase]
    /\ progressed \in 0 .. MaxProgress
    /\ chan \in Seq(JobEvent) /\ Len(chan) <= Buffer
    /\ late \subseteq JobEvent
    /\ batch \in [open: BOOLEAN, created: SUBSET Job]
    /\ events \in Seq(JobEvent)
    /\ contexts \subseteq Job

\* The bridge takes the events of a job in the order they were emitted, and the
\* terminal event of a job that is not tardy is its last.
OrderInv ==
    /\ EndIsLast(events, Tardy) /\ EndIsLast(chan, Tardy)
    /\ \A j \in Job \ Tardy : InQueue(events, End(j)) => ~ SpeaksOf(chan, j)

\* A sender that waits for room has the only terminal event of its job; a terminal
\* event is of a job that is over; and a job the bridge remembers or will remember is
\* not over, or its terminal event comes, or it is tardy.
EndInv ==
    /\ \A j \in Job : End(j) \in late => ~ InQueue(chan, End(j)) /\ ~ InQueue(events, End(j))
    /\ \A x \in late : x.type = "terminal"
    /\ \A j \in Job : Ending(j) => phase[j] \in PastEnd
    /\ \A j \in Job : Mentioned(j) => /\ phase[j] # "new"
                                      /\ phase[j] \in {"over", "left"} => Ending(j)
    /\ batch.open \/ batch.created = {}

BridgeInv == BridgeTypeOK /\ OrderInv /\ EndInv

ManagerTypeOK ==
    /\ actor \in [Actor -> ActorState]
    /\ DOMAIN entries \subseteq Chat /\ \A c \in DOMAIN entries : entries[c] \in Entry
    /\ sent \in 0 .. MaxMessages /\ requests \in 0 .. MaxRequests
    /\ DOMAIN shown \subseteq 1 .. sent /\ stray \subseteq 1 .. sent

\* A message is in one place: an entry, an actor that deletes it, or what could not
\* be deleted.
Deleting(a) == actor[a].at = "delete"

MessageInv ==
    /\ \A m \in DOMAIN shown : \/ \E c \in DOMAIN entries : entries[c].id = m
                               \/ m \in stray
                               \/ \E a \in Actor : Deleting(a) /\ actor[a].old = m
    /\ \A c \in DOMAIN entries : entries[c].id \in DOMAIN shown /\ entries[c].id \notin stray
    /\ \A c, d \in DOMAIN entries : entries[c].id = entries[d].id => c = d
    /\ stray \subseteq DOMAIN shown
    /\ \A a \in Actor : Deleting(a) =>
          /\ actor[a].old \in DOMAIN shown /\ actor[a].old \notin stray
          /\ \A c \in DOMAIN entries : entries[c].id # actor[a].old
          /\ \A b \in Actor : Deleting(b) /\ actor[b].old = actor[a].old => a = b

ManagerInv ==
    /\ ManagerTypeOK /\ MessageInv
    /\ \A a \in Actor : actor[a].at = "open" => actor[a].chat \in Chat

DashInv == BridgeInv /\ ManagerInv

-----------------------------------------------------------------------------
(* The queues of events. *)

\* The terminal event of a job is an event.
LEMMA EndFacts ==
    ASSUME NEW j \in Job
    PROVE  End(j) \in JobEvent /\ End(j).job = j /\ End(j).type = "terminal"
BY DEF End, JobEvent

\* An event is of a job, and a terminal one is that job's End.
LEMMA TerminalIsEnd ==
    ASSUME NEW e \in JobEvent
    PROVE  /\ e.job \in Job
           /\ e.type = "terminal" => e = End(e.job)
           /\ \A j \in Job : e = End(j) => e.job = j /\ e.type = "terminal"
BY DEF End, JobEvent

\* What a queue holds after an event was appended.
LEMMA QueueGrows ==
    ASSUME NEW s \in Seq(JobEvent), NEW e \in JobEvent, NEW T, EndIsLast(s, T),
           e.job \in T \/ ~ InQueue(s, End(e.job))
    PROVE  /\ Append(s, e) \in Seq(JobEvent) /\ Len(Append(s, e)) = Len(s) + 1
           /\ EndIsLast(Append(s, e), T)
           /\ \A x : InQueue(Append(s, e), x) <=> InQueue(s, x) \/ x = e
           /\ \A j : SpeaksOf(Append(s, e), j) <=> SpeaksOf(s, j) \/ j = e.job
<1> DEFINE t == Append(s, e)
<1>1. /\ t \in Seq(JobEvent) /\ Len(t) = Len(s) + 1 /\ Len(s) \in Nat
      /\ \A i \in 1 .. Len(s) : t[i] = s[i] /\ s[i] \in JobEvent
      /\ t[Len(s) + 1] = e
  OBVIOUS
<1>2. \A i \in 1 .. Len(t) : i \in 1 .. Len(s) \/ i = Len(s) + 1
  BY <1>1
<1>3. \A i \in 1 .. Len(s) : i \in 1 .. Len(t) /\ Len(s) + 1 \in 1 .. Len(t)
  BY <1>1
<1>4. Len(s) + 1 \in 1 .. Len(t)
  BY <1>1
<1> HIDE DEF t
<1>5. \A x : InQueue(t, x) <=> InQueue(s, x) \/ x = e
  BY <1>1, <1>2, <1>3, <1>4 DEF InQueue
<1>6. \A j : SpeaksOf(t, j) <=> SpeaksOf(s, j) \/ j = e.job
  BY <1>1, <1>2, <1>3, <1>4 DEF SpeaksOf
<1>7. \A i \in 1 .. Len(s) : s[i].job = e.job /\ e.job \notin T => s[i].type # "terminal"
  BY <1>1, TerminalIsEnd DEF InQueue
<1>8. EndIsLast(t, T)
  <2> SUFFICES ASSUME NEW i \in 1 .. Len(t), NEW k \in 1 .. Len(t), i < k,
                      t[i].job = t[k].job, t[k].job \notin T
               PROVE  t[i].type # "terminal"
    BY DEF EndIsLast
  <2>1. i \in 1 .. Len(s)
    BY <1>1, <1>2
  <2>2. CASE k \in 1 .. Len(s)
    BY <1>1, <2>1, <2>2 DEF EndIsLast
  <2>3. CASE k = Len(s) + 1
    BY <1>1, <1>7, <2>1, <2>3
  <2> QED BY <1>2, <2>2, <2>3
<1> QED BY <1>1, <1>5, <1>6, <1>8 DEF t

\* What a queue holds after its first event was taken.
LEMMA QueueShrinks ==
    ASSUME NEW s \in Seq(JobEvent), s # <<>>, NEW T, EndIsLast(s, T)
    PROVE  /\ Tail(s) \in Seq(JobEvent) /\ Len(Tail(s)) = Len(s) - 1
           /\ Head(s) \in JobEvent /\ EndIsLast(Tail(s), T)
           /\ \A x : InQueue(s, x) <=> x = Head(s) \/ InQueue(Tail(s), x)
           /\ \A j : SpeaksOf(s, j) <=> j = Head(s).job \/ SpeaksOf(Tail(s), j)
           /\ Head(s).type = "terminal" /\ Head(s).job \notin T => ~ SpeaksOf(Tail(s), Head(s).job)
<1> DEFINE t == Tail(s)
           e == Head(s)
<1>1. /\ t \in Seq(JobEvent) /\ Len(t) = Len(s) - 1 /\ Len(s) \in Nat /\ Len(s) > 0
      /\ \A i \in 1 .. Len(t) : t[i] = s[i + 1]
      /\ s[1] = e /\ e \in JobEvent
  OBVIOUS
<1>2. \A i \in 1 .. Len(t) : i + 1 \in 1 .. Len(s) /\ 1 < i + 1
  BY <1>1
<1>3. \A i \in 1 .. Len(s) : i = 1 \/ (i - 1 \in 1 .. Len(t) /\ t[i - 1] = s[i])
  BY <1>1
<1>4. 1 \in 1 .. Len(s)
  BY <1>1
<1> HIDE DEF t, e
<1>5. \A x : InQueue(s, x) <=> x = e \/ InQueue(t, x)
  BY <1>1, <1>2, <1>3, <1>4 DEF InQueue
<1>6. \A j : SpeaksOf(s, j) <=> j = e.job \/ SpeaksOf(t, j)
  BY <1>1, <1>2, <1>3, <1>4 DEF SpeaksOf
<1>7. e.type = "terminal" /\ e.job \notin T => ~ SpeaksOf(t, e.job)
  BY <1>1, <1>2, <1>4 DEF EndIsLast, SpeaksOf
<1>8. EndIsLast(t, T)
  <2> SUFFICES ASSUME NEW i \in 1 .. Len(t), NEW k \in 1 .. Len(t), i < k,
                      t[i].job = t[k].job, t[k].job \notin T
               PROVE  t[i].type # "terminal"
    BY DEF EndIsLast
  <2>1. i + 1 < k + 1 /\ i + 1 \in 1 .. Len(s) /\ k + 1 \in 1 .. Len(s)
    BY <1>2
  <2> QED BY <1>1, <2>1 DEF EndIsLast
<1> QED BY <1>1, <1>5, <1>6, <1>7, <1>8 DEF t, e

-----------------------------------------------------------------------------
(* The orchestrator and the bridge. *)

\* Nothing of the bridge changes.
LEMMA BridgeRests ==
    ASSUME BridgeInv, UNCHANGED bridgeVars
    PROVE  BridgeInv'
BY DEF bridgeVars, BridgeInv, BridgeTypeOK, OrderInv, EndInv, Ending, Mentioned, Tardy

\* A job emits an event; only a terminal one, which is its last, may wait for room.
LEMMA PublishKeeps ==
    ASSUME BridgeInv, NEW e \in JobEvent, Publish(e),
           UNCHANGED <<batch, events, contexts>>, progressed' \in 0 .. MaxProgress,
           phase' \in [Job -> Phase],
           \A j \in Job : j # e.job => phase'[j] = phase[j],
           \/ /\ phase[e.job] \notin PastEnd /\ phase'[e.job] # "new"
              /\ phase'[e.job] \in PastEnd <=> e.type = "terminal"
              /\ phase'[e.job] # "tardy"
           \/ phase[e.job] \in PastEnd /\ phase'[e.job] = "tardy" /\ e.type # "terminal"
    PROVE  BridgeInv'
<1>1. e.job \in Job /\ (e.type = "terminal" => e = End(e.job))
      /\ \A j \in Job : e = End(j) => e.job = j /\ e.type = "terminal"
  BY TerminalIsEnd
<1>2. ~ Ending(e.job) \/ (e.job \in Tardy' /\ e.type # "terminal")
  BY <1>1 DEF BridgeInv, EndInv, Tardy
<1>3. \/ ~ InQueue(chan, End(e.job)) /\ ~ InQueue(events, End(e.job)) /\ End(e.job) \notin late
      \/ e.job \in Tardy' /\ e.type # "terminal"
  BY <1>2 DEF Ending
<1>a. Tardy \subseteq Tardy' /\ EndIsLast(chan, Tardy') /\ EndIsLast(events, Tardy')
      /\ Tardy' \subseteq Tardy \cup {e.job}
  <2>1. Tardy \subseteq Tardy' /\ Tardy' \subseteq Tardy \cup {e.job}
    BY DEF Tardy, PastEnd
  <2>2. EndIsLast(chan, Tardy) /\ EndIsLast(events, Tardy)
    BY DEF BridgeInv, OrderInv
  <2> QED  BY <2>1, <2>2 DEF EndIsLast
<1>b. phase'[e.job] # "new" /\ (phase'[e.job] \in {"over", "left"} => e.type = "terminal")
      /\ (e.type = "terminal" => phase'[e.job] \in PastEnd)
  BY DEF PastEnd
<1>4. CASE Len(chan) < Buffer
  <2>1. chan' = Append(chan, e) /\ late' = late
    BY <1>4 DEF Publish
  <2>2. /\ chan' \in Seq(JobEvent) /\ Len(chan') = Len(chan) + 1 /\ EndIsLast(chan', Tardy')
        /\ \A x : InQueue(chan', x) <=> InQueue(chan, x) \/ x = e
        /\ \A j : SpeaksOf(chan', j) <=> SpeaksOf(chan, j) \/ j = e.job
    BY <1>3, <1>a, <2>1, QueueGrows DEF BridgeInv, BridgeTypeOK
  <2>3. BridgeTypeOK'
    <3>1. Len(chan) \in Nat
      BY DEF BridgeInv, BridgeTypeOK
    <3>2. Len(chan') <= Buffer
      BY <1>4, <2>2, <3>1, DashAssumption
    <3> QED BY <2>1, <2>2, <3>2 DEF BridgeInv, BridgeTypeOK
  <2>4. OrderInv'
    <3>1. \A j \in Job \ Tardy' : InQueue(events, End(j)) => ~ SpeaksOf(chan', j)
      BY <1>1, <1>3, <1>a, <2>2 DEF BridgeInv, OrderInv
    <3> QED  BY <1>a, <2>2, <3>1 DEF OrderInv
  <2>5. \A j \in Job : Ending(j)' <=> Ending(j) \/ End(j) = e
    BY <2>1, <2>2 DEF Ending
  <2>6. \A j \in Job : Mentioned(j)' <=> Mentioned(j) \/ j = e.job
    BY <2>2 DEF Mentioned
  <2>7. EndInv'
    <3>1. \A j \in Job : End(j) \in late' => ~ InQueue(chan', End(j)) /\ ~ InQueue(events', End(j))
      BY <1>1, <1>3, <2>1, <2>2 DEF BridgeInv, EndInv
    <3>2. \A j \in Job : Ending(j)' => phase'[j] \in PastEnd
      BY <1>1, <1>b, <2>5 DEF BridgeInv, EndInv, PastEnd
    <3>3. \A j \in Job : Mentioned(j)' => /\ phase'[j] # "new"
                                          /\ phase'[j] \in {"over", "left"} => Ending(j)'
      BY <1>1, <1>b, <2>5, <2>6 DEF BridgeInv, EndInv
    <3> QED  BY <2>1, <3>1, <3>2, <3>3 DEF BridgeInv, EndInv
  <2> QED BY <2>3, <2>4, <2>7 DEF BridgeInv
<1>5. CASE ~ (Len(chan) < Buffer)
  <2>1. chan' = chan /\ late' = IF e.type = "terminal" THEN late \cup {e} ELSE late
    BY <1>5 DEF Publish
  <2>2. BridgeTypeOK' /\ OrderInv'
    BY <1>a, <2>1 DEF BridgeInv, BridgeTypeOK, OrderInv
  <2>3. \A j \in Job : Ending(j)' <=> Ending(j) \/ End(j) = e
    <3>1. \A j \in Job : End(j) \in late' <=> End(j) \in late \/ End(j) = e
      BY <1>1, <2>1
    <3> QED BY <2>1, <3>1 DEF Ending
  <2>4. \A j \in Job : Mentioned(j)' <=> Mentioned(j)
    BY <2>1 DEF Mentioned
  <2>5. \A j \in Job : End(j) = e => j = e.job /\ e.type = "terminal"
    BY <1>1
  <2>6. \A j \in Job : End(j) \in late' => ~ InQueue(chan', End(j)) /\ ~ InQueue(events', End(j))
    BY <1>1, <1>3, <2>1, <2>5 DEF BridgeInv, EndInv
  <2>7. \A x \in late' : x.type = "terminal"
    BY <2>1 DEF BridgeInv, EndInv
  <2>8. \A j \in Job : Ending(j)' => phase'[j] \in PastEnd
    BY <1>1, <1>b, <2>3, <2>5 DEF BridgeInv, EndInv, PastEnd
  <2>9. \A j \in Job : Mentioned(j)' => /\ phase'[j] # "new"
                                        /\ phase'[j] \in {"over", "left"} => Ending(j)'
    BY <1>1, <1>b, <2>3, <2>4 DEF BridgeInv, EndInv
  <2>10. EndInv'
    BY <2>6, <2>7, <2>8, <2>9 DEF BridgeInv, EndInv
  <2> QED BY <2>2, <2>10 DEF BridgeInv
<1> QED BY <1>4, <1>5

\* A job is created.
LEMMA CreatedKeeps ==
    ASSUME BridgeInv, NEW j \in Job, Created(j)
    PROVE  BridgeInv'
<1>1. PICK e : e = [type |-> "created", job |-> j]
  OBVIOUS
<1>2. e \in JobEvent /\ e.job = j /\ e.type = "created"
  BY <1>1 DEF JobEvent
<1>3. Publish(e) /\ UNCHANGED <<progressed, batch, events, contexts>>
  BY <1>1 DEF Created
<1>4. /\ phase' \in [Job -> Phase]
      /\ phase[j] = "new" /\ phase'[j] = "active"
      /\ \A k \in Job : k # j => phase'[k] = phase[k]
  BY DEF Created, BridgeInv, BridgeTypeOK, Phase
<1>5. progressed' \in 0 .. MaxProgress
  BY <1>3 DEF BridgeInv, BridgeTypeOK
<1> QED BY <1>2, <1>3, <1>4, <1>5, PublishKeeps DEF PastEnd

\* A progress event, which may be dropped.
LEMMA ProgressKeeps ==
    ASSUME BridgeInv, NEW j \in Job, Progress(j)
    PROVE  BridgeInv'
<1>1. PICK e : e = [type |-> "progress", job |-> j]
  OBVIOUS
<1>2. e \in JobEvent /\ e.job = j /\ e.type = "progress"
  BY <1>1 DEF JobEvent
<1>3. Publish(e) /\ UNCHANGED <<batch, events, contexts>>
  BY <1>1 DEF Progress
<1>4. progressed' \in 0 .. MaxProgress
  BY DashAssumption DEF Progress, BridgeInv, BridgeTypeOK
<1>5. /\ phase' \in [Job -> Phase] /\ \A k \in Job : k # j => phase'[k] = phase[k]
      /\ phase[j] \in {"active", "leaving", "left", "tardy"}
      /\ phase'[j] = IF phase[j] = "left" THEN "tardy" ELSE phase[j]
  BY DEF Progress, BridgeInv, BridgeTypeOK, Phase
<1> QED BY <1>2, <1>3, <1>4, <1>5, PublishKeeps DEF PastEnd

\* The terminal event is emitted.
LEMMA EmitTerminalKeeps ==
    ASSUME BridgeInv, NEW j \in Job, EmitTerminal(j)
    PROVE  BridgeInv'
<1>1. PICK e : e = [type |-> "terminal", job |-> j]
  OBVIOUS
<1>2. e \in JobEvent /\ e.job = j /\ e.type = "terminal"
  BY <1>1 DEF JobEvent
<1>3. Publish(e) /\ UNCHANGED <<progressed, batch, events, contexts>>
  BY <1>1 DEF EmitTerminal
<1>4. /\ phase' \in [Job -> Phase]
      /\ phase[j] \in {"ending", "leaving"} /\ phase'[j] \in {"over", "left"}
      /\ \A k \in Job : k # j => phase'[k] = phase[k]
  BY DEF EmitTerminal, BridgeInv, BridgeTypeOK, Phase
<1>5. progressed' \in 0 .. MaxProgress
  BY <1>3 DEF BridgeInv, BridgeTypeOK
<1> QED BY <1>2, <1>3, <1>4, <1>5, PublishKeeps DEF PastEnd

\* A job is done; its terminal event follows.
LEMMA CompletesKeeps ==
    ASSUME BridgeInv, NEW j \in Job, Completes(j)
    PROVE  BridgeInv'
<1>1. UNCHANGED <<progressed, chan, late, batch, events, contexts>>
  BY DEF Completes
<1>2. /\ phase' \in [Job -> Phase]
      /\ phase[j] = "active" /\ phase'[j] \in {"ending", "leaving"}
      /\ \A k \in Job : k # j => phase'[k] = phase[k]
  BY DEF Completes, BridgeInv, BridgeTypeOK, Phase
<1>a. Tardy' = Tardy
  BY <1>2 DEF Tardy
<1>3. BridgeTypeOK' /\ OrderInv'
  BY <1>1, <1>2, <1>a DEF BridgeInv, BridgeTypeOK, OrderInv
<1>4. \A k \in Job : (Ending(k)' <=> Ending(k)) /\ (Mentioned(k)' <=> Mentioned(k))
  BY <1>1 DEF Ending, Mentioned
<1>5. EndInv'
  BY <1>1, <1>2, <1>4 DEF BridgeInv, EndInv, PastEnd
<1> QED BY <1>3, <1>5 DEF BridgeInv

\* A terminal event that waited for room is sent.
LEMMA SendLateKeeps ==
    ASSUME BridgeInv, NEW e \in late, SendLate(e)
    PROVE  BridgeInv'
<1>1. /\ UNCHANGED <<phase, progressed, batch, events, contexts>>
      /\ chan' = Append(chan, e) /\ late' = late \ {e} /\ Len(chan) < Buffer
  BY DEF SendLate
<1>2. e \in JobEvent /\ e.type = "terminal"
  BY DEF BridgeInv, BridgeTypeOK, EndInv
<1>3. /\ e.job \in Job /\ e = End(e.job)
      /\ \A j \in Job : e = End(j) => e.job = j
  BY <1>2, TerminalIsEnd
<1>4. ~ InQueue(chan, End(e.job)) /\ ~ InQueue(events, End(e.job)) /\ phase[e.job] \in PastEnd
  BY <1>3 DEF BridgeInv, EndInv, Ending
<1>5. /\ chan' \in Seq(JobEvent) /\ Len(chan') = Len(chan) + 1 /\ EndIsLast(chan', Tardy)
      /\ \A x : InQueue(chan', x) <=> InQueue(chan, x) \/ x = e
      /\ \A j : SpeaksOf(chan', j) <=> SpeaksOf(chan, j) \/ j = e.job
  BY <1>1, <1>2, <1>4, QueueGrows DEF BridgeInv, BridgeTypeOK, OrderInv
<1>6. BridgeTypeOK'
  <2>1. Len(chan) \in Nat
    BY DEF BridgeInv, BridgeTypeOK
  <2>2. Len(chan') <= Buffer
    BY <1>1, <1>5, <2>1, DashAssumption
  <2> QED BY <1>1, <1>5, <2>2 DEF BridgeInv, BridgeTypeOK
<1>7. OrderInv'
  BY <1>1, <1>3, <1>4, <1>5 DEF BridgeInv, OrderInv, Tardy
<1>8. \A j \in Job : Ending(j)' <=> Ending(j)
  BY <1>1, <1>3, <1>5 DEF Ending
<1>9. \A j \in Job : Mentioned(j)' <=> Mentioned(j) \/ j = e.job
  BY <1>1, <1>5 DEF Mentioned
<1>10. Ending(e.job)
  BY <1>3 DEF Ending
<1>11. EndInv'
  <2>1. phase[e.job] # "new"
    BY <1>4 DEF PastEnd
  <2>2. \A j \in Job : Mentioned(j)' => /\ phase'[j] # "new"
                                        /\ phase'[j] \in {"over", "left"} => Ending(j)'
    BY <1>1, <1>8, <1>9, <1>10, <2>1 DEF BridgeInv, EndInv
  <2>3. \A j \in Job : End(j) \in late' => ~ InQueue(chan', End(j)) /\ ~ InQueue(events', End(j))
    BY <1>1, <1>5 DEF BridgeInv, EndInv
  <2>4. \A j \in Job : Ending(j)' => phase'[j] \in PastEnd
    BY <1>1, <1>8 DEF BridgeInv, EndInv
  <2> QED BY <1>1, <2>2, <2>3, <2>4 DEF BridgeInv, EndInv
<1> QED BY <1>6, <1>7, <1>11 DEF BridgeInv

\* The bridge receives an event, into the batch or the list.
LEMMA ReceiveKeeps ==
    ASSUME BridgeInv, Receive
    PROVE  BridgeInv'
<1>1. PICK e : e = Head(chan)
  OBVIOUS
<1>2. UNCHANGED <<phase, progressed, late, contexts>> /\ chan' = Tail(chan) /\ chan # <<>>
  BY DEF Receive
<1>3. /\ chan' \in Seq(JobEvent) /\ Len(chan') = Len(chan) - 1 /\ Len(chan) \in Nat
      /\ e \in JobEvent /\ EndIsLast(chan', Tardy)
      /\ \A x : InQueue(chan, x) <=> x = e \/ InQueue(chan', x)
      /\ \A j : SpeaksOf(chan, j) <=> j = e.job \/ SpeaksOf(chan', j)
      /\ e.type = "terminal" /\ e.job \notin Tardy => ~ SpeaksOf(chan', e.job)
      /\ Tardy' = Tardy
  BY <1>1, <1>2, QueueShrinks DEF BridgeInv, BridgeTypeOK, OrderInv, Tardy
<1>4. /\ e.job \in Job /\ (e.type = "terminal" => e = End(e.job))
      /\ \A j \in Job : e = End(j) => e.job = j /\ e.type = "terminal"
  BY <1>3, TerminalIsEnd
<1>5. Len(chan') <= Buffer
  BY <1>3, DashAssumption DEF BridgeInv, BridgeTypeOK
<1>6. CASE e.type = "created"
  <2>1. batch' = [open |-> TRUE, created |-> batch.created \cup {e.job}] /\ events' = events
    BY <1>1, <1>6 DEF Receive
  <2>2. batch'.open = TRUE /\ batch'.created = batch.created \cup {e.job}
        /\ batch' \in [open: BOOLEAN, created: SUBSET Job]
    BY <1>4, <2>1 DEF BridgeInv, BridgeTypeOK
  <2>3. BridgeTypeOK'
    BY <1>2, <1>3, <1>5, <2>1, <2>2 DEF BridgeInv, BridgeTypeOK
  <2>4. OrderInv'
    BY <1>3, <2>1 DEF BridgeInv, OrderInv
  <2>5. \A j \in Job : Ending(j)' <=> Ending(j)
    BY <1>2, <1>3, <1>4, <1>6, <2>1 DEF Ending
  <2>6. \A j \in Job : Mentioned(j)' => Mentioned(j)
    BY <1>2, <1>3, <2>1, <2>2 DEF Mentioned
  <2>7. EndInv'
    BY <1>2, <1>3, <2>1, <2>2, <2>5, <2>6 DEF BridgeInv, EndInv
  <2> QED BY <2>3, <2>4, <2>7 DEF BridgeInv
<1>7. CASE e.type # "created"
  <2>1. events' = Append(events, e) /\ batch' = batch
    BY <1>1, <1>7 DEF Receive
  <2>2. e.job \in Tardy \/ ~ InQueue(events, End(e.job))
    BY <1>3, <1>4 DEF BridgeInv, OrderInv
  <2>3. /\ events' \in Seq(JobEvent) /\ EndIsLast(events', Tardy)
        /\ \A x : InQueue(events', x) <=> InQueue(events, x) \/ x = e
        /\ \A j : SpeaksOf(events', j) <=> SpeaksOf(events, j) \/ j = e.job
    BY <1>3, <2>1, <2>2, QueueGrows DEF BridgeInv, BridgeTypeOK, OrderInv
  <2>4. BridgeTypeOK'
    BY <1>2, <1>3, <1>5, <2>1, <2>3 DEF BridgeInv, BridgeTypeOK
  <2>5. OrderInv'
    BY <1>3, <1>4, <2>3 DEF BridgeInv, OrderInv
  <2>6. \A j \in Job : (Ending(j)' <=> Ending(j)) /\ (Mentioned(j)' <=> Mentioned(j))
    BY <1>2, <1>3, <2>1, <2>3 DEF Ending, Mentioned
  <2>7. \A j \in Job : End(j) \in late => ~ InQueue(chan', End(j)) /\ ~ InQueue(events', End(j))
    BY <1>3, <2>3 DEF BridgeInv, EndInv
  <2>8. EndInv'
    BY <1>2, <2>1, <2>6, <2>7 DEF BridgeInv, EndInv
  <2> QED BY <2>4, <2>5, <2>8 DEF BridgeInv
<1> QED BY <1>6, <1>7

\* The batch of created jobs ends.
LEMMA BatchEndsKeeps ==
    ASSUME BridgeInv, BatchEnds
    PROVE  BridgeInv'
<1>1. /\ UNCHANGED <<phase, progressed, chan, late, events>>
      /\ batch' = [open |-> FALSE, created |-> {}]
      /\ contexts' = contexts \cup batch.created \cup {events[i].job : i \in DOMAIN events}
  BY DEF BatchEnds
<1>2. events \in Seq(JobEvent) /\ DOMAIN events = 1 .. Len(events)
      /\ \A i \in 1 .. Len(events) : events[i].job \in Job
  <2>1. events \in Seq(JobEvent)
    BY DEF BridgeInv, BridgeTypeOK
  <2>2. \A i \in 1 .. Len(events) : events[i] \in JobEvent
    BY <2>1
  <2> QED BY <2>1, <2>2, TerminalIsEnd
<1>3. /\ batch' \in [open: BOOLEAN, created: SUBSET Job] /\ batch'.created = {}
      /\ contexts' \subseteq Job
  BY <1>1, <1>2 DEF BridgeInv, BridgeTypeOK
<1>4. BridgeTypeOK' /\ OrderInv'
  BY <1>1, <1>3 DEF BridgeInv, BridgeTypeOK, OrderInv, Tardy
<1>5. \A j \in Job : (Ending(j)' <=> Ending(j)) /\ (Mentioned(j)' => Mentioned(j))
  BY <1>1, <1>2, <1>3 DEF Ending, Mentioned, SpeaksOf
<1>6. EndInv'
  BY <1>1, <1>3, <1>5 DEF BridgeInv, EndInv
<1> QED BY <1>4, <1>6 DEF BridgeInv

\* The bridge handles an event.
LEMMA HandleEventKeeps ==
    ASSUME BridgeInv, HandleEvent
    PROVE  BridgeInv'
<1>1. PICK e : e = Head(events)
  OBVIOUS
<1>2. /\ UNCHANGED <<phase, progressed, chan, late, batch>>
      /\ events' = Tail(events) /\ events # <<>> /\ ~ batch.open
      /\ contexts' = IF e.type = "terminal" THEN contexts \ {e.job} ELSE contexts \cup {e.job}
  BY <1>1 DEF HandleEvent
<1>3. /\ events' \in Seq(JobEvent) /\ e \in JobEvent /\ EndIsLast(events', Tardy)
      /\ \A x : InQueue(events, x) <=> x = e \/ InQueue(events', x)
      /\ \A j : SpeaksOf(events, j) <=> j = e.job \/ SpeaksOf(events', j)
      /\ e.type = "terminal" /\ e.job \notin Tardy => ~ SpeaksOf(events', e.job)
      /\ Tardy' = Tardy
  BY <1>1, <1>2, QueueShrinks DEF BridgeInv, BridgeTypeOK, OrderInv, Tardy
<1>4. /\ e.job \in Job /\ (e.type = "terminal" => e = End(e.job))
      /\ \A j \in Job : e = End(j) => e.job = j /\ e.type = "terminal"
  BY <1>3, TerminalIsEnd
<1>5. batch.created = {}
  BY <1>2 DEF BridgeInv, EndInv
<1>6. BridgeTypeOK'
  BY <1>2, <1>3, <1>4 DEF BridgeInv, BridgeTypeOK
<1>7. OrderInv'
  BY <1>2, <1>3 DEF BridgeInv, OrderInv
<1>8. \A j \in Job : Ending(j)' => Ending(j)
  BY <1>2, <1>3 DEF Ending
<1>9. \A j \in Job : Mentioned(j)' => Mentioned(j)
  BY <1>2, <1>3 DEF Mentioned
<1>10. ASSUME NEW j \in Job \ Tardy, Mentioned(j)', Ending(j) PROVE Ending(j)'
  <2>1. CASE End(j) = e
    <3>1. e.job = j /\ e.type = "terminal"
      BY <1>4, <2>1
    <3>2. ~ SpeaksOf(events', j) /\ j \notin contexts'
      BY <1>2, <1>3, <3>1
    <3>3. ~ SpeaksOf(chan', j)
      BY <1>2, <1>3, <2>1 DEF BridgeInv, OrderInv
    <3> QED BY <1>2, <1>5, <1>10, <3>2, <3>3 DEF Mentioned
  <2>2. CASE End(j) # e
    BY <1>2, <1>3, <1>10, <2>2 DEF Ending
  <2> QED BY <2>1, <2>2
<1>11. EndInv'
  <2>1. \A j \in Job : phase[j] \in {"over", "left"} => j \notin Tardy
    BY DEF Tardy
  <2> QED  BY <1>2, <1>3, <1>8, <1>9, <1>10, <2>1 DEF BridgeInv, EndInv
<1> QED BY <1>6, <1>7, <1>11 DEF BridgeInv

-----------------------------------------------------------------------------
(* The dashboard manager. *)

managerVars == <<actor, entries, shown, sent, stray, requests>>

\* Nothing of the dashboards changes.
LEMMA ManagerRests ==
    ASSUME ManagerInv, UNCHANGED managerVars
    PROVE  ManagerInv'
BY DEF managerVars, ManagerInv, ManagerTypeOK, MessageInv, Deleting

\* The entries keep their messages.
SameMessages ==
    /\ DOMAIN entries' = DOMAIN entries
    /\ \A c \in DOMAIN entries : entries'[c] \in Entry /\ entries'[c].id = entries[c].id
    /\ DOMAIN shown' = DOMAIN shown /\ sent' = sent /\ stray' = stray

\* An actor that deletes nothing goes on to something that is not a deletion.
LEMMA ActorMoves ==
    ASSUME ManagerInv, NEW a \in Actor, NEW r \in ActorState,
           actor' = [actor EXCEPT ![a] = r], ~ Deleting(a), r.at # "delete",
           r.at = "open" => r.chat \in Chat, SameMessages, requests' \in 0 .. MaxRequests
    PROVE  ManagerInv'
<1>1. /\ actor' \in [Actor -> ActorState] /\ actor'[a] = r
      /\ \A b \in Actor : b # a => actor'[b] = actor[b]
  BY DEF ManagerInv, ManagerTypeOK
<1>2. \A b \in Actor : /\ (actor'[b].at = "delete") <=> (actor[b].at = "delete")
                       /\ actor[b].at = "delete" => actor'[b].old = actor[b].old
  <2> TAKE b \in Actor
  <2>1. CASE b = a
    BY <1>1, <2>1 DEF Deleting
  <2>2. CASE b # a
    BY <1>1, <2>2
  <2> QED BY <2>1, <2>2
<1>3. ManagerTypeOK'
  BY <1>1 DEF ManagerInv, ManagerTypeOK, SameMessages
<1>4. MessageInv'
  <2>1. /\ DOMAIN entries' = DOMAIN entries /\ DOMAIN shown' = DOMAIN shown
        /\ stray' = stray /\ \A c \in DOMAIN entries : entries'[c].id = entries[c].id
    BY DEF SameMessages
  <2>2. MessageInv
    BY DEF ManagerInv
  <2> QED BY <1>2, <2>1, <2>2 DEF MessageInv, Deleting
<1>5. \A b \in Actor : actor'[b].at = "open" => actor'[b].chat \in Chat
  BY <1>1 DEF ManagerInv
<1> QED BY <1>3, <1>4, <1>5 DEF ManagerInv

\* An idle actor holds no message.
LEMMA IdleIsState ==
    /\ Idle \in ActorState /\ Idle.at = "idle" /\ Idle.old = 0
BY DashAssumption DEF Idle, ActorState

\* Continue leaves an actor with more to do, or idle.
LEMMA ContinueMoves ==
    ASSUME NEW a \in Actor, NEW rest \in ActorState, Continue(a, rest)
    PROVE  \E r \in ActorState : /\ actor' = [actor EXCEPT ![a] = r]
                                 /\ r.at \in {"edits", "chats", "idle"}
<1>1. CASE rest.edits # {}
  <2>1. PICK r : r = [rest EXCEPT !.at = "edits"]
    OBVIOUS
  <2>2. r \in ActorState /\ r.at = "edits"
    BY <2>1 DEF ActorState
  <2>3. actor' = [actor EXCEPT ![a] = r]
    BY <1>1, <2>1 DEF Continue, Become
  <2> QED BY <2>2, <2>3
<1>2. CASE rest.edits = {} /\ rest.chats # {}
  <2>1. PICK r : r = [rest EXCEPT !.at = "chats"]
    OBVIOUS
  <2>2. r \in ActorState /\ r.at = "chats"
    BY <2>1 DEF ActorState
  <2>3. actor' = [actor EXCEPT ![a] = r]
    BY <1>2, <2>1 DEF Continue, Become
  <2> QED BY <2>2, <2>3
<1>3. CASE rest.edits = {} /\ rest.chats = {}
  BY <1>3, IdleIsState DEF Continue, Become
<1> QED BY <1>1, <1>2, <1>3

\* An actor goes on, and no message moves.
LEMMA ContinueKeeps ==
    ASSUME ManagerInv, NEW a \in Actor, NEW rest \in ActorState, Continue(a, rest),
           ~ Deleting(a), SameMessages, requests' \in 0 .. MaxRequests
    PROVE  ManagerInv'
<1>1. PICK r \in ActorState : /\ actor' = [actor EXCEPT ![a] = r]
                              /\ r.at \in {"edits", "chats", "idle"}
  BY ContinueMoves
<1> QED BY <1>1, ActorMoves

\* Entries that are not touched keep their messages.
LEMMA EntriesKept ==
    ASSUME ManagerInv, UNCHANGED <<entries, shown, sent, stray>>
    PROVE  SameMessages
BY DEF ManagerInv, ManagerTypeOK, SameMessages

\* An entry is rendered again and its edit is to be sent.
LEMMA RefreshEntryKeeps ==
    ASSUME ManagerInv, NEW a \in Actor, NEW c \in DOMAIN entries, NEW rest \in ActorState,
           RefreshEntryFrom(a, c, rest), ~ Deleting(a), UNCHANGED <<shown, sent, stray>>,
           requests' \in 0 .. MaxRequests
    PROVE  ManagerInv'
<1>1. entries[c] \in Entry /\ c \in Chat
  BY DEF ManagerInv, ManagerTypeOK
<1>2. PICK due : due = (entries[c].due /\ entries[c].flood)
  OBVIOUS
<1>3. due \in BOOLEAN
  BY <1>2
<1>4. PICK x : x = [entries[c] EXCEPT !.snap = rest.snap, !.due = due]
  OBVIOUS
<1>5. rest.snap \subseteq Job
  BY DEF ActorState
<1>6. x \in Entry /\ x.id = entries[c].id
  BY <1>1, <1>3, <1>4, <1>5 DEF Entry
<1>7. entries' = [entries EXCEPT ![c] = x]
  BY <1>2, <1>4 DEF RefreshEntryFrom
<1>8. SameMessages
  BY <1>6, <1>7 DEF ManagerInv, ManagerTypeOK, SameMessages
<1>9. PICK es : es = IF entries[c].flood THEN {}
                     ELSE {[chat |-> c, id |-> entries[c].id, text |-> rest.snap]}
  OBVIOUS
<1>10. es \subseteq Edit
  <2>1. entries[c].id \in 1 .. MaxMessages
    BY <1>1 DEF Entry
  <2>2. [chat |-> c, id |-> entries[c].id, text |-> rest.snap] \in Edit
    BY <1>1, <1>5, <2>1 DEF Edit
  <2> QED BY <1>9, <2>2
<1>11. PICK todo : todo = [rest EXCEPT !.edits = es]
  OBVIOUS
<1>12. todo \in ActorState
  BY <1>10, <1>11 DEF ActorState
<1>13. Continue(a, todo)
  BY <1>9, <1>11 DEF RefreshEntryFrom
<1> QED BY <1>8, <1>12, <1>13, ContinueKeeps

\* The bridge turns to the next chat.
LEMMA NextChatKeeps ==
    ASSUME ManagerInv, NEW a \in Actor, NEW c \in Chat, NextChat(a, c)
    PROVE  ManagerInv'
<1>1. /\ actor[a].at = "chats" /\ actor[a] \in ActorState
      /\ UNCHANGED <<shown, sent, stray, requests>>
  BY DEF NextChat, ManagerInv, ManagerTypeOK
<1>2. PICK rest : rest = [actor[a] EXCEPT !.chats = actor[a].chats \ {c}]
  OBVIOUS
<1>3. rest \in ActorState
  BY <1>1, <1>2 DEF ActorState
<1>4. ~ Deleting(a) /\ requests' \in 0 .. MaxRequests
  BY <1>1 DEF Deleting, ManagerInv, ManagerTypeOK
<1>5. CASE c \in DOMAIN entries /\ RefreshEntryFrom(a, c, rest)
  BY <1>1, <1>3, <1>4, <1>5, RefreshEntryKeeps
<1>6. CASE /\ c \notin DOMAIN entries
           /\ Become(a, [rest EXCEPT !.at = "open", !.chat = c])
           /\ UNCHANGED entries
  <2>1. PICK r : r = [rest EXCEPT !.at = "open", !.chat = c]
    OBVIOUS
  <2>2. r \in ActorState /\ r.at = "open" /\ r.chat = c
    BY <1>3, <2>1 DEF ActorState
  <2>3. actor' = [actor EXCEPT ![a] = r]
    BY <1>6, <2>1 DEF Become
  <2> QED BY <1>1, <1>4, <1>6, <2>2, <2>3, ActorMoves, EntriesKept
<1> QED BY <1>2, <1>5, <1>6 DEF NextChat

\* The new message is its chat's entry; the one it replaces is in the actor's hands.
LEMMA OpenMessageKeeps ==
    ASSUME ManagerInv, NEW a \in Actor, OpenMessage(a)
    PROVE  ManagerInv'
<1>1. /\ actor[a].at = "open" /\ actor[a] \in ActorState /\ sent < MaxMessages
      /\ sent' = sent + 1 /\ stray' = stray /\ requests' = requests
  BY DEF OpenMessage, ManagerInv, ManagerTypeOK
<1>2. PICK c : c = actor[a].chat
  OBVIOUS
<1>3. PICK snap : snap = actor[a].snap
  OBVIOUS
<1>4. c \in Chat /\ snap \subseteq Job
  BY <1>1, <1>2, <1>3 DEF ManagerInv, ActorState
<1>5. sent \in Nat /\ sent + 1 \in 1 .. MaxMessages /\ sent' \in 0 .. MaxMessages
  BY <1>1, DashAssumption DEF ManagerInv, ManagerTypeOK
<1>6. PICK x : x = [id |-> sent + 1, snap |-> snap, empty |-> snap = {},
                    due |-> snap = {}, flood |-> FALSE]
  OBVIOUS
<1>7. x \in Entry /\ x.id = sent + 1
  BY <1>4, <1>5, <1>6 DEF Entry
<1>8. shown' = With(shown, sent + 1, snap) /\ entries' = With(entries, c, x)
  BY <1>2, <1>3, <1>6 DEF OpenMessage
<1>9. /\ DOMAIN shown' = DOMAIN shown \cup {sent + 1}
      /\ DOMAIN entries' = DOMAIN entries \cup {c} /\ entries'[c] = x
      /\ \A d \in DOMAIN entries : d # c => entries'[d] = entries[d]
  BY <1>8 DEF With
<1>10. PICK old : old = IF c \in DOMAIN entries THEN entries[c].id ELSE 0
  OBVIOUS
<1>11. /\ \A m \in DOMAIN shown : m \in 1 .. sent
       /\ sent + 1 \notin DOMAIN shown /\ sent + 1 \notin stray
  BY <1>5 DEF ManagerInv, ManagerTypeOK
<1>12. PICK r \in ActorState :
          /\ actor' = [actor EXCEPT ![a] = r]
          /\ r.at \in {"edits", "chats", "idle", "delete"}
          /\ r.at = "delete" <=> old # 0
          /\ r.at = "delete" => r.old = old
  <2>1. CASE old = 0
    <3>1. PICK rest : rest = [actor[a] EXCEPT !.chat = NoChat]
      OBVIOUS
    <3>2. rest \in ActorState
      BY <1>1, <3>1 DEF ActorState
    <3>3. Opened(a, old)
      BY <1>2, <1>10 DEF OpenMessage
    <3>4. Continue(a, rest)
      BY <2>1, <3>1, <3>3 DEF Opened
    <3> QED BY <2>1, <3>2, <3>4, ContinueMoves
  <2>2. CASE old # 0
    <3>1. PICK r : r = [actor[a] EXCEPT !.at = "delete", !.old = old]
      OBVIOUS
    <3>2. old \in 0 .. MaxMessages
      <4>1. c \in DOMAIN entries => entries[c].id \in 1 .. MaxMessages
        BY DEF ManagerInv, ManagerTypeOK, Entry
      <4> QED BY <1>10, <2>2, <4>1, DashAssumption
    <3>3. r \in ActorState /\ r.at = "delete" /\ r.old = old
      BY <1>1, <3>1, <3>2 DEF ActorState
    <3>4. Opened(a, old)
      BY <1>2, <1>10 DEF OpenMessage
    <3>5. actor' = [actor EXCEPT ![a] = r]
      BY <2>2, <3>1, <3>4 DEF Opened, Become
    <3> QED BY <2>2, <3>3, <3>5
  <2> QED BY <2>1, <2>2
<1>13. /\ actor' \in [Actor -> ActorState] /\ actor'[a] = r
       /\ \A b \in Actor : b # a => actor'[b] = actor[b]
  BY <1>12 DEF ManagerInv, ManagerTypeOK
<1>14. /\ DOMAIN shown' \subseteq 1 .. sent' /\ stray' \subseteq 1 .. sent'
  BY <1>1, <1>5, <1>9 DEF ManagerInv, ManagerTypeOK
<1>15. ManagerTypeOK'
  BY <1>1, <1>4, <1>5, <1>7, <1>9, <1>13, <1>14 DEF ManagerInv, ManagerTypeOK
<1>16. MessageInv'
  <2>1. MessageInv
    BY DEF ManagerInv
  <2>2. c \in DOMAIN entries => /\ old = entries[c].id /\ old \in DOMAIN shown
                                /\ old # 0 /\ old # sent + 1 /\ old \notin stray
    BY <1>5, <1>10, <1>11, <2>1 DEF MessageInv
  <2>3. c \notin DOMAIN entries => old = 0
    BY <1>10
  <2>4. ASSUME NEW m \in DOMAIN shown'
        PROVE  \/ \E d \in DOMAIN entries' : entries'[d].id = m
               \/ m \in stray'
               \/ \E b \in Actor : actor'[b].at = "delete" /\ actor'[b].old = m
    <3>1. CASE m = sent + 1
      BY <1>7, <1>9, <3>1
    <3>2. CASE m \in DOMAIN shown
      <4>1. CASE \E d \in DOMAIN entries : entries[d].id = m
        <5>1. PICK d \in DOMAIN entries : entries[d].id = m
          BY <4>1
        <5>2. CASE d = c
          BY <1>12, <1>13, <2>2, <5>1, <5>2
        <5>3. CASE d # c
          BY <1>9, <5>1, <5>3
        <5> QED BY <5>2, <5>3
      <4>2. CASE m \in stray
        BY <1>1, <4>2
      <4>3. CASE \E b \in Actor : actor[b].at = "delete" /\ actor[b].old = m
        BY <1>1, <1>13, <4>3
      <4> QED BY <2>1, <3>2, <4>1, <4>2, <4>3 DEF MessageInv, Deleting
    <3> QED BY <1>9, <3>1, <3>2
  <2>5. \A d \in DOMAIN entries' : entries'[d].id \in DOMAIN shown' /\ entries'[d].id \notin stray'
    BY <1>1, <1>7, <1>9, <1>11, <2>1 DEF MessageInv
  <2>6. \A d, f \in DOMAIN entries' : entries'[d].id = entries'[f].id => d = f
    BY <1>7, <1>9, <1>11, <2>1 DEF MessageInv
  <2>7. stray' \subseteq DOMAIN shown'
    BY <1>1, <1>9, <2>1 DEF MessageInv
  <2>8. ASSUME NEW b \in Actor, actor'[b].at = "delete"
        PROVE  /\ actor'[b].old \in DOMAIN shown' /\ actor'[b].old \notin stray'
               /\ \A d \in DOMAIN entries' : entries'[d].id # actor'[b].old
               /\ \A f \in Actor : actor'[f].at = "delete" /\ actor'[f].old = actor'[b].old
                                   => b = f
    <3>1. CASE b = a
      <4>1. actor'[b].old = old /\ c \in DOMAIN entries
        BY <1>12, <1>13, <2>3, <2>8, <3>1
      <4>2. \A d \in DOMAIN entries' : entries'[d].id # old
        BY <1>7, <1>9, <2>1, <2>2, <4>1 DEF MessageInv
      <4>3. \A f \in Actor : f # a /\ actor'[f].at = "delete" => actor'[f].old # old
        BY <1>13, <2>1, <2>2, <4>1 DEF MessageInv, Deleting
      <4> QED BY <1>1, <1>9, <2>2, <3>1, <4>1, <4>2, <4>3
    <3>2. CASE b # a
      <4>1. actor'[b] = actor[b] /\ actor[b].at = "delete"
        BY <1>13, <2>8, <3>2
      <4>2. /\ actor[b].old \in DOMAIN shown /\ actor[b].old \notin stray
            /\ \A d \in DOMAIN entries : entries[d].id # actor[b].old
            /\ \A f \in Actor : actor[f].at = "delete" /\ actor[f].old = actor[b].old => b = f
        BY <2>1, <4>1 DEF MessageInv, Deleting
      <4>3. \A d \in DOMAIN entries' : entries'[d].id # actor[b].old
        BY <1>7, <1>9, <1>11, <4>2
      <4>4. ~ (actor'[a].at = "delete" /\ actor'[a].old = actor[b].old)
        BY <1>12, <1>13, <2>2, <2>3, <4>2
      <4> QED BY <1>1, <1>9, <1>13, <4>1, <4>2, <4>3, <4>4
    <3> QED BY <3>1, <3>2
  <2> QED BY <2>4, <2>5, <2>6, <2>7, <2>8 DEF MessageInv, Deleting
<1>17. \A b \in Actor : actor'[b].at = "open" => actor'[b].chat \in Chat
  BY <1>12, <1>13 DEF ManagerInv
<1> QED BY <1>15, <1>16, <1>17 DEF ManagerInv

\* The message could not be sent.
LEMMA OpenFailsKeeps ==
    ASSUME ManagerInv, NEW a \in Actor, OpenFails(a)
    PROVE  ManagerInv'
<1>1. /\ actor[a].at = "open" /\ actor[a] \in ActorState
      /\ UNCHANGED <<entries, shown, sent, stray, requests>>
  BY DEF OpenFails, ManagerInv, ManagerTypeOK
<1>2. PICK rest : rest = [actor[a] EXCEPT !.chat = NoChat]
  OBVIOUS
<1>3. rest \in ActorState
  BY <1>1, <1>2 DEF ActorState
<1>4. Continue(a, rest)
  BY <1>2 DEF OpenFails
<1>5. ~ Deleting(a) /\ requests' \in 0 .. MaxRequests
  BY <1>1 DEF Deleting, ManagerInv, ManagerTypeOK
<1> QED BY <1>1, <1>3, <1>4, <1>5, ContinueKeeps, EntriesKept

\* The old message is deleted, or could not be.
LEMMA DeleteOldKeeps ==
    ASSUME ManagerInv, NEW a \in Actor, NEW ok \in BOOLEAN, DeleteOld(a, ok)
    PROVE  ManagerInv'
<1>1. /\ actor[a].at = "delete" /\ actor[a] \in ActorState
      /\ UNCHANGED <<entries, sent, requests>>
  BY DEF DeleteOld, ManagerInv, ManagerTypeOK
<1>2. PICK rest : rest = [actor[a] EXCEPT !.chat = NoChat, !.old = 0]
  OBVIOUS
<1>3. rest \in ActorState
  <2>1. 0 \in 0 .. MaxMessages
    BY DashAssumption
  <2> QED BY <1>1, <1>2, <2>1 DEF ActorState
<1>4. Continue(a, rest)
  BY <1>2 DEF DeleteOld
<1>5. PICK r \in ActorState : /\ actor' = [actor EXCEPT ![a] = r]
                              /\ r.at \in {"edits", "chats", "idle"}
  BY <1>3, <1>4, ContinueMoves
<1>6. /\ actor' \in [Actor -> ActorState] /\ actor'[a] = r
      /\ \A b \in Actor : b # a => actor'[b] = actor[b]
  BY <1>5 DEF ManagerInv, ManagerTypeOK
<1>7. PICK old : old = actor[a].old
  OBVIOUS
<1>8. MessageInv
  BY DEF ManagerInv
<1>9. /\ old \in DOMAIN shown /\ old \notin stray
      /\ \A c \in DOMAIN entries : entries[c].id # old
      /\ \A b \in Actor : actor[b].at = "delete" /\ actor[b].old = old => a = b
  BY <1>1, <1>7, <1>8 DEF MessageInv, Deleting
<1>10. \A b \in Actor : actor'[b].at = "delete" =>
          /\ b # a /\ actor[b].at = "delete" /\ actor'[b].old = actor[b].old
          /\ actor[b].old # old
  BY <1>5, <1>6, <1>9
<1>11. \A b \in Actor : b # a /\ actor[b].at = "delete" => actor'[b] = actor[b]
  BY <1>6
<1>12. CASE ok
  <2>1. DOMAIN shown' = DOMAIN shown \ {old} /\ stray' = stray
    BY <1>7, <1>12 DEF DeleteOld
  <2>2. ManagerTypeOK'
    BY <1>1, <1>6, <2>1 DEF ManagerInv, ManagerTypeOK
  <2>3. MessageInv'
    BY <1>1, <1>7, <1>8, <1>9, <1>10, <1>11, <2>1 DEF MessageInv, Deleting
  <2> QED BY <1>5, <1>6, <2>2, <2>3 DEF ManagerInv
<1>13. CASE ~ ok
  <2>1. DOMAIN shown' = DOMAIN shown /\ stray' = stray \cup {old}
    BY <1>7, <1>13 DEF DeleteOld
  <2>2. ManagerTypeOK'
    BY <1>1, <1>6, <1>9, <2>1 DEF ManagerInv, ManagerTypeOK
  <2>3. MessageInv'
    BY <1>1, <1>7, <1>8, <1>9, <1>10, <1>11, <2>1 DEF MessageInv, Deleting
  <2> QED BY <1>5, <1>6, <2>2, <2>3 DEF ManagerInv
<1> QED BY <1>12, <1>13

\* All entries are rendered again.
LEMMA RefreshAllKeeps ==
    ASSUME ManagerInv, NEW a \in Actor, RefreshAll(a)
    PROVE  ManagerInv'
<1>1. /\ actor[a].at = "refresh" /\ actor[a] \in ActorState
      /\ UNCHANGED <<shown, sent, stray, requests>>
  BY DEF RefreshAll, ManagerInv, ManagerTypeOK
<1>2. PICK snap : snap = actor[a].snap
  OBVIOUS
<1>3. snap \subseteq Job
  BY <1>1, <1>2 DEF ActorState
<1>4. PICK todo : todo = {c \in DOMAIN entries : Refreshable(c, actor[a].force)}
  OBVIOUS
<1>5. PICK es : es = {[chat |-> c, id |-> entries[c].id, text |-> snap] :
                         c \in {d \in todo : Edited(d, snap)}}
  OBVIOUS
<1>6. entries' = [c \in DOMAIN entries |->
                     IF c \notin todo THEN entries[c]
                     ELSE [entries[c] EXCEPT !.snap = snap, !.empty = snap = {},
                                             !.due = @ /\ ~ Edited(c, snap)]]
  BY <1>2, <1>4 DEF RefreshAll
<1>7. SameMessages
  <2>1. ASSUME NEW c \in DOMAIN entries
        PROVE  entries'[c] \in Entry /\ entries'[c].id = entries[c].id
    <3>1. entries[c] \in Entry
      BY DEF ManagerInv, ManagerTypeOK
    <3>2. CASE c \notin todo
      BY <1>6, <3>1, <3>2
    <3>3. CASE c \in todo
      <4>1. PICK due : due = (entries[c].due /\ ~ Edited(c, snap))
        OBVIOUS
      <4>2. due \in BOOLEAN
        BY <4>1
      <4>3. PICK empty : empty = (snap = {})
        OBVIOUS
      <4>4. empty \in BOOLEAN
        BY <4>3
      <4>5. entries'[c] = [entries[c] EXCEPT !.snap = snap, !.empty = empty, !.due = due]
        BY <1>6, <3>3, <4>1, <4>3
      <4> QED BY <1>3, <3>1, <4>2, <4>4, <4>5 DEF Entry
    <3> QED BY <3>2, <3>3
  <2>2. DOMAIN entries' = DOMAIN entries
    BY <1>6
  <2> QED BY <1>1, <2>1, <2>2 DEF SameMessages
<1>8. es \subseteq Edit
  <2>1. \A c \in todo : c \in Chat /\ entries[c].id \in 1 .. MaxMessages
    <3>1. \A c \in todo : c \in DOMAIN entries
      BY <1>4
    <3>2. \A c \in DOMAIN entries : c \in Chat /\ entries[c] \in Entry
      BY DEF ManagerInv, ManagerTypeOK
    <3> QED BY <3>1, <3>2 DEF Entry
  <2>2. \A c \in todo : [chat |-> c, id |-> entries[c].id, text |-> snap] \in Edit
    BY <1>3, <2>1 DEF Edit
  <2> QED BY <1>5, <2>2
<1>9. PICK rest : rest = [actor[a] EXCEPT !.edits = es]
  OBVIOUS
<1>10. rest \in ActorState
  BY <1>1, <1>8, <1>9 DEF ActorState
<1>11. Continue(a, rest)
  BY <1>2, <1>4, <1>5, <1>9 DEF RefreshAll
<1>12. ~ Deleting(a) /\ requests' \in 0 .. MaxRequests
  BY <1>1 DEF Deleting, ManagerInv, ManagerTypeOK
<1> QED BY <1>7, <1>10, <1>11, <1>12, ContinueKeeps

\* An entry whose marks change is still an entry of the same message.
LEMMA MarkedEntry ==
    ASSUME ManagerInv, NEW c \in DOMAIN entries, NEW due \in BOOLEAN, NEW flood \in BOOLEAN,
           entries' = [entries EXCEPT ![c].flood = flood, ![c].due = due],
           DOMAIN shown' = DOMAIN shown, sent' = sent, stray' = stray
    PROVE  SameMessages
<1>1. entries[c] \in Entry
  BY DEF ManagerInv, ManagerTypeOK
<1>2. PICK x : x = [entries[c] EXCEPT !.flood = flood, !.due = due]
  OBVIOUS
<1>3. x \in Entry /\ x.id = entries[c].id
  BY <1>1, <1>2 DEF Entry
<1>4. entries' = [entries EXCEPT ![c] = x]
  BY <1>2
<1> QED BY <1>3, <1>4 DEF ManagerInv, ManagerTypeOK, SameMessages

\* An edit is sent or refused.
LEMMA SendEditKeeps ==
    ASSUME ManagerInv, NEW a \in Actor, NEW e \in actor[a].edits, NEW answer,
           SendEdit(a, e, answer)
    PROVE  ManagerInv'
<1>1. /\ actor[a].at = "edits" /\ actor[a] \in ActorState
      /\ UNCHANGED <<sent, stray, requests>>
  BY DEF SendEdit, ManagerInv, ManagerTypeOK
<1>2. DOMAIN shown' = DOMAIN shown
  BY DEF SendEdit
<1>3. SameMessages
  <2>1. CASE answer = "other" \/ e.chat \notin DOMAIN entries
    <3>1. entries' = entries
      BY <2>1 DEF SendEdit
    <3> QED BY <1>1, <1>2, <3>1 DEF ManagerInv, ManagerTypeOK, SameMessages
  <2>2. CASE ~ (answer = "other" \/ e.chat \notin DOMAIN entries)
    <3>1. PICK flood : flood = (answer = "flood")
      OBVIOUS
    <3>2. PICK due : due = (entries[e.chat].due /\ answer = "ok")
      OBVIOUS
    <3>3. flood \in BOOLEAN /\ due \in BOOLEAN
      BY <3>1, <3>2
    <3>4. entries' = [entries EXCEPT ![e.chat].flood = flood, ![e.chat].due = due]
      BY <2>2, <3>1, <3>2 DEF SendEdit
    <3> QED BY <1>1, <1>2, <2>2, <3>3, <3>4, MarkedEntry
  <2> QED BY <2>1, <2>2
<1>4. PICK rest : rest = [actor[a] EXCEPT !.edits = actor[a].edits \ {e}]
  OBVIOUS
<1>5. rest \in ActorState
  BY <1>1, <1>4 DEF ActorState
<1>6. Continue(a, rest)
  BY <1>4 DEF SendEdit
<1>7. ~ Deleting(a) /\ requests' \in 0 .. MaxRequests
  BY <1>1 DEF Deleting, ManagerInv, ManagerTypeOK
<1> QED BY <1>3, <1>5, <1>6, <1>7, ContinueKeeps

\* Only marks of the entries change.
LEMMA MarksKeep ==
    ASSUME ManagerInv, SameMessages, UNCHANGED <<actor, requests>>
    PROVE  ManagerInv'
BY DEF ManagerInv, ManagerTypeOK, MessageInv, Deleting, SameMessages

\* The interval or a flood wait of a chat ends.
LEMMA TimeKeeps ==
    ASSUME ManagerInv, NEW c \in Chat, IntervalEnds(c) \/ FloodEnds(c)
    PROVE  ManagerInv'
<1>1. /\ c \in DOMAIN entries /\ entries[c] \in Entry
      /\ UNCHANGED <<actor, shown, sent, stray, requests>>
  BY DEF IntervalEnds, FloodEnds, ManagerInv, ManagerTypeOK
<1>2. CASE IntervalEnds(c)
  <2>1. PICK x : x = [entries[c] EXCEPT !.due = TRUE]
    OBVIOUS
  <2>2. x \in Entry /\ x.id = entries[c].id
    BY <1>1, <2>1 DEF Entry
  <2>3. entries' = [entries EXCEPT ![c] = x]
    BY <1>2, <2>1 DEF IntervalEnds
  <2>4. SameMessages
    BY <1>1, <2>2, <2>3 DEF ManagerInv, ManagerTypeOK, SameMessages
  <2> QED BY <1>1, <2>4, MarksKeep
<1>3. CASE FloodEnds(c)
  <2>1. entries' = [entries EXCEPT ![c].flood = FALSE, ![c].due = TRUE]
    BY <1>3 DEF FloodEnds
  <2>2. SameMessages
    BY <1>1, <2>1, MarkedEntry
  <2> QED BY <1>1, <2>2, MarksKeep
<1> QED BY <1>2, <1>3

-----------------------------------------------------------------------------
(* An idle actor takes something up. *)

\* What an idle actor takes up concerns no message yet.
LEMMA IdleMoves ==
    ASSUME ManagerInv, NEW a \in Actor, actor[a] = Idle, NEW r \in ActorState, Become(a, r),
           r.at \in {"idle", "chats", "open", "refresh", "edits"},
           r.at = "open" => r.chat \in Chat,
           UNCHANGED <<entries, shown, sent, stray>>, requests' \in 0 .. MaxRequests
    PROVE  ManagerInv'
<1>1. ~ Deleting(a)
  BY IdleIsState DEF Deleting
<1>2. SameMessages
  BY EntriesKept
<1> QED BY <1>1, <1>2, ActorMoves DEF Become

\* The bridge opens or refreshes the dashboards of the created jobs.
LEMMA BatchEndsMoves ==
    ASSUME ManagerInv, BridgeInv, BatchEnds
    PROVE  ManagerInv'
<1>1. /\ actor["bridge"] = Idle /\ "bridge" \in Actor
      /\ UNCHANGED <<entries, shown, sent, stray, requests>> /\ requests' \in 0 .. MaxRequests
  BY DEF BatchEnds, Actor, ManagerInv, ManagerTypeOK
<1>2. PICK chats : chats = {ChatOf[j] : j \in batch.created} \ {NoChat}
  OBVIOUS
<1>3. chats \subseteq Chat
  <2>1. \A j \in batch.created : ChatOf[j] \in Chat \cup {NoChat}
    BY DashAssumption DEF BridgeInv, BridgeTypeOK
  <2> QED BY <1>2, <2>1
<1>4. CASE chats = {}
  <2>1. Become("bridge", Idle)
    BY <1>2, <1>4 DEF BatchEnds
  <2> QED BY <1>1, <2>1, IdleIsState, IdleMoves
<1>5. CASE chats # {}
  <2>1. PICK r : r = [Idle EXCEPT !.at = "chats", !.snap = Active, !.chats = chats]
    OBVIOUS
  <2>2. Active \in SUBSET Job
    BY DEF Active
  <2>3. r \in ActorState
    <3>1. 0 \in 0 .. MaxMessages
      BY DashAssumption
    <3> QED BY <1>3, <2>1, <2>2, <3>1 DEF Idle, ActorState
  <2>4. r.at = "chats"
    BY <2>1 DEF Idle
  <2>5. Become("bridge", r)
    BY <1>2, <1>5, <2>1 DEF BatchEnds
  <2> QED BY <1>1, <2>3, <2>4, <2>5, IdleMoves
<1> QED BY <1>4, <1>5

\* The bridge refreshes after an event.
LEMMA HandleEventMoves ==
    ASSUME ManagerInv, HandleEvent
    PROVE  ManagerInv'
<1>1. /\ actor["bridge"] = Idle /\ "bridge" \in Actor
      /\ UNCHANGED <<entries, shown, sent, stray, requests>> /\ requests' \in 0 .. MaxRequests
  BY DEF HandleEvent, Actor, ManagerInv, ManagerTypeOK
<1>2. PICK force : force = (Head(events).type = "terminal")
  OBVIOUS
<1>3. force \in BOOLEAN
  BY <1>2
<1>4. PICK r : r = [Idle EXCEPT !.at = "refresh", !.snap = Active, !.force = force]
  OBVIOUS
<1>5. r \in ActorState
  <2>1. 0 \in 0 .. MaxMessages /\ Active \in SUBSET Job
    BY DashAssumption DEF Active
  <2> QED BY <1>3, <1>4, <2>1 DEF Idle, ActorState
<1>6. r.at = "refresh"
  BY <1>4 DEF Idle
<1>7. Become("bridge", r)
  BY <1>2, <1>4 DEF HandleEvent
<1> QED BY <1>1, <1>5, <1>6, <1>7, IdleMoves

\* A request of the user finds its actor idle.
LEMMA UserStartsFacts ==
    ASSUME ManagerInv, UserStarts
    PROVE  /\ "user" \in Actor /\ actor["user"] = Idle /\ requests' \in 0 .. MaxRequests
           /\ UNCHANGED bridgeVars /\ UNCHANGED <<shown, sent, stray>>
           /\ 0 \in 0 .. MaxMessages /\ Active \in SUBSET Job
BY DashAssumption DEF UserStarts, Actor, ManagerInv, ManagerTypeOK, Active

\* /status.
LEMMA StatusKeeps ==
    ASSUME ManagerInv, NEW c \in Chat, Status(c)
    PROVE  ManagerInv' /\ UNCHANGED bridgeVars
<1>1. UserStarts /\ UNCHANGED entries
  BY DEF Status
<1>2. PICK r : r = [Idle EXCEPT !.at = "open", !.snap = Active, !.chat = c]
  OBVIOUS
<1>3. r \in ActorState
  BY <1>1, <1>2, UserStartsFacts DEF Idle, ActorState
<1>4. r.at = "open" /\ r.chat = c
  BY <1>2 DEF Idle
<1>5. Become("user", r)
  BY <1>2 DEF Status
<1> QED BY <1>1, <1>3, <1>4, <1>5, UserStartsFacts, IdleMoves

\* A request that makes sure of a dashboard.
LEMMA EnsureDashboardKeeps ==
    ASSUME ManagerInv, NEW c \in Chat, EnsureDashboard(c)
    PROVE  ManagerInv' /\ UNCHANGED bridgeVars
<1>1. UserStarts /\ UNCHANGED entries
  BY DEF EnsureDashboard
<1>2. PICK r : r = [Idle EXCEPT !.at = "chats", !.snap = Active, !.chats = {c}]
  OBVIOUS
<1>3. r \in ActorState
  BY <1>1, <1>2, UserStartsFacts DEF Idle, ActorState
<1>4. r.at = "chats"
  BY <1>2 DEF Idle
<1>5. Become("user", r)
  BY <1>2 DEF EnsureDashboard
<1> QED BY <1>1, <1>3, <1>4, <1>5, UserStartsFacts, IdleMoves

\* The refresh button.
LEMMA PressRefreshKeeps ==
    ASSUME ManagerInv, NEW c \in Chat, PressRefresh(c)
    PROVE  ManagerInv' /\ UNCHANGED bridgeVars
<1>1. UserStarts /\ c \in DOMAIN entries
  BY DEF PressRefresh
<1>2. PICK r : r = [Idle EXCEPT !.snap = Active]
  OBVIOUS
<1>3. r \in ActorState
  BY <1>1, <1>2, UserStartsFacts DEF Idle, ActorState
<1>4. RefreshEntryFrom("user", c, r)
  BY <1>2 DEF PressRefresh
<1>5. ~ Deleting("user")
  BY <1>1, UserStartsFacts, IdleIsState DEF Deleting
<1> QED BY <1>1, <1>3, <1>4, <1>5, UserStartsFacts, RefreshEntryKeeps

\* The page buttons.
LEMMA PressPageKeeps ==
    ASSUME ManagerInv, NEW c \in Chat, PressPage(c)
    PROVE  ManagerInv' /\ UNCHANGED bridgeVars
<1>1. UserStarts /\ c \in DOMAIN entries /\ UNCHANGED entries
  BY DEF PressPage
<1>2. PICK e : e = [chat |-> c, id |-> entries[c].id, text |-> entries[c].snap]
  OBVIOUS
<1>3. e \in Edit
  <2>1. entries[c] \in Entry
    BY <1>1 DEF ManagerInv, ManagerTypeOK
  <2> QED BY <1>2, <2>1 DEF Entry, Edit
<1>4. PICK r : r = [Idle EXCEPT !.at = "edits", !.edits = {e}]
  OBVIOUS
<1>5. r \in ActorState
  BY <1>1, <1>3, <1>4, UserStartsFacts DEF Idle, ActorState
<1>6. r.at = "edits"
  BY <1>4 DEF Idle
<1>7. Become("user", r)
  BY <1>2, <1>4 DEF PressPage
<1> QED BY <1>1, <1>5, <1>6, <1>7, UserStartsFacts, IdleMoves

\* The cancel button.
LEMMA PressCancelKeeps ==
    ASSUME ManagerInv, PressCancel
    PROVE  ManagerInv' /\ UNCHANGED bridgeVars
<1>1. UserStarts /\ UNCHANGED entries
  BY DEF PressCancel
<1>2. PICK r : r = [Idle EXCEPT !.at = "refresh", !.snap = Active, !.force = TRUE]
  OBVIOUS
<1>3. r \in ActorState
  BY <1>1, <1>2, UserStartsFacts DEF Idle, ActorState
<1>4. r.at = "refresh"
  BY <1>2 DEF Idle
<1>5. Become("user", r)
  BY <1>2 DEF PressCancel
<1> QED BY <1>1, <1>3, <1>4, <1>5, UserStartsFacts, IdleMoves

\* At the start there is no job and no dashboard.
LEMMA InitDashInv == DashInit => DashInv
<1> SUFFICES ASSUME DashInit PROVE DashInv
  OBVIOUS
<1>1. BridgeTypeOK
  BY DashAssumption DEF DashInit, BridgeTypeOK, Phase
<1>2. /\ \A x : ~ InQueue(chan, x) /\ ~ InQueue(events, x)
      /\ \A j : ~ SpeaksOf(chan, j) /\ ~ SpeaksOf(events, j)
      /\ EndIsLast(events, Tardy) /\ EndIsLast(chan, Tardy)
  BY DEF DashInit, InQueue, SpeaksOf, EndIsLast
<1>3. batch.created = {} /\ contexts = {} /\ late = {}
  BY DEF DashInit
<1>4. OrderInv /\ EndInv
  BY <1>2, <1>3 DEF OrderInv, EndInv, Ending, Mentioned
<1>5. DOMAIN entries = {} /\ DOMAIN shown = {} /\ stray = {}
  BY DEF DashInit
<1>6. actor \in [Actor -> ActorState] /\ \A a \in Actor : actor[a].at = "idle"
  BY IdleIsState DEF DashInit
<1>7. ManagerTypeOK
  BY <1>5, <1>6, DashAssumption DEF DashInit, ManagerTypeOK
<1>8. MessageInv
  BY <1>5, <1>6 DEF MessageInv, Deleting
<1> QED BY <1>1, <1>4, <1>6, <1>7, <1>8 DEF DashInv, BridgeInv, ManagerInv

\* DashInv holds in every reachable state of the bridge and its dashboards, for any
\* jobs, chats and size of the channel, and with a Telegram that fails or does not.
THEOREM DashInvariant == DashSpec => []DashInv
<1>1. DashInv /\ [DashNext]_dashVars => DashInv'
  <2> SUFFICES ASSUME BridgeInv, ManagerInv, [DashNext]_dashVars
               PROVE  BridgeInv' /\ ManagerInv'
    BY DEF DashInv
  <2>1. CASE UNCHANGED dashVars
    BY <2>1, BridgeRests, ManagerRests DEF dashVars, bridgeVars, managerVars
  <2>2. ASSUME NEW j \in Job, Created(j) \/ Progress(j) \/ Completes(j) \/ EmitTerminal(j)
        PROVE  BridgeInv' /\ ManagerInv'
    <3>1. UNCHANGED managerVars
      BY <2>2 DEF Created, Progress, Completes, EmitTerminal, managerVars
    <3> QED BY <2>2, <3>1, ManagerRests, CreatedKeeps, ProgressKeeps, CompletesKeeps,
               EmitTerminalKeeps
  <2>3. ASSUME NEW e \in late, SendLate(e) PROVE BridgeInv' /\ ManagerInv'
    <3>1. UNCHANGED managerVars
      BY <2>3 DEF SendLate, managerVars
    <3> QED BY <2>3, <3>1, ManagerRests, SendLateKeeps
  <2>4. CASE Receive
    <3>1. UNCHANGED managerVars
      BY <2>4 DEF Receive, managerVars
    <3> QED BY <2>4, <3>1, ManagerRests, ReceiveKeeps
  <2>5. CASE BatchEnds
    BY <2>5, BatchEndsKeeps, BatchEndsMoves
  <2>6. CASE HandleEvent
    BY <2>6, HandleEventKeeps, HandleEventMoves
  <2>7. ASSUME NEW a \in Actor, Manager(a) PROVE BridgeInv' /\ ManagerInv'
    <3>1. CASE \E c \in Chat : NextChat(a, c)
      BY <3>1, NextChatKeeps, BridgeRests DEF NextChat
    <3>2. CASE OpenMessage(a)
      BY <3>2, OpenMessageKeeps, BridgeRests DEF OpenMessage
    <3>3. CASE OpenFails(a)
      BY <3>3, OpenFailsKeeps, BridgeRests DEF OpenFails
    <3>4. CASE RefreshAll(a)
      BY <3>4, RefreshAllKeeps, BridgeRests DEF RefreshAll
    <3>5. CASE \E ok \in BOOLEAN : DeleteOld(a, ok)
      BY <3>5, DeleteOldKeeps, BridgeRests DEF DeleteOld
    <3>6. CASE \E e \in actor[a].edits, answer \in {"ok", "flood", "other"} :
                  SendEdit(a, e, answer)
      BY <3>6, SendEditKeeps, BridgeRests DEF SendEdit
    <3> QED BY <2>7, <3>1, <3>2, <3>3, <3>4, <3>5, <3>6 DEF Manager
  <2>8. ASSUME NEW c \in Chat, IntervalEnds(c) \/ FloodEnds(c)
        PROVE  BridgeInv' /\ ManagerInv'
    BY <2>8, TimeKeeps, BridgeRests DEF IntervalEnds, FloodEnds
  <2>9. CASE User
    BY <2>9, StatusKeeps, EnsureDashboardKeeps, PressRefreshKeeps, PressPageKeeps,
       PressCancelKeeps, BridgeRests DEF User
  <2> QED BY <2>1, <2>2, <2>3, <2>4, <2>5, <2>6, <2>7, <2>8, <2>9 DEF DashNext
<1> QED BY <1>1, InitDashInv, PTL DEF DashSpec

\* The bridge remembers no job that is over once it has handled everything, whatever
\* the channel dropped, unless the job was cancelled and reported progress after its
\* end; and a chat has one dashboard (event_bridge.rs, dashboard.rs).
THEOREM DashboardsFollowJobsAlways == DashSpec => []DashboardsFollowJobs
<1>1. DashInv => DashboardsFollowJobs
  <2> SUFFICES ASSUME DashInv PROVE DashboardsFollowJobs
    OBVIOUS
  <2>1. DashTypeOK
    BY DEF DashInv, BridgeInv, ManagerInv, BridgeTypeOK, ManagerTypeOK, DashTypeOK
  <2>2. ContextsAreOfActiveJobs
    <3> SUFFICES ASSUME BridgeQuiet, NEW j \in contexts PROVE j \in Active \cup Tardy
      BY DEF ContextsAreOfActiveJobs
    <3>1. j \in Job /\ Mentioned(j)
      BY DEF DashInv, BridgeInv, BridgeTypeOK, Mentioned
    <3>2. ~ Ending(j)
      BY DEF BridgeQuiet, Ending, InQueue
    <3>3. phase[j] \notin {"new", "over", "left", "ending", "leaving"}
      BY <3>1, <3>2 DEF DashInv, BridgeInv, EndInv, BridgeQuiet
    <3>4. phase[j] \in Phase
      BY <3>1 DEF DashInv, BridgeInv, BridgeTypeOK
    <3> QED BY <3>1, <3>3, <3>4 DEF Active, Tardy, Phase
  <2>3. OneDashboardPerChat
    <3> DEFINE places == {entries[c].id : c \in DOMAIN entries} \cup stray
                         \cup {actor[a].old : a \in {b \in Actor : actor[b].at = "delete"}}
    <3>1. ASSUME NEW m \in DOMAIN shown PROVE m \in places
      <4>1. CASE \E c \in DOMAIN entries : entries[c].id = m
        BY <4>1
      <4>2. CASE m \in stray
        BY <4>2
      <4>3. CASE \E a \in Actor : Deleting(a) /\ actor[a].old = m
        BY <4>3 DEF Deleting
      <4> QED BY <4>1, <4>2, <4>3 DEF DashInv, ManagerInv, MessageInv
    <3>2. ASSUME NEW m \in places PROVE m \in DOMAIN shown
      <4>1. CASE m \in {entries[c].id : c \in DOMAIN entries}
        BY <4>1 DEF DashInv, ManagerInv, MessageInv
      <4>2. CASE m \in stray
        BY <4>2 DEF DashInv, ManagerInv, MessageInv
      <4>3. CASE m \in {actor[a].old : a \in {b \in Actor : actor[b].at = "delete"}}
        BY <4>3 DEF DashInv, ManagerInv, MessageInv, Deleting
      <4> QED BY <4>1, <4>2, <4>3
    <3> QED BY <3>1, <3>2 DEF OneDashboardPerChat
  <2> QED BY <2>1, <2>2, <2>3 DEF DashboardsFollowJobs
<1> QED BY <1>1, DashInvariant, PTL

-----------------------------------------------------------------------------
(* CacheAdmin. *)

IndexStage == {"idle", "fetch", "save", "prune", "zips", "done"}
DeleteStage == {"idle", "lookup", "message", "row", "rows"}

IndexState(n) ==
    [at: IndexStage, end: 0 .. n, todo: Seq((1 .. n) \X Content),
     keys: SUBSET Key, msgs: SUBSET (1 .. MaxId)]

IndexTypes ==
    /\ channel \in [1 .. MaxId -> Content] /\ last \in First .. MaxId
    /\ idx \in IndexState(last)
    /\ rip = NoRip \/ (rip.key \in Key /\ rip.id \in 1 .. last)
    /\ calm \in BOOLEAN

\* The rows of a table are of messages that were sent; a part's message holds that part
\* unless it was deleted.
TablesOK(r, p) ==
    /\ DOMAIN r \subseteq Key /\ DOMAIN p \subseteq Part
    /\ \A k \in DOMAIN r : r[k] \in 1 .. last
    /\ \A q \in DOMAIN p : p[q] \in 1 .. last /\ channel[p[q]] \in {q, Gone}

TableInv ==
    /\ TablesOK(rows, parts)
    /\ archive = <<>> \/ TablesOK(archive[1].rows, archive[1].parts)

\* What a fetched batch says of a message is true, or was before it was deleted.
BatchInv ==
    /\ idx.at \in {"fetch", "save"} => idx.end >= 1
    /\ \A i \in 1 .. Len(idx.todo) : channel[idx.todo[i][1]] \in {idx.todo[i][2], Gone}

\* The track of a message has been met by the index; a message is still to be read.
Met(m) == channel[m] \in Key => channel[m] \in idx.keys
ToRead(m) == \E i \in 1 .. Len(idx.todo) : idx.todo[i][1] = m

\* An index that nobody disturbed has met the tracks of all messages down to where
\* it is.
CalmInv ==
    calm =>
        /\ idx.at # "idle" /\ rip = NoRip /\ del = Nothing
        /\ \A k \in idx.keys : k \in DOMAIN rows /\ channel[rows[k]] = k
        /\ \A m \in idx.msgs : channel[m] \in Part
        /\ idx.at = "fetch" => \A m \in 1 .. MaxId : m > idx.end => Met(m)
        /\ idx.at = "save" =>
              /\ \A i \in 1 .. Len(idx.todo) : channel[idx.todo[i][1]] = idx.todo[i][2]
              /\ \A m \in 1 .. MaxId : m > idx.end - Batch => Met(m) \/ ToRead(m)
        /\ idx.at \in {"prune", "zips", "done"} => \A m \in 1 .. MaxId : Met(m)
        /\ idx.at \in {"zips", "done"} => DOMAIN rows \subseteq idx.keys
        /\ idx.at = "done" => \A p \in DOMAIN parts : parts[p] \in idx.msgs

\* A token is of the message it was issued for, from the command to the deletion.
DeleteState ==
    [at: DeleteStage, tok: Token \cup {Gone}, key: Key \cup Track \cup {Gone}, msg: 0 .. MaxId]

TokenInv ==
    /\ DOMAIN pend \subseteq Token /\ del \in DeleteState
    /\ DOMAIN offered = Token /\ DOMAIN deleted = Token
    /\ \A t \in DOMAIN pend :
          pend[t].track \in Track /\ pend[t].msg = offered[t] /\ offered[t] \in 1 .. MaxId
    /\ del.tok \in Token => del.msg = offered[del.tok] /\ offered[del.tok] # 0
    /\ \A t \in Token : \A m \in deleted[t] : m = offered[t] /\ m # 0
    /\ del.at \in {"message", "row", "rows"} => del.msg \in 1 .. MaxId

\* A message that was not sent yet is not there.
UnsentInv == \A m \in 1 .. MaxId : m > last => channel[m] = Gone

AdminInv == IndexTypes /\ TableInv /\ BatchInv /\ UnsentInv /\ CalmInv /\ TokenInv

-----------------------------------------------------------------------------
\* The rows at the start are of messages that were sent.
LEMMA InitAdminInv == AdminInit => AdminInv
<1> SUFFICES ASSUME AdminInit PROVE AdminInv
  OBVIOUS
<1> USE AdminAssumption
<1>1. PICK d \in Contents :
             channel = [m \in 1 .. MaxId |-> IF m <= First THEN d[m] ELSE Gone]
  BY DEF AdminInit
<1>2. channel \in [1 .. MaxId -> Content]
  <2>1. d \in [1 .. First -> Content]
    BY DEF Content
  <2>2. ASSUME NEW m \in 1 .. MaxId
        PROVE  (IF m <= First THEN d[m] ELSE Gone) \in Content
    BY <2>1 DEF Content
  <2> QED BY <1>1, <2>2
<1>3. idx \in IndexState(last)
  BY DEF AdminInit, NotIndexing, IndexState, IndexStage
<1>4. IndexTypes /\ UnsentInv
  <2>1. last = First /\ calm = FALSE /\ rip = NoRip
    BY DEF AdminInit
  <2>2. last \in First .. MaxId
    BY <2>1
  <2>3. UnsentInv
    BY <1>1, <2>1 DEF UnsentInv
  <2> QED BY <1>2, <1>3, <2>1, <2>2, <2>3 DEF IndexTypes
<1>5. TableInv
  <2>1. PICK K \in SUBSET Key, P \in SUBSET Part :
               rows \in [K -> 1 .. First] /\ parts \in [P -> 1 .. First]
    BY DEF AdminInit
  <2> QED BY <2>1 DEF AdminInit, TableInv, TablesOK
<1>6. BatchInv /\ CalmInv
  BY DEF AdminInit, BatchInv, CalmInv, NotIndexing
<1>7. TokenInv
  <2>1. Nothing \in DeleteState
    BY DEF Nothing, DeleteState, DeleteStage
  <2> QED BY <2>1 DEF AdminInit, TokenInv, Nothing
<1> QED BY <1>4, <1>5, <1>6, <1>7 DEF AdminInv

-----------------------------------------------------------------------------
(* /index. *)

\* Nothing of the deletions changes.
LEMMA TokenRests ==
    ASSUME TokenInv, UNCHANGED <<pend, del, offered, deleted>>
    PROVE  TokenInv'
BY DEF TokenInv

\* What was true of the tables stays true while the channel and the last id do.
LEMMA TablesRest ==
    ASSUME NEW r, NEW p, TablesOK(r, p), UNCHANGED <<channel, last>>
    PROVE  TablesOK(r, p)'
BY DEF TablesOK

\* /index begins above the last message.
LEMMA IndexStartKeeps ==
    ASSUME AdminInv, IndexStart
    PROVE  AdminInv'
<1> USE AdminAssumption
<1>1. /\ last \in Nat /\ last' = last + 1 /\ last + 1 \in First .. MaxId
      /\ UNCHANGED <<channel, rows, parts, rip, archive>>
  BY DEF AdminInv, IndexTypes, IndexStart
<1>2. /\ idx'.at = (IF last >= 1 THEN "fetch" ELSE "prune") /\ idx'.end = last
      /\ idx'.todo = <<>> /\ idx'.keys = {} /\ idx'.msgs = {}
  BY DEF IndexStart, NotIndexing
<1>8. idx' \in IndexState(last')
  <2>1. PICK at \in {"fetch", "prune"} :
               idx' = [at |-> at, end |-> last, todo |-> <<>>, keys |-> {}, msgs |-> {}]
    BY DEF IndexStart, NotIndexing
  <2>2. at \in IndexStage /\ last \in 0 .. last'
    BY <1>1 DEF IndexStage
  <2>3. <<>> \in Seq((1 .. last') \X Content)
    OBVIOUS
  <2> QED BY <2>1, <2>2, <2>3 DEF IndexState
<1>3. IndexTypes'
  BY <1>1, <1>8 DEF AdminInv, IndexTypes, IndexStart, NoRip
<1>4. TableInv'
  BY <1>1 DEF AdminInv, TableInv, TablesOK
<1>5. BatchInv' /\ UnsentInv'
  BY <1>1, <1>2 DEF AdminInv, BatchInv, UnsentInv
<1>6. CalmInv'
  <2>1. \A m \in 1 .. MaxId : m > last => Met(m)'
    BY <1>1 DEF AdminInv, UnsentInv, Met
  <2>2. last < 1 => \A m \in 1 .. MaxId : m > last
    BY <1>1
  <2> SUFFICES ASSUME calm' PROVE CalmInv'
    BY DEF CalmInv
  <2>5. rip' = NoRip /\ del' = Nothing
    BY DEF IndexStart
  <2>3. CASE last >= 1
    <3>1. idx'.at = "fetch"
      BY <1>2, <2>3
    <3> QED BY <1>2, <2>1, <2>5, <3>1 DEF CalmInv
  <2>4. CASE last < 1
    <3>1. idx'.at = "prune"
      BY <1>1, <1>2, <2>4
    <3> QED BY <1>2, <2>1, <2>2, <2>4, <2>5, <3>1 DEF CalmInv
  <2> QED BY <1>1, <2>3, <2>4
<1>7. TokenInv'
  BY TokenRests DEF AdminInv, IndexStart
<1> QED BY <1>3, <1>4, <1>5, <1>6, <1>7 DEF AdminInv

\* A batch is of the ids from its end down, Batch of them or all there are.
LEMMA BatchIdsAre ==
    ASSUME NEW end \in Nat \ {0}
    PROVE  \E n \in Nat :
              /\ DOMAIN BatchIds(end) = 1 .. n
              /\ \A i \in 1 .. n : BatchIds(end)[i] \in 1 .. end
              /\ \A m \in 1 .. end : m > end - Batch =>
                    end - m + 1 \in 1 .. n /\ BatchIds(end)[end - m + 1] = m
<1> USE AdminAssumption
<1> DEFINE start == IF end - Batch + 1 > 1 THEN end - Batch + 1 ELSE 1
           n == end - start + 1
<1>1. start \in 1 .. end /\ n \in Nat
  OBVIOUS
<1>2. BatchIds(end) = [i \in 1 .. n |-> end - i + 1]
  BY DEF BatchIds
<1>3. \A i \in 1 .. n : end - i + 1 \in 1 .. end
  BY <1>1
<1>4. \A m \in 1 .. end : m > end - Batch =>
          end - m + 1 \in 1 .. n /\ end - (end - m + 1) + 1 = m
  BY <1>1
<1> HIDE DEF n
<1> QED BY <1>1, <1>2, <1>3, <1>4, ZenonT(60)

\* A batch is fetched.
LEMMA FetchKeeps ==
    ASSUME AdminInv, Fetch
    PROVE  AdminInv'
<1> USE AdminAssumption
<1> DEFINE ids == BatchIds(idx.end)
           got == [i \in DOMAIN ids |-> <<ids[i], channel[ids[i]]>>]
<1>1. idx.at = "fetch" /\ idx.end \in 1 .. last /\ last \in 0 .. MaxId
  BY DEF AdminInv, IndexTypes, IndexState, BatchInv, Fetch
<1>12. idx.end \in Nat \ {0}
  BY <1>1
<1>2. PICK n \in Nat :
              /\ DOMAIN ids = 1 .. n
              /\ \A i \in 1 .. n : ids[i] \in 1 .. idx.end
              /\ \A m \in 1 .. idx.end : m > idx.end - Batch =>
                    idx.end - m + 1 \in 1 .. n /\ ids[idx.end - m + 1] = m
  BY <1>12, BatchIdsAre
<1>3. /\ idx' = [idx EXCEPT !.at = "save", !.todo = got]
      /\ UNCHANGED <<channel, last, rows, parts, calm, rip, archive>>
  BY DEF Fetch
<1> HIDE DEF ids
<1>4. /\ \A i \in 1 .. n : got[i] \in (1 .. last) \X Content
      /\ \A i \in 1 .. n : channel[got[i][1]] = got[i][2]
  BY <1>1, <1>2 DEF AdminInv, IndexTypes
<1>5. got \in Seq((1 .. last) \X Content) /\ Len(got) = n
  BY <1>2, <1>4
<1>6. \A m \in 1 .. idx.end : m > idx.end - Batch => \E i \in 1 .. n : got[i][1] = m
  BY <1>2
<1> HIDE DEF got
<1>7. /\ idx'.at = "save" /\ idx'.todo = got /\ idx'.end = idx.end
      /\ idx'.keys = idx.keys /\ idx'.msgs = idx.msgs /\ idx' \in IndexState(last')
  BY <1>3, <1>5 DEF AdminInv, IndexTypes, IndexState, IndexStage
<1>8. IndexTypes' /\ UnsentInv' /\ TableInv'
  BY <1>3, <1>7 DEF AdminInv, IndexTypes, UnsentInv, TableInv, TablesOK
<1>9. BatchInv'
  BY <1>1, <1>3, <1>4, <1>5, <1>7 DEF BatchInv
<1>10. CalmInv'
  <2> SUFFICES ASSUME calm PROVE CalmInv'
    BY <1>3 DEF CalmInv
  <2>1. ASSUME NEW m \in 1 .. MaxId, m > idx.end - Batch PROVE Met(m)' \/ ToRead(m)'
    <3>1. CASE m > idx.end
      BY <1>1, <1>3, <1>7, <3>1 DEF AdminInv, CalmInv, Met
    <3>2. CASE m <= idx.end
      BY <1>1, <1>5, <1>6, <1>7, <2>1, <3>2 DEF ToRead
    <3> QED BY <1>1, <3>1, <3>2
  <2> QED BY <1>1, <1>3, <1>4, <1>5, <1>7, <2>1 DEF AdminInv, CalmInv, Fetch
<1>11. TokenInv'
  BY TokenRests DEF AdminInv, Fetch
<1> QED BY <1>8, <1>9, <1>10, <1>11 DEF AdminInv

\* /index fails or answers.
LEMMA IndexEndsKeeps ==
    ASSUME AdminInv, IndexFails \/ IndexAnswers
    PROVE  AdminInv'
<1> USE AdminAssumption
<1>1. /\ idx' = NotIndexing /\ calm' = FALSE
      /\ UNCHANGED <<channel, last, rows, parts, rip, pend, del, offered, deleted, archive>>
  BY DEF IndexFails, IndexAnswers
<1>2. last \in Nat /\ NotIndexing \in IndexState(last)
  BY DEF AdminInv, IndexTypes, NotIndexing, IndexState, IndexStage
<1>3. IndexTypes' /\ UnsentInv' /\ TableInv' /\ CalmInv'
  BY <1>1, <1>2 DEF AdminInv, IndexTypes, UnsentInv, TableInv, TablesOK, CalmInv
<1>4. BatchInv'
  BY <1>1 DEF BatchInv, NotIndexing
<1> QED BY <1>1, <1>3, <1>4, TokenRests DEF AdminInv

\* Reading the first message of the batch: what is left of it, and that a message
\* still to be read is that one or among the rest.
LEMMA Reading ==
    ASSUME AdminInv, idx.todo # <<>>
    PROVE  /\ Tail(idx.todo) \in Seq((1 .. last) \X Content)
           /\ Head(idx.todo) = idx.todo[1] /\ 1 \in 1 .. Len(idx.todo)
           /\ Head(idx.todo)[1] \in 1 .. last /\ Head(idx.todo)[2] \in Content
           /\ \A i \in 1 .. Len(Tail(idx.todo)) :
                 i + 1 \in 1 .. Len(idx.todo) /\ Tail(idx.todo)[i] = idx.todo[i + 1]
           /\ \A i \in 1 .. Len(idx.todo) :
                 i = 1 \/ (i - 1 \in 1 .. Len(Tail(idx.todo)) /\ Tail(idx.todo)[i - 1] = idx.todo[i])
<1> DEFINE S == (1 .. last) \X Content
<1>1. idx.todo \in Seq(S)
  BY DEF AdminInv, IndexTypes, IndexState
<1>2. Len(idx.todo) \in Nat /\ Len(idx.todo) >= 1 /\ Head(idx.todo) = idx.todo[1]
  BY <1>1
<1>3. idx.todo[1] \in S
  BY <1>1, <1>2
<1>4. Tail(idx.todo) \in Seq(S) /\ Len(Tail(idx.todo)) = Len(idx.todo) - 1
  BY <1>1, <1>2
<1>5. \A i \in 1 .. Len(idx.todo) - 1 : Tail(idx.todo)[i] = idx.todo[i + 1]
  BY <1>1, <1>2
<1> QED BY <1>2, <1>3, <1>4, <1>5, SMTT(20)

\* The part that all four ways of reading a message share.
LEMMA ReadKeeps ==
    ASSUME AdminInv, idx.at = "save", idx.todo # <<>>,
           NEW keys \in SUBSET Key, NEW msgs \in SUBSET (1 .. MaxId),
           idx' = [at |-> "save", end |-> idx.end, todo |-> Tail(idx.todo),
                   keys |-> keys, msgs |-> msgs],
           idx.keys \subseteq keys,
           UNCHANGED <<channel, last, calm, rip, pend, del, offered, deleted, archive>>,
           TablesOK(rows', parts'),
           calm => /\ channel[Head(idx.todo)[1]] \in Key => channel[Head(idx.todo)[1]] \in keys
                   /\ \A k \in keys : k \in DOMAIN rows' /\ channel[rows'[k]] = k
                   /\ \A m \in msgs : channel[m] \in Part
    PROVE  AdminInv'
<1> USE AdminAssumption
<1>1. /\ idx'.at = "save" /\ idx'.todo = Tail(idx.todo) /\ idx'.end = idx.end
      /\ idx'.keys = keys /\ idx'.msgs = msgs
  OBVIOUS
<1>2. idx' \in IndexState(last')
  BY Reading DEF AdminInv, IndexTypes, IndexState, IndexStage
<1>3. IndexTypes' /\ UnsentInv'
  BY <1>2 DEF AdminInv, IndexTypes, UnsentInv
<1>4. TableInv'
  <2>1. TablesOK(rows, parts)'
    BY DEF TablesOK
  <2>2. (archive = <<>> \/ TablesOK(archive[1].rows, archive[1].parts))'
    BY DEF AdminInv, TableInv, TablesOK
  <2> QED BY <2>1, <2>2 DEF TableInv
<1>5. BatchInv'
  <2>1. idx'.end >= 1
    BY <1>1 DEF AdminInv, BatchInv
  <2>2. ASSUME NEW i \in 1 .. Len(Tail(idx.todo))
        PROVE  channel[Tail(idx.todo)[i][1]] \in {Tail(idx.todo)[i][2], Gone}
    BY Reading DEF AdminInv, BatchInv
  <2> QED BY <1>1, <2>1, <2>2 DEF BatchInv
<1>6. CalmInv'
  <2> SUFFICES ASSUME calm PROVE CalmInv'
    BY DEF CalmInv
  <2>1. ASSUME NEW m \in 1 .. MaxId, m > idx.end - Batch PROVE Met(m)' \/ ToRead(m)'
    <3>1. CASE Met(m)
      BY <1>1, <3>1 DEF Met
    <3>2. CASE ToRead(m)
      <4>1. PICK i \in 1 .. Len(idx.todo) : idx.todo[i][1] = m
        BY <3>2 DEF ToRead
      <4>2. CASE i = 1
        <5>1. m = Head(idx.todo)[1]
          BY <4>1, <4>2, Reading
        <5> QED BY <1>1, <5>1 DEF Met
      <4>3. CASE i # 1
        <5>1. i - 1 \in 1 .. Len(Tail(idx.todo)) /\ Tail(idx.todo)[i - 1][1] = m
          BY <4>1, <4>3, Reading
        <5> QED BY <1>1, <5>1 DEF ToRead
      <4> QED BY <4>2, <4>3
    <3> QED BY <2>1, <3>1, <3>2 DEF AdminInv, CalmInv
  <2>2. \A i \in 1 .. Len(idx'.todo) : channel'[idx'.todo[i][1]] = idx'.todo[i][2]
    <3>1. \A i \in 1 .. Len(idx.todo) : channel[idx.todo[i][1]] = idx.todo[i][2]
      BY DEF AdminInv, CalmInv
    <3> QED BY <1>1, <3>1, Reading
  <2> QED BY <1>1, <2>1, <2>2 DEF AdminInv, CalmInv
<1>7. TokenInv'
  BY TokenRests DEF AdminInv
<1> QED BY <1>3, <1>4, <1>5, <1>6, <1>7 DEF AdminInv

\* A message that is neither track nor part is passed over.
LEMMA SkipMessageKeeps ==
    ASSUME AdminInv, SkipMessage
    PROVE  AdminInv'
<1>1. idx.keys \in SUBSET Key /\ idx.msgs \in SUBSET (1 .. MaxId)
  BY DEF AdminInv, IndexTypes, IndexState
<1>2. idx' = [at |-> "save", end |-> idx.end, todo |-> Tail(idx.todo),
              keys |-> idx.keys, msgs |-> idx.msgs]
  BY DEF AdminInv, IndexTypes, IndexState, SkipMessage
<1>3. TablesOK(rows', parts')
  BY DEF AdminInv, TableInv, SkipMessage
<1>4. calm => channel[Head(idx.todo)[1]] \notin Key
  BY Reading, ZenonT(60) DEF AdminInv, CalmInv, SkipMessage
<1>5. calm => /\ \A k \in idx.keys : k \in DOMAIN rows' /\ channel[rows'[k]] = k
              /\ \A m \in idx.msgs : channel[m] \in Part
  BY DEF AdminInv, CalmInv, SkipMessage
<1> QED BY <1>1, <1>2, <1>3, <1>4, <1>5, ReadKeeps DEF SkipMessage

\* The row of a track that was met.
LEMMA SaveTrackKeeps ==
    ASSUME AdminInv, SaveTrack
    PROVE  AdminInv'
<1> DEFINE m == Head(idx.todo)[1]
           k == Head(idx.todo)[2]
           keys == idx.keys \cup {k}
<1>1. idx.keys \in SUBSET Key /\ idx.msgs \in SUBSET (1 .. MaxId) /\ k \in Key
  BY DEF AdminInv, IndexTypes, IndexState, SaveTrack
<1>2. idx' = [at |-> "save", end |-> idx.end, todo |-> Tail(idx.todo),
              keys |-> keys, msgs |-> idx.msgs]
  BY DEF AdminInv, IndexTypes, IndexState, SaveTrack
<1>3. m \in 1 .. last /\ rows' = Put(rows, k, m) /\ parts' = parts
  BY Reading DEF SaveTrack
<1>4. /\ DOMAIN rows' = DOMAIN rows \cup {k} /\ rows'[k] = m
      /\ \A z \in DOMAIN rows : z # k => rows'[z] = rows[z]
  <2> HIDE DEF m, k
  <2> QED BY <1>3 DEF Put
<1>5. calm => channel[m] = k
  BY Reading DEF AdminInv, CalmInv, SaveTrack
<1> HIDE DEF m, k
<1>6. TablesOK(rows', parts')
  BY <1>1, <1>3, <1>4 DEF AdminInv, TableInv, TablesOK
<1>8. calm => /\ \A z \in keys : z \in DOMAIN rows' /\ channel[rows'[z]] = z
              /\ \A z \in idx.msgs : channel[z] \in Part
  BY <1>4, <1>5 DEF AdminInv, CalmInv, SaveTrack
<1>9. keys \in SUBSET Key /\ idx.keys \subseteq keys
  BY <1>1
<1>10. calm => channel[Head(idx.todo)[1]] \in keys
  BY <1>5 DEF m
<1> HIDE DEF keys
<1> QED BY <1>1, <1>2, <1>6, <1>8, <1>9, <1>10, ReadKeeps DEF SaveTrack

\* The row of a part that was met, or a failure to save it.
LEMMA SavePartKeeps ==
    ASSUME AdminInv, NEW ok \in BOOLEAN, SavePart(ok)
    PROVE  AdminInv'
<1> USE AdminAssumption
<1> DEFINE m == Head(idx.todo)[1]
           p == Head(idx.todo)[2]
           msgs == IF ok THEN idx.msgs \cup {m} ELSE idx.msgs
<1>1. idx.keys \in SUBSET Key /\ idx.msgs \in SUBSET (1 .. MaxId) /\ p \in Part
  BY DEF AdminInv, IndexTypes, IndexState, SavePart
<1>2. idx' = [at |-> "save", end |-> idx.end, todo |-> Tail(idx.todo),
              keys |-> idx.keys, msgs |-> msgs]
  BY DEF AdminInv, IndexTypes, IndexState, SavePart
<1>3. /\ m \in 1 .. last /\ rows' = rows /\ last \in 0 .. MaxId
      /\ parts' = IF ok THEN Put(parts, p, m) ELSE parts
  BY Reading DEF SavePart, AdminInv, IndexTypes
<1>4. channel[m] \in {p, Gone} /\ (calm => channel[m] = p)
  BY Reading DEF AdminInv, BatchInv, CalmInv, SavePart
<1>5. calm => channel[Head(idx.todo)[1]] \notin Key
  BY <1>1, <1>4
<1> HIDE DEF m, p
<1>6. TablesOK(rows', parts')
  <2>1. CASE ok
    <3>1. /\ DOMAIN parts' = DOMAIN parts \cup {p} /\ parts'[p] = m
          /\ \A z \in DOMAIN parts : z # p => parts'[z] = parts[z]
      <4>1. parts' = Put(parts, p, m)
        BY <1>3, <2>1
      <4> QED BY <4>1 DEF Put
    <3> QED BY <1>1, <1>3, <1>4, <3>1 DEF AdminInv, TableInv, TablesOK
  <2>2. CASE ~ ok
    BY <1>3, <2>2 DEF AdminInv, TableInv
  <2> QED BY <2>1, <2>2
<1>8. calm => /\ \A z \in idx.keys : z \in DOMAIN rows' /\ channel[rows'[z]] = z
              /\ \A z \in msgs : channel[z] \in Part
  BY <1>1, <1>3, <1>4 DEF AdminInv, CalmInv, SavePart
<1>9. msgs \in SUBSET (1 .. MaxId)
  BY <1>1, <1>3
<1> HIDE DEF msgs
<1> QED BY <1>1, <1>2, <1>5, <1>6, <1>8, <1>9, ReadKeeps DEF SavePart

\* The next batch, or the end of the scan.
LEMMA BatchDoneKeeps ==
    ASSUME AdminInv, BatchDone
    PROVE  AdminInv'
<1> USE AdminAssumption
<1>1. /\ idx.at = "save" /\ idx.todo = <<>> /\ idx.end \in 1 .. last /\ last \in 0 .. MaxId
      /\ UNCHANGED <<channel, last, rows, parts, calm, rip, pend, del, offered, deleted, archive>>
  BY DEF AdminInv, IndexTypes, IndexState, BatchInv, BatchDone
<1>2. /\ idx'.todo = <<>> /\ idx'.keys = idx.keys /\ idx'.msgs = idx.msgs
      /\ \/ idx.end - Batch <= 0 /\ idx'.at = "prune" /\ idx'.end = idx.end
         \/ idx.end - Batch >= 1 /\ idx'.at = "fetch" /\ idx'.end = idx.end - Batch
  <2>1. CASE idx.end - (Batch - 1) <= 1
    BY <1>1, <2>1 DEF AdminInv, IndexTypes, IndexState, BatchDone
  <2>2. CASE ~ (idx.end - (Batch - 1) <= 1)
    <3>1. idx.end - Batch >= 1
      BY <1>1, <2>2
    <3> QED BY <1>1, <2>2, <3>1 DEF AdminInv, IndexTypes, IndexState, BatchDone
  <2> QED BY <2>1, <2>2
<1>3. idx' \in IndexState(last')
  <2>1. idx'.end \in 0 .. last
    BY <1>1, <1>2
  <2> QED BY <1>1, <1>2, <2>1 DEF AdminInv, IndexTypes, IndexState, IndexStage, BatchDone
<1>4. IndexTypes' /\ UnsentInv' /\ TableInv'
  BY <1>1, <1>3 DEF AdminInv, IndexTypes, UnsentInv, TableInv, TablesOK
<1>5. BatchInv'
  BY <1>1, <1>2 DEF BatchInv
<1>6. CalmInv'
  <2> SUFFICES ASSUME calm PROVE CalmInv'
    BY <1>1 DEF CalmInv
  <2>1. ASSUME NEW m \in 1 .. MaxId, m > idx.end - Batch PROVE Met(m)'
    <3>1. ~ ToRead(m)
      BY <1>1 DEF ToRead
    <3> QED BY <1>1, <1>2, <2>1, <3>1 DEF AdminInv, CalmInv, Met
  <2>2. idx.end - Batch <= 0 => \A m \in 1 .. MaxId : m > idx.end - Batch
    BY <1>1
  <2>3. CASE idx'.at = "prune"
    BY <1>1, <1>2, <2>1, <2>2, <2>3 DEF AdminInv, CalmInv
  <2>4. CASE idx'.at = "fetch"
    BY <1>1, <1>2, <2>1, <2>4 DEF AdminInv, CalmInv
  <2> QED BY <1>2, <2>3, <2>4
<1> QED BY <1>1, <1>4, <1>5, <1>6, TokenRests DEF AdminInv

\* delete_tracks_not_in.
LEMMA PruneTracksKeeps ==
    ASSUME AdminInv, PruneTracks
    PROVE  AdminInv'
<1>1. /\ idx.at = "prune"
      /\ UNCHANGED <<channel, last, parts, calm, rip, pend, del, offered, deleted, archive>>
      /\ DOMAIN rows' = DOMAIN rows \cap idx.keys
      /\ \A k \in DOMAIN rows' : rows'[k] = rows[k]
  BY DEF PruneTracks
<1>2. /\ idx'.at = "zips" /\ idx'.todo = idx.todo /\ idx'.keys = idx.keys
      /\ idx'.msgs = idx.msgs /\ idx'.end = idx.end /\ idx' \in IndexState(last')
  BY <1>1 DEF AdminInv, IndexTypes, IndexState, IndexStage, PruneTracks
<1>3. IndexTypes' /\ UnsentInv'
  BY <1>1, <1>2 DEF AdminInv, IndexTypes, UnsentInv
<1>4. TableInv'
  BY <1>1 DEF AdminInv, TableInv, TablesOK
<1>5. BatchInv'
  BY <1>1, <1>2 DEF AdminInv, BatchInv
<1>6. CalmInv'
  <2>1. calm => \A m \in 1 .. MaxId : Met(m)'
    BY <1>1, <1>2 DEF AdminInv, CalmInv, Met
  <2> QED BY <1>1, <1>2, <2>1 DEF AdminInv, CalmInv
<1> QED BY <1>1, <1>3, <1>4, <1>5, <1>6, TokenRests DEF AdminInv

\* The albums with a part that was not met.
LEMMA PruneAlbumsKeeps ==
    ASSUME AdminInv, NEW ok \in BOOLEAN, PruneAlbums(ok)
    PROVE  AdminInv'
<1>1. /\ idx.at = "zips" /\ calm' = (calm /\ ok)
      /\ UNCHANGED <<channel, last, rows, rip, pend, del, offered, deleted, archive>>
      /\ parts' = parts \/ parts' = <<>>
  BY DEF PruneAlbums
<1>2. /\ idx'.at = "done" /\ idx'.todo = idx.todo /\ idx'.keys = idx.keys
      /\ idx'.msgs = idx.msgs /\ idx'.end = idx.end /\ idx' \in IndexState(last')
  BY <1>1 DEF AdminInv, IndexTypes, IndexState, IndexStage, PruneAlbums
<1>3. DOMAIN <<>> = {}
  OBVIOUS
<1>4. IndexTypes' /\ UnsentInv'
  BY <1>1, <1>2 DEF AdminInv, IndexTypes, UnsentInv
<1>5. TableInv'
  BY <1>1, <1>3 DEF AdminInv, TableInv, TablesOK
<1>6. BatchInv'
  BY <1>1, <1>2 DEF AdminInv, BatchInv
<1>7. CalmInv'
  <2> SUFFICES ASSUME calm' PROVE CalmInv'
    BY DEF CalmInv
  <2>1. calm /\ ok
    BY <1>1
  <2>2. \A m \in 1 .. MaxId : Met(m)'
    BY <1>1, <1>2, <2>1 DEF AdminInv, CalmInv, Met
  <2>3. \A p \in DOMAIN parts' : parts'[p] \in idx'.msgs
    <3>1. CASE \E p \in DOMAIN parts : parts[p] \notin idx.msgs
      BY <1>3, <2>1, <3>1 DEF PruneAlbums
    <3>2. CASE \A p \in DOMAIN parts : parts[p] \in idx.msgs
      BY <1>2, <2>1, <3>2 DEF PruneAlbums
    <3> QED BY <3>1, <3>2
  <2> QED BY <1>1, <1>2, <2>1, <2>2, <2>3 DEF AdminInv, CalmInv
<1> QED BY <1>1, <1>4, <1>5, <1>6, <1>7, TokenRests DEF AdminInv

-----------------------------------------------------------------------------
(* The rip, and what replaces the tables. *)

\* A rip sends its message.
LEMMA PostKeeps ==
    ASSUME AdminInv, NEW k \in Key, Post(k)
    PROVE  AdminInv'
<1> USE AdminAssumption
<1>1. /\ last \in Nat /\ last' = last + 1 /\ last + 1 \in First .. MaxId
      /\ channel' = [channel EXCEPT ![last + 1] = k] /\ k \in Content
      /\ UNCHANGED <<rows, parts, idx, pend, del, offered, deleted, archive>>
      /\ calm' = FALSE
  BY DEF AdminInv, IndexTypes, Post, Content
<1>2. \A m \in 1 .. last : m \in 1 .. MaxId /\ channel'[m] = channel[m]
  BY <1>1 DEF AdminInv, IndexTypes
<1>3. IndexTypes'
  <2>1. channel' \in [1 .. MaxId -> Content]
    BY <1>1 DEF AdminInv, IndexTypes
  <2>2. rip'.key \in Key /\ rip'.id \in 1 .. last'
    BY <1>1 DEF Post
  <2>3. idx' \in IndexState(last')
    <3>1. idx.end \in 0 .. last + 1
      BY <1>1 DEF AdminInv, IndexTypes, IndexState
    <3>2. idx.todo \in Seq((1 .. last + 1) \X Content)
      <4>1. idx.todo \in Seq((1 .. last) \X Content)
        BY DEF AdminInv, IndexTypes, IndexState
      <4>2. (1 .. last) \X Content \subseteq (1 .. last + 1) \X Content
        BY <1>1
      <4> QED BY <4>1, <4>2
    <3> QED BY <1>1, <3>1, <3>2 DEF AdminInv, IndexTypes, IndexState
  <2> QED BY <1>1, <2>1, <2>2, <2>3 DEF IndexTypes
<1>4. UnsentInv'
  BY <1>1 DEF AdminInv, IndexTypes, UnsentInv
<1>5. \A r, p : TablesOK(r, p) => /\ DOMAIN r \subseteq Key /\ DOMAIN p \subseteq Part
                                /\ \A z \in DOMAIN r : r[z] \in 1 .. last'
                                /\ \A q \in DOMAIN p : /\ p[q] \in 1 .. last'
                                                       /\ channel'[p[q]] \in {q, Gone}
  BY <1>1, <1>2 DEF TablesOK
<1>6. TableInv'
  BY <1>1, <1>5 DEF AdminInv, TableInv, TablesOK
<1>7. BatchInv'
  <2>1. \A i \in 1 .. Len(idx.todo) : idx.todo[i][1] \in 1 .. last
    BY DEF AdminInv, IndexTypes, IndexState
  <2> QED BY <1>1, <1>2, <2>1 DEF AdminInv, BatchInv
<1>8. CalmInv'
  BY <1>1 DEF CalmInv
<1> QED BY <1>1, <1>3, <1>4, <1>6, <1>7, <1>8, TokenRests DEF AdminInv

\* A rip saves its row.
LEMMA SaveRowKeeps ==
    ASSUME AdminInv, SaveRow
    PROVE  AdminInv'
<1>1. /\ rip.key \in Key /\ rip.id \in 1 .. last /\ rip' = NoRip /\ calm' = FALSE
      /\ UNCHANGED <<channel, last, parts, idx, pend, del, offered, deleted, archive>>
  BY DEF AdminInv, IndexTypes, SaveRow
<1>2. /\ DOMAIN rows' = DOMAIN rows \cup {rip.key} /\ rows'[rip.key] = rip.id
      /\ \A k \in DOMAIN rows : k # rip.key => rows'[k] = rows[k]
  BY DEF SaveRow, Put
<1>3. IndexTypes' /\ UnsentInv' /\ BatchInv' /\ CalmInv'
  BY <1>1 DEF AdminInv, IndexTypes, UnsentInv, BatchInv, CalmInv
<1>4. TableInv'
  BY <1>1, <1>2 DEF AdminInv, TableInv, TablesOK
<1> QED BY <1>1, <1>3, <1>4, TokenRests DEF AdminInv

\* /export and /import.
LEMMA ArchiveKeeps ==
    ASSUME AdminInv, Export \/ Import
    PROVE  AdminInv'
<1>1. UNCHANGED <<channel, last, idx, rip, pend, del, offered, deleted>>
  BY DEF Export, Import
<1>2. CASE Export
  <2>1. UNCHANGED <<rows, parts, calm>> /\ archive' = <<[rows |-> rows, parts |-> parts]>>
    BY <1>2 DEF Export
  <2>2. archive'[1].rows = rows /\ archive'[1].parts = parts
    BY <2>1
  <2>3. TableInv'
    BY <1>1, <2>1, <2>2 DEF AdminInv, TableInv, TablesOK
  <2>4. IndexTypes' /\ UnsentInv' /\ BatchInv'
    BY <1>1, <2>1 DEF AdminInv, IndexTypes, UnsentInv, BatchInv
  <2>5. CalmInv'
    BY <1>1, <2>1 DEF AdminInv, CalmInv, Met, ToRead
  <2> QED BY <1>1, <2>3, <2>4, <2>5, TokenRests DEF AdminInv
<1>3. CASE Import
  <2>1. /\ archive # <<>> /\ rows' = archive[1].rows /\ parts' = archive[1].parts
        /\ calm' = FALSE /\ archive' = archive
    BY <1>3 DEF Import
  <2>2. TableInv'
    BY <1>1, <2>1 DEF AdminInv, TableInv, TablesOK
  <2>3. IndexTypes' /\ UnsentInv' /\ BatchInv' /\ CalmInv'
    BY <1>1, <2>1 DEF AdminInv, IndexTypes, UnsentInv, BatchInv, CalmInv
  <2> QED BY <1>1, <2>2, <2>3, TokenRests DEF AdminInv
<1> QED BY <1>2, <1>3

-----------------------------------------------------------------------------
(* The deletions. *)

\* A step that leaves the channel, the tables and the index alone, and a deletion that
\* begins ends the calm.
LEMMA IndexRests ==
    ASSUME AdminInv, UNCHANGED <<channel, last, rows, parts, idx, rip, archive>>,
           calm' = FALSE \/ (calm' = calm /\ (del = Nothing => del' = Nothing))
    PROVE  IndexTypes' /\ TableInv' /\ BatchInv' /\ UnsentInv' /\ CalmInv'
<1>1. IndexTypes' /\ TableInv' /\ BatchInv' /\ UnsentInv'
  BY DEF AdminInv, IndexTypes, TableInv, TablesOK, BatchInv, UnsentInv
<1>2. CASE calm' = FALSE
  BY <1>1, <1>2 DEF CalmInv
<1>3. CASE calm' = calm /\ (del = Nothing => del' = Nothing)
  BY <1>1, <1>3 DEF AdminInv, CalmInv, Met, ToRead
<1> QED BY <1>1, <1>2, <1>3

\* No deletion is in progress.
LEMMA NothingIs ==
    /\ Nothing \in DeleteState /\ Nothing.at = "idle" /\ Nothing.tok = Gone
    /\ Nothing.tok \notin Token
BY AdminAssumption DEF Nothing, DeleteState, DeleteStage

\* /delete shows a message and issues a token.
LEMMA DeleteCommandKeeps ==
    ASSUME AdminInv, NEW tok \in Token, NEW k \in Key, DeleteCommand(tok, k)
    PROVE  AdminInv'
<1> USE AdminAssumption
<1>1. /\ offered[tok] = 0 /\ k \in DOMAIN rows /\ rows[k] \in 1 .. MaxId
      /\ offered' = [offered EXCEPT ![tok] = rows[k]]
      /\ UNCHANGED <<channel, last, rows, parts, idx, calm, rip, del, deleted, archive>>
  BY DEF AdminInv, IndexTypes, TableInv, TablesOK, DeleteCommand
<1>2. /\ DOMAIN pend' = DOMAIN pend \cup {tok}
      /\ pend'[tok].track = TrackOf[k] /\ pend'[tok].msg = rows[k]
      /\ \A t \in DOMAIN pend : t # tok => pend'[t] = pend[t]
  BY DEF DeleteCommand, Put
<1>3. TrackOf[k] \in Track
  BY DEF Track
<1>4. /\ offered'[tok] = rows[k] /\ \A t \in Token : t # tok => offered'[t] = offered[t]
      /\ DOMAIN offered' = Token
  BY <1>1 DEF AdminInv, TokenInv
<1>5. TokenInv'
  BY <1>1, <1>2, <1>3, <1>4 DEF AdminInv, TokenInv
<1> QED BY <1>1, <1>5, IndexRests DEF AdminInv

\* A token is withdrawn.
LEMMA WithdrawKeeps ==
    ASSUME AdminInv, NEW tok \in Token, Withdraw(tok)
    PROVE  AdminInv'
<1>1. UNCHANGED <<channel, last, rows, parts, idx, calm, rip, del, offered, deleted, archive>>
  BY DEF Withdraw
<1>2. /\ DOMAIN pend' = DOMAIN pend \ {tok}
      /\ \A t \in DOMAIN pend' : pend'[t] = pend[t]
  BY DEF Withdraw, Without
<1>3. TokenInv'
  BY <1>1, <1>2 DEF AdminInv, TokenInv
<1> QED BY <1>1, <1>3, IndexRests DEF AdminInv

\* The confirmation takes the token.
LEMMA ConfirmKeeps ==
    ASSUME AdminInv, NEW tok \in Token, Confirm(tok)
    PROVE  AdminInv'
<1>1. /\ UNCHANGED <<channel, last, rows, parts, idx, rip, offered, deleted, archive>>
      /\ calm' = FALSE
  BY DEF Confirm
<1>2. /\ DOMAIN pend' = DOMAIN pend \ {tok}
      /\ \A t \in DOMAIN pend' : pend'[t] = pend[t]
  BY DEF Confirm, Without
<1>3. /\ pend[tok].track \in Track /\ pend[tok].msg = offered[tok]
      /\ offered[tok] \in 1 .. MaxId
  BY DEF Confirm, AdminInv, TokenInv
<1>4. /\ del'.at = "lookup" /\ del'.tok = tok /\ del'.msg = offered[tok]
      /\ del' \in DeleteState
  <2>1. del' = [at |-> "lookup", tok |-> tok, key |-> pend[tok].track, msg |-> offered[tok]]
    BY <1>3 DEF Confirm
  <2>2. offered[tok] \in 0 .. MaxId /\ "lookup" \in DeleteStage
    BY <1>3, AdminAssumption DEF DeleteStage
  <2> QED BY <1>3, <2>1, <2>2 DEF DeleteState
<1>5. TokenInv'
  BY <1>1, <1>2, <1>3, <1>4, AdminAssumption DEF AdminInv, TokenInv
<1> QED BY <1>1, <1>5, IndexRests DEF AdminInv

\* The row that is looked up must be of the message that was shown.
LEMMA LookupKeeps ==
    ASSUME AdminInv, Lookup
    PROVE  AdminInv'
<1> USE AdminAssumption
<1>1. /\ del.at = "lookup" /\ del # Nothing
      /\ UNCHANGED <<channel, last, rows, parts, idx, calm, rip, pend, offered, deleted, archive>>
  BY NothingIs DEF Lookup
<1>2. TokenInv'
  <2>1. CASE del' = Nothing
    BY <1>1, <2>1, NothingIs DEF AdminInv, TokenInv
  <2>2. CASE \E k \in DOMAIN rows : /\ rows[k] = del.msg
                                    /\ del' = [del EXCEPT !.at = "message", !.key = k, !.msg = rows[k]]
    <3>1. PICK k \in DOMAIN rows :
                 /\ rows[k] = del.msg
                 /\ del' = [del EXCEPT !.at = "message", !.key = k, !.msg = rows[k]]
      BY <2>2
    <3>2. k \in Key /\ rows[k] \in 1 .. MaxId
      BY <3>1 DEF AdminInv, IndexTypes, TableInv, TablesOK
    <3>3. /\ del'.tok = del.tok /\ del'.msg = del.msg /\ del'.at = "message"
          /\ del' \in DeleteState
      BY <3>1, <3>2 DEF AdminInv, TokenInv, DeleteState, DeleteStage
    <3> QED BY <1>1, <3>1, <3>2, <3>3 DEF AdminInv, TokenInv
  <2> QED BY <2>1, <2>2 DEF Lookup, Matches
<1> QED BY <1>1, <1>2, IndexRests DEF AdminInv

\* The deletion of a reported track.
LEMMA ReportDeleteKeeps ==
    ASSUME AdminInv, NEW track \in Track, ReportDelete(track)
    PROVE  AdminInv'
<1> USE AdminAssumption
<1>1. /\ UNCHANGED <<channel, last, rows, parts, idx, rip, pend, offered, deleted, archive>>
      /\ calm' = FALSE
  BY DEF ReportDelete
<1>2. PICK k \in DOMAIN rows :
             del' = [at |-> "message", tok |-> Gone, key |-> k, msg |-> rows[k]]
  BY DEF ReportDelete
<1>3. k \in Key /\ rows[k] \in 1 .. MaxId
  BY <1>2 DEF AdminInv, IndexTypes, TableInv, TablesOK
<1>4. /\ del' \in DeleteState /\ del'.tok \notin Token /\ del'.msg \in 1 .. MaxId
      /\ del'.at = "message"
  BY <1>2, <1>3 DEF DeleteState, DeleteStage
<1>5. TokenInv'
  BY <1>1, <1>4 DEF AdminInv, TokenInv
<1> QED BY <1>1, <1>5, IndexRests DEF AdminInv

\* The message is deleted.
LEMMA DeleteMessageKeeps ==
    ASSUME AdminInv, DeleteMessage
    PROVE  AdminInv'
<1> USE AdminAssumption
<1>1. /\ del.at = "message" /\ del # Nothing
      /\ UNCHANGED <<last, rows, parts, idx, calm, rip, pend, offered, archive>>
      /\ channel' = [channel EXCEPT ![del.msg] = Gone]
  BY NothingIs DEF DeleteMessage
<1>2. /\ channel' \in [1 .. MaxId -> Content]
      /\ \A m \in 1 .. MaxId : channel'[m] \in {channel[m], Gone}
  BY <1>1 DEF AdminInv, IndexTypes, Content
<1>3. IndexTypes' /\ UnsentInv'
  BY <1>1, <1>2 DEF AdminInv, IndexTypes, UnsentInv
<1>4. last \in Nat /\ \A m \in 1 .. last : channel'[m] \in {channel[m], Gone}
  BY <1>2 DEF AdminInv, IndexTypes
<1>5. TableInv'
  BY <1>1, <1>4 DEF AdminInv, TableInv, TablesOK
<1>6. BatchInv'
  <2>1. \A i \in 1 .. Len(idx.todo) : idx.todo[i][1] \in 1 .. last
    BY DEF AdminInv, IndexTypes, IndexState
  <2> QED BY <1>1, <1>4, <2>1 DEF AdminInv, BatchInv
<1>7. CalmInv'
  BY <1>1 DEF AdminInv, CalmInv
<1>8. TokenInv'
  <2>1. /\ del'.tok = del.tok /\ del'.msg = del.msg /\ del'.at \in {"row", "rows"}
        /\ del' \in DeleteState
    BY DEF AdminInv, TokenInv, DeleteState, DeleteStage, DeleteMessage
  <2>2. CASE del.tok = Gone
    BY <1>1, <2>1, <2>2 DEF AdminInv, TokenInv, DeleteMessage
  <2>3. CASE del.tok # Gone
    <3>1. del.tok \in Token
      BY <2>3 DEF AdminInv, TokenInv, DeleteState
    <3>2. /\ DOMAIN deleted' = Token /\ deleted'[del.tok] = deleted[del.tok] \cup {del.msg}
          /\ \A t \in Token : t # del.tok => deleted'[t] = deleted[t]
      BY <2>3, <3>1 DEF AdminInv, TokenInv, DeleteMessage
    <3> QED BY <1>1, <2>1, <3>1, <3>2 DEF AdminInv, TokenInv
  <2> QED BY <2>2, <2>3
<1> QED BY <1>3, <1>5, <1>6, <1>7, <1>8 DEF AdminInv

\* The rows are deleted, or the deletion fails.
LEMMA DeleteEndsKeeps ==
    ASSUME AdminInv, DeleteRows \/ DeleteFails
    PROVE  AdminInv'
<1>1. /\ del' = Nothing /\ del # Nothing
      /\ UNCHANGED <<channel, last, parts, idx, calm, rip, pend, offered, deleted, archive>>
      /\ DOMAIN rows' \subseteq DOMAIN rows /\ \A k \in DOMAIN rows' : rows'[k] = rows[k]
  BY NothingIs DEF DeleteRows, DeleteFails, Without
<1>2. IndexTypes' /\ UnsentInv' /\ BatchInv'
  BY <1>1 DEF AdminInv, IndexTypes, UnsentInv, BatchInv
<1>3. TableInv'
  BY <1>1 DEF AdminInv, TableInv, TablesOK
<1>4. CalmInv'
  BY <1>1 DEF AdminInv, CalmInv
<1>5. TokenInv'
  BY <1>1, NothingIs DEF AdminInv, TokenInv
<1> QED BY <1>2, <1>3, <1>4, <1>5 DEF AdminInv

-----------------------------------------------------------------------------
\* AdminInv holds throughout: what the index has met, what a token stands for and what
\* the tables speak of, whoever else writes (index.rs, delete.rs, report.rs, backup.rs).
THEOREM AdminInvariant == AdminSpec => []AdminInv
<1>1. AdminInv /\ [AdminNext]_adminVars => AdminInv'
  <2> SUFFICES ASSUME AdminInv, [AdminNext]_adminVars PROVE AdminInv'
    OBVIOUS
  <2>1. CASE UNCHANGED adminVars
    BY <2>1, IndexRests, TokenRests DEF adminVars, AdminInv
  <2>2. CASE Index
    BY <2>2, IndexStartKeeps, FetchKeeps, IndexEndsKeeps, SkipMessageKeeps, SaveTrackKeeps,
       BatchDoneKeeps, PruneTracksKeeps, SavePartKeeps, PruneAlbumsKeeps DEF Index
  <2>3. CASE Delete
    BY <2>3, WithdrawKeeps, ConfirmKeeps, DeleteCommandKeeps, LookupKeeps,
       DeleteMessageKeeps, DeleteEndsKeeps, ReportDeleteKeeps DEF Delete
  <2>4. CASE Export \/ Import
    BY <2>4, ArchiveKeeps
  <2>5. CASE SaveRow
    BY <2>5, SaveRowKeeps
  <2>6. CASE \E k \in Key : Post(k)
    BY <2>6, PostKeeps
  <2> QED BY <2>1, <2>2, <2>3, <2>4, <2>5, <2>6 DEF AdminNext
<1> QED BY <1>1, InitAdminInv, PTL DEF AdminSpec

\* An undisturbed /index leaves the tables as the channel is, and a confirmation deletes
\* no other message than the one that was shown (index.rs, delete.rs).
THEOREM CacheAdminIsExactAlways == AdminSpec => []CacheAdminIsExact
<1>1. AdminInv => CacheAdminIsExact
  <2> SUFFICES ASSUME AdminInv PROVE CacheAdminIsExact
    OBVIOUS
  <2> USE AdminAssumption
  <2>1. last \in 0 .. MaxId /\ \A m \in 1 .. last : m \in 1 .. MaxId
    BY DEF AdminInv, IndexTypes
  <2>2. AdminTypeOK
    BY <2>1 DEF AdminInv, IndexTypes, IndexState, IndexStage, TableInv, TablesOK, TokenInv,
       DeleteState, DeleteStage, AdminTypeOK
  <2>3. IndexReconciles
    <3> SUFFICES ASSUME idx.at = "done", calm
                 PROVE  /\ DOMAIN rows = Key \cap {channel[m] : m \in 1 .. MaxId}
                        /\ \A k \in DOMAIN rows : channel[rows[k]] = k
                        /\ \A p \in DOMAIN parts : channel[parts[p]] = p
      BY DEF IndexReconciles
    <3>1. \A k \in DOMAIN rows : k \in Key /\ rows[k] \in 1 .. MaxId /\ channel[rows[k]] = k
      BY <2>1 DEF AdminInv, CalmInv, TableInv, TablesOK
    <3>2. ASSUME NEW m \in 1 .. MaxId, channel[m] \in Key PROVE channel[m] \in DOMAIN rows
      BY <3>2 DEF AdminInv, CalmInv, Met
    <3>3. ASSUME NEW p \in DOMAIN parts PROVE channel[parts[p]] = p
      BY DEF AdminInv, CalmInv, TableInv, TablesOK
    <3>4. DOMAIN rows = Key \cap {channel[m] : m \in 1 .. MaxId}
      <4>1. ASSUME NEW k \in DOMAIN rows PROVE k \in Key \cap {channel[m] : m \in 1 .. MaxId}
        BY <3>1
      <4>2. ASSUME NEW k \in Key \cap {channel[m] : m \in 1 .. MaxId} PROVE k \in DOMAIN rows
        BY <3>2
      <4> QED BY <4>1, <4>2
    <3> QED BY <3>1, <3>3, <3>4
  <2>4. ConfirmedIsWhatWasShown
    BY DEF AdminInv, TokenInv, ConfirmedIsWhatWasShown
  <2> QED BY <2>2, <2>3, <2>4 DEF CacheAdminIsExact
<1> QED BY <1>1, AdminInvariant, PTL
=============================================================================
