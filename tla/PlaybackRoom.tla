---------------------------- MODULE PlaybackRoom ----------------------------
(***************************************************************************)
(* One user's playback room (crates/server/src/playback_sync.rs): the      *)
(* devices that said hello, the active device, the last reported snapshot, *)
(* and, on every WebSocket connection, the feed of rip-task events.        *)
(*                                                                         *)
(* The room's mutex makes every client message one step.  The task events  *)
(* come through a tokio broadcast channel: a connection that falls more    *)
(* than Capacity events behind loses the oldest ones and learns only that  *)
(* it lagged.  The registry and the channel are not changed together: a    *)
(* task is put, changed or dropped first and announced in a later step, by *)
(* whoever changed it, so that announcements may overtake each other.  An  *)
(* id may be registered again: progress of a job registers bot_<job> when  *)
(* it finds no task.  Room broadcasts and their payloads are left out.     *)
(***************************************************************************)
EXTENDS Integers, Sequences, FiniteSets

CONSTANTS
    Conn,        \* WebSocket connections of the user
    Device,      \* device ids their clients may claim
    None,        \* no device
    Task,        \* ids of rip tasks
    MaxPuts,     \* a bound on the registrations of an id
    Capacity     \* of the task_sync channel

\* None is neither a connection nor a device, and the channel holds an event.
ASSUME RoomAssumption ==
    /\ None \notin Conn \cup Device
    /\ Capacity \in Nat \ {0} /\ MaxPuts \in Nat

VARIABLES
    up,          \* a connection: new, open, closed
    mine,        \* my_device_id of a connection
    devices,     \* room.devices
    owner,       \* room.device_connections
    claim,       \* history: the connection that said hello as a device last
    active,      \* room.active_device_id
    snapshot,    \* the device whose state is room.latest_snapshot
    session,     \* the connection's session is still valid
    registry,    \* the task registry: ids registered now
    puts,        \* how often an id was registered
    unsent,      \* events about to be broadcast, and the registration they are about
    hidden,      \* history: ids whose last broadcast was the removal of an earlier
                 \* registration
    feed,        \* the connection's unread task events
    lagged,      \* the receiver skipped events it has not been told of
    view         \* tasks the client shows

vars == <<up, mine, devices, owner, claim, active, snapshot, session, registry, puts,
          unsent, hidden, feed, lagged, view>>
roomVars == <<devices, owner, claim, active, snapshot>>
taskVars == <<registry, puts, unsent, hidden>>
feedVars == <<feed, lagged, view>>

Event == [kind: {"updated", "dismissed"}, task: Task]
Notice == [kind: {"updated", "dismissed"}, task: Task, put: 1 .. MaxPuts]
Open == {c \in Conn : up[c] = "open"}

TypeOK ==
    /\ up \in [Conn -> {"new", "open", "closed"}]
    /\ mine \in [Conn -> Device \cup {None}]
    /\ devices \subseteq Device
    /\ owner \in [Device -> Conn \cup {None}] /\ claim \in [Device -> Conn \cup {None}]
    /\ active \in Device \cup {None} /\ snapshot \in Device \cup {None}
    /\ session \in [Conn -> BOOLEAN]
    /\ registry \subseteq Task /\ hidden \subseteq Task
    /\ puts \in [Task -> 0 .. MaxPuts]
    /\ unsent \subseteq Notice
    /\ \A c \in Conn : Len(feed[c]) <= Capacity /\ \A n \in DOMAIN feed[c] : feed[c][n] \in Event
    /\ lagged \in [Conn -> BOOLEAN]
    /\ view \in [Conn -> SUBSET Task]

Init ==
    /\ up = [c \in Conn |-> "new"]
    /\ mine = [c \in Conn |-> None]
    /\ devices = {} /\ owner = [d \in Device |-> None] /\ claim = [d \in Device |-> None]
    /\ active = None /\ snapshot = None
    /\ session = [c \in Conn |-> TRUE]
    /\ registry = {} /\ puts = [t \in Task |-> 0] /\ unsent = {} /\ hidden = {}
    /\ feed = [c \in Conn |-> <<>>]
    /\ lagged = [c \in Conn |-> FALSE]
    /\ view = [c \in Conn |-> {}]

-----------------------------------------------------------------------------
(* The connection and the room. *)

\* ws_handler accepts the token and handle_socket subscribes to the feed.
Connect(c) ==
    /\ up[c] = "new" /\ session[c]
    /\ up' = [up EXCEPT ![c] = "open"]
    /\ UNCHANGED <<mine, roomVars, session, taskVars, feedVars>>

\* Mutant: whoever leaves takes the device along, also when it was claimed since.
RemoveAnyConnection(d, c) ==
    /\ devices' = devices \ {d}
    /\ owner' = [owner EXCEPT ![d] = None]

\* remove_device_connection: only the connection that claimed the device last.
RemoveDeviceConnection(d, c) ==
    IF owner[d] # c THEN UNCHANGED <<devices, owner>>
    ELSE /\ devices' = devices \ {d}
         /\ owner' = [owner EXCEPT ![d] = None]

\* Hello: the connection may change its device; the first device is active.  The
\* client is sent the registered tasks.
Hello(c, d) ==
    /\ c \in Open
    /\ mine' = [mine EXCEPT ![c] = d]
    /\ LET left == IF mine[c] \notin {None, d} /\ owner[mine[c]] = c THEN {mine[c]} ELSE {} IN
       /\ devices' = (devices \ left) \cup {d}
       /\ owner' = [x \in Device |-> IF x = d THEN c ELSE IF x \in left THEN None ELSE owner[x]]
    /\ claim' = [claim EXCEPT ![d] = c]
    /\ active' = IF active = None THEN d ELSE active
    /\ view' = [view EXCEPT ![c] = registry]
    /\ UNCHANGED <<up, snapshot, session, taskVars, feed, lagged>>

\* ReportState counts only from the active device.
ReportState(c) ==
    /\ c \in Open
    /\ mine[c] # None /\ mine[c] = active
    /\ snapshot' = mine[c]
    /\ UNCHANGED <<up, mine, devices, owner, claim, active, session, taskVars, feedVars>>

\* TransferPlayback takes any device id.
TransferPlayback(c, d) ==
    /\ c \in Open
    /\ active' = d
    /\ UNCHANGED <<up, mine, devices, owner, claim, snapshot, session, taskVars, feedVars>>

\* The loop of handle_socket ends (closed, failed, or session gone): the device
\* leaves unless another connection has it, and hands on the playback.
Leave(c) ==
    /\ up' = [up EXCEPT ![c] = "closed"]
    /\ IF mine[c] = None THEN UNCHANGED roomVars
       ELSE /\ RemoveDeviceConnection(mine[c], c)
            /\ IF owner[mine[c]] = c /\ active = mine[c]
               THEN IF devices' = {} THEN active' = None ELSE active' \in devices'
               ELSE UNCHANGED active
            /\ UNCHANGED <<claim, snapshot>>
    /\ UNCHANGED <<mine, session, taskVars, feedVars>>

Disconnect(c) == c \in Open /\ Leave(c)
AuthRecheck(c) == c \in Open /\ ~ session[c] /\ Leave(c)

\* The session is revoked elsewhere.
Revoke(c) ==
    /\ session[c]
    /\ session' = [session EXCEPT ![c] = FALSE]
    /\ UNCHANGED <<up, mine, roomVars, taskVars, feedVars>>

-----------------------------------------------------------------------------
(* The task feed. *)

\* A task is inserted, changed, or removed, under the registry's lock.
PutTask(t) ==
    /\ t \notin registry /\ puts[t] < MaxPuts
    /\ registry' = registry \cup {t}
    /\ puts' = [puts EXCEPT ![t] = @ + 1]
    /\ unsent' = unsent \cup {[kind |-> "updated", task |-> t, put |-> puts[t] + 1]}
    /\ UNCHANGED <<up, mine, roomVars, session, hidden, feedVars>>

UpdateTask(t) ==
    /\ t \in registry
    /\ unsent' = unsent \cup {[kind |-> "updated", task |-> t, put |-> puts[t]]}
    /\ UNCHANGED <<up, mine, roomVars, session, registry, puts, hidden, feedVars>>

DropTask(t) ==
    /\ t \in registry
    /\ registry' = registry \ {t}
    /\ unsent' = unsent \cup {[kind |-> "dismissed", task |-> t, put |-> puts[t]]}
    /\ UNCHANGED <<up, mine, roomVars, session, puts, hidden, feedVars>>

\* What a notice says; the clients are not told which registration it is about.
Said(u) == [kind |-> u.kind, task |-> u.task]

\* task_sync_tx.send: every open connection receives the event; a full receiver
\* loses its oldest.
Broadcast(u) ==
    /\ u \in unsent
    /\ unsent' = unsent \ {u}
    /\ hidden' = IF u.kind = "updated" THEN hidden \ {u.task}
                 ELSE hidden \cup ({u.task} \cap registry)
    /\ feed' = [c \in Conn |->
                  IF c \notin Open THEN feed[c]
                  ELSE Append(IF Len(feed[c]) = Capacity THEN Tail(feed[c]) ELSE feed[c],
                              Said(u))]
    /\ lagged' = [c \in Conn |-> lagged[c] \/ (c \in Open /\ Len(feed[c]) = Capacity)]
    /\ UNCHANGED <<up, mine, roomVars, session, registry, puts, view>>

\* Lagged: the whole registry is sent instead of what was lost.
RecvLagged(c) ==
    /\ c \in Open /\ lagged[c]
    /\ lagged' = [lagged EXCEPT ![c] = FALSE]
    /\ view' = IF mine[c] = None THEN view ELSE [view EXCEPT ![c] = registry]
    /\ UNCHANGED <<up, mine, roomVars, session, taskVars, feed>>

\* Updated is sent with the task as it is now, or not at all when it is gone; a
\* connection that has not said hello is told nothing.
RecvTaskEvent(c) ==
    /\ c \in Open /\ ~ lagged[c] /\ feed[c] # <<>>
    /\ feed' = [feed EXCEPT ![c] = Tail(@)]
    /\ LET e == Head(feed[c]) IN
       view' = IF mine[c] = None THEN view
               ELSE IF e.kind = "dismissed" THEN [view EXCEPT ![c] = @ \ {e.task}]
               ELSE [view EXCEPT ![c] = @ \cup ({e.task} \cap registry)]
    /\ UNCHANGED <<up, mine, roomVars, session, taskVars, lagged>>

Next ==
    \/ \E c \in Conn : \/ Connect(c) \/ ReportState(c) \/ Disconnect(c) \/ AuthRecheck(c)
                       \/ Revoke(c) \/ RecvLagged(c) \/ RecvTaskEvent(c)
    \/ \E c \in Conn, d \in Device : Hello(c, d) \/ TransferPlayback(c, d)
    \/ \E t \in Task : PutTask(t) \/ UpdateTask(t) \/ DropTask(t)
    \/ \E u \in Notice : Broadcast(u)

Spec == Init /\ [][Next]_vars

-----------------------------------------------------------------------------

\* A device is listed exactly while the connection that claimed it last is open:
\* a client that reconnects before its old connection is noticed to be dead keeps
\* its place when the old one is cleaned up (remove_device_connection).
NoGhostDevice ==
    \A d \in Device :
        d \in devices <=> /\ claim[d] # None
                         /\ claim[d] \in Open
                         /\ mine[claim[d]] = d

\* A client that said hello, has read its feed and has nothing more to be sent.
Settled(c) == mine[c] # None /\ feed[c] = <<>> /\ ~ lagged[c] /\ unsent = {}

\* Once it has read its feed, a client that said hello shows no task that is gone,
\* and every registered one but those whose last broadcast was the late removal of
\* an earlier registration; however many events it lost, and whatever was put,
\* changed or dropped between its subscription, its hello and the broadcasts
\* (handle_socket, task_rx.recv).
TaskFeedConverges ==
    \A c \in Open : Settled(c) => /\ view[c] \subseteq registry
                                  /\ registry \ view[c] \subseteq hidden

\* The same without the exception.  The code does not guarantee it: cancel_task of
\* rip_task_rpc.rs sends Dismissed after it has let go of the registry, and when
\* progress of the job registers the task again in between, the clients hide it.
TaskFeedExact == \A c \in Open : Settled(c) => view[c] = registry

\* What the clients of a room are told is what the server holds, across
\* reconnects and lost events (playback_sync.rs).
RoomAgrees ==
    TypeOK /\ NoGhostDevice /\ TaskFeedConverges
=============================================================================
