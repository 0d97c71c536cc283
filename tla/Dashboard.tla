------------------------------ MODULE Dashboard ------------------------------
(***************************************************************************)
(* The bot's status dashboards: the event bridge (crates/bot/src/          *)
(* event_bridge.rs), the job contexts it keeps (dashboard_map.rs), the     *)
(* dashboard manager (dashboard.rs) and the commands and buttons that use  *)
(* it (callbacks.rs, handlers/status.rs, handlers/mod.rs).                 *)
(*                                                                         *)
(* The orchestrator's events reach the bridge through a bounded channel.   *)
(* The bridge's task and a user's handler both open and edit dashboards;   *)
(* the manager's lock is not held across a request to Telegram, so every   *)
(* request is a step of its own.  What a message shows is the set of jobs  *)
(* it was rendered from; counts, lanes, the page that is displayed and the *)
(* viewer's permissions are left out.                                      *)
(***************************************************************************)
EXTENDS Integers, Sequences, FiniteSets

CONSTANTS
    Job,
    Chat,
    ChatOf,      \* the chat that asked for the job, a function on Job
    NoChat,      \* chat_id <= 0: asked for by a client of the server
    Buffer,      \* EVENT_BUFFER, 256
    MaxMessages, \* bound on the messages sent
    MaxProgress, \* bound on the progress events
    MaxRequests, \* bound on the commands and buttons of the user
    Failures     \* whether requests to Telegram may fail

\* A job is asked for in a chat or in none, and there is room for an event.
ASSUME DashAssumption ==
    /\ ChatOf \in [Job -> Chat \cup {NoChat}] /\ NoChat \notin Chat
    /\ Buffer \in Nat \ {0} /\ MaxMessages \in Nat /\ MaxProgress \in Nat
    /\ MaxRequests \in Nat /\ Failures \in BOOLEAN

VARIABLES
    phase,       \* the orchestrator's job, see Phase
    progressed,  \* progress events emitted
    chan,        \* the channel: [type, job]
    late,        \* terminal events whose sender waits for room in the channel
    batch,       \* the bridge's batch of Created events: [open, created]
    events,      \* the events the bridge has taken and not handled
    contexts,    \* JobContexts: the jobs remembered
    actor,       \* what the bridge and the user's handler are doing
    entries,     \* DashboardManager::entries
    shown,       \* Telegram: the messages, each with the jobs it shows
    sent,        \* messages sent, the next id
    stray,       \* history: messages whose deletion failed
    requests     \* commands and buttons used

dashVars == <<phase, progressed, chan, late, batch, events, contexts, actor, entries, shown,
              sent, stray, requests>>
bridgeVars == <<phase, progressed, chan, late, batch, events, contexts>>

Actor == {"bridge", "user"}
\* A job that ends is "ending", or "leaving" when it does not wait for its uploads
\* (it was cancelled, or lane one panicked), from the moment completed is set until
\* its terminal event is emitted.  One that left is "tardy" when it has reported
\* progress after that.
Phase == {"new", "active", "ending", "over", "leaving", "left", "tardy"}
Active == {j \in Job : phase[j] = "active"}
Tardy == {j \in Job : phase[j] = "tardy"}
JobEvent == [type: {"created", "progress", "terminal"}, job: Job]
Edit == [chat: Chat, id: 1 .. MaxMessages, text: SUBSET Job]
Entry == [id: 1 .. MaxMessages, snap: SUBSET Job, empty: BOOLEAN, due: BOOLEAN,
          flood: BOOLEAN]
Idle == [at |-> "idle", snap |-> {}, force |-> FALSE, chats |-> {}, edits |-> {},
         chat |-> NoChat, old |-> 0]

ActorState == [at: {"idle", "chats", "open", "refresh", "edits", "delete"},
               snap: SUBSET Job, force: BOOLEAN, chats: SUBSET Chat, edits: SUBSET Edit,
               chat: Chat \cup {NoChat}, old: 0 .. MaxMessages]

DashTypeOK ==
    /\ phase \in [Job -> Phase]
    /\ progressed \in 0 .. MaxProgress
    /\ chan \in Seq(JobEvent) /\ Len(chan) <= Buffer
    /\ late \subseteq JobEvent
    /\ batch \in [open: BOOLEAN, created: SUBSET Job]
    /\ events \in Seq(JobEvent)
    /\ contexts \subseteq Job
    /\ actor \in [Actor -> ActorState]
    /\ DOMAIN entries \subseteq Chat /\ \A c \in DOMAIN entries : entries[c] \in Entry
    /\ sent \in 0 .. MaxMessages /\ requests \in 0 .. MaxRequests
    /\ DOMAIN shown \subseteq 1 .. sent /\ stray \subseteq 1 .. sent

DashInit ==
    /\ phase = [j \in Job |-> "new"] /\ progressed = 0
    /\ chan = <<>> /\ late = {} /\ batch = [open |-> FALSE, created |-> {}] /\ events = <<>>
    /\ contexts = {}
    /\ actor = [a \in Actor |-> Idle]
    /\ entries = <<>> /\ shown = <<>> /\ sent = 0 /\ stray = {} /\ requests = 0

With(f, x, y) == [z \in DOMAIN f \cup {x} |-> IF z = x THEN y ELSE f[z]]
Become(a, rec) == actor' = [actor EXCEPT ![a] = rec]

-----------------------------------------------------------------------------
(* The orchestrator and the bridge's subscriber. *)

\* Mutant of Publish: no task for a terminal event.
PublishOrDrop(e) ==
    /\ chan' = IF Len(chan) < Buffer THEN Append(chan, e) ELSE chan
    /\ UNCHANGED late

\* start: a full channel drops an event that is not terminal, and hands a
\* terminal one to a task that waits for room.
Publish(e) ==
    IF Len(chan) < Buffer
    THEN chan' = Append(chan, e) /\ UNCHANGED late
    ELSE /\ late' = IF e.type = "terminal" THEN late \cup {e} ELSE late
         /\ UNCHANGED chan

Created(j) ==
    /\ phase[j] = "new"
    /\ phase' = [phase EXCEPT ![j] = "active"]
    /\ Publish([type |-> "created", job |-> j])
    /\ UNCHANGED <<progressed, batch, events, contexts, actor, entries, shown, sent, stray,
                   requests>>

\* Started and Progress are treated alike.  emit_progress does not look whether the
\* job has ended: uploads that a job left behind report still.
Progress(j) ==
    /\ phase[j] \in {"active", "leaving", "left", "tardy"}
    /\ progressed < MaxProgress
    /\ progressed' = progressed + 1
    /\ phase' = [phase EXCEPT ![j] = IF @ = "left" THEN "tardy" ELSE @]
    /\ Publish([type |-> "progress", job |-> j])
    /\ UNCHANGED <<batch, events, contexts, actor, entries, shown, sent, stray,
                   requests>>

\* terminalize: completed is set under the job's lock, the event emitted after it.
Completes(j) ==
    /\ phase[j] = "active"
    /\ \E p \in {"ending", "leaving"} : phase' = [phase EXCEPT ![j] = p]
    /\ UNCHANGED <<progressed, chan, late, batch, events, contexts, actor, entries, shown,
                   sent, stray, requests>>

EmitTerminal(j) ==
    /\ phase[j] \in {"ending", "leaving"}
    /\ phase' = [phase EXCEPT ![j] = IF @ = "ending" THEN "over" ELSE "left"]
    /\ Publish([type |-> "terminal", job |-> j])
    /\ UNCHANGED <<progressed, batch, events, contexts, actor, entries, shown, sent, stray,
                   requests>>

SendLate(e) ==
    /\ e \in late /\ Len(chan) < Buffer
    /\ late' = late \ {e}
    /\ chan' = Append(chan, e)
    /\ UNCHANGED <<phase, progressed, batch, events, contexts, actor, entries, shown, sent,
                   stray, requests>>

-----------------------------------------------------------------------------
(* consume: the bridge's task. *)

\* A Created event opens a batch; while it is open, Created events join it
\* and the others are kept for later.
Receive ==
    /\ actor["bridge"] = Idle /\ chan # <<>> /\ (batch.open \/ events = <<>>)
    /\ LET e == Head(chan) IN
       IF e.type = "created"
       THEN /\ batch' = [open |-> TRUE, created |-> batch.created \cup {e.job}]
            /\ UNCHANGED events
       ELSE /\ events' = Append(events, e)
            /\ UNCHANGED batch
    /\ chan' = Tail(chan)
    /\ UNCHANGED <<phase, progressed, late, contexts, actor, entries, shown, sent, stray,
                   requests>>

\* The quiet period is over: the contexts are remembered, the snapshot is
\* taken, and the chats of the batch are next.
BatchEnds ==
    /\ actor["bridge"] = Idle /\ batch.open
    /\ batch' = [open |-> FALSE, created |-> {}]
    /\ contexts' = contexts \cup batch.created \cup {events[i].job : i \in DOMAIN events}
    /\ LET chats == {ChatOf[j] : j \in batch.created} \ {NoChat} IN
       Become("bridge", IF chats = {} THEN Idle
                        ELSE [Idle EXCEPT !.at = "chats", !.snap = Active, !.chats = chats])
    /\ UNCHANGED <<phase, progressed, chan, late, events, entries, shown, sent, stray,
                   requests>>

\* handle_event, to the snapshot: remember, and for a terminal event forget;
\* the announcement of a completed job changes nothing here.
HandleEvent ==
    /\ actor["bridge"] = Idle /\ ~ batch.open /\ events # <<>>
    /\ LET e == Head(events) IN
       /\ contexts' = IF e.type = "terminal" THEN contexts \ {e.job} ELSE contexts \cup {e.job}
       /\ Become("bridge", [Idle EXCEPT !.at = "refresh", !.snap = Active,
                                        !.force = e.type = "terminal"])
    /\ events' = Tail(events)
    /\ UNCHANGED <<phase, progressed, chan, late, batch, entries, shown, sent, stray,
                   requests>>

-----------------------------------------------------------------------------
(* The dashboard manager, for either actor. *)

\* What an actor does after a chat or an edit: the other chats or edits.
Continue(a, rest) ==
    Become(a, IF rest.edits # {} THEN [rest EXCEPT !.at = "edits"]
              ELSE IF rest.chats # {} THEN [rest EXCEPT !.at = "chats"] ELSE Idle)

\* refresh_entry_from, to the edit; what a flood-limited entry shows is left for later.
RefreshEntryFrom(a, c, rest) ==
    /\ entries' = [entries EXCEPT ![c].snap = rest.snap,
                                  ![c].due = @ /\ entries[c].flood]
    /\ Continue(a, [rest EXCEPT !.edits =
          IF entries[c].flood THEN {}
          ELSE {[chat |-> c, id |-> entries[c].id, text |-> rest.snap]}])

\* contains, then refresh_entry_from or open.
NextChat(a, c) ==
    /\ actor[a].at = "chats" /\ c \in actor[a].chats
    /\ LET rest == [actor[a] EXCEPT !.chats = @ \ {c}] IN
       \/ c \in DOMAIN entries /\ RefreshEntryFrom(a, c, rest)
       \/ /\ c \notin DOMAIN entries
          /\ Become(a, [rest EXCEPT !.at = "open", !.chat = c])
          /\ UNCHANGED entries
    /\ UNCHANGED <<bridgeVars, shown, sent, stray, requests>>

\* open: the message is sent, the entry put in place; a message it replaces
\* is deleted next.
Opened(a, old) ==
    \/ old = 0 /\ Continue(a, [actor[a] EXCEPT !.chat = NoChat])
    \/ old # 0 /\ Become(a, [actor[a] EXCEPT !.at = "delete", !.old = old])

OpenMessage(a) ==
    /\ actor[a].at = "open" /\ sent < MaxMessages
    /\ LET c == actor[a].chat
           snap == actor[a].snap IN
       /\ sent' = sent + 1
       /\ shown' = With(shown, sent + 1, snap)
       /\ entries' = With(entries, c, [id |-> sent + 1, snap |-> snap, empty |-> snap = {},
                                       due |-> snap = {}, flood |-> FALSE])
       /\ Opened(a, IF c \in DOMAIN entries THEN entries[c].id ELSE 0)
    /\ UNCHANGED <<bridgeVars, stray, requests>>

OpenFails(a) ==
    /\ actor[a].at = "open" /\ Failures
    /\ Continue(a, [actor[a] EXCEPT !.chat = NoChat])
    /\ UNCHANGED <<bridgeVars, entries, shown, sent, stray, requests>>

DeleteOld(a, ok) ==
    /\ actor[a].at = "delete" /\ (ok \/ Failures)
    /\ IF ok
       THEN /\ shown' = [m \in DOMAIN shown \ {actor[a].old} |-> shown[m]]
            /\ UNCHANGED stray
       ELSE stray' = stray \cup {actor[a].old} /\ UNCHANGED shown
    /\ Continue(a, [actor[a] EXCEPT !.chat = NoChat, !.old = 0])
    /\ UNCHANGED <<bridgeVars, entries, sent, requests>>

\* refresh: the entries that are neither flood-limited nor, unless it is
\* forced, refreshed within the interval; an empty dashboard is edited once.
Refreshable(c, force) == ~ entries[c].flood /\ (force \/ entries[c].due)
Edited(c, snap) == ~ (snap = {} /\ entries[c].empty)

RefreshAll(a) ==
    /\ actor[a].at = "refresh"
    /\ LET snap == actor[a].snap
           todo == {c \in DOMAIN entries : Refreshable(c, actor[a].force)} IN
       /\ entries' = [c \in DOMAIN entries |->
             IF c \notin todo THEN entries[c]
             ELSE [entries[c] EXCEPT !.snap = snap, !.empty = snap = {},
                                     !.due = @ /\ ~ Edited(c, snap)]]
       /\ Continue(a, [actor[a] EXCEPT !.edits =
             {[chat |-> c, id |-> entries[c].id, text |-> snap] :
                 c \in {d \in todo : Edited(d, snap)}}])
    /\ UNCHANGED <<bridgeVars, shown, sent, stray, requests>>

\* The answer to an edit marks the chat's entry of that moment.
SendEdit(a, e, answer) ==
    /\ actor[a].at = "edits" /\ e \in actor[a].edits
    /\ answer # "ok" => (Failures \/ e.id \notin DOMAIN shown)
    /\ answer = "ok" => e.id \in DOMAIN shown
    /\ shown' = IF answer = "ok" THEN [shown EXCEPT ![e.id] = e.text] ELSE shown
    /\ entries' =
          IF answer = "other" \/ e.chat \notin DOMAIN entries THEN entries
          ELSE [entries EXCEPT ![e.chat].flood = answer = "flood",
                               ![e.chat].due = @ /\ answer = "ok"]
    /\ Continue(a, [actor[a] EXCEPT !.edits = @ \ {e}])
    /\ UNCHANGED <<bridgeVars, sent, stray, requests>>

\* Time: the refresh interval, and a flood wait, which is also the next refresh.
IntervalEnds(c) ==
    /\ c \in DOMAIN entries /\ ~ entries[c].due /\ ~ entries[c].flood
    /\ entries' = [entries EXCEPT ![c].due = TRUE]
    /\ UNCHANGED <<bridgeVars, actor, shown, sent, stray, requests>>

FloodEnds(c) ==
    /\ c \in DOMAIN entries /\ entries[c].flood
    /\ entries' = [entries EXCEPT ![c].flood = FALSE, ![c].due = TRUE]
    /\ UNCHANGED <<bridgeVars, actor, shown, sent, stray, requests>>

-----------------------------------------------------------------------------
(* The user's commands and buttons. *)

UserStarts ==
    /\ actor["user"] = Idle /\ requests < MaxRequests
    /\ requests' = requests + 1
    /\ UNCHANGED <<bridgeVars, shown, sent, stray>>

\* /status
Status(c) ==
    /\ UserStarts
    /\ Become("user", [Idle EXCEPT !.at = "open", !.snap = Active, !.chat = c])
    /\ UNCHANGED entries

\* /get: ensure_dashboard.
EnsureDashboard(c) ==
    /\ UserStarts
    /\ Become("user", [Idle EXCEPT !.at = "chats", !.snap = Active, !.chats = {c}])
    /\ UNCHANGED entries

\* The Refresh button: the snapshot may be old when the manager's lock is taken.
PressRefresh(c) ==
    /\ UserStarts /\ c \in DOMAIN entries
    /\ RefreshEntryFrom("user", c, [Idle EXCEPT !.snap = Active])

\* The Previous and Next buttons render the entry's own snapshot.
PressPage(c) ==
    /\ UserStarts /\ c \in DOMAIN entries /\ ~ entries[c].flood
    /\ Become("user", [Idle EXCEPT !.at = "edits",
          !.edits = {[chat |-> c, id |-> entries[c].id, text |-> entries[c].snap]}])
    /\ UNCHANGED entries

\* The Cancel button, after cancel_inline: a forced refresh of every dashboard.
PressCancel ==
    /\ UserStarts
    /\ Become("user", [Idle EXCEPT !.at = "refresh", !.snap = Active, !.force = TRUE])
    /\ UNCHANGED entries

-----------------------------------------------------------------------------
Manager(a) ==
    \/ \E c \in Chat : NextChat(a, c)
    \/ OpenMessage(a) \/ OpenFails(a) \/ RefreshAll(a)
    \/ \E ok \in BOOLEAN : DeleteOld(a, ok)
    \/ \E e \in actor[a].edits, answer \in {"ok", "flood", "other"} : SendEdit(a, e, answer)

User ==
    \/ \E c \in Chat : Status(c) \/ EnsureDashboard(c) \/ PressRefresh(c) \/ PressPage(c)
    \/ PressCancel

DashNext ==
    \/ \E j \in Job : Created(j) \/ Progress(j) \/ Completes(j) \/ EmitTerminal(j)
    \/ \E e \in late : SendLate(e)
    \/ Receive \/ BatchEnds \/ HandleEvent
    \/ \E a \in Actor : Manager(a)
    \/ \E c \in Chat : IntervalEnds(c) \/ FloodEnds(c)
    \/ User

DashSpec == DashInit /\ [][DashNext]_dashVars

-----------------------------------------------------------------------------
BridgeQuiet ==
    /\ chan = <<>> /\ late = {} /\ events = <<>> /\ ~ batch.open
    /\ \A j \in Job : phase[j] \notin {"ending", "leaving"}
Quiet == BridgeQuiet /\ \A a \in Actor : actor[a] = Idle

\* However full the channel was, and in whatever order the events left it, the
\* bridge remembers no job that is over once it has nothing left to handle, but for
\* those that left uploads behind and reported progress after their end: the contexts do not
\* grow with the jobs the process has run.
ContextsAreOfActiveJobs == BridgeQuiet => contexts \subseteq Active \cup Tardy

\* The same without the exception.  The code does not guarantee it: handle_event
\* remembers the job of a late Progress again, and nothing forgets it.
NoStaleContext == BridgeQuiet => contexts \subseteq Active

\* A chat has one dashboard: every message of the bot that is still there is its
\* chat's entry, is being deleted, or could not be deleted; two opens at once
\* leave one.
OneDashboardPerChat ==
    DOMAIN shown = {entries[c].id : c \in DOMAIN entries} \cup stray
                   \cup {actor[a].old : a \in {b \in Actor : actor[b].at = "delete"}}

\* When all jobs are over, every event is handled and no request is in progress,
\* no dashboard offers to cancel a job.
NoDeadJobShown ==
    Quiet /\ Active = {} => \A c \in DOMAIN entries : shown[entries[c].id] = {}

\* The bridge and the dashboards keep track of the jobs although the channel
\* between them is small and Telegram fails (event_bridge.rs, dashboard.rs).
DashboardsFollowJobs ==
    DashTypeOK /\ ContextsAreOfActiveJobs /\ OneDashboardPerChat
=============================================================================
