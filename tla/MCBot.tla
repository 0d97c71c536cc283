------------------------------- MODULE MCBot -------------------------------
(***************************************************************************)
(* One run over the components a user talks to: the playback room, and the *)
(* bot's Dashboard, TelegramSink, CacheAdmin, SettingsStore and Reports.   *)
(* They share no modelled state, so every behaviour is one of a single     *)
(* component: `part` says which.  The components whose properties theorems *)
(* state too are extended, and stay in an initial state while another one  *)
(* is explored; the variables of Reports are 0 then.                       *)
(***************************************************************************)
EXTENDS PlaybackRoom, Dashboard, TelegramSink, CacheAdmin, SettingsStore

CONSTANTS
    Parts,                      \* the components to explore
    n1,                         \* PlaybackRoom
    chat, MaxInputs,            \* Dashboard
    k1, p1, track,              \* CacheAdmin
    guest, admin, track2, r1, r2  \* Reports

VARIABLES
    part,
    now, counter, reports, byTrack, stamps, req, keyboards, cards, granted, given

\* The jobs are asked for in one chat.
AskedIn == [j \in Job |-> chat]

\* The room is explored twice: with all its connections and no task, and with all
\* that can happen to tasks and one connection; a connection's feed does not depend
\* on the other connections.
Taskless == puts' = puts
Alone == \A c \in Conn \ {n1} : up'[c] = "new" /\ session'[c]

\* What the dashboard is told in a behaviour: jobs, their progress and what the user
\* does, together at most MaxInputs.
Inputs == Cardinality({j \in Job : phase[j] # "new"}) + progressed + requests

\* The keys are codecs of one track; at first the channel holds one of them and a
\* part of an archive.
CodecOf == [k \in Key |-> track]
AtFirst == {<<k1, p1>>}

\* Two tracks, and a clock that lets the ids of two reports be the same.
Report == INSTANCE Reports WITH
    User <- {guest, admin}, Admin <- admin, Track <- {track, track2}, Limit <- 1, Window <- 1,
    MaxTime <- 1, Req <- {r1, r2}, MaxReports <- 2, shown <- keyboards

\* The reason buttons are shown to the guest, and for one of the tracks.
OneKeyboard == keyboards' \subseteq {<<guest, track>>}

reportVars ==
    <<now, counter, reports, byTrack, stamps, req, keyboards, cards, granted, given>>
botVars == <<part, vars, dashVars, sinkVars, adminVars, settingVars, reportVars>>

\* Components that are not explored.
NoAdmin == AdminInit /\ DOMAIN rows = {} /\ DOMAIN parts = {}
NoSettings == SettingsInit /\ row = default_settings
NoReports ==
    /\ now = 0 /\ counter = 0 /\ reports = 0 /\ byTrack = 0 /\ stamps = 0
    /\ req = 0 /\ keyboards = 0 /\ cards = 0 /\ granted = 0 /\ given = 0

BotInit ==
    /\ part \in Parts
    /\ Init /\ DashInit /\ SinkInit
    /\ IF part = "admin" THEN AdminInit ELSE NoAdmin
    /\ IF part = "settings" THEN SettingsInit ELSE NoSettings
    /\ IF part = "reports" THEN Report!Init ELSE NoReports

BotNext ==
    /\ part' = part
    /\ \/ /\ \/ part = "room" /\ Next /\ Taskless
             \/ part = "feed" /\ Next /\ Alone
          /\ UNCHANGED <<dashVars, sinkVars, adminVars, settingVars, reportVars>>
       \/ /\ part = "jobs" /\ DashNext /\ Inputs' <= MaxInputs
          /\ UNCHANGED <<vars, sinkVars, adminVars, settingVars, reportVars>>
       \/ /\ part = "sink" /\ SinkNext
          /\ UNCHANGED <<vars, dashVars, adminVars, settingVars, reportVars>>
       \/ /\ part = "admin" /\ AdminNext
          /\ UNCHANGED <<vars, dashVars, sinkVars, settingVars, reportVars>>
       \/ /\ part = "settings" /\ SettingsNext
          /\ UNCHANGED <<vars, dashVars, sinkVars, adminVars, reportVars>>
       \/ /\ part = "reports" /\ Report!Next /\ OneKeyboard
          /\ UNCHANGED <<vars, dashVars, sinkVars, adminVars, settingVars>>

BotSpec == BotInit /\ [][BotNext]_botVars

-----------------------------------------------------------------------------
\* report.rs: a track that is turned away as under review has an open report unless
\* the report's id was given twice, and no user passes the limit more often than it
\* allows.
ReportsKept == part = "reports" => Report!ReportsKept
=============================================================================
