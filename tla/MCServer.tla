------------------------------ MODULE MCServer ------------------------------
(***************************************************************************)
(* One run over the components behind the HTTP server and the stream:      *)
(* Sessions, StreamPool, StreamPipe, ServerTasks and Playlists.  They      *)
(* share no state, so every behaviour is one of a single component: `part` *)
(* says which.  The components whose properties theorems state too are     *)
(* extended, and stay in an initial state while another one is explored;   *)
(* the variables of StreamPipe are 0 then.                                 *)
(***************************************************************************)
EXTENDS Sessions, StreamPool, ServerTasks, Playlists, Sequences, TLC

CONSTANTS
    Parts,                          \* the components to explore
    Reader, w1, none,               \* StreamPipe
    user,                           \* ServerTasks
    x1, x2, x3, x4                  \* Playlists

VARIABLES
    part,
    ref, meta, refreshQ, lockQ, chunks, fill, stream, task, evictions

\* Three chunks, the last one short, and a client that stops reading; and two
\* chunks whose file reference expires twice and whose fetches may fail.
Pipe == INSTANCE StreamPipe WITH
    Stream <- Reader, Worker <- {w1}, None <- none, FileSize <- 5, ChunkSize <- 2,
    Headers <- {<<"both", 1, 9>>, <<"suffix", 2, 0>>}, MaxRef <- 1, Failures <- FALSE,
    ChannelSize <- 1, MaxEvict <- 1,
    cache <- chunks

Faulty == INSTANCE StreamPipe WITH
    Stream <- Reader, Worker <- {w1}, None <- none, FileSize <- 3, ChunkSize <- 2,
    Headers <- {<<"none", 0, 0>>, <<"from", 7, 0>>}, MaxRef <- 3, Failures <- TRUE,
    ChannelSize <- 1, MaxEvict <- 0,
    cache <- chunks

\* Requests and Telegram commands of one user, all for one album.
OwnerOf == [j \in Call \cup BotJob |-> user]
TargetOf == [j \in Call \cup BotJob |-> [id |-> "x", album |-> TRUE]]

\* A create, two imports of one source and a replacement.
KindOf == x1 :> "create" @@ x2 :> "import" @@ x3 :> "import" @@ x4 :> "replace"
SizeOf == x1 :> 0 @@ x2 :> 2 @@ x3 :> 1 @@ x4 :> 2
UrlOf == x1 :> "none" @@ x2 :> "y" @@ x3 :> "y" @@ x4 :> "none"

\* The texts of login codes are interchangeable, and so are the sessions.  Fetches,
\* streams and Telegram commands are too: the parts share no state, so these sets
\* have the names of the sessions and the same permutations.
Alike == Permutations(Code) \cup Permutations(Session)

pipeVars == <<ref, meta, refreshQ, lockQ, chunks, fill, stream, task, evictions>>
serverVars == <<part, vars, poolVars, pipeVars, taskVars, listVars>>

\* Components that are not explored: of the pools the smallest one, unused.
NoPool ==
    /\ PoolInit
    /\ \A S \in Pools : Cardinality(session) <= Cardinality(S)
    /\ dcId = HomeDc /\ leased = {}

NoPipe ==
    /\ ref = 0 /\ meta = 0 /\ refreshQ = 0 /\ lockQ = 0 /\ chunks = 0
    /\ fill = 0 /\ stream = 0 /\ task = 0 /\ evictions = 0

ServerInit ==
    /\ part \in Parts
    /\ Init /\ TasksInit /\ ListsInit
    /\ IF part = "pool" THEN PoolInit ELSE NoPool
    /\ CASE part = "pipe" -> Pipe!Init [] part = "faulty" -> Faulty!Init [] OTHER -> NoPipe

ServerNext ==
    /\ part' = part
    /\ \/ /\ part = "sessions" /\ Next
          /\ UNCHANGED <<poolVars, pipeVars, taskVars, listVars>>
       \/ /\ part = "pool" /\ PoolNext
          /\ UNCHANGED <<vars, pipeVars, taskVars, listVars>>
       \/ /\ ((part = "pipe" /\ Pipe!Next) \/ (part = "faulty" /\ Faulty!Next))
          /\ UNCHANGED <<vars, poolVars, taskVars, listVars>>
       \/ /\ part = "tasks" /\ TasksNext
          /\ UNCHANGED <<vars, poolVars, pipeVars, listVars>>
       \/ /\ part = "lists" /\ ListsNext
          /\ UNCHANGED <<vars, poolVars, pipeVars, taskVars>>

ServerSpec == ServerInit /\ [][ServerNext]_serverVars

-----------------------------------------------------------------------------
\* pipe.rs, cache.rs, engine.rs: a client gets the range it asked for without a
\* gap, one expired file reference is survived, and a chunk several streams wait
\* for always has an owner.
StreamIsWhole == /\ part = "pipe" => Pipe!StreamIsWhole
                 /\ part = "faulty" => Faulty!StreamIsWhole
=============================================================================
