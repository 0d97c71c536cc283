----------------------------- MODULE StreamPipe -----------------------------
(***************************************************************************)
(* One track streamed to HTTP clients: opening a stream and its byte range *)
(* (crates/stream/src/engine.rs, pipe.rs), the pipe that prefetches chunks *)
(* and hands them to the response body in order, the shared chunk cache    *)
(* (cache.rs) and the refresh of expired file references.                  *)
(*                                                                         *)
(* The two prefetched chunks of a pipe are futures inside the pipe's task: *)
(* they advance only while the task waits for the next chunk, never while  *)
(* it waits for room in the channel to the client.  StreamPool models a    *)
(* fetch in detail; here it is the worker's FIFO lock, one request and its *)
(* answer.  Telegram, which may invalidate the file reference of a session *)
(* at any time, and the moka caches are external.                          *)
(***************************************************************************)
EXTENDS Integers, Sequences, FiniteSets, FiniteSetsExt, SequencesExt

CONSTANTS
    Stream, Worker, None,
    FileSize, ChunkSize,    \* in bytes
    Headers,                \* Range headers: <<kind, a, b>>
    MaxRef,                 \* bound: references a session sees
    Failures,               \* may a request fail for good?
    ChannelSize,            \* of the channel to the client (2 in the code)
    MaxEvict                \* bound: evictions from the caches

PrefetchChunks == 2         \* STREAM_PREFETCH_CHUNKS
Chunk == 0 .. (FileSize - 1) \div ChunkSize
ChunkLen(c) == Min({ChunkSize, FileSize - c * ChunkSize})

VARIABLES
    ref,        \* the valid file reference, by session
    meta,       \* metadata_cache, by session: a reference or 0
    refreshQ,   \* queue of the refresh lock, by session; its head holds it
    lockQ,      \* queue of the worker lock (dc_lock), by session
    cache,      \* chunks in the ChunkCache
    fill,       \* the stream whose future fills a chunk, or None
    stream,     \* the pipes
    task,       \* the chunk futures of every pipe
    evictions

vars == <<ref, meta, refreshQ, lockQ, cache, fill, stream, task, evictions>>

Dropped == [st |-> "none", loc |-> 0, again |-> FALSE]
Closed == [pc |-> "idle", worker |-> None, stale |-> 0, loc |-> 0,
           from |-> 0, to |-> 0, front |-> 0, next |-> 0, queued |-> 0,
           body |-> <<>>, why |-> "none"]

Init ==
    /\ ref = [w \in Worker |-> 1]
    /\ meta = [w \in Worker |-> 0]
    /\ refreshQ = [w \in Worker |-> <<>>]
    /\ lockQ = [w \in Worker |-> <<>>]
    /\ cache = {}
    /\ fill = [c \in Chunk |-> None]
    /\ stream = [s \in Stream |-> Closed]
    /\ task = [s \in Stream |-> [c \in Chunk |-> Dropped]]
    /\ evictions = 0

----------------------------------------------------------------------------
(* Byte ranges. *)

Sat(a, b) == IF a >= b THEN a - b ELSE 0        \* saturating_sub

\* ByteRange::parse; no header is the whole file (prepare_stream).
Start(h) == CASE h[1] = "none" -> 0
              [] h[1] = "suffix" -> Sat(FileSize, h[2])
              [] h[1] \in {"from", "both"} -> h[2]
End(h) == IF h[1] = "both" THEN h[3] ELSE Sat(FileSize, 1)
InBounds(h) == h[1] # "none" => Start(h) <= End(h) /\ Start(h) < FileSize
ClampedEnd(h) == Min({End(h), Sat(FileSize, 1)})

ContentLength(s) == Sat(stream[s].to, stream[s].from) + 1

StartChunk(s) == stream[s].from \div ChunkSize
EndChunk(s) == stream[s].to \div ChunkSize

\* The bytes of chunk c that belong to the range, as offsets in the chunk.
SliceStart(s, c) == IF c = StartChunk(s) THEN Sat(stream[s].from, c * ChunkSize) ELSE 0
SliceEnd(s, c) ==
    Min({ChunkLen(c), IF c = EndChunk(s) THEN Sat(stream[s].to, c * ChunkSize) + 1
                                     ELSE ChunkLen(c)})

----------------------------------------------------------------------------
(* Pipes. *)

W(s) == stream[s].worker
Polled(s) == stream[s].pc = "next"
Live(s) == stream[s].pc \in {"next", "sending", "sendErr"}

\* The top of the pipe's loop: prefetch, then wait for the first chunk.
Refilled(p, last) ==
    LET next == Min({last + 1, p.front + PrefetchChunks})
    IN  [p EXCEPT !.pc = IF p.front > last THEN "ended" ELSE "next", !.next = next]

Pushed(tasks, p) ==
    [c \in Chunk |-> IF c \in p.next .. Min({p.to \div ChunkSize,
                                             p.front + PrefetchChunks - 1})
                     THEN [Dropped EXCEPT !.st = "queued"] ELSE tasks[c]]

Opened(s, h, w, r) ==
    LET first == Start(h) \div ChunkSize
        p == [Closed EXCEPT !.worker = w, !.stale = r, !.loc = r,
                            !.from = Start(h), !.to = ClampedEnd(h),
                            !.front = first, !.next = first]
    IN  /\ stream' = [stream EXCEPT ![s] = Refilled(p, p.to \div ChunkSize)]
        /\ task' = [task EXCEPT ![s] = Pushed(task[s], p)]

\* open_stream with metadata that is cached; a bad range opens nothing.
Open(s, h, w) ==
    /\ stream[s].pc = "idle" /\ meta[w] # 0 /\ InBounds(h)
    /\ Opened(s, h, w, meta[w])
    /\ UNCHANGED <<ref, meta, refreshQ, lockQ, cache, fill, evictions>>

OpenMiss(s, w) ==
    /\ stream[s].pc = "idle" /\ meta[w] = 0
    /\ stream' = [stream EXCEPT ![s].pc = "resolve", ![s].worker = w, ![s].stale = ref[w]]
    /\ UNCHANGED <<ref, meta, refreshQ, lockQ, cache, fill, task, evictions>>

\* load_track_media stores what it read, newer or not, and the stream opens.
Resolve(s, h) ==
    /\ stream[s].pc = "resolve" /\ InBounds(h)
    /\ meta' = [meta EXCEPT ![W(s)] = stream[s].stale]
    /\ Opened(s, h, W(s), stream[s].stale)
    /\ UNCHANGED <<ref, refreshQ, lockQ, cache, fill, evictions>>

Reject(s, h) ==
    /\ stream[s].pc = "resolve" /\ ~InBounds(h)
    /\ meta' = [meta EXCEPT ![W(s)] = stream[s].stale]
    /\ stream' = [stream EXCEPT ![s] = [Closed EXCEPT !.pc = "rejected"]]
    /\ UNCHANGED <<ref, refreshQ, lockQ, cache, fill, task, evictions>>

Without(q, s) == SelectSeq(q, LAMBDA e : e[1] # s)

\* Mutant: the chunks a dropped pipe was filling have no owner any more.
DroppingAlone(s) ==
    /\ lockQ' = [w \in Worker |-> Without(lockQ[w], s)]
    /\ refreshQ' = [w \in Worker |-> Without(refreshQ[w], s)]
    /\ fill' = [c \in Chunk |-> IF fill[c] = s THEN None ELSE fill[c]]
    /\ task' = [task EXCEPT ![s] = [c \in Chunk |-> Dropped]]

\* The futures of s are dropped: their places in the queues go, and chunks they
\* were filling are taken over by the futures that waited for them.
Dropping(s) ==
    LET mine == {c \in Chunk : fill[c] = s}
    IN  /\ lockQ' = [w \in Worker |-> Without(lockQ[w], s)]
        /\ refreshQ' = [w \in Worker |-> Without(refreshQ[w], s)]
        /\ fill' = [c \in Chunk |-> IF c \in mine THEN None ELSE fill[c]]
        /\ task' = [t \in Stream |-> [c \in Chunk |->
              IF t = s THEN Dropped
              ELSE IF c \in mine /\ task[t][c].st = "follow"
                   THEN [Dropped EXCEPT !.st = "queued"] ELSE task[t][c]]]

\* The client goes away: ChunkStream::drop aborts the task.
Disconnect(s) ==
    /\ Live(s)
    /\ stream' = [stream EXCEPT ![s] = [Closed EXCEPT !.pc = "gone"]]
    /\ Dropping(s)
    /\ UNCHANGED <<ref, meta, cache, evictions>>

Take(s) ==
    LET st == task[s][stream[s].front].st
    IN  /\ Polled(s) /\ st \in {"ready", "failed", "expired", "starved"}
        /\ stream' = [stream EXCEPT ![s].pc = IF st = "ready" THEN "sending" ELSE "sendErr",
                                    ![s].why = IF st = "ready" THEN "none" ELSE st]
        /\ UNCHANGED <<ref, meta, refreshQ, lockQ, cache, fill, task, evictions>>

Send(s) ==
    LET c == stream[s].front
        piece == <<c * ChunkSize + SliceStart(s, c), c * ChunkSize + SliceEnd(s, c)>>
        p == [stream[s] EXCEPT !.front = c + 1,
                               !.queued = @ + 1, !.body = Append(@, piece)]
    IN  /\ stream[s].pc = "sending" /\ stream[s].queued < ChannelSize
        /\ stream' = [stream EXCEPT ![s] = Refilled(p, EndChunk(s))]
        /\ task' = [task EXCEPT ![s] = [Pushed(@, p) EXCEPT ![c] = Dropped]]
        /\ UNCHANGED <<ref, meta, refreshQ, lockQ, cache, fill, evictions>>

SendErr(s) ==
    /\ stream[s].pc = "sendErr" /\ stream[s].queued < ChannelSize
    /\ stream' = [stream EXCEPT ![s] = [Closed EXCEPT !.pc = "failed", !.why = stream[s].why,
                                                      !.worker = W(s), !.stale = stream[s].stale]]
    /\ Dropping(s)
    /\ UNCHANGED <<ref, meta, cache, evictions>>

Read(s) ==
    /\ stream[s].queued > 0
    /\ stream' = [stream EXCEPT ![s].queued = @ - 1]
    /\ UNCHANGED <<ref, meta, refreshQ, lockQ, cache, fill, task, evictions>>

----------------------------------------------------------------------------
(* Chunk futures: ChunkCache::get_or_fetch, fetch_chunk_with_refresh. *)

AskWorker(s, c, r, again) ==
    /\ task' = [task EXCEPT ![s][c] = [st |-> "lock", loc |-> r, again |-> again]]
    /\ lockQ' = [lockQ EXCEPT ![W(s)] = Append(@, <<s, c>>)]

Poll(s, c) ==
    /\ Polled(s) /\ task[s][c].st = "queued"
    /\ \/ /\ c \in cache
          /\ task' = [task EXCEPT ![s][c].st = "ready"]
          /\ UNCHANGED <<fill, lockQ>>
       \/ /\ c \notin cache /\ fill[c] = None
          /\ fill' = [fill EXCEPT ![c] = s]
          /\ AskWorker(s, c, stream[s].loc, FALSE)
       \/ /\ c \notin cache /\ fill[c] # None
          /\ task' = [task EXCEPT ![s][c].st = "follow"]
          /\ UNCHANGED <<fill, lockQ>>
    /\ UNCHANGED <<ref, meta, refreshQ, cache, stream, evictions>>

HoldsLock(s, c) == task[s][c].st = "lock" /\ Head(lockQ[W(s)]) = <<s, c>>

Release(q, w) == [q EXCEPT ![w] = Tail(@)]

\* The fill of chunk c ends: everybody who waits for it gets the same result.
Filled(s, c, st) ==
    /\ fill' = [fill EXCEPT ![c] = None]
    /\ task' = [t \in Stream |-> [task[t] EXCEPT ![c] =
          IF t = s \/ @.st = "follow" THEN [Dropped EXCEPT !.st = st] ELSE @]]

Fetched(s, c) ==
    /\ Polled(s) /\ HoldsLock(s, c) /\ task[s][c].loc = ref[W(s)]
    /\ lockQ' = Release(lockQ, W(s))
    /\ Filled(s, c, "ready")
    /\ cache' = cache \cup {c}
    /\ UNCHANGED <<ref, meta, refreshQ, stream, evictions>>

FetchFails(s, c) ==
    /\ Failures /\ Polled(s) /\ HoldsLock(s, c)
    /\ lockQ' = Release(lockQ, W(s))
    /\ Filled(s, c, "failed")
    /\ UNCHANGED <<ref, meta, refreshQ, cache, stream, evictions>>

\* A second FileReferenceExpired is returned to the caller.
FetchExpired(s, c) ==
    /\ Polled(s) /\ HoldsLock(s, c) /\ task[s][c].loc # ref[W(s)]
    /\ lockQ' = Release(lockQ, W(s))
    /\ IF task[s][c].again
       THEN Filled(s, c, "expired") /\ UNCHANGED refreshQ
       ELSE /\ task' = [task EXCEPT ![s][c].st = "refresh"]
            /\ refreshQ' = [refreshQ EXCEPT ![W(s)] = Append(@, <<s, c>>)]
            /\ UNCHANGED fill
    /\ UNCHANGED <<ref, meta, cache, stream, evictions>>

HoldsRefresh(s, c) ==
    task[s][c].st \in {"refresh", "store"} /\ Head(refreshQ[W(s)]) = <<s, c>>

\* The fresh location is kept for the pipe and fetched from at once.
Relocate(s, c, r) ==
    /\ refreshQ' = Release(refreshQ, W(s))
    /\ stream' = [stream EXCEPT ![s].loc = r]
    /\ AskWorker(s, c, r, TRUE)

\* refresh_track_media_if_stale: another refresh has been here meanwhile.
RefreshFromCache(s, c) ==
    /\ Polled(s) /\ task[s][c].st = "refresh" /\ HoldsRefresh(s, c)
    /\ meta[W(s)] \notin {0, stream[s].stale}
    /\ Relocate(s, c, meta[W(s)])
    /\ UNCHANGED <<ref, meta, cache, fill, evictions>>

RefreshLoad(s, c) ==
    /\ Polled(s) /\ task[s][c].st = "refresh" /\ HoldsRefresh(s, c)
    /\ meta[W(s)] \in {0, stream[s].stale}
    /\ task' = [task EXCEPT ![s][c].st = "store", ![s][c].loc = ref[W(s)]]
    /\ UNCHANGED <<ref, meta, refreshQ, lockQ, cache, fill, stream, evictions>>

RefreshStore(s, c) ==
    /\ Polled(s) /\ task[s][c].st = "store" /\ HoldsRefresh(s, c)
    /\ meta' = [meta EXCEPT ![W(s)] = task[s][c].loc]
    /\ Relocate(s, c, task[s][c].loc)
    /\ UNCHANGED <<ref, cache, fill, evictions>>

\* The refresh fails, or the chunk's deadline ends it, at the lock or while it loads.
RefreshFails(s, c) ==
    /\ Failures /\ Polled(s) /\ task[s][c].st \in {"refresh", "store"}
    /\ refreshQ' = [refreshQ EXCEPT ![W(s)] = Remove(@, <<s, c>>)]
    /\ Filled(s, c, "failed")
    /\ UNCHANGED <<ref, meta, lockQ, cache, stream, evictions>>

\* The future whose turn it is belongs to a pipe that waits for its client: it
\* holds the lock without advancing, and those behind it run into the deadline.
LockTimeout(s, c) ==
    LET q == lockQ[W(s)]
    IN  /\ Polled(s) /\ task[s][c].st = "lock" /\ Head(q) # <<s, c>>
        /\ stream[Head(q)[1]].pc \in {"sending", "sendErr"}
        /\ stream[Head(q)[1]].queued = ChannelSize
        /\ lockQ' = [lockQ EXCEPT ![W(s)] = Remove(@, <<s, c>>)]
        /\ Filled(s, c, "starved")
        /\ UNCHANGED <<ref, meta, refreshQ, cache, stream, evictions>>

\* The same at the refresh lock.
RefreshTimeout(s, c) ==
    LET q == refreshQ[W(s)]
    IN  /\ Polled(s) /\ task[s][c].st = "refresh" /\ Head(q) # <<s, c>>
        /\ stream[Head(q)[1]].pc \in {"sending", "sendErr"}
        /\ stream[Head(q)[1]].queued = ChannelSize
        /\ refreshQ' = [refreshQ EXCEPT ![W(s)] = Remove(@, <<s, c>>)]
        /\ Filled(s, c, "starved")
        /\ UNCHANGED <<ref, meta, lockQ, cache, stream, evictions>>

----------------------------------------------------------------------------
(* Telegram and the caches. *)

Expire(w) ==
    /\ ref[w] < MaxRef
    /\ ref' = [ref EXCEPT ![w] = @ + 1]
    /\ UNCHANGED <<meta, refreshQ, lockQ, cache, fill, stream, task, evictions>>

Evict ==
    /\ evictions < MaxEvict
    /\ evictions' = evictions + 1
    /\ \/ \E c \in cache : cache' = cache \ {c} /\ UNCHANGED meta
       \/ \E w \in Worker : meta[w] # 0 /\ meta' = [meta EXCEPT ![w] = 0] /\ UNCHANGED cache
    /\ UNCHANGED <<ref, refreshQ, lockQ, fill, stream, task>>

Next ==
    \/ \E s \in Stream :
          \/ \E h \in Headers, w \in Worker : Open(s, h, w)
          \/ \E w \in Worker : OpenMiss(s, w)
          \/ \E h \in Headers : Resolve(s, h) \/ Reject(s, h)
          \/ Disconnect(s) \/ Take(s) \/ Send(s) \/ SendErr(s) \/ Read(s)
          \/ \E c \in Chunk :
                \/ Poll(s, c) \/ Fetched(s, c) \/ FetchFails(s, c) \/ FetchExpired(s, c)
                \/ RefreshFromCache(s, c) \/ RefreshLoad(s, c) \/ RefreshStore(s, c)
                \/ RefreshFails(s, c) \/ LockTimeout(s, c) \/ RefreshTimeout(s, c)
    \/ \E w \in Worker : Expire(w)
    \/ Evict

Spec == Init /\ [][Next]_vars

----------------------------------------------------------------------------
TypeOK ==
    /\ ref \in [Worker -> 1 .. MaxRef] /\ meta \in [Worker -> 0 .. MaxRef]
    /\ refreshQ \in [Worker -> Seq(Stream \X Chunk)]
    /\ lockQ \in [Worker -> Seq(Stream \X Chunk)]
    /\ cache \subseteq Chunk
    /\ fill \in [Chunk -> Stream \cup {None}]
    /\ \A s \in Stream : stream[s].queued \in 0 .. ChannelSize
    /\ evictions \in 0 .. MaxEvict

\* What a client is sent is the range it asked for, from its first byte and
\* without a gap, and all of it if the stream ends without an error: as many
\* bytes as Content-Length announced.
BodyIsTheRange ==
    \A s \in Stream :
       LET b == stream[s].body
       IN  /\ Len(b) > 0 => b[1][1] = stream[s].from
           /\ \A i \in 1 .. Len(b) - 1 : b[i][2] = b[i + 1][1]
           /\ \A i \in 1 .. Len(b) : b[i][1] < b[i][2]
           /\ stream[s].pc = "ended" =>
                b[Len(b)][2] - stream[s].from = ContentLength(s)

\* A chunk's second request meets an expired file reference, which ends its fill
\* and with it every stream that waits for the chunk, only if the reference of the
\* session expired twice since the stream that fills it was opened, or if that
\* stream was led back to an older one: one expiry is survived, however the
\* prefetched chunks, other streams and the metadata cache interleave, unless a slow
\* load_track_media put what it read before over what was read since
\* (fetch_chunk_with_refresh, refresh_track_media_if_stale).
OneExpirySurvived ==
    \A s \in Stream, c \in Chunk :
        LET t == task[s][c]
        IN  t.st = "lock" /\ t.again /\ t.loc # ref[W(s)] =>
                ref[W(s)] >= stream[s].stale + 2 \/ t.loc < stream[s].stale

\* A chunk that several streams want is fetched once: whoever waits for it waits
\* for a future that is alive and will settle it.
FollowersHaveAnOwner ==
    \A s \in Stream, c \in Chunk :
       /\ task[s][c].st = "follow" => fill[c] # None /\ Live(fill[c])
       /\ task[s][c].st \in {"lock", "refresh", "store"} <=> fill[c] = s

\* A client that stops reading must not fail the streams of others: a stream
\* fails only if Telegram failed it.
PauseHarmsNobodyElse == \A s \in Stream : stream[s].why # "starved"

\* What a stream promises its client (engine.rs, pipe.rs), whatever other
\* streams, the caches and the file references do meanwhile.
StreamIsWhole ==
    TypeOK /\ BodyIsTheRange /\ OneExpirySurvived /\ FollowersHaveAnOwner
=============================================================================
