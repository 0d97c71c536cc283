----------------------------- MODULE CacheAdmin -----------------------------
(***************************************************************************)
(* The owner's commands over the cache: /index (crates/bot/src/handlers/   *)
(* index.rs), /delete with its confirmation (delete.rs, pending.rs), the   *)
(* deletion of a reported track (report.rs), /export and /import           *)
(* (backup.rs, crates/db/src/dump.rs), over the tables of tracks and       *)
(* archive parts (crates/db/src/tracks.rs, albums.rs) and the messages of  *)
(* the dump channel.                                                       *)
(*                                                                         *)
(* Each request to Telegram and each query is a step; a rip that publishes *)
(* a track (TrackUpload) runs beside the commands.  A message holds one    *)
(* track in one codec, one part of an archive, or something else.  File    *)
(* ids, captions, users and the encoding of an archive are left out.       *)
(***************************************************************************)
EXTENDS Integers, Sequences, FiniteSets

CONSTANTS
    Key,         \* (track, codec) pairs
    TrackOf,     \* the track of a key, a function on Key
    Part,        \* parts of one album's archive
    Other,       \* a message that is neither
    Gone,        \* no message
    Token,       \* confirmation tokens; each is issued once
    First,       \* messages in the dump at the start
    Contents,    \* what they may hold, functions on 1 .. First
    MaxId,       \* bound on message ids
    Batch        \* INDEX_BATCH_SIZE, 100

\* A message holds one thing, and no message is none of them.
ASSUME AdminAssumption ==
    /\ First \in Nat /\ MaxId \in Nat /\ First <= MaxId /\ Batch \in Nat \ {0}
    /\ Contents \subseteq [1 .. First -> Key \cup Part \cup {Other, Gone}]
    /\ Key \cap Part = {}
    /\ Gone \notin Key \cup Part \cup Token /\ Other \notin Key \cup Part

VARIABLES
    channel,     \* the channel: message id -> what it holds
    last,        \* the last message id given out
    rows,        \* tracks: key -> message id
    parts,       \* albums: part -> message id
    idx,         \* the indexer, one at a time (INDEXING)
    calm,        \* history: since it began only the indexer wrote, and none failed
    rip,         \* a rip between its message and its row: [key, id], or none
    pend,        \* pending_deletes: token -> [track, msg]
    del,         \* a deletion in progress: [at, tok, key, msg]
    offered,     \* history: the message each token was issued for
    deleted,     \* history: the messages deleted under each token
    archive      \* the last export: [rows, parts], or none

adminVars == <<channel, last, rows, parts, idx, calm, rip, pend, del, offered, deleted, archive>>

Content == Key \cup Part \cup {Other, Gone}
Track == {TrackOf[k] : k \in Key}
Nothing == [at |-> "idle", tok |-> Gone, key |-> Gone, msg |-> 0]
NotIndexing == [at |-> "idle", end |-> 0, todo |-> <<>>, keys |-> {}, msgs |-> {}]
NoRip == [key |-> Gone, id |-> 0]

AdminTypeOK ==
    /\ channel \in [1 .. MaxId -> Content] /\ last \in First .. MaxId
    /\ DOMAIN rows \subseteq Key /\ DOMAIN parts \subseteq Part
    /\ \A k \in DOMAIN rows : rows[k] \in 1 .. MaxId
    /\ \A p \in DOMAIN parts : parts[p] \in 1 .. MaxId
    /\ idx.at \in {"idle", "fetch", "save", "prune", "zips", "done"}
    /\ idx.keys \subseteq Key /\ idx.msgs \subseteq 1 .. MaxId
    /\ DOMAIN pend \subseteq Token
    /\ del.at \in {"idle", "lookup", "message", "row", "rows"}
    /\ calm \in BOOLEAN

\* The rows at the start may be of messages that were deleted by hand.
AdminInit ==
    /\ \E d \in Contents : channel = [m \in 1 .. MaxId |-> IF m <= First THEN d[m] ELSE Gone]
    /\ last = First
    /\ \E K \in SUBSET Key, P \in SUBSET Part :
          rows \in [K -> 1 .. First] /\ parts \in [P -> 1 .. First]
    /\ \A k \in DOMAIN rows : channel[rows[k]] \in {k, Gone}
    /\ \A p \in DOMAIN parts : channel[parts[p]] \in {p, Gone}
    /\ idx = NotIndexing /\ calm = FALSE
    /\ rip = NoRip
    /\ pend = <<>> /\ del = Nothing
    /\ offered = [t \in Token |-> 0] /\ deleted = [t \in Token |-> {}]
    /\ archive = <<>>

Put(f, x, y) == [z \in DOMAIN f \cup {x} |-> IF z = x THEN y ELSE f[z]]
Without(f, X) == [z \in DOMAIN f \ X |-> f[z]]

-----------------------------------------------------------------------------
(* /index. *)

\* A probe message gives the highest id and is deleted again.
IndexStart ==
    /\ idx = NotIndexing /\ last < MaxId
    /\ last' = last + 1
    /\ idx' = [NotIndexing EXCEPT !.at = IF last >= 1 THEN "fetch" ELSE "prune", !.end = last]
    /\ calm' = (rip = NoRip /\ del = Nothing)
    /\ UNCHANGED <<channel, rows, parts, rip, pend, del, offered, deleted, archive>>

\* Mutant: one id too few in a batch.
BatchIdsShort(end) == LET start == IF end - Batch + 2 > 1 THEN end - Batch + 2 ELSE 1 IN
                      [i \in 1 .. end - start + 1 |-> end - i + 1]

\* batch_ids: descending, down to the first message.
BatchIds(end) == LET start == IF end - Batch + 1 > 1 THEN end - Batch + 1 ELSE 1 IN
                 [i \in 1 .. end - start + 1 |-> end - i + 1]

\* get_messages_with_retry: the batch as it is now, or the end of the command.
Fetch ==
    /\ idx.at = "fetch"
    /\ LET ids == BatchIds(idx.end) IN
       idx' = [idx EXCEPT !.at = "save",
                          !.todo = [i \in DOMAIN ids |-> <<ids[i], channel[ids[i]]>>]]
    /\ UNCHANGED <<channel, last, rows, parts, calm, rip, pend, del, offered, deleted, archive>>

\* A batch that cannot be fetched and a track that cannot be saved end the
\* command before anything is pruned.
IndexFails ==
    /\ idx.at \in {"fetch", "save", "prune"}
    /\ idx' = NotIndexing /\ calm' = FALSE
    /\ UNCHANGED <<channel, last, rows, parts, rip, pend, del, offered, deleted, archive>>

\* A message without a file or with a caption that is not the bot's; one that is gone
\* is not among the answers.
SkipMessage ==
    /\ idx.at = "save" /\ idx.todo # <<>> /\ Head(idx.todo)[2] \notin Key \cup Part
    /\ idx' = [idx EXCEPT !.todo = Tail(@)]
    /\ UNCHANGED <<channel, last, rows, parts, calm, rip, pend, del, offered, deleted, archive>>

SaveTrack ==
    /\ idx.at = "save" /\ idx.todo # <<>> /\ Head(idx.todo)[2] \in Key
    /\ LET m == Head(idx.todo)[1]
           k == Head(idx.todo)[2] IN
       /\ rows' = Put(rows, k, m)
       /\ idx' = [idx EXCEPT !.todo = Tail(@), !.keys = @ \cup {k}]
    /\ UNCHANGED <<channel, last, parts, calm, rip, pend, del, offered, deleted, archive>>

\* A part that cannot be saved is skipped.
SavePart(ok) ==
    /\ idx.at = "save" /\ idx.todo # <<>> /\ Head(idx.todo)[2] \in Part
    /\ LET m == Head(idx.todo)[1]
           p == Head(idx.todo)[2] IN
       /\ parts' = IF ok THEN Put(parts, p, m) ELSE parts
       /\ idx' = [idx EXCEPT !.todo = Tail(@), !.msgs = IF ok THEN @ \cup {m} ELSE @]
    /\ UNCHANGED <<channel, last, rows, calm, rip, pend, del, offered, deleted, archive>>

BatchDone ==
    /\ idx.at = "save" /\ idx.todo = <<>>
    /\ idx' = IF idx.end - (Batch - 1) <= 1 THEN [idx EXCEPT !.at = "prune"]
              ELSE [idx EXCEPT !.at = "fetch", !.end = @ - Batch]
    /\ UNCHANGED <<channel, last, rows, parts, calm, rip, pend, del, offered, deleted, archive>>

\* delete_tracks_not_in: rows of keys that were not met.
PruneTracks ==
    /\ idx.at = "prune"
    /\ rows' = [k \in DOMAIN rows \cap idx.keys |-> rows[k]]
    /\ idx' = [idx EXCEPT !.at = "zips"]
    /\ UNCHANGED <<channel, last, parts, calm, rip, pend, del, offered, deleted, archive>>

\* A part whose message was not met takes the album's rows with it.  A failure
\* to list or to delete is ignored.
PruneAlbums(ok) ==
    /\ idx.at = "zips"
    /\ parts' = IF ok /\ \E p \in DOMAIN parts : parts[p] \notin idx.msgs THEN <<>> ELSE parts
    /\ calm' = (calm /\ ok)
    /\ idx' = [idx EXCEPT !.at = "done"]
    /\ UNCHANGED <<channel, last, rows, rip, pend, del, offered, deleted, archive>>

IndexAnswers ==
    /\ idx.at = "done"
    /\ idx' = NotIndexing /\ calm' = FALSE
    /\ UNCHANGED <<channel, last, rows, parts, rip, pend, del, offered, deleted, archive>>

-----------------------------------------------------------------------------
(* A rip: the message (publish_to_dump), then the row (save_track). *)

Post(k) ==
    /\ rip = NoRip /\ last < MaxId
    /\ last' = last + 1
    /\ channel' = [channel EXCEPT ![last + 1] = k]
    /\ rip' = [key |-> k, id |-> last + 1]
    /\ calm' = FALSE
    /\ UNCHANGED <<rows, parts, idx, pend, del, offered, deleted, archive>>

SaveRow ==
    /\ rip # NoRip
    /\ rows' = Put(rows, rip.key, rip.id)
    /\ rip' = NoRip
    /\ calm' = FALSE
    /\ UNCHANGED <<channel, last, parts, idx, pend, del, offered, deleted, archive>>

-----------------------------------------------------------------------------
(* /delete and the deletion of a reported track. *)

\* The command shows one of the track's rows and issues a token.
DeleteCommand(tok, k) ==
    /\ offered[tok] = 0 /\ k \in DOMAIN rows
    /\ pend' = Put(pend, tok, [track |-> TrackOf[k], msg |-> rows[k]])
    /\ offered' = [offered EXCEPT ![tok] = rows[k]]
    /\ UNCHANGED <<channel, last, rows, parts, idx, calm, rip, del, deleted, archive>>

\* A token that is taken by Cancel or by another user, or that has expired.
Withdraw(tok) ==
    /\ tok \in DOMAIN pend
    /\ pend' = Without(pend, {tok})
    /\ UNCHANGED <<channel, last, rows, parts, idx, calm, rip, del, offered, deleted, archive>>

\* take: the token is gone whatever happens next.
Confirm(tok) ==
    /\ tok \in DOMAIN pend /\ del = Nothing
    /\ pend' = Without(pend, {tok})
    /\ del' = [at |-> "lookup", tok |-> tok, key |-> pend[tok].track, msg |-> pend[tok].msg]
    /\ calm' = FALSE
    /\ UNCHANGED <<channel, last, rows, parts, idx, rip, offered, deleted, archive>>

\* One of the track's rows, which must be the message that was shown.
Matches(m, wanted) == m = wanted

Lookup ==
    /\ del.at = "lookup"
    /\ LET found == {k \in DOMAIN rows : TrackOf[k] = del.key} IN
       \/ found = {} /\ del' = Nothing
       \/ \E k \in found :
            del' = IF Matches(rows[k], del.msg)
                   THEN [del EXCEPT !.at = "message", !.key = k, !.msg = rows[k]]
                   ELSE Nothing
    /\ UNCHANGED <<channel, last, rows, parts, idx, calm, rip, pend, offered, deleted, archive>>

\* admin_callback, Delete: any of the track's rows.
ReportDelete(track) ==
    /\ del = Nothing
    /\ \E k \in {j \in DOMAIN rows : TrackOf[j] = track} :
          del' = [at |-> "message", tok |-> Gone, key |-> k, msg |-> rows[k]]
    /\ calm' = FALSE
    /\ UNCHANGED <<channel, last, rows, parts, idx, rip, pend, offered, deleted, archive>>

\* The message goes first; a message that is already gone counts as deleted.
DeleteMessage ==
    /\ del.at = "message"
    /\ channel' = [channel EXCEPT ![del.msg] = Gone]
    /\ deleted' = IF del.tok = Gone THEN deleted
                  ELSE [deleted EXCEPT ![del.tok] = @ \cup {del.msg}]
    /\ del' = [del EXCEPT !.at = IF del.tok = Gone THEN "rows" ELSE "row"]
    /\ UNCHANGED <<last, rows, parts, idx, calm, rip, pend, offered, archive>>

\* delete_track: the row of the codec, or for a report every row of the track.
DeleteRows ==
    /\ del.at \in {"row", "rows"}
    /\ rows' = Without(rows, IF del.at = "row" THEN {del.key}
                             ELSE {k \in Key : TrackOf[k] = TrackOf[del.key]})
    /\ del' = Nothing
    /\ UNCHANGED <<channel, last, parts, idx, calm, rip, pend, offered, deleted, archive>>

\* Telegram or the database refuses: what is done stays done.
DeleteFails ==
    /\ del.at \in {"message", "row", "rows"}
    /\ del' = Nothing
    /\ UNCHANGED <<channel, last, rows, parts, idx, calm, rip, pend, offered, deleted, archive>>

-----------------------------------------------------------------------------
(* /export and /import. *)

\* Bounded to one export.
Export ==
    /\ archive = <<>>
    /\ archive' = <<[rows |-> rows, parts |-> parts]>>
    /\ UNCHANGED <<channel, last, rows, parts, idx, calm, rip, pend, del, offered, deleted>>

\* One transaction replaces the tables; an archive of another channel, of
\* another version or too large is refused before it.
Import ==
    /\ archive # <<>>
    /\ rows' = archive[1].rows /\ parts' = archive[1].parts
    /\ calm' = FALSE
    /\ UNCHANGED <<channel, last, idx, rip, pend, del, offered, deleted, archive>>

-----------------------------------------------------------------------------
Index == \/ IndexStart \/ Fetch \/ IndexFails \/ SkipMessage \/ SaveTrack \/ BatchDone
         \/ PruneTracks \/ IndexAnswers
         \/ \E ok \in BOOLEAN : SavePart(ok) \/ PruneAlbums(ok)

Delete == \/ \E tok \in Token : Withdraw(tok) \/ Confirm(tok)
          \/ \E tok \in Token, k \in Key : DeleteCommand(tok, k)
          \/ Lookup \/ DeleteMessage \/ DeleteRows \/ DeleteFails
          \/ \E t \in Track : ReportDelete(t)

AdminNext == Index \/ Delete \/ Export \/ Import \/ SaveRow \/ \E k \in Key : Post(k)

AdminSpec == AdminInit /\ [][AdminNext]_adminVars

-----------------------------------------------------------------------------
\* An /index that no other writer disturbed leaves the tables as the dump is: a
\* row for exactly the tracks that have a message, each of a message that holds
\* its track, and no archive part of a message that is not there.
IndexReconciles ==
    idx.at = "done" /\ calm =>
        /\ DOMAIN rows = Key \cap {channel[m] : m \in 1 .. MaxId}
        /\ \A k \in DOMAIN rows : channel[rows[k]] = k
        /\ \A p \in DOMAIN parts : channel[parts[p]] = p

\* A confirmation deletes at most one message, the one the owner was shown, even
\* when the track was ripped again or indexed in between.
ConfirmedIsWhatWasShown ==
    \A tok \in Token : deleted[tok] \subseteq {offered[tok]}

\* Pruning removes ghosts: never the row of a message that is in the channel.
OnlyGhostsPruned ==
    [][\A k \in DOMAIN rows \ DOMAIN rows' : PruneTracks => channel[rows[k]] # k]_adminVars

\* The owner's commands do what they say they did (index.rs, delete.rs).
CacheAdminIsExact ==
    AdminTypeOK /\ IndexReconciles /\ ConfirmedIsWhatWasShown
=============================================================================
