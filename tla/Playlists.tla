----------------------------- MODULE Playlists -----------------------------
(***************************************************************************)
(* One user's playlists in the database (crates/db/src/playlists.rs), as   *)
(* the HTTP handlers of crates/server/src/playlists.rs change them.        *)
(*                                                                         *)
(* Creating, importing and replacing are transactions of several           *)
(* statements at PostgreSQL's default isolation, read committed, so every  *)
(* statement is a step.  Only create and import take the user's advisory   *)
(* lock.  What PostgreSQL contributes is modelled from the statements and  *)
(* the keys of the migration: a DELETE works on the rows committed when it *)
(* started and waits for a transaction that is deleting one of them; an    *)
(* INSERT waits for an uncommitted row with its key and fails on a         *)
(* committed one; a row cannot refer to a playlist that is gone.           *)
(*                                                                         *)
(* A track row is its position and the transaction that wrote it; the      *)
(* tracks of a request are never told apart otherwise.                     *)
(***************************************************************************)
EXTENDS Integers, FiniteSets

CONSTANTS
    Txn,             \* requests that change playlists
    Kind,            \* create, import or replace, for every request
    Size,            \* number of tracks a request brings
    Url,             \* the source a request imports from
    NoUrl, NoTxn, NoList,
    Favorites,       \* the id of the favourites
    MaxCustom        \* MAX_CUSTOM_PLAYLISTS

\* A playlist made by a request has the request's name.
List == Txn \cup {Favorites}

ASSUME ListsAssumption ==
    /\ IsFiniteSet(Txn) /\ NoTxn \notin Txn /\ Favorites \notin Txn
    /\ Size \in [Txn -> Nat] /\ MaxCustom \in Nat

VARIABLES
    lists,           \* committed playlists: a function from id to source
    rows,            \* committed track rows: [list, pos, by]
    lock,            \* holder of the advisory lock
    step,            \* where a request has got to
    on,              \* the playlist the transaction works on
    fresh,           \* the transaction inserted that playlist
    snap,            \* rows its DELETE started with
    del, ins         \* uncommitted deletions and insertions

listVars == <<lists, rows, lock, step, on, fresh, snap, del, ins>>

Custom == DOMAIN lists \ {Favorites}
RowsOf(l) == {r \in rows : r.list = l}
Wanted(t) == {[list |-> on[t], pos |-> n, by |-> t] : n \in 0 .. Size[t] - 1}

\* A row of user_playlist_tracks, with the request that wrote it.
Row == [list: List, pos: Nat, by: Txn]

ListsTypeOK ==
    /\ DOMAIN lists \subseteq List
    /\ rows \subseteq Row
    /\ lock \in Txn \cup {NoTxn}
    /\ step \in [Txn -> {"start", "count", "delete", "deleting", "insert", "commit", "done",
                       "failed"}]
    /\ on \in [Txn -> List \cup {NoList}]
    /\ fresh \in [Txn -> BOOLEAN]
    /\ snap \in [Txn -> SUBSET Row] /\ del \in [Txn -> SUBSET Row] /\ ins \in [Txn -> SUBSET Row]

ListsInit ==
    /\ lists = <<>>
    /\ rows = {}
    /\ lock = NoTxn
    /\ step = [t \in Txn |-> "start"]
    /\ on = [t \in Txn |-> NoList]
    /\ fresh = [t \in Txn |-> FALSE]
    /\ snap = [t \in Txn |-> {}]
    /\ del = [t \in Txn |-> {}]
    /\ ins = [t \in Txn |-> {}]

-----------------------------------------------------------------------------

\* list_playlists makes the favourites exist.
EnsureFavorites ==
    /\ Favorites \notin DOMAIN lists
    /\ lists' = [l \in DOMAIN lists \cup {Favorites} |-> IF l = Favorites THEN NoUrl ELSE lists[l]]
    /\ UNCHANGED <<rows, lock, step, on, fresh, snap, del, ins>>

\* Mutant: count and insert without the user's lock.
NoUserLock(t) ==
    /\ step[t] = "start" /\ Kind[t] # "replace"
    /\ step' = [step EXCEPT ![t] = "count"]
    /\ UNCHANGED <<lists, rows, lock, on, fresh, snap, del, ins>>

\* lock_user_playlists.
LockUserPlaylists(t) ==
    /\ step[t] = "start" /\ Kind[t] # "replace"
    /\ lock = NoTxn
    /\ lock' = t
    /\ step' = [step EXCEPT ![t] = "count"]
    /\ UNCHANGED <<lists, rows, on, fresh, snap, del, ins>>

\* The transaction ends; its lock goes, and what it did when it failed.
Rollback(t) ==
    /\ step' = [step EXCEPT ![t] = "failed"]
    /\ lock' = IF lock = t THEN NoTxn ELSE lock
    /\ del' = [del EXCEPT ![t] = {}]
    /\ ins' = [ins EXCEPT ![t] = {}]
    /\ fresh' = [fresh EXCEPT ![t] = FALSE]
    /\ UNCHANGED <<lists, rows, on, snap>>

\* The imported source is known: its playlist is used again.
Reuse(t) ==
    /\ step[t] = "count" /\ Kind[t] = "import"
    /\ \E l \in Custom : lists[l] = Url[t] /\ on' = [on EXCEPT ![t] = l]
    /\ step' = [step EXCEPT ![t] = "delete"]
    /\ UNCHANGED <<lists, rows, lock, fresh, snap, del, ins>>

\* custom_playlist_count, then the new playlist; or the limit is reached.
CountAndInsert(t) ==
    /\ step[t] = "count"
    /\ Kind[t] = "import" => \A l \in Custom : lists[l] # Url[t]
    /\ IF Cardinality(Custom) >= MaxCustom THEN Rollback(t)
       ELSE /\ on' = [on EXCEPT ![t] = t]
            /\ fresh' = [fresh EXCEPT ![t] = TRUE]
            /\ step' = [step EXCEPT ![t] = IF Kind[t] = "import" THEN "delete" ELSE "commit"]
            /\ UNCHANGED <<lists, rows, lock, snap, del, ins>>

\* replace_playlist_tracks finds the playlist, under no lock.
Find(t, l) ==
    /\ step[t] = "start" /\ Kind[t] = "replace"
    /\ l \in DOMAIN lists
    /\ on' = [on EXCEPT ![t] = l]
    /\ step' = [step EXCEPT ![t] = "delete"]
    /\ UNCHANGED <<lists, rows, lock, fresh, snap, del, ins>>

\* replace_tracks_for_playlist: DELETE, which may have to wait, ...
DeleteStarts(t) ==
    /\ step[t] = "delete"
    /\ snap' = [snap EXCEPT ![t] = RowsOf(on[t])]
    /\ step' = [step EXCEPT ![t] = "deleting"]
    /\ UNCHANGED <<lists, rows, lock, on, fresh, del, ins>>

DeleteEnds(t) ==
    /\ step[t] = "deleting"
    /\ \A u \in Txn \ {t} : del[u] \cap snap[t] = {}
    /\ del' = [del EXCEPT ![t] = snap[t] \cap rows]
    /\ step' = [step EXCEPT ![t] = "insert"]
    /\ UNCHANGED <<lists, rows, lock, on, fresh, snap, ins>>

\* ... then INSERT, one row for every track, positions from zero: it waits for
\* others that insert or delete such a row, and fails on one that is committed or
\* when the playlist is gone.
InsertRows(t) ==
    LET clash(r) == \E w \in Wanted(t) : r.list = w.list /\ r.pos = w.pos IN
    /\ step[t] = "insert"
    /\ \A u \in Txn \ {t} : \A r \in ins[u] \cup del[u] : ~ clash(r)
    /\ IF \/ \E r \in rows \ del[t] : clash(r)
          \/ ~ fresh[t] /\ on[t] \notin DOMAIN lists /\ Size[t] > 0
       THEN Rollback(t)
       ELSE /\ ins' = [ins EXCEPT ![t] = Wanted(t)]
            /\ step' = [step EXCEPT ![t] = "commit"]
            /\ UNCHANGED <<lists, rows, lock, on, fresh, snap, del>>

\* finish_transaction; find_playlist fails for a playlist that is gone.
Commit(t) ==
    /\ step[t] = "commit"
    /\ IF ~ fresh[t] /\ on[t] \notin DOMAIN lists THEN Rollback(t)
       ELSE /\ lists' = IF fresh[t]
                        THEN [l \in DOMAIN lists \cup {t} |->
                                IF l = t THEN (IF Kind[t] = "import" THEN Url[t] ELSE NoUrl)
                                ELSE lists[l]]
                        ELSE lists
            /\ rows' = (rows \ del[t]) \cup ins[t]
            /\ del' = [del EXCEPT ![t] = {}]
            /\ ins' = [ins EXCEPT ![t] = {}]
            /\ lock' = IF lock = t THEN NoTxn ELSE lock
            /\ step' = [step EXCEPT ![t] = "done"]
            /\ UNCHANGED <<on, fresh, snap>>

\* delete_playlist, one statement; its tracks go with it.  It waits for a
\* transaction that has changed the playlist, inserted rows for it or deleted some.
DeletePlaylist(l) ==
    /\ l \in Custom
    /\ \A t \in Txn : /\ \A r \in ins[t] \cup del[t] : r.list # l
                      /\ lock = t => on[t] # l
    /\ lists' = [x \in DOMAIN lists \ {l} |-> lists[x]]
    /\ rows' = rows \ RowsOf(l)
    /\ UNCHANGED <<lock, step, on, fresh, snap, del, ins>>

ListsNext ==
    \/ EnsureFavorites
    \/ \E t \in Txn : \/ LockUserPlaylists(t) \/ Reuse(t) \/ CountAndInsert(t)
                      \/ DeleteStarts(t) \/ DeleteEnds(t) \/ InsertRows(t) \/ Commit(t)
    \/ \E t \in Txn, l \in List : Find(t, l)
    \/ \E l \in List : DeletePlaylist(l)

ListsSpec == ListsInit /\ [][ListsNext]_listVars

-----------------------------------------------------------------------------

\* A user never has more playlists than MAX_CUSTOM_PLAYLISTS, nor two for one
\* source, however creates and imports overlap.
LimitHolds ==
    /\ Cardinality(Custom) <= MaxCustom
    /\ \A k, l \in Custom : lists[k] = lists[l] /\ lists[k] # NoUrl => k = l

\* A playlist holds the tracks of one request, all of them and in its order, and
\* never a mixture of two that replaced it at the same time, although replacing
\* takes no lock.
OneRequestsTracks ==
    \A l \in DOMAIN lists :
        RowsOf(l) = {} \/ \E t \in Txn : RowsOf(l) = {[list |-> l, pos |-> n, by |-> t] :
                                                     n \in 0 .. Size[t] - 1}

\* Transactions of one user at the same time keep the playlists in order
\* (crates/db/src/playlists.rs).
PlaylistsKept ==
    ListsTypeOK /\ LimitHolds /\ OneRequestsTracks
=============================================================================
