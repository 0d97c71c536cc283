---------------------------- MODULE AlbumArchive ----------------------------
(***************************************************************************)
(* The archive phase of album jobs: run_job reads the album's cached rows, *)
(* finalize_zip builds the parts of each rendition, publishes them to the  *)
(* dump channel, copies them to the chat and replaces the rows in one      *)
(* transaction.  Jobs are deduplicated by target and storefront, so two    *)
(* jobs can carry the same album id and replace each other's archive; each *)
(* of them can be cancelled between any two awaits.  A step is what the    *)
(* code does between two awaits.                                           *)
(*                                                                         *)
(* The external calls (publish_to_dump, deliver_to_chat, retract_dump,     *)
(* find_albums, replace_albums) succeed or fail by choice; a database      *)
(* error means that the transaction was rolled back.                       *)
(***************************************************************************)
EXTENDS Integers, FiniteSets, Sequences

CONSTANTS
    Job,           \* jobs whose target is the album
    Policy,        \* the renditions a job asks for, in the order of zip_states
    Parts,         \* the number of parts an archive of a rendition is split in
    Gen,           \* a job's generation hash (its ordered track ids)
    OldGen,        \* the generation an earlier process left in the cache
    CodecOf,       \* the primary codec the job's tracks have
    Forced,        \* jobs of an admin that asked for a new rip
    TracksCached,  \* jobs whose primary tracks are all cached
    Delivers       \* jobs that deliver (the others only fill the cache)

Rendition == {"primary", "atmos"}
Codec == {"alac", "aac", "ec-3"}
OldJob == "old"

ASSUME ArchiveAssumption ==
    /\ Policy \in [Job -> {<<"primary">>, <<"primary", "atmos">>}]
    /\ Parts \in [Rendition -> Nat \ {0}]
    /\ CodecOf \in [Job -> {"alac", "aac"}]
    /\ Forced \subseteq Job /\ TracksCached \subseteq Job /\ Delivers \subseteq Job
    /\ OldJob \notin Job

MaxParts == IF Parts["primary"] >= Parts["atmos"] THEN Parts["primary"] ELSE Parts["atmos"]
Generation == {Gen[j] : j \in Job} \cup {OldGen, "other"}

Message == [by : Job \cup {OldJob}, rend : Rendition, part : 1 .. MaxParts]
Row == [part : 1 .. MaxParts, total : 1 .. MaxParts, gen : Generation, codec : Codec,
        msg : Message]

VARIABLES
    pc,         \* where a job is
    rows,       \* the album's rows, by rendition (codec group)
    dump,       \* messages in the dump channel
    residue,    \* messages a failed or abandoned external call left there
    sources,    \* how much of a rendition the lanes staged for the archive
    expect,     \* a job's zip_expectations
    reuse,      \* a job's zip_reuse
    rend,       \* index of the rendition finalize_zip_inner is at
    part,       \* the part it builds next
    complete,   \* the archive it builds holds every track
    allUp,      \* all_parts_uploaded
    uploads,    \* replacement_uploads of the rendition
    displaced,  \* messages of the rows a commit replaced, to be retracted
    ledger,     \* zip_new_dump_messages: published and not committed
    todo,       \* cached rows still to be copied, by part
    chat,       \* messages copied to the job's chat
    fellBack,   \* the fast path failed and the job went to the queue
    cancelled, result

storeVars == <<rows, dump, residue>>
planVars == <<sources, expect, reuse>>
buildVars == <<rend, part, complete, allUp, uploads, displaced, ledger>>
vars == <<pc, storeVars, planVars, buildVars, todo, chat, fellBack, cancelled, result>>

Here(j) == Policy[j][rend[j]]
CodecHere(j) == IF Here(j) = "atmos" THEN "ec-3" ELSE CodecOf[j]
Mine(j) == {x.msg : x \in uploads[j]}
Named == UNION {{x.msg : x \in rows[r]} : r \in Rendition}

Expected == [kind : {"empty", "mixed"}] \cup [kind : {"generation"}, gen : Generation]

Places == {"read", "fast", "lanes", "rend", "lookup", "reuse", "build", "publish", "copy",
           "commit", "displace", "discard", "finish", "end"}

TypeOK ==
    /\ pc \in [Job -> Places]
    /\ rows \in [Rendition -> SUBSET Row]
    /\ dump \subseteq Message /\ residue \subseteq Message
    /\ rend \in [Job -> 1 .. 3] /\ part \in [Job -> 1 .. MaxParts + 1]
    /\ complete \in [Job -> BOOLEAN] /\ allUp \in [Job -> BOOLEAN]
    /\ uploads \in [Job -> SUBSET Row] /\ ledger \in [Job -> SUBSET Message]
    /\ displaced \in [Job -> SUBSET Message]
    /\ sources \in [Job -> [Rendition -> {"none", "some", "all"}]]
    /\ expect \in [Job -> [Rendition -> Expected]]
    /\ reuse \in [Job -> [Rendition -> SUBSET Row]]
    /\ todo \in [Job -> SUBSET Row]
    /\ cancelled \in [Job -> BOOLEAN] /\ fellBack \in [Job -> BOOLEAN]
    /\ result \in [Job -> {"none", "ok", "err"}]
    /\ chat \in [Job -> Seq(Message)]

\* What an earlier process left: nothing, a whole archive, or an archive with
\* a part of another generation (rows are also imported one by one).
OldRow(r, n, g) ==
    [part |-> n, total |-> Parts[r], gen |-> g,
     codec |-> IF r = "atmos" THEN "ec-3" ELSE "alac",
     msg |-> [by |-> OldJob, rend |-> r, part |-> n]]

Leftovers(r) ==
    {{},
     {OldRow(r, n, OldGen) : n \in 1 .. Parts[r]},
     {OldRow(r, n, IF n = 1 THEN OldGen ELSE "other") : n \in 1 .. Parts[r]}}

Init ==
    /\ pc = [j \in Job |-> "read"]
    /\ rows \in {f \in [Rendition -> UNION {Leftovers(r) : r \in Rendition}] :
                    \A r \in Rendition : f[r] \in Leftovers(r)}
    /\ dump = Named /\ residue = {}
    /\ expect = [j \in Job |-> [r \in Rendition |-> [kind |-> "mixed"]]]
    /\ sources = [j \in Job |-> [r \in Rendition |-> "none"]]
    /\ reuse = [j \in Job |-> [r \in Rendition |-> {}]]
    /\ rend = [j \in Job |-> 1] /\ part = [j \in Job |-> 1]
    /\ complete = [j \in Job |-> FALSE] /\ allUp = [j \in Job |-> TRUE]
    /\ uploads = [j \in Job |-> {}] /\ ledger = [j \in Job |-> {}]
    /\ displaced = [j \in Job |-> {}]
    /\ todo = [j \in Job |-> {}] /\ chat = [j \in Job |-> <<>>]
    /\ fellBack = [j \in Job |-> FALSE] /\ cancelled = [j \in Job |-> FALSE]
    /\ result = [j \in Job |-> "none"]

-----------------------------------------------------------------------------
(* The cached rows. *)

OfCodec(S, c) == {x \in S : x.codec = c}

\* Every part of one archive of generation g is there.
WholeArchive(S, g) ==
    /\ S # {}
    /\ \A x \in S : x.gen = g
    /\ {x.part : x \in S} = 1 .. Cardinality(S)
    /\ \E x \in S : x.part = 1 /\ x.total = Cardinality(S)

Expectation(S) ==
    IF S = {} THEN [kind |-> "empty"]
    ELSE IF \A x, y \in S : x.gen = y.gen
    THEN [kind |-> "generation", gen |-> (CHOOSE x \in S : TRUE).gen]
    ELSE [kind |-> "mixed"]

\* replace_albums compares what is there with what the job read.
MatchesExpected(S, e) ==
    \/ e.kind = "empty" /\ S = {}
    \/ e.kind = "generation" /\ S # {} /\ \A x \in S : x.gen = e.gen

\* Alac before aac; the tracks of a primary archive must all be cached.
Reusable(j, r) ==
    LET fits(c) == WholeArchive(OfCodec(rows[r], c), Gen[j])
        first == IF r = "atmos" THEN "ec-3" ELSE IF fits("alac") THEN "alac" ELSE "aac"
    IN  IF j \notin Forced /\ fits(first) /\ (r = "atmos" \/ j \in TracksCached)
        THEN OfCodec(rows[r], first)
        ELSE {}

Goto(j, p) == pc' = [pc EXCEPT ![j] = p]

\* finalize_zip_inner returns.
Leave(j, r) ==
    /\ Goto(j, "finish")
    /\ result' = [result EXCEPT ![j] = r]

\* run_job: the album's rows are read once, before anything is ripped.  The
\* job skips the queue when every item is cached, the atmos ones included;
\* these drop out if their archive is reused or live ripping is disabled.
\* With an atmos track to rip (ec3: they are cached) a reusable primary
\* archive waits in zip_reuse until the finalizer copies it.
ReadRows(j) ==
    /\ pc[j] = "read"
    /\ \E live, ec3 \in BOOLEAN :
       LET asked == {Policy[j][n] : n \in 1 .. Len(Policy[j])}
           found == [r \in Rendition |-> IF r \in asked THEN Reusable(j, r) ELSE {}]
           atmosToRip == "atmos" \in asked /\ found["atmos"] = {} /\ ~ec3 /\ live
           fast == j \in TracksCached /\ found["primary"] # {} /\ ~atmosToRip
       IN  /\ sources' = sources
           /\ expect' = [expect EXCEPT ![j] = [r \in Rendition |-> Expectation(rows[r])]]
           /\ reuse' = [reuse EXCEPT ![j] = found]
           /\ Goto(j, IF ~fast THEN "lanes" ELSE IF j \in Delivers THEN "fast" ELSE "end")
           /\ result' = IF fast /\ j \notin Delivers THEN [result EXCEPT ![j] = "ok"] ELSE result
           /\ todo' = [todo EXCEPT ![j] = IF fast THEN UNION {found[r] : r \in Rendition} ELSE {}]
    /\ UNCHANGED <<storeVars, buildVars, chat, fellBack, cancelled>>

ReadRowsFails(j) ==
    /\ pc[j] = "read"
    /\ Goto(j, "end")
    /\ result' = [result EXCEPT ![j] = "err"]
    /\ UNCHANGED <<storeVars, planVars, buildVars, todo, chat, fellBack, cancelled>>

\* The rows a job copies, in the order of zip_states and of the parts.
NextRow(S) ==
    CHOOSE x \in S : \A y \in S :
        \/ x.msg.rend = "primary" /\ y.msg.rend = "atmos"
        \/ x.msg.rend = y.msg.rend /\ x.part <= y.part

Drop(j, x) == todo' = [todo EXCEPT ![j] = @ \ {x}]
Show(j, m) == chat' = [chat EXCEPT ![j] = Append(@, m)]

\* deliver_cached_zip_rows_direct: the album is cached as a whole.
FastCopy(j) ==
    /\ pc[j] = "fast"
    /\ ~cancelled[j] /\ todo[j] # {}
    /\ LET x == NextRow(todo[j])
       IN  /\ x.msg \in dump
           /\ Show(j, x.msg)
           /\ Drop(j, x)
    /\ UNCHANGED <<pc, storeVars, planVars, buildVars, fellBack, cancelled, result>>

\* A copy that fails sends the job to the queue; an atmos one is only logged.
FastCopyFails(j) ==
    /\ pc[j] = "fast"
    /\ ~cancelled[j] /\ todo[j] # {}
    /\ LET x == NextRow(todo[j])
       IN  IF x.msg.rend = "primary"
           THEN /\ fellBack' = [fellBack EXCEPT ![j] = TRUE]
                /\ todo' = [todo EXCEPT ![j] = {}]
                /\ Goto(j, "lanes")
           ELSE Drop(j, x) /\ UNCHANGED <<pc, fellBack>>
    /\ UNCHANGED <<storeVars, planVars, buildVars, chat, cancelled, result>>

FastDone(j) ==
    /\ pc[j] = "fast"
    /\ cancelled[j] \/ todo[j] = {}
    /\ Goto(j, "end")
    /\ result' = [result EXCEPT ![j] = "ok"]
    /\ todo' = [todo EXCEPT ![j] = {}]
    /\ UNCHANGED <<storeVars, planVars, buildVars, chat, fellBack, cancelled>>

\* The lanes stage the tracks that could be ripped (JobPipeline) and the
\* finalizer begins; a track without an atmos rendition is no failure.
Lanes(j) ==
    /\ pc[j] = "lanes"
    /\ \E p \in {"none", "some", "all"}, a \in {"none", "all"} :
          sources' = [sources EXCEPT ![j] = [r \in Rendition |-> IF r = "primary" THEN p ELSE a]]
    /\ Goto(j, "rend")
    /\ UNCHANGED <<storeVars, expect, reuse, buildVars, todo, chat, fellBack, cancelled, result>>

\* Live ripping is disabled and no track is cached: an empty summary.
RipDisabled(j) ==
    /\ pc[j] = "lanes"
    /\ j \notin TracksCached
    /\ Goto(j, "end")
    /\ result' = [result EXCEPT ![j] = "ok"]
    /\ UNCHANGED <<storeVars, planVars, buildVars, todo, chat, fellBack, cancelled>>

\* The queue refused the job, a lane died or a staged file was lost.
LanesFail(j) ==
    /\ pc[j] = "lanes"
    /\ Goto(j, "end")
    /\ result' = [result EXCEPT ![j] = "err"]
    /\ UNCHANGED <<storeVars, planVars, buildVars, todo, chat, fellBack, cancelled>>

-----------------------------------------------------------------------------
(* finalize_zip_inner: one rendition after the other. *)

NextRendition(j) ==
    /\ rend' = [rend EXCEPT ![j] = @ + 1]
    /\ Goto(j, "rend")

Interrupted(j) ==
    /\ pc[j] = "rend"
    /\ cancelled[j] \/ rend[j] > Len(Policy[j])
    /\ Leave(j, "ok")
    /\ UNCHANGED <<storeVars, planVars, buildVars, todo, chat, fellBack, cancelled>>

\* Rows that were reusable when the job began are copied as they were read.
ReuseRows(j) ==
    /\ pc[j] = "rend"
    /\ ~cancelled[j] /\ rend[j] <= Len(Policy[j])
    /\ reuse[j][Here(j)] # {}
    /\ IF j \in Delivers
       THEN /\ todo' = [todo EXCEPT ![j] = reuse[j][Here(j)]]
            /\ Goto(j, "reuse")
            /\ UNCHANGED rend
       ELSE NextRendition(j) /\ UNCHANGED todo
    /\ UNCHANGED <<storeVars, planVars, part, complete, allUp, uploads, displaced, ledger,
                   chat, fellBack, cancelled, result>>

\* An archive of every track is published and cached; one with gaps is only
\* sent to the chat.
Ready(j) ==
    /\ pc[j] = "rend"
    /\ ~cancelled[j] /\ rend[j] <= Len(Policy[j])
    /\ reuse[j][Here(j)] = {}

Publishes(j) ==
    \/ sources[j][Here(j)] = "all"
    \/ sources[j][Here(j)] = "some" /\ j \in Delivers

SkipRendition(j) ==
    /\ Ready(j) /\ ~Publishes(j)
    /\ NextRendition(j)
    /\ UNCHANGED <<storeVars, planVars, part, complete, allUp, uploads, displaced, ledger,
                   todo, chat, fellBack, cancelled, result>>

StartRendition(j) ==
    /\ Ready(j) /\ Publishes(j)
    /\ complete' = [complete EXCEPT ![j] = sources[j][Here(j)] = "all"]
    /\ part' = [part EXCEPT ![j] = 1]
    /\ allUp' = [allUp EXCEPT ![j] = TRUE]
    /\ uploads' = [uploads EXCEPT ![j] = {}]
    /\ Goto(j, IF sources[j][Here(j)] = "all" /\ j \notin Forced THEN "lookup" ELSE "build")
    /\ UNCHANGED <<storeVars, planVars, rend, displaced, ledger, todo, chat, fellBack,
                   cancelled, result>>

\* Another job may have committed the same archive meanwhile; a lookup that
\* fails is taken for a miss.
Lookup(j) ==
    /\ pc[j] = "lookup"
    /\ LET existing == OfCodec(rows[Here(j)], CodecHere(j))
           hit == WholeArchive(existing, Gen[j])
       IN  \/ /\ hit
              /\ IF j \in Delivers
                 THEN /\ todo' = [todo EXCEPT ![j] = existing]
                      /\ Goto(j, "reuse")
                      /\ UNCHANGED rend
                 ELSE NextRendition(j) /\ UNCHANGED todo
           \/ Goto(j, "build") /\ UNCHANGED <<todo, rend>>
    /\ UNCHANGED <<storeVars, planVars, part, complete, allUp, uploads, displaced, ledger,
                   chat, fellBack, cancelled, result>>

\* deliver_cached_zip_rows, from either source of rows.
ReuseCopy(j) ==
    /\ pc[j] = "reuse"
    /\ ~cancelled[j] /\ todo[j] # {}
    /\ LET x == NextRow(todo[j])
       IN  /\ x.msg \in dump
           /\ Show(j, x.msg)
           /\ Drop(j, x)
    /\ UNCHANGED <<pc, storeVars, planVars, buildVars, fellBack, cancelled, result>>

\* Mutant: a cached part that is gone is only logged, whatever the rendition.
ReuseCopyFailsLogged(j) ==
    /\ pc[j] = "reuse"
    /\ ~cancelled[j] /\ todo[j] # {}
    /\ Drop(j, NextRow(todo[j])) /\ UNCHANGED <<pc, result>>
    /\ UNCHANGED <<storeVars, planVars, buildVars, chat, fellBack, cancelled>>

ReuseCopyFails(j) ==
    /\ pc[j] = "reuse"
    /\ ~cancelled[j] /\ todo[j] # {}
    /\ LET x == NextRow(todo[j])
       IN  IF Here(j) = "primary"
           THEN Leave(j, "err") /\ todo' = [todo EXCEPT ![j] = {}]
           ELSE Drop(j, x) /\ UNCHANGED <<pc, result>>
    /\ UNCHANGED <<storeVars, planVars, buildVars, chat, fellBack, cancelled>>

ReuseDone(j) ==
    /\ pc[j] = "reuse"
    /\ cancelled[j] \/ todo[j] = {}
    /\ todo' = [todo EXCEPT ![j] = {}]
    /\ NextRendition(j)
    /\ UNCHANGED <<storeVars, planVars, part, complete, allUp, uploads, displaced, ledger,
                   chat, fellBack, cancelled, result>>

-----------------------------------------------------------------------------
(* The parts of one archive. *)

NewMsg(j) == [by |-> j, rend |-> Here(j), part |-> part[j]]
NewRow(j) ==
    [part |-> part[j], total |-> Parts[Here(j)], gen |-> Gen[j], codec |-> CodecHere(j),
     msg |-> NewMsg(j)]

\* On to the next part, or past the last one.
NextPart(j) ==
    /\ part' = [part EXCEPT ![j] = @ + 1]
    /\ IF part[j] < Parts[Here(j)] THEN Goto(j, "build") /\ UNCHANGED rend
       ELSE IF complete[j] THEN Goto(j, "commit") /\ UNCHANGED rend
       ELSE NextRendition(j)

Recorded(j) ==
    /\ uploads' = [uploads EXCEPT ![j] = @ \cup {NewRow(j)}]
    /\ NextPart(j)

\* An archive that cannot be built fails a primary and spoils an atmos one.
PartLost(j) ==
    IF Here(j) = "primary"
    THEN Leave(j, "err") /\ UNCHANGED <<allUp, part, rend>>
    ELSE allUp' = [allUp EXCEPT ![j] = FALSE] /\ NextPart(j) /\ UNCHANGED result

BuildPart(j) ==
    /\ pc[j] = "build"
    /\ IF cancelled[j] THEN Leave(j, "ok") ELSE Goto(j, "publish") /\ UNCHANGED result
    /\ UNCHANGED <<storeVars, planVars, buildVars, todo, chat, fellBack, cancelled>>

BuildFails(j) ==
    /\ pc[j] = "build"
    /\ ~cancelled[j]
    /\ PartLost(j)
    /\ UNCHANGED <<storeVars, planVars, complete, uploads, displaced, ledger, todo, chat,
                   fellBack, cancelled>>

PublishOk(j) ==
    /\ pc[j] = "publish"
    /\ complete[j]
    /\ dump' = dump \cup {NewMsg(j)}
    /\ ledger' = [ledger EXCEPT ![j] = @ \cup {NewMsg(j)}]
    /\ \/ cancelled[j] /\ Leave(j, "ok") /\ UNCHANGED <<uploads, part, rend>>
       \/ ~cancelled[j] /\ j \in Delivers /\ Goto(j, "copy") /\ UNCHANGED <<uploads, part, rend, result>>
       \/ ~cancelled[j] /\ j \notin Delivers /\ Recorded(j) /\ UNCHANGED result
    /\ UNCHANGED <<rows, residue, planVars, complete, allUp, displaced, todo, chat, fellBack,
                   cancelled>>

\* The cancellation wins the select: the call is abandoned wherever it is.
PublishAbandoned(j) ==
    /\ pc[j] = "publish"
    /\ cancelled[j]
    /\ Leave(j, "ok")
    /\ \E left \in SUBSET (IF complete[j] THEN {NewMsg(j)} ELSE {}) :
          dump' = dump \cup left /\ residue' = residue \cup left
    /\ UNCHANGED <<rows, planVars, buildVars, todo, chat, fellBack, cancelled>>

PublishFails(j) ==
    /\ pc[j] = "publish"
    /\ PartLost(j)
    /\ UNCHANGED <<storeVars, planVars, complete, uploads, displaced, ledger, todo, chat,
                   fellBack, cancelled>>

\* A part of an archive with gaps goes to the chat only.
SendPartial(j) ==
    /\ pc[j] = "publish"
    /\ ~complete[j]
    /\ Show(j, NewMsg(j))
    /\ NextPart(j)
    /\ UNCHANGED <<storeVars, planVars, complete, allUp, uploads, displaced, ledger, todo,
                   fellBack, cancelled, result>>

CopyOk(j) ==
    /\ pc[j] = "copy"
    /\ NewMsg(j) \in dump
    /\ Show(j, NewMsg(j))
    /\ IF cancelled[j] THEN Leave(j, "ok") /\ UNCHANGED <<uploads, part, rend>>
       ELSE Recorded(j) /\ UNCHANGED result
    /\ UNCHANGED <<storeVars, planVars, complete, allUp, displaced, ledger, todo, fellBack,
                   cancelled>>

CopyFails(j) ==
    /\ pc[j] = "copy"
    /\ IF Here(j) = "primary" THEN Leave(j, "err") /\ UNCHANGED <<uploads, part, rend>>
       ELSE Recorded(j) /\ UNCHANGED result
    /\ UNCHANGED <<storeVars, planVars, complete, allUp, displaced, ledger, todo, chat,
                   fellBack, cancelled>>

CopyAbandoned(j) ==
    /\ pc[j] = "copy"
    /\ cancelled[j]
    /\ Leave(j, "ok")
    /\ UNCHANGED <<storeVars, planVars, buildVars, todo, chat, fellBack, cancelled>>

-----------------------------------------------------------------------------
(* The replacement of the rows, and what becomes of the messages. *)

Uploaded(j) == allUp[j] /\ Cardinality(uploads[j]) = Parts[Here(j)]

\* Mutant: the rows of the other codec of the group are left in place.
ReplaceOwnCodec(j) ==
    /\ pc[j] = "commit" /\ Uploaded(j)
    /\ MatchesExpected(rows[Here(j)], expect[j][Here(j)])
    /\ LET old == OfCodec(rows[Here(j)], CodecHere(j))
       IN  /\ rows' = [rows EXCEPT ![Here(j)] = (@ \ old) \cup uploads[j]]
           /\ displaced' = [displaced EXCEPT ![j] = {x.msg : x \in old} \ Mine(j)]
    /\ ledger' = [ledger EXCEPT ![j] = @ \ Mine(j)]
    /\ Goto(j, "displace")
    /\ UNCHANGED <<dump, residue, planVars, rend, part, complete, allUp, uploads, todo, chat,
                   fellBack, cancelled, result>>

\* Mutant: a committed part stays in the ledger of uncommitted ones.
ReplaceKeepsLedger(j) ==
    /\ pc[j] = "commit" /\ Uploaded(j)
    /\ MatchesExpected(rows[Here(j)], expect[j][Here(j)])
    /\ rows' = [rows EXCEPT ![Here(j)] = uploads[j]]
    /\ displaced' = [displaced EXCEPT ![j] = {x.msg : x \in rows[Here(j)]} \ Mine(j)]
    /\ Goto(j, "displace")
    /\ UNCHANGED <<dump, residue, planVars, rend, part, complete, allUp, uploads, ledger,
                   todo, chat, fellBack, cancelled, result>>

\* One transaction, under an advisory lock on album and group: the rows of
\* every codec of the group are replaced if they are still those the job read.
Replace(j) ==
    /\ pc[j] = "commit" /\ Uploaded(j)
    /\ MatchesExpected(rows[Here(j)], expect[j][Here(j)])
    /\ rows' = [rows EXCEPT ![Here(j)] = uploads[j]]
    /\ displaced' = [displaced EXCEPT ![j] = {x.msg : x \in rows[Here(j)]} \ Mine(j)]
    /\ ledger' = [ledger EXCEPT ![j] = @ \ Mine(j)]
    /\ Goto(j, "displace")
    /\ UNCHANGED <<dump, residue, planVars, rend, part, complete, allUp, uploads, todo, chat,
                   fellBack, cancelled, result>>

Stale(j) ==
    /\ pc[j] = "commit" /\ Uploaded(j)
    /\ ~MatchesExpected(rows[Here(j)], expect[j][Here(j)])
    /\ Goto(j, "discard")
    /\ UNCHANGED <<storeVars, planVars, buildVars, todo, chat, fellBack, cancelled, result>>

ReplaceFails(j) ==
    /\ pc[j] = "commit" /\ Uploaded(j)
    /\ IF Here(j) = "primary" THEN Leave(j, "err") ELSE Goto(j, "discard") /\ UNCHANGED result
    /\ UNCHANGED <<storeVars, planVars, buildVars, todo, chat, fellBack, cancelled>>

\* Only an atmos archive comes this far with a part missing.
Incomplete(j) ==
    /\ pc[j] = "commit" /\ ~Uploaded(j)
    /\ Goto(j, "discard")
    /\ UNCHANGED <<storeVars, planVars, buildVars, todo, chat, fellBack, cancelled, result>>

\* retract_dump deletes message by message and goes on after a failure.
Retract(ms) ==
    \E kept \in SUBSET (ms \cap dump) :
        /\ dump' = dump \ (ms \ kept)
        /\ residue' = residue \cup kept

Displace(j) ==
    /\ pc[j] = "displace"
    /\ Retract(displaced[j])
    /\ displaced' = [displaced EXCEPT ![j] = {}]
    /\ NextRendition(j)
    /\ UNCHANGED <<rows, planVars, part, complete, allUp, uploads, ledger, todo, chat,
                   fellBack, cancelled, result>>

Discard(j) ==
    /\ pc[j] = "discard"
    /\ Retract(Mine(j))
    /\ ledger' = [ledger EXCEPT ![j] = @ \ Mine(j)]
    /\ NextRendition(j)
    /\ UNCHANGED <<rows, planVars, part, complete, allUp, uploads, displaced, todo, chat,
                   fellBack, cancelled, result>>

\* finalize_zip takes back what was published and not committed.
Finish(j) ==
    /\ pc[j] = "finish"
    /\ IF result[j] = "err" \/ cancelled[j]
       THEN Retract(ledger[j]) /\ ledger' = [ledger EXCEPT ![j] = {}]
       ELSE UNCHANGED <<dump, residue, ledger>>
    /\ Goto(j, "end")
    /\ UNCHANGED <<rows, planVars, rend, part, complete, allUp, uploads, displaced, todo, chat,
                   fellBack, cancelled, result>>

CancelJob(j) ==
    /\ ~cancelled[j] /\ pc[j] # "end"
    /\ cancelled' = [cancelled EXCEPT ![j] = TRUE]
    /\ UNCHANGED <<pc, storeVars, planVars, buildVars, todo, chat, fellBack, result>>

-----------------------------------------------------------------------------

RunJob(j) ==
    \/ ReadRows(j) \/ ReadRowsFails(j) \/ RipDisabled(j) \/ Lanes(j) \/ LanesFail(j)
    \/ FastCopy(j) \/ FastCopyFails(j) \/ FastDone(j)

FinalizeZipInner(j) ==
    \/ Interrupted(j) \/ ReuseRows(j) \/ SkipRendition(j) \/ StartRendition(j) \/ Lookup(j)
    \/ ReuseCopy(j) \/ ReuseCopyFails(j) \/ ReuseDone(j)
    \/ BuildPart(j) \/ BuildFails(j)
    \/ PublishOk(j) \/ PublishAbandoned(j) \/ PublishFails(j) \/ SendPartial(j)
    \/ CopyOk(j) \/ CopyFails(j) \/ CopyAbandoned(j)
    \/ Replace(j) \/ Stale(j) \/ ReplaceFails(j) \/ Incomplete(j)
    \/ Displace(j) \/ Discard(j)

Next == \E j \in Job : RunJob(j) \/ FinalizeZipInner(j) \/ Finish(j) \/ CancelJob(j)

Spec == Init /\ [][Next]_vars

-----------------------------------------------------------------------------
(* Properties. *)

\* Whatever jobs interleave, what they leave in the cache is one archive:
\* the parts 1 .. n of one generation and one codec, published by one job.
\* (Rows an importer left are only ever replaced as a whole.)
ArchiveIsWhole ==
    \A r \in Rendition :
        \/ rows[r] \in Leftovers(r)
        \/ \E j \in Job : /\ WholeArchive(rows[r], Gen[j])
                          /\ \A x \in rows[r] : x.msg.by = j
                          /\ \A x, y \in rows[r] : x.codec = y.codec

\* "zip_cancel_after_replacement_commit_never_deletes_new_document": at no
\* moment does the cache name a part that a job has retracted, whether it was
\* cancelled, failed, lost the race or displaced another archive.
CachedPartsExist == Named \subseteq dump

\* A part in the dump channel is named by the cache, or a job that has not
\* ended is about to commit or to retract it, or a retraction failed or a
\* publication was abandoned: no path of finalize_zip leaks one.
NoOrphanPart ==
    \A m \in dump :
        \/ m \in Named \cup residue
        \/ \E j \in Job : pc[j] # "end" /\ m \in ledger[j] \cup displaced[j]

\* A job that reports success delivered the primary archive as a whole, in
\* order and all from one archive, even if the rows it copies were read before
\* it queued and another job replaced or retracted them since (finalize_zip_
\* inner over zip_reuse), or between two copies.  Only the fast path that fell
\* back may have shown some parts before, and those once more.
DeliveredWhole ==
    \A j \in Job :
        LET shown == SelectSeq(chat[j], LAMBDA m : m.rend = "primary")
            before == Len(shown) - Parts["primary"]
        IN  /\ pc[j] = "end" /\ result[j] = "ok" /\ ~cancelled[j]
            /\ j \in Delivers /\ (sources[j]["primary"] # "none" \/ reuse[j]["primary"] # {})
            => /\ before >= 0 /\ (before > 0 => fellBack[j])
               /\ \A n \in 1 .. Parts["primary"] :
                      /\ shown[before + n].part = n
                      /\ shown[before + n].by = shown[before + 1].by

\* A job that staged every track and reports success leaves rows for the album:
\* its own, or those that kept it from committing (another job's archive, or
\* mixed rows, which replace_albums never replaces).
CompleteIsCached ==
    \A j \in Job :
        pc[j] = "end" /\ result[j] = "ok" /\ ~cancelled[j] /\ sources[j]["primary"] = "all"
        => rows["primary"] # {}

\* Every published part is accounted for: rows name existing messages, other
\* messages are still somebody's to retract, and success left rows behind
\* (finalize_zip, replace_album_zip, the ledger of uncommitted messages).
PartsAccounted ==
    TypeOK /\ CachedPartsExist /\ NoOrphanPart /\ CompleteIsCached

=============================================================================
