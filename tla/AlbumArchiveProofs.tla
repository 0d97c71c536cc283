------------------------- MODULE AlbumArchiveProofs -------------------------
(***************************************************************************)
(* Proofs about AlbumArchive for any set of jobs that carry one album id   *)
(* and any number of parts.  What a job may have published and not         *)
(* committed follows from where it is; what it may retract is never what   *)
(* the cache names, because the messages of a rendition it is still        *)
(* packing are not those of a rendition it has closed.                     *)
(***************************************************************************)
EXTENDS AlbumArchive, SequenceTheorems, FiniteSetTheorems, TLAPS

\* Inside one rendition; with `uploads` being those of that rendition.
Packing == {"lookup", "build", "publish", "copy", "commit", "displace", "discard"}
Building == Packing \cup {"reuse"}

Pos(r) == IF r = "primary" THEN 1 ELSE 2

\* The row of part n of the archive a job packs.
RowAt(j, n) ==
    [part |-> n, total |-> Parts[Here(j)], gen |-> Gen[j], codec |-> CodecHere(j),
     msg |-> [by |-> j, rend |-> Here(j), part |-> n]]

RowsBelow(j) == {RowAt(j, n) : n \in 1 .. part[j] - 1}

\* Where finalize_zip_inner is.
PlaceInv(j) ==
    /\ pc[j] \in {"read", "fast", "lanes"} => rend[j] = 1 /\ sources[j]["primary"] = "none"
    /\ pc[j] \in Building => rend[j] <= Len(Policy[j])
    /\ pc[j] \in {"lookup", "build", "publish", "copy"} => part[j] <= Parts[Here(j)]
    /\ pc[j] = "lookup" => part[j] = 1
    /\ pc[j] = "commit" => part[j] = Parts[Here(j)] + 1
    /\ pc[j] \in Packing => (complete[j] <=> sources[j][Here(j)] = "all")
    /\ pc[j] \in {"lookup", "copy", "commit", "displace", "discard"} => complete[j]

\* What it has recorded of the archive.
RecordInv(j) ==
    pc[j] \in Packing =>
        /\ uploads[j] \subseteq RowsBelow(j)
        /\ complete[j] /\ allUp[j] => RowsBelow(j) \subseteq uploads[j]
        /\ ~complete[j] => uploads[j] = {}
        /\ Here(j) = "primary" => allUp[j]

\* What it has published and not committed.
LedgerInv(j) ==
    /\ pc[j] \in {"read", "fast", "lanes", "rend", "lookup", "reuse", "displace", "end"} =>
          ledger[j] = {}
    /\ pc[j] \in {"build", "publish", "commit", "discard"} => ledger[j] = Mine(j)
    /\ pc[j] = "copy" => ledger[j] = Mine(j) \cup {NewMsg(j)}
    /\ \A m \in ledger[j] : m.by = j /\ Pos(m.rend) = rend[j] /\ m \in dump
    /\ pc[j] # "displace" => displaced[j] = {}
    /\ pc[j] = "finish" /\ result[j] # "err" /\ ~cancelled[j] => ledger[j] = {}

\* What it knows of the cache, which never becomes empty again.
CacheInv(j) ==
    /\ \A r \in Rendition : reuse[j][r] # {} => rows[r] # {}
    /\ pc[j] \notin {"read", "end"} =>
          \A r \in Rendition : expect[j][r].kind # "empty" => rows[r] # {}
    /\ sources[j]["primary"] = "all" /\ rend[j] > 1 => rows["primary"] # {}
    /\ pc[j] \in {"reuse", "displace", "discard"} /\ rend[j] = 1 => rows["primary"] # {}
    /\ /\ pc[j] \in {"finish", "end"} /\ result[j] = "ok" /\ ~cancelled[j]
       /\ sources[j]["primary"] = "all"
       => rend[j] > 1

\* The job that published m is done with the rendition m belongs to.
Closed(m) ==
    m.by \in Job =>
        Pos(m.rend) < rend[m.by] \/ (Pos(m.rend) = rend[m.by] /\ pc[m.by] = "displace")

RowsClosed == \A r \in Rendition : \A x \in rows[r] : x.msg.rend = r /\ Closed(x.msg)
DisplacedClosed == \A j \in Job : \A m \in displaced[j] : Closed(m) /\ m \notin Named

JobInv(j) == PlaceInv(j) /\ RecordInv(j) /\ LedgerInv(j) /\ CacheInv(j)

ArchiveInv ==
    /\ TypeOK
    /\ \A j \in Job : JobInv(j)
    /\ RowsClosed /\ DisplacedClosed
    /\ CachedPartsExist /\ NoOrphanPart /\ ArchiveIsWhole

-----------------------------------------------------------------------------
(* Constants, and where a job is. *)

\* Policies, parts and renditions in the form the provers use.
LEMMA Shape ==
    /\ \A j \in Job : /\ Len(Policy[j]) \in {1, 2} /\ Policy[j][1] = "primary"
                      /\ Len(Policy[j]) = 2 => Policy[j][2] = "atmos"
    /\ \A r \in Rendition : Parts[r] \in Nat /\ Parts[r] >= 1 /\ Parts[r] <= MaxParts
    /\ MaxParts \in Nat /\ MaxParts >= 1
    /\ \A r : r \in Rendition <=> r = "primary" \/ r = "atmos"
<1>1. \A j \in Job : Policy[j] = <<"primary">> \/ Policy[j] = <<"primary", "atmos">>
  BY ArchiveAssumption
<1>2. \A j \in Job : /\ Len(Policy[j]) \in {1, 2} /\ Policy[j][1] = "primary"
                     /\ Len(Policy[j]) = 2 => Policy[j][2] = "atmos"
  BY <1>1
<1> QED  BY <1>2, ArchiveAssumption DEF Rendition, MaxParts

\* The index of a rendition is a number.
LEMMA RendNat ==
    ASSUME TypeOK
    PROVE  \A i \in Job : rend[i] \in Nat /\ rend[i] >= 1
<1>1. rend \in [Job -> 1 .. 3]
  BY DEF TypeOK
<1>2. \A i \in Job : rend[i] \in 1 .. 3
  BY <1>1
<1> QED  BY <1>2

\* The rendition a job is at.
LEMMA HereShape ==
    ASSUME TypeOK, NEW j \in Job, rend[j] <= Len(Policy[j])
    PROVE  /\ Here(j) \in Rendition /\ CodecHere(j) \in Codec
           /\ Pos(Here(j)) = rend[j] /\ (Here(j) = "primary" <=> rend[j] = 1)
           /\ rend[j] \in {1, 2}
<1> DEFINE last == Len(Policy[j])
<1>0. last \in {1, 2} /\ rend[j] <= last /\ rend[j] \in 1 .. 3
  BY Shape DEF TypeOK
<1>1. rend[j] \in {1, 2}
  <2> HIDE DEF last
  <2> QED  BY <1>0
<1>2. Here(j) = IF rend[j] = 1 THEN "primary" ELSE "atmos"
  BY <1>1, Shape DEF Here
<1>3. CodecOf[j] \in Codec /\ "ec-3" \in Codec
  BY ArchiveAssumption DEF Codec
<1> QED  BY <1>1, <1>2, <1>3 DEF Pos, CodecHere, Rendition

\* What a job publishes and records next.
LEMMA NewShape ==
    ASSUME TypeOK, NEW j \in Job, rend[j] <= Len(Policy[j]), part[j] <= Parts[Here(j)]
    PROVE  /\ NewMsg(j) \in Message /\ NewRow(j) \in Row
           /\ NewRow(j) = RowAt(j, part[j]) /\ NewRow(j).msg = NewMsg(j)
           /\ NewMsg(j).by = j /\ NewMsg(j).rend = Here(j)
<1>1. Here(j) \in Rendition /\ CodecHere(j) \in Codec
  BY HereShape
<1>2. part[j] \in 1 .. MaxParts /\ Parts[Here(j)] \in 1 .. MaxParts
  BY <1>1, Shape DEF TypeOK
<1>3. NewMsg(j) \in Message
  BY <1>1, <1>2 DEF NewMsg, Message
<1>4. Gen[j] \in Generation
  BY DEF Generation
<1>5. NewRow(j) \in Row
  BY <1>1, <1>2, <1>3, <1>4 DEF NewRow, Row
<1> QED  BY <1>3, <1>5 DEF NewRow, NewMsg, RowAt

\* A jump moves one job only.
LEMMA Goes ==
    ASSUME TypeOK, NEW j \in Job, NEW p \in Places, Goto(j, p)
    PROVE  pc' \in [Job -> Places] /\ pc'[j] = p /\ \A i \in Job : i # j => pc'[i] = pc[i]
BY DEF TypeOK, Goto

\* finalize_zip_inner returns.
LEMMA Leaves ==
    ASSUME TypeOK, NEW j \in Job, NEW r \in {"ok", "err"}, Leave(j, r)
    PROVE  /\ pc' \in [Job -> Places] /\ pc'[j] = "finish"
           /\ result' \in [Job -> {"none", "ok", "err"}] /\ result'[j] = r
           /\ \A i \in Job : i # j => pc'[i] = pc[i] /\ result'[i] = result[i]
<1>1. "finish" \in Places
  BY DEF Places
<1> QED  BY <1>1, Goes DEF Leave, TypeOK

\* The next rendition.
LEMMA NextRenditionGoes ==
    ASSUME TypeOK, NEW j \in Job, rend[j] <= Len(Policy[j]), NextRendition(j)
    PROVE  /\ pc' \in [Job -> Places] /\ pc'[j] = "rend"
           /\ rend' \in [Job -> 1 .. 3] /\ rend'[j] = rend[j] + 1
           /\ \A i \in Job : i # j => pc'[i] = pc[i] /\ rend'[i] = rend[i]
<1>1. "rend" \in Places
  BY DEF Places
<1>2. rend[j] \in {1, 2}
  BY HereShape
<1> QED  BY <1>1, <1>2, Goes DEF NextRendition, TypeOK

\* The next part, or what follows the last.
LEMMA NextPartGoes ==
    ASSUME TypeOK, NEW j \in Job, rend[j] <= Len(Policy[j]), part[j] <= Parts[Here(j)],
           NextPart(j)
    PROVE  /\ pc' \in [Job -> Places] /\ rend' \in [Job -> 1 .. 3]
           /\ part' \in [Job -> 1 .. MaxParts + 1] /\ part'[j] = part[j] + 1
           /\ \/ pc'[j] = "build" /\ rend' = rend /\ part[j] + 1 <= Parts[Here(j)]
              \/ pc'[j] = "commit" /\ rend' = rend /\ part[j] = Parts[Here(j)] /\ complete[j]
              \/ pc'[j] = "rend" /\ rend'[j] = rend[j] + 1 /\ ~complete[j]
           /\ \A i \in Job : i # j =>
                 pc'[i] = pc[i] /\ rend'[i] = rend[i] /\ part'[i] = part[i]
<1>1. "build" \in Places /\ "commit" \in Places
  BY DEF Places
<1>2. Here(j) \in Rendition
  BY HereShape
<1>3. /\ part[j] \in Nat /\ Parts[Here(j)] \in Nat /\ part[j] <= MaxParts /\ part[j] >= 1
      /\ MaxParts \in Nat
  BY <1>2, Shape DEF TypeOK
<1>4. /\ part' \in [Job -> 1 .. MaxParts + 1] /\ part'[j] = part[j] + 1
      /\ \A i \in Job : i # j => part'[i] = part[i]
  BY <1>3 DEF NextPart, TypeOK
<1>5. CASE part[j] < Parts[Here(j)]
  <2>1. Goto(j, "build") /\ rend' = rend
    BY <1>5 DEF NextPart
  <2> QED  BY <1>1, <1>3, <1>4, <1>5, <2>1, Goes DEF TypeOK
<1>6. CASE part[j] = Parts[Here(j)] /\ complete[j]
  <2>1. Goto(j, "commit") /\ rend' = rend
    BY <1>3, <1>6 DEF NextPart
  <2> QED  BY <1>1, <1>4, <1>6, <2>1, Goes DEF TypeOK
<1>7. CASE part[j] = Parts[Here(j)] /\ ~complete[j]
  <2>1. NextRendition(j)
    BY <1>3, <1>7 DEF NextPart
  <2> QED  BY <1>4, <1>7, <2>1, NextRenditionGoes
<1> QED  BY <1>3, <1>5, <1>6, <1>7

-----------------------------------------------------------------------------
(* Types. *)

\* The types hold at the start, whatever an earlier process left.
LEMMA InitTypeOK == Init => TypeOK
<1> SUFFICES ASSUME Init PROVE TypeOK
  OBVIOUS
<1>1. \A r \in Rendition : \A n \in 1 .. Parts[r] : \A g \in {OldGen, "other"} :
         OldRow(r, n, g) \in Row
  <2> SUFFICES ASSUME NEW r \in Rendition, NEW n \in 1 .. Parts[r],
                      NEW g \in {OldGen, "other"}
               PROVE  OldRow(r, n, g) \in Row
    OBVIOUS
  <2>1. n \in 1 .. MaxParts /\ Parts[r] \in 1 .. MaxParts /\ g \in Generation
    BY Shape DEF Generation
  <2>2. [by |-> OldJob, rend |-> r, part |-> n] \in Message
    BY <2>1 DEF Message
  <2> QED  BY <2>1, <2>2 DEF OldRow, Row, Codec
<1>2. \A r \in Rendition : \A S \in Leftovers(r) : S \subseteq Row
  BY <1>1 DEF Leftovers
<1>3. rows \in [Rendition -> SUBSET Row]
  BY <1>2 DEF Init
<1>4. dump \subseteq Message
  <2>1. \A x \in Row : x.msg \in Message
    BY DEF Row
  <2> QED  BY <1>3, <2>1 DEF Init, Named
<1>5. [kind |-> "mixed"] \in Expected
  BY DEF Expected
<1>6. "read" \in Places /\ 1 \in 1 .. MaxParts + 1 /\ <<>> \in Seq(Message)
  BY Shape, EmptySeq DEF Places
<1> QED  BY <1>3, <1>4, <1>5, <1>6 DEF Init, TypeOK

\* What run_job expects to replace has a type.
LEMMA ExpectationType == \A S \in SUBSET Row : Expectation(S) \in Expected
<1> SUFFICES ASSUME NEW S \in SUBSET Row PROVE Expectation(S) \in Expected
  OBVIOUS
<1>1. S # {} => (CHOOSE x \in S : TRUE) \in S
  OBVIOUS
<1>2. S # {} => (CHOOSE x \in S : TRUE).gen \in Generation
  BY <1>1 DEF Row
<1> QED  BY <1>2 DEF Expectation, Expected

\* run_job keeps the types.
LEMMA RunJobTypeOK ==
    ASSUME TypeOK, NEW j \in Job, RunJob(j)
    PROVE  TypeOK'
<1> USE DEF storeVars, planVars, buildVars
<1>0. "end" \in Places /\ "lanes" \in Places /\ "fast" \in Places /\ "rend" \in Places
  BY DEF Places
<1>1. CASE ReadRows(j)
  <2> DEFINE asked == {Policy[j][n] : n \in 1 .. Len(Policy[j])}
             found == [r \in Rendition |-> IF r \in asked THEN Reusable(j, r) ELSE {}]
             seen == [r \in Rendition |-> Expectation(rows[r])]
             copied == UNION {found[r] : r \in Rendition}
  <2>1. \A r \in Rendition : found[r] \subseteq rows[r]
    BY DEF Reusable, OfCodec
  <2>2. found \in [Rendition -> SUBSET Row] /\ copied \in SUBSET Row
    BY <2>1 DEF TypeOK
  <2>3. seen \in [Rendition -> Expected]
    BY ExpectationType DEF TypeOK
  <2> HIDE DEF found, seen, copied
  <2>4. /\ UNCHANGED <<sources, rows, dump, residue, rend, part, complete, allUp, uploads,
                       displaced, ledger, chat, fellBack, cancelled>>
        /\ expect' = [expect EXCEPT ![j] = seen]
        /\ reuse' = [reuse EXCEPT ![j] = found]
        /\ Goto(j, "lanes") \/ Goto(j, "fast") \/ Goto(j, "end")
        /\ result' = result \/ result' = [result EXCEPT ![j] = "ok"]
        /\ todo' = [todo EXCEPT ![j] = copied] \/ todo' = [todo EXCEPT ![j] = {}]
    BY <1>1 DEF ReadRows, found, seen, copied
  <2>5. pc' \in [Job -> Places]
    <3>1. pc \in [Job -> Places]  BY DEF TypeOK
    <3>2. \A p \in Places : [pc EXCEPT ![j] = p] \in [Job -> Places]  BY <3>1
    <3> QED  BY <1>0, <2>4, <3>2 DEF Goto
  <2>6. result' \in [Job -> {"none", "ok", "err"}]
    BY <2>4 DEF TypeOK
  <2>7. expect' \in [Job -> [Rendition -> Expected]]
    BY <2>3, <2>4 DEF TypeOK
  <2>8. reuse' \in [Job -> [Rendition -> SUBSET Row]] /\ todo' \in [Job -> SUBSET Row]
    BY <2>2, <2>4 DEF TypeOK
  <2> QED  BY <2>4, <2>5, <2>6, <2>7, <2>8 DEF TypeOK
<1>2. CASE ReadRowsFails(j) \/ RipDisabled(j) \/ LanesFail(j)
  <2>1. /\ Goto(j, "end")
        /\ result' = [result EXCEPT ![j] = "ok"] \/ result' = [result EXCEPT ![j] = "err"]
        /\ UNCHANGED <<rows, dump, residue, sources, expect, reuse, rend, part, complete, allUp,
                       uploads, displaced, ledger, todo, chat, fellBack, cancelled>>
    BY <1>2 DEF ReadRowsFails, RipDisabled, LanesFail
  <2>2. result' \in [Job -> {"none", "ok", "err"}]
    BY <2>1 DEF TypeOK
  <2> QED  BY <1>0, <2>1, <2>2, Goes DEF TypeOK
<1>3. CASE Lanes(j)
  <2>1. sources' \in [Job -> [Rendition -> {"none", "some", "all"}]]
    BY <1>3 DEF Lanes, TypeOK
  <2> QED  BY <1>0, <1>3, <2>1 DEF Lanes, Goto, TypeOK
<1>4. CASE FastCopy(j)
  <2> DEFINE x == NextRow(todo[j])
  <2> HIDE DEF x
  <2>1. x.msg \in dump /\ chat' = [chat EXCEPT ![j] = Append(@, x.msg)] /\ Drop(j, x)
    BY <1>4 DEF FastCopy, Show, x
  <2>2. Append(chat[j], x.msg) \in Seq(Message)
    BY <2>1, AppendProperties DEF TypeOK
  <2>3. chat' \in [Job -> Seq(Message)]
    BY <2>1, <2>2 DEF TypeOK
  <2>4. todo' \in [Job -> SUBSET Row]
    BY <2>1 DEF Drop, TypeOK
  <2> QED  BY <1>4, <2>3, <2>4 DEF FastCopy, TypeOK
<1>5. CASE FastCopyFails(j)
  <2> DEFINE x == NextRow(todo[j])
  <2> HIDE DEF x
  <2>1. \/ /\ fellBack' = [fellBack EXCEPT ![j] = TRUE] /\ todo' = [todo EXCEPT ![j] = {}]
           /\ Goto(j, "lanes")
        \/ Drop(j, x) /\ UNCHANGED <<pc, fellBack>>
    BY <1>5 DEF FastCopyFails, x
  <2>2. pc \in [Job -> Places] /\ fellBack \in [Job -> BOOLEAN] /\ todo \in [Job -> SUBSET Row]
    BY DEF TypeOK
  <2>3. pc' \in [Job -> Places]
    BY <1>0, <2>1, <2>2, Goes
  <2>4. fellBack' \in [Job -> BOOLEAN]
    BY <2>1, <2>2
  <2>5. todo[j] \ {x} \in SUBSET Row
    BY <2>2
  <2>6. todo' \in [Job -> SUBSET Row]
    BY <2>1, <2>2, <2>5 DEF Drop
  <2> QED  BY <1>5, <2>3, <2>4, <2>6 DEF FastCopyFails, TypeOK
<1>6. CASE FastDone(j)
  BY <1>0, <1>6 DEF FastDone, Goto, TypeOK
<1> QED  BY <1>1, <1>2, <1>3, <1>4, <1>5, <1>6 DEF RunJob

\* Retractions keep the types.
LEMMA RetractType ==
    ASSUME TypeOK, NEW ms, Retract(ms)
    PROVE  /\ dump' \subseteq dump /\ residue \subseteq residue'
           /\ dump' \subseteq Message /\ residue' \subseteq Message
           /\ \A m : m \in dump /\ m \notin ms => m \in dump'
           /\ \A m : m \in dump' /\ m \in ms => m \in residue'
BY DEF Retract, TypeOK

\* Showing a message in the chat keeps the types.
LEMMA ShowType ==
    ASSUME TypeOK, NEW j \in Job, NEW m \in Message, Show(j, m)
    PROVE  chat' \in [Job -> Seq(Message)]
<1>1. Append(chat[j], m) \in Seq(Message)
  BY AppendProperties DEF TypeOK
<1> QED  BY <1>1 DEF Show, TypeOK

\* Recording a part keeps the types.
LEMMA RecordedGoes ==
    ASSUME TypeOK, NEW j \in Job, rend[j] <= Len(Policy[j]), part[j] <= Parts[Here(j)],
           Recorded(j)
    PROVE  /\ uploads' \in [Job -> SUBSET Row]
           /\ uploads'[j] = uploads[j] \cup {NewRow(j)}
           /\ \A i \in Job : i # j => uploads'[i] = uploads[i]
           /\ NextPart(j)
<1>1. NewRow(j) \in Row
  BY NewShape
<1> QED  BY <1>1 DEF Recorded, TypeOK

\* A lost part keeps the types.
LEMMA PartLostGoes ==
    ASSUME TypeOK, NEW j \in Job, rend[j] <= Len(Policy[j]), part[j] <= Parts[Here(j)],
           PartLost(j)
    PROVE  \/ /\ Here(j) = "primary" /\ Leave(j, "err") /\ UNCHANGED <<allUp, part, rend>>
           \/ /\ Here(j) # "primary" /\ NextPart(j) /\ UNCHANGED result
              /\ allUp' = [allUp EXCEPT ![j] = FALSE]
BY DEF PartLost

\* finalize_zip_inner, the walk over the renditions, keeps the types.
LEMMA RenditionTypeOK ==
    ASSUME TypeOK, NEW j \in Job, PlaceInv(j),
           \/ Interrupted(j) \/ ReuseRows(j) \/ SkipRendition(j) \/ StartRendition(j)
           \/ Lookup(j) \/ ReuseCopy(j) \/ ReuseCopyFails(j) \/ ReuseDone(j)
    PROVE  TypeOK'
<1> USE DEF storeVars, planVars, buildVars
<1>0. "reuse" \in Places /\ "lookup" \in Places /\ "build" \in Places
  BY DEF Places
<1>1. CASE Interrupted(j)
  <2>1. Leave(j, "ok")
    BY <1>1 DEF Interrupted
  <2> QED  BY <1>1, <2>1, Leaves DEF Interrupted, TypeOK
<1>2. CASE ReuseRows(j)
  <2>0. rend[j] <= Len(Policy[j])
    BY <1>2 DEF ReuseRows
  <2>1. reuse[j][Here(j)] \in SUBSET Row
    BY <2>0, HereShape DEF TypeOK
  <2>2. CASE j \in Delivers
    <3>1. todo' \in [Job -> SUBSET Row]
      BY <1>2, <2>1, <2>2 DEF ReuseRows, TypeOK
    <3>2. Goto(j, "reuse")
      BY <1>2, <2>2 DEF ReuseRows
    <3> QED  BY <1>0, <1>2, <2>2, <3>1, <3>2, Goes DEF ReuseRows, TypeOK
  <2>3. CASE j \notin Delivers
    <3>1. NextRendition(j)
      BY <1>2, <2>3 DEF ReuseRows
    <3> QED  BY <1>2, <2>0, <2>3, <3>1, NextRenditionGoes DEF ReuseRows, TypeOK
  <2> QED  BY <2>2, <2>3
<1>3. CASE SkipRendition(j)
  <2>1. NextRendition(j) /\ rend[j] <= Len(Policy[j])
    BY <1>3 DEF SkipRendition, Ready
  <2> QED  BY <1>3, <2>1, NextRenditionGoes DEF SkipRendition, TypeOK
<1>4. CASE StartRendition(j)
  <2>1. pc' \in [Job -> Places]
    BY <1>0, <1>4, Goes DEF StartRendition
  <2>2. complete' \in [Job -> BOOLEAN] /\ allUp' \in [Job -> BOOLEAN]
    BY <1>4 DEF StartRendition, TypeOK
  <2>3. part' \in [Job -> 1 .. MaxParts + 1] /\ uploads' \in [Job -> SUBSET Row]
    BY <1>4, Shape DEF StartRendition, TypeOK
  <2> QED  BY <1>4, <2>1, <2>2, <2>3 DEF StartRendition, TypeOK
<1>5. CASE Lookup(j)
  <2> DEFINE existing == OfCodec(rows[Here(j)], CodecHere(j))
  <2>0. rend[j] <= Len(Policy[j])
    BY <1>5 DEF Lookup, PlaceInv, Building, Packing
  <2>1. existing \in SUBSET Row
    BY <2>0, HereShape DEF OfCodec, TypeOK
  <2> HIDE DEF existing
  <2>2. /\ \/ todo' = [todo EXCEPT ![j] = existing] /\ Goto(j, "reuse") /\ UNCHANGED rend
           \/ NextRendition(j) /\ UNCHANGED todo
           \/ Goto(j, "build") /\ UNCHANGED <<todo, rend>>
        /\ UNCHANGED <<rows, dump, residue, sources, expect, reuse, part, complete, allUp,
                       uploads, displaced, ledger, chat, fellBack, cancelled, result>>
    BY <1>5 DEF Lookup, existing
  <2>3. todo \in [Job -> SUBSET Row] /\ rend \in [Job -> 1 .. 3]
    BY DEF TypeOK
  <2>4. todo' \in [Job -> SUBSET Row]
    BY <2>1, <2>2, <2>3
  <2>5. pc' \in [Job -> Places] /\ rend' \in [Job -> 1 .. 3]
    BY <1>0, <2>0, <2>2, <2>3, Goes, NextRenditionGoes
  <2> QED  BY <2>2, <2>4, <2>5 DEF TypeOK
<1>6. CASE ReuseCopy(j)
  <2> DEFINE x == NextRow(todo[j])
  <2> HIDE DEF x
  <2>1. x.msg \in dump /\ Show(j, x.msg) /\ Drop(j, x)
    BY <1>6 DEF ReuseCopy, x
  <2>2. chat' \in [Job -> Seq(Message)]
    BY <2>1, ShowType DEF TypeOK
  <2>3. todo' \in [Job -> SUBSET Row]
    BY <2>1 DEF Drop, TypeOK
  <2> QED  BY <1>6, <2>2, <2>3 DEF ReuseCopy, TypeOK
<1>7. CASE ReuseCopyFails(j)
  <2> DEFINE x == NextRow(todo[j])
  <2> HIDE DEF x
  <2>1. \/ Leave(j, "err") /\ todo' = [todo EXCEPT ![j] = {}]
        \/ Drop(j, x) /\ UNCHANGED <<pc, result>>
    BY <1>7 DEF ReuseCopyFails, x
  <2>2. /\ pc \in [Job -> Places] /\ result \in [Job -> {"none", "ok", "err"}]
        /\ todo \in [Job -> SUBSET Row] /\ todo[j] \ {x} \in SUBSET Row
    BY DEF TypeOK
  <2>3. pc' \in [Job -> Places] /\ result' \in [Job -> {"none", "ok", "err"}]
    BY <2>1, <2>2, Leaves
  <2>4. todo' \in [Job -> SUBSET Row]
    BY <2>1, <2>2 DEF Drop
  <2> QED  BY <1>7, <2>3, <2>4 DEF ReuseCopyFails, TypeOK
<1>8. CASE ReuseDone(j)
  <2>1. NextRendition(j) /\ rend[j] <= Len(Policy[j])
    BY <1>8 DEF ReuseDone, PlaceInv, Building
  <2>2. todo' \in [Job -> SUBSET Row]
    BY <1>8 DEF ReuseDone, TypeOK
  <2> QED  BY <1>8, <2>1, <2>2, NextRenditionGoes DEF ReuseDone, TypeOK
<1> QED  BY <1>1, <1>2, <1>3, <1>4, <1>5, <1>6, <1>7, <1>8

\* The parts of an archive keep the types.
LEMMA PartTypeOK ==
    ASSUME TypeOK, NEW j \in Job, PlaceInv(j),
           \/ BuildPart(j) \/ BuildFails(j) \/ PublishOk(j) \/ PublishAbandoned(j)
           \/ PublishFails(j) \/ SendPartial(j) \/ CopyOk(j) \/ CopyFails(j) \/ CopyAbandoned(j)
    PROVE  TypeOK'
<1> USE DEF storeVars, planVars, buildVars
<1>0. "publish" \in Places /\ "copy" \in Places
  BY DEF Places
<1>1. pc[j] \in {"build", "publish", "copy"}
  BY DEF BuildPart, BuildFails, PublishOk, PublishAbandoned, PublishFails, SendPartial, CopyOk,
         CopyFails, CopyAbandoned
<1>2. rend[j] <= Len(Policy[j]) /\ part[j] <= Parts[Here(j)]
  BY <1>1 DEF PlaceInv, Building, Packing
<1>3. NewMsg(j) \in Message
  BY <1>2, NewShape
<1>4. Leave(j, "ok") \/ Leave(j, "err") =>
         pc' \in [Job -> Places] /\ result' \in [Job -> {"none", "ok", "err"}]
  BY Leaves
<1>5. NextPart(j) => /\ pc' \in [Job -> Places] /\ rend' \in [Job -> 1 .. 3]
                     /\ part' \in [Job -> 1 .. MaxParts + 1]
  BY <1>2, NextPartGoes
<1>6. Recorded(j) => uploads' \in [Job -> SUBSET Row] /\ NextPart(j)
  BY <1>2, RecordedGoes
<1>7. ASSUME PartLost(j),
             UNCHANGED <<rows, dump, residue, sources, expect, reuse, complete, uploads, displaced,
                         ledger, todo, chat, fellBack, cancelled>>
      PROVE  TypeOK'
  <2>1. CASE Leave(j, "err") /\ UNCHANGED <<allUp, part, rend>>
    BY <1>4, <1>7, <2>1 DEF TypeOK
  <2>2. CASE NextPart(j) /\ UNCHANGED result /\ allUp' = [allUp EXCEPT ![j] = FALSE]
    BY <1>5, <1>7, <2>2 DEF TypeOK
  <2> QED  BY <1>2, <1>7, <2>1, <2>2, PartLostGoes
<1>a. CASE BuildPart(j)
  <2>1. Leave(j, "ok") \/ (Goto(j, "publish") /\ UNCHANGED result)
    BY <1>a DEF BuildPart
  <2> QED  BY <1>0, <1>4, <1>a, <2>1, Goes DEF BuildPart, TypeOK
<1>b. CASE BuildFails(j)
  BY <1>7, <1>b DEF BuildFails
<1>c. CASE PublishOk(j)
  <2>1. dump' \subseteq Message /\ ledger' \in [Job -> SUBSET Message]
    BY <1>3, <1>c DEF PublishOk, TypeOK
  <2>2. CASE Leave(j, "ok") /\ UNCHANGED <<uploads, part, rend>>
    BY <1>4, <1>c, <2>1, <2>2 DEF PublishOk, TypeOK
  <2>3. CASE Goto(j, "copy") /\ UNCHANGED <<uploads, part, rend, result>>
    BY <1>0, <1>c, <2>1, <2>3, Goes DEF PublishOk, TypeOK
  <2>4. CASE Recorded(j) /\ UNCHANGED result
    BY <1>5, <1>6, <1>c, <2>1, <2>4 DEF PublishOk, TypeOK
  <2> QED  BY <1>c, <2>2, <2>3, <2>4 DEF PublishOk
<1>d. CASE PublishAbandoned(j)
  <2>1. dump' \subseteq Message /\ residue' \subseteq Message
    BY <1>3, <1>d DEF PublishAbandoned, TypeOK
  <2> QED  BY <1>4, <1>d, <2>1 DEF PublishAbandoned, TypeOK
<1>e. CASE PublishFails(j)
  BY <1>7, <1>e DEF PublishFails
<1>f. CASE SendPartial(j)
  BY <1>3, <1>5, <1>f, ShowType DEF SendPartial, TypeOK
<1>g. CASE CopyOk(j)
  <2>1. chat' \in [Job -> Seq(Message)]
    BY <1>3, <1>g, ShowType DEF CopyOk
  <2>2. CASE Leave(j, "ok") /\ UNCHANGED <<uploads, part, rend>>
    BY <1>4, <1>g, <2>1, <2>2 DEF CopyOk, TypeOK
  <2>3. CASE Recorded(j) /\ UNCHANGED result
    BY <1>5, <1>6, <1>g, <2>1, <2>3 DEF CopyOk, TypeOK
  <2> QED  BY <1>g, <2>2, <2>3 DEF CopyOk
<1>h. CASE CopyFails(j)
  <2>1. CASE Leave(j, "err") /\ UNCHANGED <<uploads, part, rend>>
    BY <1>4, <1>h, <2>1 DEF CopyFails, TypeOK
  <2>2. CASE Recorded(j) /\ UNCHANGED result
    BY <1>5, <1>6, <1>h, <2>2 DEF CopyFails, TypeOK
  <2> QED  BY <1>h, <2>1, <2>2 DEF CopyFails
<1>i. CASE CopyAbandoned(j)
  BY <1>4, <1>i DEF CopyAbandoned, TypeOK
<1> QED  BY <1>a, <1>b, <1>c, <1>d, <1>e, <1>f, <1>g, <1>h, <1>i

\* The replacement and the retractions keep the types.
LEMMA ReplaceTypeOK ==
    ASSUME TypeOK, NEW j \in Job, PlaceInv(j),
           \/ Replace(j) \/ Stale(j) \/ ReplaceFails(j) \/ Incomplete(j)
           \/ Displace(j) \/ Discard(j) \/ Finish(j) \/ CancelJob(j)
    PROVE  TypeOK'
<1> USE DEF storeVars, planVars, buildVars
<1>0. "displace" \in Places /\ "discard" \in Places /\ "end" \in Places
  BY DEF Places
<1>1. pc[j] \in {"commit", "displace", "discard"} => rend[j] <= Len(Policy[j])
  BY DEF PlaceInv, Building, Packing
<1>2. \A ms \in SUBSET Message : ledger' = [ledger EXCEPT ![j] = @ \ ms] =>
         ledger' \in [Job -> SUBSET Message]
  BY DEF TypeOK
<1>a. CASE Replace(j)
  <2>1. Here(j) \in Rendition /\ pc[j] = "commit"
    BY <1>1, <1>a, HereShape DEF Replace
  <2>2. rows' \in [Rendition -> SUBSET Row]
    BY <1>a, <2>1 DEF Replace, TypeOK
  <2>3. \A x \in Row : x.msg \in Message
    BY DEF Row
  <2>4. Mine(j) \in SUBSET Message /\ {x.msg : x \in rows[Here(j)]} \ Mine(j) \in SUBSET Message
    BY <2>1, <2>3 DEF Mine, TypeOK
  <2>5. displaced' \in [Job -> SUBSET Message]
    BY <1>a, <2>4 DEF Replace, TypeOK
  <2>6. ledger' \in [Job -> SUBSET Message]
    BY <1>2, <1>a, <2>4 DEF Replace
  <2> QED  BY <1>0, <1>a, <2>2, <2>5, <2>6, Goes DEF Replace, TypeOK
<1>b. CASE Stale(j) \/ Incomplete(j)
  BY <1>0, <1>b, Goes DEF Stale, Incomplete, TypeOK
<1>c. CASE ReplaceFails(j)
  BY <1>0, <1>c, Goes, Leaves DEF ReplaceFails, TypeOK
<1>d. CASE Displace(j)
  <2>1. /\ pc' \in [Job -> Places] /\ rend' \in [Job -> 1 .. 3]
    BY <1>1, <1>d, NextRenditionGoes DEF Displace
  <2>2. dump' \subseteq Message /\ residue' \subseteq Message
    BY <1>d, RetractType DEF Displace
  <2>3. displaced' \in [Job -> SUBSET Message]
    BY <1>d DEF Displace, TypeOK
  <2> QED  BY <1>d, <2>1, <2>2, <2>3 DEF Displace, TypeOK
<1>e. CASE Discard(j)
  <2>1. /\ pc' \in [Job -> Places] /\ rend' \in [Job -> 1 .. 3]
    BY <1>1, <1>e, NextRenditionGoes DEF Discard
  <2>2. dump' \subseteq Message /\ residue' \subseteq Message
    BY <1>e, RetractType DEF Discard
  <2>3. Mine(j) \in SUBSET Message
    BY DEF Mine, TypeOK, Row
  <2>4. ledger' \in [Job -> SUBSET Message]
    BY <1>2, <1>e, <2>3 DEF Discard
  <2> QED  BY <1>e, <2>1, <2>2, <2>4 DEF Discard, TypeOK
<1>f. CASE Finish(j)
  <2>1. dump' \subseteq Message /\ residue' \subseteq Message
    BY <1>f, RetractType DEF Finish, TypeOK
  <2>2. ledger' \in [Job -> SUBSET Message]
    BY <1>f DEF Finish, TypeOK
  <2>3. pc' \in [Job -> Places]
    BY <1>0, <1>f, Goes DEF Finish
  <2> QED  BY <1>f, <2>1, <2>2, <2>3 DEF Finish, TypeOK
<1>g. CASE CancelJob(j)
  <2>1. cancelled' \in [Job -> BOOLEAN]
    BY <1>g DEF CancelJob, TypeOK
  <2> QED  BY <1>g, <2>1 DEF CancelJob, TypeOK
<1> QED  BY <1>a, <1>b, <1>c, <1>d, <1>e, <1>f, <1>g

-----------------------------------------------------------------------------
(* What a step leaves alone. *)

\* One step of a job, of any kind.
Step(j) == RunJob(j) \/ FinalizeZipInner(j) \/ Finish(j) \/ CancelJob(j)

\* The other jobs keep everything that is their own.
LEMMA OthersKeep ==
    ASSUME TypeOK, NEW j \in Job, Step(j), NEW i \in Job, i # j
    PROVE  /\ pc'[i] = pc[i] /\ rend'[i] = rend[i] /\ part'[i] = part[i]
           /\ complete'[i] = complete[i] /\ allUp'[i] = allUp[i] /\ uploads'[i] = uploads[i]
           /\ displaced'[i] = displaced[i] /\ ledger'[i] = ledger[i]
           /\ sources'[i] = sources[i] /\ expect'[i] = expect[i] /\ reuse'[i] = reuse[i]
           /\ cancelled'[i] = cancelled[i] /\ result'[i] = result[i]
<1> USE DEF storeVars, planVars, buildVars
<1>0. /\ DOMAIN pc = Job /\ DOMAIN rend = Job /\ DOMAIN part = Job /\ DOMAIN complete = Job
      /\ DOMAIN allUp = Job /\ DOMAIN uploads = Job /\ DOMAIN displaced = Job
      /\ DOMAIN ledger = Job /\ DOMAIN sources = Job /\ DOMAIN expect = Job
      /\ DOMAIN reuse = Job /\ DOMAIN cancelled = Job /\ DOMAIN result = Job
  BY DEF TypeOK
<1>1. \A p : Goto(j, p) => pc'[i] = pc[i]
  BY <1>0 DEF Goto
<1>2. \A r : Leave(j, r) => pc'[i] = pc[i] /\ result'[i] = result[i]
  BY <1>0, <1>1 DEF Leave
<1>3. NextRendition(j) => pc'[i] = pc[i] /\ rend'[i] = rend[i]
  BY <1>0, <1>1 DEF NextRendition
<1>4. NextPart(j) => pc'[i] = pc[i] /\ rend'[i] = rend[i] /\ part'[i] = part[i]
  BY <1>0, <1>1, <1>3 DEF NextPart
<1>5. Recorded(j) => NextPart(j) /\ uploads'[i] = uploads[i]
  BY <1>0 DEF Recorded
<1>6. PartLost(j) => /\ pc'[i] = pc[i] /\ rend'[i] = rend[i] /\ part'[i] = part[i]
                     /\ allUp'[i] = allUp[i] /\ result'[i] = result[i]
  BY <1>0, <1>2, <1>4 DEF PartLost
<1>a. CASE RunJob(j)
  <2>1. CASE ReadRows(j)
    BY <1>0, <1>1, <2>1 DEF ReadRows
  <2>2. CASE ReadRowsFails(j) \/ RipDisabled(j) \/ LanesFail(j) \/ FastDone(j)
    BY <1>0, <1>1, <2>2 DEF ReadRowsFails, RipDisabled, LanesFail, FastDone
  <2>3. CASE Lanes(j) \/ FastCopy(j) \/ FastCopyFails(j)
    BY <1>0, <1>1, <2>3 DEF Lanes, FastCopy, FastCopyFails
  <2> QED  BY <1>a, <2>1, <2>2, <2>3 DEF RunJob
<1>b. CASE FinalizeZipInner(j)
  <2>1. CASE Interrupted(j) \/ ReuseRows(j) \/ SkipRendition(j) \/ ReuseDone(j)
    BY <1>1, <1>2, <1>3, <2>1 DEF Interrupted, ReuseRows, SkipRendition, ReuseDone
  <2>2. CASE StartRendition(j)
    BY <1>0, <1>1, <2>2 DEF StartRendition
  <2>3. CASE Lookup(j) \/ ReuseCopy(j) \/ ReuseCopyFails(j)
    BY <1>1, <1>2, <1>3, <2>3 DEF Lookup, ReuseCopy, ReuseCopyFails
  <2>4. CASE BuildPart(j) \/ BuildFails(j) \/ PublishFails(j)
    BY <1>1, <1>2, <1>6, <2>4 DEF BuildPart, BuildFails, PublishFails
  <2>5. CASE PublishOk(j)
    BY <1>0, <1>1, <1>2, <1>4, <1>5, <2>5 DEF PublishOk
  <2>6. CASE PublishAbandoned(j) \/ SendPartial(j)
    BY <1>2, <1>4, <2>6 DEF PublishAbandoned, SendPartial
  <2>7. CASE CopyOk(j) \/ CopyFails(j) \/ CopyAbandoned(j)
    BY <1>2, <1>4, <1>5, <2>7 DEF CopyOk, CopyFails, CopyAbandoned
  <2>8. CASE Replace(j)
    BY <1>0, <1>1, <2>8 DEF Replace
  <2>9. CASE Stale(j) \/ ReplaceFails(j) \/ Incomplete(j)
    BY <1>1, <1>2, <2>9 DEF Stale, ReplaceFails, Incomplete
  <2>10. CASE Displace(j) \/ Discard(j)
    BY <1>0, <1>3, <2>10 DEF Displace, Discard
  <2> QED  BY <1>b, <2>1, <2>2, <2>3, <2>4, <2>5, <2>6, <2>7, <2>8, <2>9, <2>10
           DEF FinalizeZipInner
<1>c. CASE Finish(j)
  BY <1>0, <1>1, <1>c DEF Finish
<1>d. CASE CancelJob(j)
  BY <1>0, <1>d DEF CancelJob
<1> QED  BY <1>a, <1>b, <1>c, <1>d DEF Step

\* Only a replacement writes rows, only a job's own publication adds to the
\* channel, and only a retraction takes away.
LEMMA StoreKeeps ==
    ASSUME NEW j \in Job, Step(j)
    PROVE  /\ Replace(j) \/ rows' = rows
           /\ \/ dump' = dump /\ residue' = residue
              \/ PublishOk(j) \/ PublishAbandoned(j) \/ Displace(j) \/ Discard(j) \/ Finish(j)
           /\ displaced' = displaced \/ Replace(j) \/ Displace(j)
           /\ ledger' = ledger \/ PublishOk(j) \/ Replace(j) \/ Discard(j) \/ Finish(j)
<1> USE DEF storeVars, planVars, buildVars
<1>1. CASE RunJob(j)
  BY <1>1 DEF RunJob, ReadRows, ReadRowsFails, RipDisabled, Lanes, LanesFail, FastCopy,
              FastCopyFails, FastDone
<1>2. CASE Finish(j) \/ CancelJob(j)
  BY <1>2 DEF Finish, CancelJob
<1>3. CASE FinalizeZipInner(j)
  <2>1. CASE \/ Interrupted(j) \/ ReuseRows(j) \/ SkipRendition(j) \/ StartRendition(j)
             \/ Lookup(j) \/ ReuseCopy(j) \/ ReuseCopyFails(j) \/ ReuseDone(j)
    BY <2>1 DEF Interrupted, ReuseRows, SkipRendition, StartRendition, Lookup, ReuseCopy,
                ReuseCopyFails, ReuseDone
  <2>2. CASE \/ BuildPart(j) \/ BuildFails(j) \/ PublishOk(j) \/ PublishAbandoned(j)
             \/ PublishFails(j) \/ SendPartial(j) \/ CopyOk(j) \/ CopyFails(j) \/ CopyAbandoned(j)
    BY <2>2 DEF BuildPart, BuildFails, PublishOk, PublishAbandoned, PublishFails, SendPartial,
                CopyOk, CopyFails, CopyAbandoned
  <2>3. CASE \/ Replace(j) \/ Stale(j) \/ ReplaceFails(j) \/ Incomplete(j) \/ Displace(j)
             \/ Discard(j)
    BY <2>3 DEF Replace, Stale, ReplaceFails, Incomplete, Displace, Discard
  <2> QED  BY <1>3, <2>1, <2>2, <2>3 DEF FinalizeZipInner
<1> QED  BY <1>1, <1>2, <1>3 DEF Step

-----------------------------------------------------------------------------
(* What a job has recorded. *)

\* One more part below the next one.
LEMMA RowsBelowGrow ==
    ASSUME TypeOK, NEW j \in Job, rend'[j] = rend[j], part'[j] = part[j] + 1
    PROVE  RowsBelow(j)' = RowsBelow(j) \cup {RowAt(j, part[j])}
<1>2. part[j] \in Nat /\ part[j] >= 1
  BY Shape DEF TypeOK
<1>3. 1 .. part'[j] - 1 = (1 .. part[j] - 1) \cup {part[j]}
  BY <1>2
<1>4. \A n : RowAt(j, n)' = RowAt(j, n)
  BY DEF RowAt, Here, CodecHere
<1>5. \A x : x \in RowsBelow(j)' <=> \E n \in 1 .. part'[j] - 1 : x = RowAt(j, n)
  BY <1>4, Zenon DEF RowsBelow
<1>6. \A x : x \in RowsBelow(j) <=> \E n \in 1 .. part[j] - 1 : x = RowAt(j, n)
  BY DEF RowsBelow
<1> QED  BY <1>3, <1>5, <1>6

\* The packed rendition stays the same one.
LEMMA SameRendition ==
    ASSUME NEW j \in Job, rend'[j] = rend[j]
    PROVE  /\ Here(j)' = Here(j) /\ CodecHere(j)' = CodecHere(j)
           /\ part'[j] = part[j] => RowsBelow(j)' = RowsBelow(j) /\ NewMsg(j)' = NewMsg(j)
           /\ uploads'[j] = uploads[j] => Mine(j)' = Mine(j)
BY DEF Here, CodecHere, RowsBelow, RowAt, NewMsg, Mine

\* The messages of recorded rows.
LEMMA MineShape ==
    ASSUME TypeOK, NEW j \in Job, rend[j] <= Len(Policy[j]), uploads[j] \subseteq RowsBelow(j)
    PROVE  \A m \in Mine(j) : m.by = j /\ m.rend = Here(j) /\ Pos(m.rend) = rend[j]
<1>1. \A n : RowAt(j, n).msg.by = j /\ RowAt(j, n).msg.rend = Here(j)
  BY DEF RowAt
<1>2. Pos(Here(j)) = rend[j]
  BY HereShape
<1> QED  BY <1>1, <1>2 DEF Mine, RowsBelow

\* Recording a part, or losing an atmos part, keeps what is recorded.
LEMMA NextPartRecord ==
    ASSUME TypeOK, NEW j \in Job, PlaceInv(j), RecordInv(j),
           pc[j] \in {"build", "publish", "copy"}, NextPart(j),
           complete'[j] = complete[j], sources'[j] = sources[j],
           \/ uploads'[j] = uploads[j] \cup {NewRow(j)} /\ allUp'[j] = allUp[j] /\ complete[j]
           \/ uploads'[j] = uploads[j] /\ ~allUp'[j] /\ Here(j) # "primary"
           \/ uploads'[j] = uploads[j] /\ allUp'[j] = allUp[j] /\ ~complete[j]
    PROVE  PlaceInv(j)' /\ RecordInv(j)'
<1>1. rend[j] <= Len(Policy[j]) /\ part[j] <= Parts[Here(j)] /\ pc[j] \in Packing
  BY DEF PlaceInv, Packing, Building
<1>2. /\ part'[j] = part[j] + 1
      /\ \/ pc'[j] = "build" /\ rend' = rend /\ part[j] + 1 <= Parts[Here(j)]
         \/ pc'[j] = "commit" /\ rend' = rend /\ part[j] = Parts[Here(j)] /\ complete[j]
         \/ pc'[j] = "rend" /\ rend'[j] = rend[j] + 1 /\ ~complete[j]
  BY <1>1, NextPartGoes
<1>3. CASE pc'[j] = "rend"
  BY <1>3 DEF PlaceInv, RecordInv, Packing, Building
<1>4. CASE pc'[j] \in {"build", "commit"}
  <2>1. rend'[j] = rend[j] /\ Here(j)' = Here(j)
    BY <1>2, <1>4, SameRendition
  <2>2. PlaceInv(j)'
    BY <1>1, <1>2, <1>4, <2>1 DEF PlaceInv, Packing, Building
  <2>3. RowsBelow(j)' = RowsBelow(j) \cup {NewRow(j)}
    BY <1>1, <1>2, <2>1, RowsBelowGrow, NewShape
  <2>4. RecordInv(j)'
    BY <1>1, <2>1, <2>3 DEF RecordInv
  <2> QED  BY <2>2, <2>4
<1> QED  BY <1>2, <1>3, <1>4

\* Where a job is and what it has recorded, after a step of its own.
LEMMA OwnPlace ==
    ASSUME TypeOK, NEW j \in Job, PlaceInv(j), RecordInv(j), Step(j)
    PROVE  PlaceInv(j)' /\ RecordInv(j)'
<1> USE DEF storeVars, planVars, buildVars
<1>0. /\ DOMAIN pc = Job /\ DOMAIN rend = Job /\ DOMAIN part = Job /\ DOMAIN complete = Job
      /\ DOMAIN allUp = Job /\ DOMAIN uploads = Job /\ DOMAIN sources = Job
  BY DEF TypeOK
<1>1. \A p : Goto(j, p) => pc'[j] = p
  BY <1>0 DEF Goto
<1>2. \A r : Leave(j, r) => pc'[j] = "finish"
  BY <1>1 DEF Leave
<1>3. NextRendition(j) => pc'[j] = "rend"
  BY <1>1 DEF NextRendition
<1>4. ASSUME pc'[j] \in {"rend", "finish", "end"} PROVE PlaceInv(j)' /\ RecordInv(j)'
  BY <1>4 DEF PlaceInv, RecordInv, Packing, Building
<1>5. /\ rend' = rend /\ part' = part /\ complete' = complete
      /\ allUp' = allUp /\ uploads' = uploads /\ sources' = sources
      /\ pc'[j] = pc[j] \/ (pc'[j] \in {"lanes", "fast"} /\ pc[j] \in {"read", "fast"})
      => PlaceInv(j)' /\ RecordInv(j)'
  <2>1. rend' = rend /\ part' = part => Here(j)' = Here(j) /\ RowsBelow(j)' = RowsBelow(j)
    BY SameRendition
  <2> QED  BY <2>1 DEF PlaceInv, RecordInv, Packing, Building
<1>a. CASE RunJob(j)
  <2>1. CASE ReadRows(j)
    <3>1. pc'[j] \in {"lanes", "fast", "end"} /\ pc[j] = "read"
      BY <1>1, <2>1 DEF ReadRows
    <3> QED  BY <1>4, <1>5, <2>1, <3>1 DEF ReadRows
  <2>2. CASE ReadRowsFails(j) \/ RipDisabled(j) \/ LanesFail(j) \/ FastDone(j) \/ Lanes(j)
    <3>1. pc'[j] \in {"end", "rend"}
      BY <1>1, <2>2 DEF ReadRowsFails, RipDisabled, LanesFail, FastDone, Lanes
    <3> QED  BY <1>4, <3>1
  <2>3. CASE FastCopy(j) \/ FastCopyFails(j)
    <3>1. pc'[j] = pc[j] \/ (pc'[j] = "lanes" /\ pc[j] = "fast")
      BY <1>1, <2>3 DEF FastCopy, FastCopyFails
    <3> QED  BY <1>5, <2>3, <3>1 DEF FastCopy, FastCopyFails
  <2> QED  BY <1>a, <2>1, <2>2, <2>3 DEF RunJob
<1>b. CASE Interrupted(j) \/ SkipRendition(j) \/ ReuseDone(j)
  <2>1. pc'[j] \in {"rend", "finish"}
    BY <1>2, <1>3, <1>b DEF Interrupted, SkipRendition, ReuseDone
  <2> QED  BY <1>4, <2>1
<1>c. CASE ReuseRows(j)
  <2>1. pc'[j] = "rend" \/ (pc'[j] = "reuse" /\ rend' = rend /\ rend[j] <= Len(Policy[j]))
    BY <1>1, <1>3, <1>c DEF ReuseRows
  <2> QED  BY <1>4, <2>1 DEF PlaceInv, RecordInv, Packing, Building
<1>d. CASE StartRendition(j)
  <2>1. /\ pc'[j] \in {"lookup", "build"} /\ rend' = rend /\ sources' = sources
        /\ pc'[j] = "lookup" => sources[j][Here(j)] = "all"
        /\ complete'[j] = (sources[j][Here(j)] = "all") /\ part'[j] = 1 /\ allUp'[j]
        /\ uploads'[j] = {} /\ rend[j] <= Len(Policy[j])
    BY <1>0, <1>1, <1>d DEF StartRendition, Ready
  <2>2. Here(j)' = Here(j) /\ Here(j) \in Rendition
    BY <2>1, SameRendition, HereShape
  <2>3. PlaceInv(j)'
    BY <2>1, <2>2, Shape DEF PlaceInv, Packing, Building
  <2>4. RowsBelow(j)' = {}
    BY <2>1 DEF RowsBelow
  <2>5. RecordInv(j)'
    BY <2>1, <2>4 DEF RecordInv
  <2> QED  BY <2>3, <2>5
<1>e. CASE Lookup(j)
  <2>1. pc'[j] = "rend" \/ (pc'[j] \in {"reuse", "build"} /\ rend' = rend)
    BY <1>1, <1>3, <1>e DEF Lookup
  <2>2. pc[j] = "lookup" /\ UNCHANGED <<sources, part, complete, allUp, uploads>>
    BY <1>e DEF Lookup
  <2>3. CASE pc'[j] \in {"reuse", "build"} /\ rend' = rend
    <3>1. Here(j)' = Here(j) /\ RowsBelow(j)' = RowsBelow(j)
      BY <2>2, <2>3, SameRendition
    <3> QED  BY <2>2, <2>3, <3>1 DEF PlaceInv, RecordInv, Packing, Building
  <2> QED  BY <1>4, <2>1, <2>3
<1>f. CASE ReuseCopy(j) \/ ReuseCopyFails(j)
  <2>1. pc'[j] = pc[j] \/ pc'[j] = "finish"
    BY <1>2, <1>f DEF ReuseCopy, ReuseCopyFails
  <2>2. UNCHANGED <<rend, part, complete, allUp, uploads, sources>>
    BY <1>f DEF ReuseCopy, ReuseCopyFails
  <2>3. CASE pc'[j] = "finish"
    BY <1>4, <2>3
  <2>4. CASE pc'[j] = pc[j]
    BY <1>5, <2>2, <2>4
  <2> QED  BY <2>1, <2>3, <2>4
<1>g. CASE BuildPart(j)
  <2>1. pc'[j] = "finish" \/ pc'[j] = "publish"
    BY <1>1, <1>2, <1>g DEF BuildPart
  <2>2. pc[j] = "build" /\ UNCHANGED <<rend, sources, part, complete, allUp, uploads>>
    BY <1>g DEF BuildPart
  <2>3. Here(j)' = Here(j) /\ RowsBelow(j)' = RowsBelow(j)
    BY <2>2, SameRendition
  <2> QED  BY <1>4, <2>1, <2>2, <2>3 DEF PlaceInv, RecordInv, Packing, Building
<1>h. CASE BuildFails(j) \/ PublishFails(j)
  <2>1. /\ pc[j] \in {"build", "publish"} /\ PartLost(j)
        /\ UNCHANGED <<sources, complete, uploads>>
    BY <1>h DEF BuildFails, PublishFails
  <2>2. \/ pc'[j] = "finish"
        \/ NextPart(j) /\ Here(j) # "primary" /\ ~allUp'[j]
    BY <1>0, <1>2, <2>1 DEF PartLost
  <2> QED  BY <1>4, <2>1, <2>2, NextPartRecord
<1>i. CASE PublishOk(j) \/ CopyOk(j) \/ CopyFails(j)
  <2>1. /\ pc[j] \in {"publish", "copy"} /\ complete[j]
        /\ UNCHANGED <<sources, complete, allUp>>
    BY <1>i DEF PublishOk, CopyOk, CopyFails, PlaceInv
  <2>2. \/ pc'[j] = "finish" 
        \/ pc'[j] = "copy" /\ pc[j] = "publish" /\ UNCHANGED <<uploads, part, rend>>
        \/ NextPart(j) /\ uploads'[j] = uploads[j] \cup {NewRow(j)}
    BY <1>0, <1>1, <1>2, <1>i DEF PublishOk, CopyOk, CopyFails, Recorded
  <2>3. CASE pc'[j] = "copy" /\ pc[j] = "publish" /\ UNCHANGED <<uploads, part, rend>>
    <3>1. Here(j)' = Here(j) /\ RowsBelow(j)' = RowsBelow(j)
      BY <2>3, SameRendition
    <3> QED  BY <2>1, <2>3, <3>1 DEF PlaceInv, RecordInv, Packing, Building
  <2> QED  BY <1>4, <2>1, <2>2, <2>3, NextPartRecord
<1>j. CASE PublishAbandoned(j) \/ CopyAbandoned(j)
  BY <1>2, <1>4, <1>j DEF PublishAbandoned, CopyAbandoned
<1>k. CASE SendPartial(j)
  BY <1>k, NextPartRecord DEF SendPartial
<1>l. CASE Replace(j) \/ Stale(j) \/ ReplaceFails(j) \/ Incomplete(j)
  <2>1. pc'[j] \in {"displace", "discard", "finish"}
    BY <1>1, <1>2, <1>l DEF Replace, Stale, ReplaceFails, Incomplete
  <2>2. pc[j] = "commit" /\ UNCHANGED <<rend, sources, part, complete, allUp, uploads>>
    BY <1>l DEF Replace, Stale, ReplaceFails, Incomplete
  <2>3. Here(j)' = Here(j) /\ RowsBelow(j)' = RowsBelow(j)
    BY <2>2, SameRendition
  <2> QED  BY <1>4, <2>1, <2>2, <2>3 DEF PlaceInv, RecordInv, Packing, Building
<1>m. CASE Displace(j) \/ Discard(j)
  BY <1>3, <1>4, <1>m DEF Displace, Discard
<1>n. CASE Finish(j)
  BY <1>1, <1>4, <1>n DEF Finish
<1>o. CASE CancelJob(j)
  <2>1. UNCHANGED <<pc, rend, part, complete, allUp, uploads, sources>>
    BY <1>o DEF CancelJob
  <2> QED  BY <1>5, <2>1
<1> QED  BY <1>a, <1>b, <1>c, <1>d, <1>e, <1>f, <1>g, <1>h, <1>i, <1>j, <1>k, <1>l, <1>m, <1>n,
            <1>o DEF Step, FinalizeZipInner

-----------------------------------------------------------------------------
(* The ledger of what is published and not committed. *)

\* The ledger a cancelled or failed job takes along to finalize_zip.
LEMMA LedgerLeft ==
    ASSUME NEW j \in Job, LedgerInv(j),
           rend'[j] = rend[j], \A m \in ledger'[j] : m \in ledger[j] /\ m \in dump',
           displaced'[j] = {}, pc'[j] = "finish",
           result'[j] # "err" /\ ~cancelled'[j] => ledger'[j] = {}
    PROVE  LedgerInv(j)'
BY DEF LedgerInv

\* A ledger that is empty.
LEMMA LedgerEmpty ==
    ASSUME NEW j \in Job, ledger'[j] = {}, displaced'[j] = {} \/ pc'[j] = "displace",
           pc'[j] \notin {"build", "publish", "commit", "discard", "copy"}
    PROVE  LedgerInv(j)'
BY DEF LedgerInv

\* What a job has published and not committed, after a step of its own.
LEMMA OwnLedger ==
    ASSUME TypeOK, NEW j \in Job, PlaceInv(j), RecordInv(j), LedgerInv(j), Step(j)
    PROVE  LedgerInv(j)'
<1> USE DEF storeVars, planVars, buildVars
<1>0. /\ DOMAIN pc = Job /\ DOMAIN rend = Job /\ DOMAIN part = Job /\ DOMAIN result = Job
      /\ DOMAIN uploads = Job /\ DOMAIN ledger = Job /\ DOMAIN displaced = Job
  BY DEF TypeOK
<1>1. \A p : Goto(j, p) => pc'[j] = p
  BY <1>0 DEF Goto
<1>2. \A r : Leave(j, r) => pc'[j] = "finish" /\ result'[j] = r
  BY <1>0, <1>1 DEF Leave
<1>3. NextRendition(j) => pc'[j] = "rend"
  BY <1>1 DEF NextRendition
<1>4. \A m \in ledger[j] : m \in dump
  BY DEF LedgerInv
<1>a. CASE RunJob(j)
  <2>1. pc[j] \in {"read", "fast", "lanes"} /\ pc'[j] \in {"fast", "lanes", "end", "rend"}
    <3>1. CASE ReadRows(j)
      BY <1>1, <3>1 DEF ReadRows
    <3>2. CASE ~ReadRows(j)
      BY <1>1, <1>a, <3>2 DEF RunJob, ReadRowsFails, RipDisabled, Lanes, LanesFail, FastCopy,
                              FastCopyFails, FastDone
    <3> QED  BY <3>1, <3>2
  <2>2. UNCHANGED <<ledger, displaced>>
    BY <1>a DEF RunJob, ReadRows, ReadRowsFails, RipDisabled, Lanes, LanesFail, FastCopy,
                FastCopyFails, FastDone
  <2> QED  BY <2>1, <2>2, LedgerEmpty DEF LedgerInv
<1>b. CASE \/ Interrupted(j) \/ ReuseRows(j) \/ SkipRendition(j) \/ ReuseDone(j)
           \/ ReuseCopy(j) \/ ReuseCopyFails(j)
  <2>1. pc[j] \in {"rend", "reuse"} /\ pc'[j] \in {"rend", "reuse", "finish"}
    BY <1>1, <1>2, <1>3, <1>b DEF Interrupted, ReuseRows, SkipRendition, Ready, ReuseDone,
                                  ReuseCopy, ReuseCopyFails
  <2>2. UNCHANGED <<ledger, displaced>>
    BY <1>b DEF Interrupted, ReuseRows, SkipRendition, ReuseDone, ReuseCopy, ReuseCopyFails
  <2> QED  BY <2>1, <2>2, LedgerEmpty DEF LedgerInv
<1>c. CASE StartRendition(j)
  <2>1. /\ pc[j] = "rend" /\ pc'[j] \in {"lookup", "build"} /\ uploads'[j] = {}
        /\ UNCHANGED <<ledger, displaced>>
    BY <1>0, <1>1, <1>c DEF StartRendition, Ready
  <2>2. Mine(j)' = {}
    BY <2>1 DEF Mine
  <2> QED  BY <2>1, <2>2 DEF LedgerInv
<1>d. CASE Lookup(j)
  <2>1. /\ pc[j] = "lookup" /\ pc'[j] \in {"rend", "reuse", "build"}
        /\ UNCHANGED <<ledger, displaced, uploads>>
    BY <1>1, <1>3, <1>d DEF Lookup
  <2>2. uploads[j] = {}
    BY <2>1 DEF PlaceInv, RecordInv, Packing, RowsBelow
  <2>3. Mine(j)' = {}
    BY <2>1, <2>2 DEF Mine
  <2> QED  BY <2>1, <2>3 DEF LedgerInv
<1>e. CASE BuildPart(j)
  <2>1. /\ pc[j] = "build" /\ UNCHANGED <<rend, part, uploads, ledger, displaced, dump, cancelled>>
    BY <1>e DEF BuildPart
  <2>2. Mine(j)' = Mine(j)
    BY <2>1, SameRendition
  <2>3. CASE cancelled[j] /\ pc'[j] = "finish"
    BY <1>4, <2>1, <2>3, LedgerLeft DEF LedgerInv
  <2>4. CASE pc'[j] = "publish"
    BY <1>4, <2>1, <2>2, <2>4 DEF LedgerInv
  <2> QED  BY <1>1, <1>2, <1>e, <2>3, <2>4 DEF BuildPart
<1>f. CASE BuildFails(j) \/ PublishFails(j) \/ SendPartial(j)
  <2>1. /\ pc[j] \in {"build", "publish"} /\ UNCHANGED <<uploads, ledger, displaced, dump, cancelled>>
    BY <1>f DEF BuildFails, PublishFails, SendPartial
  <2>2. rend[j] <= Len(Policy[j]) /\ part[j] <= Parts[Here(j)]
    BY <2>1 DEF PlaceInv, Packing, Building
  <2>3. \/ pc'[j] = "finish" /\ result'[j] = "err" /\ rend' = rend
        \/ NextPart(j)
    BY <1>2, <1>f DEF BuildFails, PublishFails, SendPartial, PartLost
  <2>4. CASE pc'[j] = "finish" /\ result'[j] = "err" /\ rend' = rend
    BY <1>4, <2>1, <2>4, LedgerLeft DEF LedgerInv
  <2>5. CASE NextPart(j)
    <3>1. \/ pc'[j] \in {"build", "commit"} /\ rend' = rend
          \/ pc'[j] = "rend" /\ ~complete[j]
      BY <2>2, <2>5, NextPartGoes
    <3>2. Mine(j)' = Mine(j)
      BY <2>1 DEF Mine
    <3>3. ~complete[j] => Mine(j) = {}
      BY <2>1 DEF RecordInv, Packing, Mine
    <3> QED  BY <1>4, <2>1, <3>1, <3>2, <3>3 DEF LedgerInv
  <2> QED  BY <2>3, <2>4, <2>5
<1>g. CASE PublishOk(j)
  <2>1. /\ pc[j] = "publish" /\ complete[j] /\ UNCHANGED <<displaced, cancelled>>
        /\ ledger'[j] = ledger[j] \cup {NewMsg(j)} /\ dump' = dump \cup {NewMsg(j)}
    BY <1>0, <1>g DEF PublishOk
  <2>2. rend[j] <= Len(Policy[j]) /\ part[j] <= Parts[Here(j)]
    BY <2>1 DEF PlaceInv, Packing, Building
  <2>3. /\ NewMsg(j).by = j /\ Pos(NewMsg(j).rend) = rend[j] /\ NewRow(j).msg = NewMsg(j)
    BY <2>2, HereShape, NewShape
  <2>4. \A m \in ledger'[j] : m.by = j /\ Pos(m.rend) = rend[j] /\ m \in dump'
    BY <2>1, <2>3 DEF LedgerInv
  <2>5. CASE cancelled[j] /\ pc'[j] = "finish" /\ UNCHANGED <<uploads, part, rend>>
    BY <2>1, <2>4, <2>5 DEF LedgerInv
  <2>6. CASE pc'[j] = "copy" /\ UNCHANGED <<uploads, part, rend>>
    <3>1. Mine(j)' = Mine(j) /\ NewMsg(j)' = NewMsg(j)
      BY <2>6, SameRendition
    <3> QED  BY <2>1, <2>4, <2>6, <3>1 DEF LedgerInv
  <2>7. CASE Recorded(j)
    <3>1. NextPart(j) /\ uploads'[j] = uploads[j] \cup {NewRow(j)}
      BY <2>2, <2>7, RecordedGoes
    <3>2. pc'[j] \in {"build", "commit"} /\ rend' = rend
      BY <2>1, <2>2, <3>1, NextPartGoes
    <3>3. Mine(j)' = Mine(j) \cup {NewMsg(j)}
      BY <2>3, <3>1 DEF Mine
    <3> QED  BY <2>1, <2>4, <3>2, <3>3 DEF LedgerInv
  <2> QED  BY <1>1, <1>2, <1>g, <2>5, <2>6, <2>7 DEF PublishOk
<1>h. CASE PublishAbandoned(j) \/ CopyAbandoned(j)
  <2>1. /\ pc[j] \in {"publish", "copy"} /\ cancelled[j] /\ pc'[j] = "finish"
        /\ UNCHANGED <<rend, ledger, displaced, cancelled>> /\ dump \subseteq dump'
    BY <1>2, <1>h DEF PublishAbandoned, CopyAbandoned
  <2> QED  BY <1>4, <2>1, LedgerLeft DEF LedgerInv
<1>i. CASE CopyOk(j) \/ CopyFails(j)
  <2>1. /\ pc[j] = "copy" /\ UNCHANGED <<displaced, cancelled, ledger, dump>>
    BY <1>i DEF CopyOk, CopyFails
  <2>2. rend[j] <= Len(Policy[j]) /\ part[j] <= Parts[Here(j)] /\ complete[j]
    BY <2>1 DEF PlaceInv, Packing, Building
  <2>3. \/ /\ pc'[j] = "finish" /\ rend' = rend /\ (cancelled[j] \/ result'[j] = "err")
        \/ Recorded(j)
    BY <1>2, <1>i DEF CopyOk, CopyFails
  <2>4. CASE pc'[j] = "finish" /\ rend' = rend /\ (cancelled[j] \/ result'[j] = "err")
    BY <1>4, <2>1, <2>4, LedgerLeft DEF LedgerInv
  <2>5. CASE Recorded(j)
    <3>1. NextPart(j) /\ uploads'[j] = uploads[j] \cup {NewRow(j)} /\ NewRow(j).msg = NewMsg(j)
      BY <2>2, <2>5, RecordedGoes, NewShape
    <3>2. pc'[j] \in {"build", "commit"} /\ rend' = rend
      BY <2>2, <3>1, NextPartGoes
    <3>3. Mine(j)' = Mine(j) \cup {NewMsg(j)}
      BY <3>1 DEF Mine
    <3> QED  BY <1>4, <2>1, <3>2, <3>3 DEF LedgerInv
  <2> QED  BY <2>3, <2>4, <2>5
<1>j. CASE Replace(j)
  <2>1. /\ pc[j] = "commit" /\ pc'[j] = "displace" /\ ledger'[j] = ledger[j] \ Mine(j)
    BY <1>0, <1>1, <1>j DEF Replace
  <2> QED  BY <2>1, LedgerEmpty DEF LedgerInv
<1>k. CASE Stale(j) \/ Incomplete(j) \/ ReplaceFails(j)
  <2>1. /\ pc[j] = "commit" /\ UNCHANGED <<rend, uploads, ledger, displaced, dump, cancelled>>
        /\ pc'[j] = "discard" \/ (pc'[j] = "finish" /\ result'[j] = "err")
    BY <1>1, <1>2, <1>k DEF Stale, Incomplete, ReplaceFails
  <2>2. Mine(j)' = Mine(j)
    BY <2>1, SameRendition
  <2> QED  BY <1>4, <2>1, <2>2, LedgerLeft DEF LedgerInv
<1>l. CASE Displace(j)
  <2>1. /\ pc[j] = "displace" /\ pc'[j] = "rend" /\ ledger' = ledger /\ displaced'[j] = {}
    BY <1>0, <1>3, <1>l DEF Displace
  <2> QED  BY <2>1, LedgerEmpty DEF LedgerInv
<1>m. CASE Discard(j)
  <2>1. /\ pc[j] = "discard" /\ pc'[j] = "rend" /\ ledger'[j] = ledger[j] \ Mine(j)
        /\ displaced' = displaced
    BY <1>0, <1>3, <1>m DEF Discard
  <2> QED  BY <2>1, LedgerEmpty DEF LedgerInv
<1>n. CASE Finish(j)
  <2>1. /\ pc[j] = "finish" /\ pc'[j] = "end" /\ displaced' = displaced
        /\ ledger'[j] = {} \/ (ledger' = ledger /\ result[j] # "err" /\ ~cancelled[j])
    BY <1>0, <1>1, <1>n DEF Finish
  <2> QED  BY <2>1, LedgerEmpty DEF LedgerInv
<1>o. CASE CancelJob(j)
  <2>1. /\ UNCHANGED <<pc, rend, part, uploads, ledger, displaced, dump, result>>
        /\ cancelled[j] => cancelled'[j]
    BY <1>o DEF CancelJob, TypeOK
  <2>2. Mine(j)' = Mine(j) /\ NewMsg(j)' = NewMsg(j)
    BY <2>1, SameRendition
  <2> QED  BY <2>1, <2>2 DEF LedgerInv
<1> QED  BY <1>a, <1>b, <1>c, <1>d, <1>e, <1>f, <1>g, <1>h, <1>i, <1>j, <1>k, <1>l, <1>m, <1>n,
            <1>o DEF Step, FinalizeZipInner

-----------------------------------------------------------------------------
(* The cache. *)

\* Rows that are there are only replaced by others.
LEMMA RowsStay ==
    ASSUME TypeOK, NEW j \in Job, PlaceInv(j), Step(j)
    PROVE  /\ \A r \in Rendition : rows[r] # {} => rows'[r] # {}
           /\ Replace(j) => rows'[Here(j)] # {}
<1>1. CASE Replace(j)
  <2>1. rend[j] <= Len(Policy[j]) /\ Uploaded(j) /\ rows' = [rows EXCEPT ![Here(j)] = uploads[j]]
    BY <1>1 DEF Replace, PlaceInv, Building, Packing
  <2>2. Here(j) \in Rendition
    BY <2>1, HereShape
  <2>3. uploads[j] # {}
    <3>1. Cardinality(uploads[j]) = Parts[Here(j)] /\ Parts[Here(j)] # 0
      BY <2>1, <2>2, Shape DEF Uploaded
    <3>2. Cardinality({}) = 0
      BY FS_EmptySet
    <3> QED  BY <3>1, <3>2
  <2> QED  BY <2>1, <2>2, <2>3 DEF TypeOK
<1>2. CASE rows' = rows
  BY <1>2, <1>1
<1> QED  BY <1>1, <1>2, StoreKeeps

\* At the commit, with no part lost, every part is recorded.
LEMMA AllUploaded ==
    ASSUME TypeOK, NEW j \in Job, PlaceInv(j), RecordInv(j), pc[j] = "commit", allUp[j]
    PROVE  /\ Here(j) \in Rendition /\ Parts[Here(j)] \in Nat /\ Parts[Here(j)] >= 1
           /\ uploads[j] = {RowAt(j, n) : n \in 1 .. Parts[Here(j)]}
           /\ Cardinality(uploads[j]) = Parts[Here(j)]
<1>1. /\ rend[j] <= Len(Policy[j]) /\ complete[j] /\ part[j] = Parts[Here(j)] + 1
      /\ uploads[j] \subseteq RowsBelow(j)
      /\ complete[j] /\ allUp[j] => RowsBelow(j) \subseteq uploads[j]
  BY DEF PlaceInv, RecordInv, Packing, Building
<1>2. Here(j) \in Rendition
  BY <1>1, HereShape
<1> DEFINE P == Parts[Here(j)]
<1>3. P \in Nat /\ P >= 1 /\ part[j] - 1 = P
  BY <1>1, <1>2, Shape
<1>4. uploads[j] = {RowAt(j, n) : n \in 1 .. P}
  BY <1>1, <1>2, <1>3 DEF RowsBelow
<1> DEFINE f == [n \in 1 .. P |-> RowAt(j, n)]
<1>5. \A n : RowAt(j, n).part = n
  BY DEF RowAt
<1>6. f \in Bijection(1 .. P, uploads[j])
  <2>1. f \in [1 .. P -> uploads[j]]
    BY <1>4
  <2>2. \A a, b \in 1 .. P : f[a] = f[b] => a = b
    BY <1>5
  <2>3. \A x \in uploads[j] : \E n \in 1 .. P : f[n] = x
    BY <1>4
  <2> QED  BY <2>1, <2>2, <2>3 DEF Bijection, Injection, Surjection, IsInjective
<1>7. IsFiniteSet(1 .. P) /\ Cardinality(1 .. P) = P
  BY <1>3, FS_Interval
<1>8. Cardinality(uploads[j]) = Cardinality(1 .. P)
  BY <1>6, <1>7, FS_Bijection DEF ExistsBijection
<1> QED  BY <1>2, <1>3, <1>4, <1>7, <1>8

\* A primary archive never comes to the commit with a part missing.
LEMMA PrimaryUploaded ==
    ASSUME TypeOK, NEW j \in Job, PlaceInv(j), RecordInv(j), pc[j] = "commit", rend[j] = 1
    PROVE  Uploaded(j)
<1>1. rend[j] <= Len(Policy[j]) /\ (Here(j) = "primary" => allUp[j])
  BY DEF PlaceInv, RecordInv, Packing, Building
<1>2. allUp[j]
  BY <1>1, HereShape
<1> QED  BY <1>2, AllUploaded DEF Uploaded

\* A row that is read or found is there.
LEMMA ReusableThere ==
    ASSUME NEW j \in Job, NEW r \in Rendition, Reusable(j, r) # {}
    PROVE  rows[r] # {}
BY DEF Reusable, OfCodec

\* What a job knows of the cache, after a step of its own.
LEMMA OwnCache ==
    ASSUME TypeOK, NEW j \in Job, PlaceInv(j), RecordInv(j), CacheInv(j), Step(j)
    PROVE  CacheInv(j)'
<1> USE DEF storeVars, planVars, buildVars
<1>0. /\ DOMAIN pc = Job /\ DOMAIN rend = Job /\ DOMAIN result = Job /\ DOMAIN sources = Job
      /\ DOMAIN reuse = Job /\ DOMAIN expect = Job /\ rend[j] \in Nat /\ rend[j] >= 1
      /\ "primary" \in Rendition
  BY RendNat DEF TypeOK, Rendition
<1>1. \A p : Goto(j, p) => pc'[j] = p
  BY <1>0 DEF Goto
<1>2. \A r : Leave(j, r) => pc'[j] = "finish" /\ result'[j] = r
  BY <1>0, <1>1 DEF Leave
<1>3. NextRendition(j) => pc'[j] = "rend" /\ rend'[j] = rend[j] + 1
  BY <1>0, <1>1 DEF NextRendition
<1>4. \A r \in Rendition : rows[r] # {} => rows'[r] # {}
  BY RowsStay
<1>5. pc[j] \in Building => /\ rend[j] <= Len(Policy[j])
                            /\ Here(j) \in Rendition /\ (Here(j) = "primary" <=> rend[j] = 1)
  BY HereShape DEF PlaceInv
<1>6. \/ rend[j] > 1
      \/ rend[j] = 1
  BY <1>0
<1>a. CASE RunJob(j)
  <2>1. CASE ReadRows(j)
    <3> DEFINE asked == {Policy[j][n] : n \in 1 .. Len(Policy[j])}
               found == [r \in Rendition |-> IF r \in asked THEN Reusable(j, r) ELSE {}]
               seen == [r \in Rendition |-> Expectation(rows[r])]
    <3>1. /\ pc[j] = "read" /\ UNCHANGED <<rows, sources, rend, cancelled>>
          /\ pc'[j] \in {"lanes", "fast", "end"}
          /\ expect' = [expect EXCEPT ![j] = seen] /\ reuse' = [reuse EXCEPT ![j] = found]
      BY <1>1, <2>1 DEF ReadRows
    <3>2. \A r \in Rendition : found[r] # {} => rows[r] # {}
      BY ReusableThere
    <3>3. \A r \in Rendition : seen[r].kind # "empty" => rows[r] # {}
      BY DEF Expectation
    <3> HIDE DEF found, seen
    <3>4. reuse'[j] = found /\ expect'[j] = seen
      BY <1>0, <3>1
    <3>5. rend[j] = 1 /\ sources[j]["primary"] = "none"
      BY <3>1 DEF PlaceInv
    <3> QED  BY <3>1, <3>2, <3>3, <3>4, <3>5 DEF CacheInv
  <2>2. CASE ~ReadRows(j)
    <3>1. /\ pc[j] \in {"read", "fast", "lanes"} /\ pc'[j] \in {"fast", "lanes", "end", "rend"}
          /\ UNCHANGED <<rows, rend, reuse, expect>>
          /\ pc[j] = "read" => pc'[j] = "end"
          /\ pc'[j] = "rend" \/ sources' = sources
      BY <1>1, <1>a, <2>2 DEF RunJob, ReadRowsFails, RipDisabled, Lanes, LanesFail, FastCopy,
                              FastCopyFails, FastDone
    <3>2. rend[j] = 1 /\ sources[j]["primary"] = "none"
      BY <3>1 DEF PlaceInv
    <3> QED  BY <3>1, <3>2 DEF CacheInv
  <2> QED  BY <2>1, <2>2
<1>b. CASE Interrupted(j)
  <2>1. /\ pc[j] = "rend" /\ pc'[j] = "finish"
        /\ UNCHANGED <<rows, sources, expect, reuse, rend, cancelled>>
        /\ cancelled[j] \/ rend[j] > Len(Policy[j])
    BY <1>2, <1>b DEF Interrupted
  <2>2. Len(Policy[j]) = 1 \/ Len(Policy[j]) = 2
    BY Shape
  <2>3. rend[j] > Len(Policy[j]) => rend[j] > 1
    <3> DEFINE last == Len(Policy[j])
    <3>1. last \in {1, 2}
      BY <2>2
    <3> HIDE DEF last
    <3>2. rend[j] > last => rend[j] > 1
      BY <1>0, <3>1
    <3> QED  BY <3>2 DEF last
  <2> QED  BY <2>1, <2>3 DEF CacheInv
<1>c. CASE ReuseRows(j)
  <2>0. /\ pc[j] = "rend" /\ rend[j] <= Len(Policy[j]) /\ reuse[j][Here(j)] # {}
        /\ UNCHANGED <<rows, sources, expect, reuse>>
    BY <1>c DEF ReuseRows
  <2>1. Here(j) \in Rendition /\ (Here(j) = "primary" <=> rend[j] = 1)
    BY <2>0, HereShape
  <2>2. rend[j] = 1 => rows["primary"] # {}
    BY <2>0, <2>1 DEF CacheInv
  <2>3. \/ pc'[j] = "reuse" /\ rend' = rend
        \/ pc'[j] = "rend" /\ rend'[j] = rend[j] + 1
    BY <1>1, <1>3, <1>c DEF ReuseRows
  <2> QED  BY <1>0, <1>6, <2>0, <2>2, <2>3 DEF CacheInv
<1>d. CASE SkipRendition(j)
  <2>1. /\ pc[j] = "rend" /\ rend[j] <= Len(Policy[j]) /\ sources[j][Here(j)] # "all"
        /\ UNCHANGED <<rows, sources, expect, reuse>>
        /\ pc'[j] = "rend" /\ rend'[j] = rend[j] + 1
    BY <1>3, <1>d DEF SkipRendition, Ready, Publishes
  <2>2. rend[j] = 1 => sources[j]["primary"] # "all"
    BY <2>1, HereShape
  <2> QED  BY <1>0, <1>6, <2>1, <2>2 DEF CacheInv
<1>e. CASE StartRendition(j)
  <2>1. /\ pc[j] = "rend" /\ pc'[j] \in {"lookup", "build"}
        /\ UNCHANGED <<rows, sources, expect, reuse, rend>>
    BY <1>1, <1>e DEF StartRendition, Ready
  <2> QED  BY <2>1 DEF CacheInv
<1>f. CASE Lookup(j)
  <2>0. pc[j] = "lookup" /\ UNCHANGED <<rows, sources, expect, reuse>>
    BY <1>f DEF Lookup
  <2>1. pc[j] \in Building
    BY <2>0 DEF Building, Packing
  <2>2. CASE WholeArchive(OfCodec(rows[Here(j)], CodecHere(j)), Gen[j])
    <3>1. rows[Here(j)] # {}
      BY <2>2 DEF WholeArchive, OfCodec
    <3>2. rend[j] = 1 => rows["primary"] # {}
      BY <1>5, <2>1, <3>1
    <3>3. \/ pc'[j] = "reuse" /\ rend' = rend
          \/ pc'[j] = "rend" /\ rend'[j] = rend[j] + 1
          \/ pc'[j] = "build" /\ rend' = rend
      BY <1>1, <1>3, <1>f DEF Lookup
    <3> QED  BY <1>0, <1>6, <2>0, <3>2, <3>3 DEF CacheInv
  <2>3. CASE pc'[j] = "build" /\ rend' = rend
    BY <2>0, <2>3 DEF CacheInv
  <2> QED  BY <1>1, <1>f, <2>2, <2>3 DEF Lookup
<1>g. CASE ReuseCopy(j) \/ ReuseCopyFails(j)
  <2>1. /\ pc[j] = "reuse" /\ UNCHANGED <<rows, sources, expect, reuse, rend>>
        /\ pc'[j] = "reuse" \/ (pc'[j] = "finish" /\ result'[j] = "err")
    BY <1>2, <1>g DEF ReuseCopy, ReuseCopyFails
  <2> QED  BY <2>1 DEF CacheInv
<1>h. CASE ReuseDone(j)
  <2>1. /\ pc[j] = "reuse" /\ UNCHANGED <<rows, sources, expect, reuse>>
        /\ pc'[j] = "rend" /\ rend'[j] = rend[j] + 1
    BY <1>3, <1>h DEF ReuseDone
  <2> QED  BY <1>0, <1>6, <2>1 DEF CacheInv
<1>i. CASE \/ BuildPart(j) \/ BuildFails(j) \/ PublishOk(j) \/ PublishAbandoned(j)
           \/ PublishFails(j) \/ SendPartial(j) \/ CopyOk(j) \/ CopyFails(j) \/ CopyAbandoned(j)
  <2>1. pc[j] \in {"build", "publish", "copy"} /\ UNCHANGED <<rows, sources, expect, reuse, cancelled>>
    BY <1>i DEF BuildPart, BuildFails, PublishOk, PublishAbandoned, PublishFails, SendPartial,
                CopyOk, CopyFails, CopyAbandoned
  <2>2. /\ pc[j] \in Building /\ part[j] <= Parts[Here(j)]
        /\ complete[j] <=> sources[j][Here(j)] = "all"
    BY <2>1 DEF Building, Packing, PlaceInv
  <2>3. NextPart(j) => \/ pc'[j] \in {"build", "commit"} /\ rend' = rend
                       \/ pc'[j] = "rend" /\ rend'[j] = rend[j] + 1 /\ ~complete[j]
    BY <1>5, <2>2, NextPartGoes
  <2>4. \/ pc'[j] \in {"publish", "copy"} /\ rend' = rend
        \/ pc'[j] = "finish" /\ rend' = rend /\ (cancelled[j] \/ result'[j] = "err")
        \/ NextPart(j)
    <3>1. CASE BuildPart(j) \/ BuildFails(j) \/ PublishFails(j)
      BY <1>1, <1>2, <3>1 DEF BuildPart, BuildFails, PublishFails, PartLost
    <3>2. CASE PublishOk(j) \/ PublishAbandoned(j) \/ SendPartial(j)
      BY <1>1, <1>2, <3>2 DEF PublishOk, PublishAbandoned, SendPartial, Recorded
    <3>3. CASE CopyOk(j) \/ CopyFails(j) \/ CopyAbandoned(j)
      BY <1>1, <1>2, <3>3 DEF CopyOk, CopyFails, CopyAbandoned, Recorded
    <3> QED  BY <1>i, <3>1, <3>2, <3>3
  <2>5. CASE pc'[j] \in {"publish", "copy", "build", "commit"} /\ rend' = rend
    BY <2>1, <2>5 DEF CacheInv
  <2>6. CASE pc'[j] = "finish" /\ rend' = rend /\ (cancelled[j] \/ result'[j] = "err")
    BY <2>1, <2>6 DEF CacheInv
  <2>7. CASE pc'[j] = "rend" /\ rend'[j] = rend[j] + 1 /\ ~complete[j]
    <3>1. rend[j] = 1 => sources[j]["primary"] # "all"
      BY <1>5, <2>2, <2>7
    <3> QED  BY <1>0, <1>6, <2>1, <2>7, <3>1 DEF CacheInv
  <2> QED  BY <2>3, <2>4, <2>5, <2>6, <2>7
<1>j. CASE Replace(j)
  <2>1. /\ pc[j] = "commit" /\ pc'[j] = "displace" /\ UNCHANGED <<sources, expect, reuse, rend>>
    BY <1>1, <1>j DEF Replace
  <2>2. rows'[Here(j)] # {}
    BY <1>j, RowsStay
  <2>3. rend[j] = 1 => rows'["primary"] # {}
    BY <1>5, <2>1, <2>2 DEF Building, Packing
  <2> QED  BY <1>0, <1>4, <2>1, <2>3 DEF CacheInv
<1>k. CASE Stale(j) \/ ReplaceFails(j) \/ Incomplete(j)
  <2>1. /\ pc[j] = "commit" /\ UNCHANGED <<rows, sources, expect, reuse, rend>>
        /\ \/ pc'[j] = "finish" /\ result'[j] = "err"
           \/ pc'[j] = "discard"
    BY <1>1, <1>2, <1>k DEF Stale, ReplaceFails, Incomplete
  <2>2. rend[j] = 1 /\ pc'[j] = "discard" => rows["primary"] # {}
    <3> SUFFICES ASSUME rend[j] = 1, pc'[j] = "discard" PROVE rows["primary"] # {}
      OBVIOUS
    <3>1. Uploaded(j) /\ Here(j) = "primary"
      BY <1>5, <2>1, PrimaryUploaded DEF Building, Packing
    <3>2. ~MatchesExpected(rows["primary"], expect[j]["primary"])
      BY <1>2, <1>k, <3>1 DEF Stale, ReplaceFails, Incomplete
    <3>3. expect[j]["primary"].kind # "empty" => rows["primary"] # {}
      BY <1>0, <2>1 DEF CacheInv
    <3> QED  BY <3>2, <3>3 DEF MatchesExpected
  <2> QED  BY <2>1, <2>2 DEF CacheInv
<1>l. CASE Displace(j) \/ Discard(j)
  <2>1. /\ pc[j] \in {"displace", "discard"} /\ UNCHANGED <<rows, sources, expect, reuse>>
        /\ pc'[j] = "rend" /\ rend'[j] = rend[j] + 1
    BY <1>3, <1>l DEF Displace, Discard
  <2> QED  BY <1>0, <1>6, <2>1 DEF CacheInv
<1>m. CASE Finish(j)
  <2>1. /\ pc[j] = "finish" /\ pc'[j] = "end"
        /\ UNCHANGED <<rows, sources, expect, reuse, rend, cancelled, result>>
    BY <1>1, <1>m DEF Finish
  <2> QED  BY <2>1 DEF CacheInv
<1>n. CASE CancelJob(j)
  <2>1. /\ UNCHANGED <<pc, rows, sources, expect, reuse, rend, result>>
        /\ cancelled'[j]
    BY <1>n DEF CancelJob, TypeOK
  <2> QED  BY <2>1 DEF CacheInv
<1> QED  BY <1>a, <1>b, <1>c, <1>d, <1>e, <1>f, <1>g, <1>h, <1>i, <1>j, <1>k, <1>l, <1>m, <1>n
         DEF Step, FinalizeZipInner

-----------------------------------------------------------------------------
(* The stores. *)

\* The messages the cache names.
LEMMA NamedIs ==
    /\ \A m : m \in Named <=> \E r \in Rendition : \E x \in rows[r] : x.msg = m
    /\ \A m : m \in Named' <=> \E r \in Rendition : \E x \in rows'[r] : x.msg = m
BY DEF Named

\* A closed message stays closed.
LEMMA ClosedStays ==
    ASSUME TypeOK, NEW j \in Job, PlaceInv(j), Step(j), NEW m, Closed(m)
    PROVE  Closed(m)'
<1> USE DEF storeVars, planVars, buildVars
<1>0. DOMAIN pc = Job /\ DOMAIN rend = Job /\ \A i \in Job : rend[i] \in Nat
  BY RendNat DEF TypeOK
<1>1. SUFFICES ASSUME m.by \in Job
               PROVE  \/ Pos(m.rend) < rend'[m.by]
                      \/ Pos(m.rend) = rend'[m.by] /\ pc'[m.by] = "displace"
  BY DEF Closed, Pos
<1>2. CASE m.by # j
  BY <1>1, <1>2, OthersKeep DEF Closed
<1>3. CASE m.by = j
  <2>1. CASE Displace(j)
    <3>1. rend'[j] = rend[j] + 1
      BY <1>0, <2>1 DEF Displace, NextRendition
    <3>2. Pos(m.rend) \in Nat
      BY DEF Pos
    <3> QED  BY <1>0, <1>1, <1>3, <3>1, <3>2 DEF Closed
  <2>2. CASE ~Displace(j)
    <3>1. pc[j] = "displace" => CancelJob(j)
      <4>1. CASE RunJob(j)
        BY <4>1 DEF RunJob, ReadRows, ReadRowsFails, RipDisabled, Lanes, LanesFail, FastCopy,
                    FastCopyFails, FastDone
      <4>2. CASE FinalizeZipInner(j)
        BY <2>2, <4>2
        DEF FinalizeZipInner, Interrupted, ReuseRows, SkipRendition, StartRendition, Ready, Lookup,
            ReuseCopy, ReuseCopyFails, ReuseDone, BuildPart, BuildFails, PublishOk,
            PublishAbandoned, PublishFails, SendPartial, CopyOk, CopyFails, CopyAbandoned, Replace,
            Stale, ReplaceFails, Incomplete, Discard
      <4> QED  BY <4>1, <4>2 DEF Step, Finish
    <3>2. rend'[j] = rend[j] \/ rend'[j] = rend[j] + 1
      <4>0. NextRendition(j) => rend'[j] = rend[j] + 1
        BY <1>0 DEF NextRendition
      <4>1. NextPart(j) => rend'[j] = rend[j] \/ rend'[j] = rend[j] + 1
        BY <4>0 DEF NextPart
      <4>2. CASE RunJob(j) \/ Finish(j) \/ CancelJob(j)
        BY <4>2 DEF RunJob, ReadRows, ReadRowsFails, RipDisabled, Lanes, LanesFail, FastCopy,
                    FastCopyFails, FastDone, Finish, CancelJob
      <4>3. CASE \/ Interrupted(j) \/ ReuseRows(j) \/ SkipRendition(j) \/ StartRendition(j)
                 \/ Lookup(j) \/ ReuseCopy(j) \/ ReuseCopyFails(j) \/ ReuseDone(j)
        BY <4>0, <4>3 DEF Interrupted, ReuseRows, SkipRendition, StartRendition, Lookup, ReuseCopy,
                          ReuseCopyFails, ReuseDone
      <4>4. CASE \/ BuildPart(j) \/ BuildFails(j) \/ PublishOk(j) \/ PublishAbandoned(j)
                 \/ PublishFails(j) \/ SendPartial(j) \/ CopyOk(j) \/ CopyFails(j)
                 \/ CopyAbandoned(j)
        BY <4>1, <4>4 DEF BuildPart, BuildFails, PublishOk, PublishAbandoned, PublishFails,
                          SendPartial, CopyOk, CopyFails, CopyAbandoned, PartLost, Recorded
      <4>5. CASE \/ Replace(j) \/ Stale(j) \/ ReplaceFails(j) \/ Incomplete(j) \/ Displace(j)
                 \/ Discard(j)
        BY <4>0, <4>5 DEF Replace, Stale, ReplaceFails, Incomplete, Displace, Discard
      <4> QED  BY <4>2, <4>3, <4>4, <4>5 DEF Step, FinalizeZipInner
    <3>3. Pos(m.rend) \in Nat
      BY DEF Pos
    <3>4. CancelJob(j) => UNCHANGED <<pc, rend>>
      BY DEF CancelJob
    <3> QED  BY <1>0, <1>1, <1>3, <3>1, <3>2, <3>3, <3>4 DEF Closed
  <2> QED  BY <2>1, <2>2
<1> QED  BY <1>2, <1>3

\* Nothing a job is still packing is closed, so nobody names it.
LEMMA LedgerOpen ==
    ASSUME TypeOK, RowsClosed, DisplacedClosed, NEW j \in Job, LedgerInv(j), NEW m \in ledger[j]
    PROVE  ~Closed(m) /\ m \notin Named /\ \A i \in Job : m \notin displaced[i]
<1>1. m.by = j /\ Pos(m.rend) = rend[j] /\ pc[j] # "displace"
  BY DEF LedgerInv
<1>2. rend[j] \in Nat
  BY RendNat
<1>3. ~Closed(m)
  BY <1>1, <1>2 DEF Closed
<1> QED  BY <1>3, NamedIs DEF RowsClosed, DisplacedClosed

\* What a step takes out of the channel: messages a commit displaced, or the
\* job's own that are not committed.  None of them is named by the cache or
\* belongs to another job's ledger.
LEMMA Retracted ==
    ASSUME TypeOK, RowsClosed, DisplacedClosed, NEW j \in Job, PlaceInv(j), RecordInv(j),
           LedgerInv(j), Step(j), NEW m \in dump, m \notin dump'
    PROVE  \/ Displace(j) /\ m \in displaced[j]
           \/ (Discard(j) \/ Finish(j)) /\ m \in ledger[j]
<1>1. \A ms : Retract(ms) => m \in ms
  BY RetractType
<1>2. CASE PublishOk(j) \/ PublishAbandoned(j)
  BY <1>2 DEF PublishOk, PublishAbandoned
<1>3. CASE Displace(j)
  BY <1>1, <1>3 DEF Displace
<1>4. CASE Discard(j)
  BY <1>1, <1>4 DEF Discard, LedgerInv
<1>5. CASE Finish(j)
  BY <1>1, <1>5 DEF Finish
<1> QED  BY <1>2, <1>3, <1>4, <1>5, StoreKeeps

\* What the step of one job means for another: its published parts stay, and
\* the cache it knows of does not become empty.
LEMMA OthersInv ==
    ASSUME TypeOK, RowsClosed, DisplacedClosed, NEW j \in Job, JobInv(j), Step(j),
           NEW i \in Job, i # j, JobInv(i)
    PROVE  JobInv(i)'
<1>1. /\ pc'[i] = pc[i] /\ rend'[i] = rend[i] /\ part'[i] = part[i]
      /\ complete'[i] = complete[i] /\ allUp'[i] = allUp[i] /\ uploads'[i] = uploads[i]
      /\ displaced'[i] = displaced[i] /\ ledger'[i] = ledger[i]
      /\ sources'[i] = sources[i] /\ expect'[i] = expect[i] /\ reuse'[i] = reuse[i]
      /\ cancelled'[i] = cancelled[i] /\ result'[i] = result[i]
  BY OthersKeep
<1>2. /\ Here(i)' = Here(i) /\ RowsBelow(i)' = RowsBelow(i) /\ NewMsg(i)' = NewMsg(i)
      /\ Mine(i)' = Mine(i)
  BY <1>1, SameRendition
<1>3. PlaceInv(i)' /\ RecordInv(i)'
  BY <1>1, <1>2 DEF JobInv, PlaceInv, RecordInv
<1>4. \A m \in ledger[i] : m \in dump'
  <2> SUFFICES ASSUME NEW m \in ledger[i], m \notin dump' PROVE FALSE
    OBVIOUS
  <2>1. m \in dump /\ m.by = i
    BY DEF JobInv, LedgerInv
  <2>2. m \in displaced[j] \/ m \in ledger[j]
    BY <2>1, Retracted DEF JobInv
  <2>3. m \notin displaced[j]
    BY LedgerOpen DEF JobInv
  <2>4. m \notin ledger[j]
    BY <2>1 DEF JobInv, LedgerInv
  <2> QED  BY <2>2, <2>3, <2>4
<1>5. LedgerInv(i)'
  BY <1>1, <1>2, <1>4 DEF JobInv, LedgerInv
<1>6. \A r \in Rendition : rows[r] # {} => rows'[r] # {}
  BY RowsStay DEF JobInv
<1>7. CacheInv(i)'
  BY <1>1, <1>6, Shape DEF JobInv, CacheInv
<1> QED  BY <1>3, <1>5, <1>7 DEF JobInv

\* What a replacement does to the stores.
LEMMA ReplaceDoes ==
    ASSUME TypeOK, NEW j \in Job, PlaceInv(j), RecordInv(j), LedgerInv(j), Replace(j)
    PROVE  /\ pc[j] = "commit" /\ Here(j) \in Rendition
           /\ rows'[Here(j)] = uploads[j]
           /\ \A r \in Rendition : r # Here(j) => rows'[r] = rows[r]
           /\ displaced'[j] = {x.msg : x \in rows[Here(j)]} \ Mine(j)
           /\ ledger[j] = Mine(j) /\ dump' = dump /\ residue' = residue
           /\ pc'[j] = "displace" /\ rend'[j] = rend[j]
           /\ \A m \in Mine(j) : m.by = j /\ m.rend = Here(j) /\ Pos(m.rend) = rend[j]
           /\ \A x \in uploads[j] : x.msg \in Mine(j)
           /\ \A m \in Mine(j) : \E x \in uploads[j] : x.msg = m
<1>1. pc[j] = "commit" /\ UNCHANGED <<dump, residue, rend>>
  BY DEF Replace
<1>2. rend[j] <= Len(Policy[j]) /\ uploads[j] \subseteq RowsBelow(j) /\ ledger[j] = Mine(j)
  BY <1>1 DEF PlaceInv, RecordInv, LedgerInv, Building, Packing
<1>3. Here(j) \in Rendition
  BY <1>2, HereShape
<1>4. rows'[Here(j)] = uploads[j] /\ \A r \in Rendition : r # Here(j) => rows'[r] = rows[r]
  BY <1>3 DEF Replace, TypeOK
<1>5. displaced'[j] = {x.msg : x \in rows[Here(j)]} \ Mine(j)
  BY DEF Replace, TypeOK
<1>6. pc'[j] = "displace"
  BY DEF Replace, Goto, TypeOK
<1>7. \A m \in Mine(j) : m.by = j /\ m.rend = Here(j) /\ Pos(m.rend) = rend[j]
  BY <1>2, MineShape
<1>8. /\ \A x \in uploads[j] : x.msg \in Mine(j)
      /\ \A m \in Mine(j) : \E x \in uploads[j] : x.msg = m
  BY DEF Mine
<1> QED  BY <1>1, <1>2, <1>3, <1>4, <1>5, <1>6, <1>7, <1>8

\* Rows stay filed under their rendition and closed.
LEMMA RowsClosedStep ==
    ASSUME TypeOK, NEW j \in Job, PlaceInv(j), RecordInv(j), LedgerInv(j), RowsClosed, Step(j)
    PROVE  RowsClosed'
<1> SUFFICES ASSUME NEW r \in Rendition, NEW x \in rows'[r]
             PROVE  x.msg.rend = r /\ Closed(x.msg)'
  BY DEF RowsClosed
<1>1. CASE x \in rows[r]
  BY <1>1, ClosedStays DEF RowsClosed
<1>2. CASE x \notin rows[r]
  <2>1. Replace(j)
    BY <1>2, StoreKeeps
  <2>2. r = Here(j) /\ x.msg \in Mine(j)
    BY <1>2, <2>1, ReplaceDoes
  <2>3. /\ x.msg.by = j /\ x.msg.rend = Here(j) /\ Pos(x.msg.rend) = rend'[j]
        /\ pc'[j] = "displace"
    BY <2>1, <2>2, ReplaceDoes
  <2> QED  BY <2>2, <2>3 DEF Closed, Pos
<1> QED  BY <1>1, <1>2

\* What a replacement displaces is closed and named by nobody any more.
LEMMA DisplacedClosedStep ==
    ASSUME TypeOK, NEW j \in Job, JobInv(j), RowsClosed, DisplacedClosed, Step(j)
    PROVE  DisplacedClosed'
<1> SUFFICES ASSUME NEW i \in Job, NEW m \in displaced'[i]
             PROVE  Closed(m)' /\ m \notin Named'
  BY DEF DisplacedClosed
<1>0. PlaceInv(j) /\ RecordInv(j) /\ LedgerInv(j)
  BY DEF JobInv
<1>1. CASE Replace(j) /\ i = j
  <2>1. m \notin Mine(j) /\ \E x \in rows[Here(j)] : x.msg = m
    BY <1>0, <1>1, ReplaceDoes
  <2>2. Here(j) \in Rendition
    BY <1>0, <1>1, ReplaceDoes
  <2>3. m.rend = Here(j) /\ Closed(m)
    BY <2>1, <2>2 DEF RowsClosed
  <2>4. \A r \in Rendition : \A x \in rows'[r] : x.msg # m
    BY <1>0, <1>1, <2>1, <2>3, ReplaceDoes DEF RowsClosed
  <2> QED  BY <1>0, <2>3, <2>4, ClosedStays, NamedIs
<1>2. CASE Replace(j) /\ i # j
  <2>1. m \in displaced[i]
    BY <1>2, OthersKeep
  <2>2. Closed(m) /\ m \notin Named
    BY <2>1 DEF DisplacedClosed
  <2>3. m \notin Mine(j)
    BY <1>0, <1>2, <2>1, LedgerOpen, ReplaceDoes
  <2>4. \A r \in Rendition : \A x \in rows'[r] : x.msg # m
    BY <1>0, <1>2, <2>2, <2>3, ReplaceDoes, NamedIs
  <2> QED  BY <1>0, <2>2, <2>4, ClosedStays, NamedIs
<1>3. CASE ~Replace(j)
  <2>1. rows' = rows
    BY <1>3, StoreKeeps
  <2>2. m \in displaced[i]
    BY <1>3, StoreKeeps DEF Displace, TypeOK
  <2>3. Closed(m) /\ m \notin Named
    BY <2>2 DEF DisplacedClosed
  <2> QED  BY <1>0, <2>1, <2>3, ClosedStays, NamedIs
<1> QED  BY <1>1, <1>2, <1>3

\* No step retracts a part the cache names after it.
LEMMA CachedPartsStep ==
    ASSUME TypeOK, NEW j \in Job, JobInv(j), RowsClosed, DisplacedClosed, CachedPartsExist,
           Step(j)
    PROVE  CachedPartsExist'
<1> SUFFICES ASSUME NEW m \in Named' PROVE m \in dump'
  BY DEF CachedPartsExist
<1>0. PlaceInv(j) /\ RecordInv(j) /\ LedgerInv(j)
  BY DEF JobInv
<1>1. CASE Replace(j)
  <2>1. m \in Named \/ m \in Mine(j)
    BY <1>0, <1>1, ReplaceDoes, NamedIs
  <2>2. \A n \in ledger[j] : n \in dump
    BY <1>0 DEF LedgerInv
  <2> QED  BY <1>0, <1>1, <2>1, <2>2, ReplaceDoes DEF CachedPartsExist
<1>2. CASE ~Replace(j)
  <2>1. m \in Named
    BY <1>2, StoreKeeps, NamedIs
  <2>2. m \in dump
    BY <2>1 DEF CachedPartsExist
  <2>3. m \notin displaced[j]
    BY <2>1 DEF DisplacedClosed
  <2>4. m \notin ledger[j]
    BY <1>0, <2>1, LedgerOpen
  <2> QED  BY <1>0, <2>2, <2>3, <2>4, Retracted
<1> QED  BY <1>1, <1>2

\* No step loses track of a part in the channel.
LEMMA NoOrphanStep ==
    ASSUME TypeOK, NEW j \in Job, JobInv(j), LedgerInv(j)', NoOrphanPart, Step(j)
    PROVE  NoOrphanPart'
<1> SUFFICES ASSUME NEW m \in dump'
             PROVE  \/ m \in Named' \/ m \in residue'
                    \/ \E i \in Job : pc'[i] # "end" /\ m \in ledger'[i] \cup displaced'[i]
  BY DEF NoOrphanPart
<1>0. PlaceInv(j) /\ RecordInv(j) /\ LedgerInv(j)
  BY DEF JobInv
<1>1. m \in ledger'[j] => pc'[j] # "end"
  BY DEF LedgerInv
<1>2. m \in displaced'[j] => pc'[j] # "end"
  BY DEF LedgerInv
<1>3. residue \subseteq residue'
  <2>1. \A ms : Retract(ms) => residue \subseteq residue'
    BY RetractType
  <2>2. CASE PublishOk(j) \/ PublishAbandoned(j)
    BY <2>2 DEF PublishOk, PublishAbandoned
  <2>3. CASE Displace(j) \/ Discard(j) \/ Finish(j)
    BY <2>1, <2>3 DEF Displace, Discard, Finish
  <2> QED  BY <2>2, <2>3, StoreKeeps
<1>4. CASE m \notin dump
  <2>1. PublishOk(j) \/ PublishAbandoned(j)
    <3>1. \A ms : Retract(ms) => dump' \subseteq dump
      BY RetractType
    <3> QED  BY <1>4, <3>1, StoreKeeps DEF Displace, Discard, Finish
  <2>2. CASE PublishOk(j)
    <3>1. m = NewMsg(j) /\ ledger'[j] = ledger[j] \cup {NewMsg(j)}
      BY <1>4, <2>2 DEF PublishOk, TypeOK
    <3> QED  BY <1>1, <3>1
  <2>3. CASE PublishAbandoned(j)
    BY <1>4, <2>3 DEF PublishAbandoned
  <2> QED  BY <2>1, <2>2, <2>3
<1>5. CASE m \in dump /\ m \in residue
  BY <1>3, <1>5
<1>6. CASE m \in dump /\ m \in Named
  <2>1. CASE Replace(j)
    <3>1. PICK r \in Rendition : \E x \in rows[r] : x.msg = m
      BY <1>6, NamedIs
    <3>2. CASE r # Here(j)
      BY <1>0, <2>1, <3>1, <3>2, ReplaceDoes, NamedIs
    <3>3. CASE r = Here(j)
      <4>1. m \in Mine(j) \/ m \in displaced'[j]
        BY <1>0, <2>1, <3>1, <3>3, ReplaceDoes
      <4>2. m \in Mine(j) => m \in Named'
        BY <1>0, <2>1, ReplaceDoes, NamedIs
      <4> QED  BY <1>2, <4>1, <4>2
    <3> QED  BY <3>2, <3>3
  <2>2. CASE ~Replace(j)
    BY <1>6, <2>2, StoreKeeps, NamedIs
  <2> QED  BY <2>1, <2>2
<1>7. ASSUME m \in dump, NEW i \in Job, pc[i] # "end", m \in ledger[i] \cup displaced[i]
      PROVE  \/ m \in Named' \/ m \in residue'
             \/ \E k \in Job : pc'[k] # "end" /\ m \in ledger'[k] \cup displaced'[k]
  <2>1. CASE i # j
    BY <1>7, <2>1, OthersKeep
  <2>2. CASE i = j /\ m \in ledger[j]
    <3>1. CASE Replace(j)
      BY <1>0, <2>2, <3>1, ReplaceDoes, NamedIs
    <3>2. CASE PublishOk(j)
      <4>1. m \in ledger'[j]
        BY <2>2, <3>2 DEF PublishOk, TypeOK
      <4> QED  BY <1>1, <4>1
    <3>3. CASE Discard(j)
      <4>1. m \in Mine(j) /\ Retract(Mine(j))
        BY <1>0, <2>2, <3>3 DEF Discard, LedgerInv
      <4> QED  BY <4>1, RetractType
    <3>4. CASE Finish(j)
      <4>1. result[j] = "err" \/ cancelled[j]
        BY <1>0, <2>2, <3>4 DEF Finish, LedgerInv
      <4>2. Retract(ledger[j])
        BY <3>4, <4>1 DEF Finish
      <4> QED  BY <2>2, <4>2, RetractType
    <3>5. CASE ledger' = ledger
      BY <1>1, <2>2, <3>5
    <3> QED  BY <3>1, <3>2, <3>3, <3>4, <3>5, StoreKeeps
  <2>3. CASE i = j /\ m \in displaced[j]
    <3>1. pc[j] = "displace"
      BY <1>0, <2>3 DEF LedgerInv
    <3>2. CASE Displace(j)
      <4>1. Retract(displaced[j])
        BY <3>2 DEF Displace
      <4> QED  BY <2>3, <4>1, RetractType
    <3>3. CASE displaced' = displaced
      BY <1>2, <2>3, <3>3
    <3> QED  BY <3>1, <3>2, <3>3, StoreKeeps DEF Replace
  <2> QED  BY <1>7, <2>1, <2>2, <2>3
<1> QED  BY <1>4, <1>5, <1>6, <1>7 DEF NoOrphanPart

\* What a job commits is a whole archive.
LEMMA ArchiveIsWholeStep ==
    ASSUME TypeOK, NEW j \in Job, JobInv(j), ArchiveIsWhole, Step(j)
    PROVE  ArchiveIsWhole'
<1> SUFFICES ASSUME NEW r \in Rendition
             PROVE  \/ rows'[r] \in Leftovers(r)
                    \/ \E i \in Job : /\ WholeArchive(rows'[r], Gen[i])
                                      /\ \A x \in rows'[r] : x.msg.by = i
                                      /\ \A x, y \in rows'[r] : x.codec = y.codec
  BY DEF ArchiveIsWhole, Leftovers, OldRow, WholeArchive
<1>0. PlaceInv(j) /\ RecordInv(j) /\ LedgerInv(j)
  BY DEF JobInv
<1>1. CASE rows'[r] = rows[r]
  BY <1>1 DEF ArchiveIsWhole
<1>2. CASE Replace(j) /\ r = Here(j)
  <2> DEFINE P == Parts[Here(j)]
             S == uploads[j]
  <2>1. rows'[r] = S /\ pc[j] = "commit" /\ allUp[j]
    BY <1>0, <1>2, ReplaceDoes DEF Replace, Uploaded
  <2>2. P \in Nat /\ P >= 1 /\ S = {RowAt(j, n) : n \in 1 .. P} /\ Cardinality(S) = P
    BY <1>0, <2>1, AllUploaded
  <2>3. \A n : /\ RowAt(j, n).part = n /\ RowAt(j, n).gen = Gen[j] /\ RowAt(j, n).total = P
              /\ RowAt(j, n).codec = CodecHere(j) /\ RowAt(j, n).msg.by = j
    BY DEF RowAt
  <2>4. /\ \A x \in S : x.gen = Gen[j] /\ x.msg.by = j /\ x.codec = CodecHere(j)
        /\ RowAt(j, 1) \in S
    BY <2>2, <2>3
  <2>5. {x.part : x \in S} = 1 .. P
    BY <2>2, <2>3
  <2>6. WholeArchive(S, Gen[j])
    BY <2>2, <2>3, <2>4, <2>5 DEF WholeArchive
  <2> QED  BY <2>1, <2>4, <2>6
<1> QED  BY <1>0, <1>1, <1>2, ReplaceDoes, StoreKeeps

-----------------------------------------------------------------------------
(* The invariant. *)

\* At the start only rows of an earlier process are there.
LEMMA ArchiveInit == Init => ArchiveInv
<1> SUFFICES ASSUME Init PROVE ArchiveInv
  OBVIOUS
<1>1. TypeOK
  BY InitTypeOK
<1>2. \A r \in Rendition : rows[r] \in Leftovers(r)
  BY DEF Init
<1>3. RowsClosed
  <2> SUFFICES ASSUME NEW r \in Rendition, NEW x \in rows[r]
               PROVE  x.msg.rend = r /\ Closed(x.msg)
    BY DEF RowsClosed
  <2>1. \E n \in 1 .. Parts[r] : \E g : x = OldRow(r, n, g)
    BY <1>2 DEF Leftovers
  <2>2. x.msg.rend = r /\ x.msg.by = OldJob
    BY <2>1 DEF OldRow
  <2> QED  BY <2>2, ArchiveAssumption DEF Closed
<1>4. \A j \in Job : JobInv(j)
  <2> SUFFICES ASSUME NEW j \in Job PROVE JobInv(j)
    OBVIOUS
  <2>1. /\ pc[j] = "read" /\ rend[j] = 1 /\ sources[j]["primary"] = "none"
        /\ ledger[j] = {} /\ displaced[j] = {} /\ \A r \in Rendition : reuse[j][r] = {}
    BY Shape DEF Init
  <2>2. PlaceInv(j) /\ RecordInv(j)
    BY <2>1 DEF PlaceInv, RecordInv, Packing, Building
  <2>3. LedgerInv(j) /\ CacheInv(j)
    BY <2>1 DEF LedgerInv, CacheInv
  <2> QED  BY <2>2, <2>3 DEF JobInv
<1>5. DisplacedClosed
  BY DEF DisplacedClosed, Init
<1>6. CachedPartsExist /\ NoOrphanPart
  BY DEF CachedPartsExist, NoOrphanPart, Init
<1>7. ArchiveIsWhole
  BY <1>2 DEF ArchiveIsWhole
<1> QED  BY <1>1, <1>3, <1>4, <1>5, <1>6, <1>7 DEF ArchiveInv

\* Every step of every job keeps the types.
LEMMA StepTypeOK ==
    ASSUME TypeOK, NEW j \in Job, PlaceInv(j), Step(j)
    PROVE  TypeOK'
<1> QED  BY RunJobTypeOK, RenditionTypeOK, PartTypeOK, ReplaceTypeOK DEF Step, FinalizeZipInner

\* Every step of every job keeps the invariant.
LEMMA ArchiveStep ==
    ASSUME ArchiveInv, NEW j \in Job, Step(j)
    PROVE  ArchiveInv'
<1>0. /\ TypeOK /\ RowsClosed /\ DisplacedClosed /\ CachedPartsExist /\ NoOrphanPart
      /\ ArchiveIsWhole /\ JobInv(j) /\ PlaceInv(j) /\ RecordInv(j) /\ LedgerInv(j)
      /\ CacheInv(j) /\ \A i \in Job : JobInv(i)
  BY DEF ArchiveInv, JobInv
<1>1. TypeOK'
  BY <1>0, StepTypeOK
<1>2. JobInv(j)'
  BY <1>0, OwnPlace, OwnLedger, OwnCache DEF JobInv
<1>3. \A i \in Job : JobInv(i)'
  BY <1>0, <1>2, OthersInv
<1>4. RowsClosed'
  BY <1>0, RowsClosedStep
<1>5. DisplacedClosed'
  BY <1>0, DisplacedClosedStep
<1>6. CachedPartsExist'
  BY <1>0, CachedPartsStep
<1>7. NoOrphanPart'
  <2>1. LedgerInv(j)'
    BY <1>2 DEF JobInv
  <2> QED  BY <1>0, <2>1, NoOrphanStep
<1>8. ArchiveIsWhole'
  BY <1>0, ArchiveIsWholeStep
<1> QED  BY <1>1, <1>3, <1>4, <1>5, <1>6, <1>7, <1>8 DEF ArchiveInv

\* A step that changes nothing keeps the invariant.
LEMMA ArchiveStutter ==
    ASSUME ArchiveInv, UNCHANGED vars
    PROVE  ArchiveInv'
<1> USE DEF vars, storeVars, planVars, buildVars
<1>1. TypeOK'
  BY DEF ArchiveInv, TypeOK
<1>2. \A j \in Job : PlaceInv(j)' /\ RecordInv(j)'
  BY DEF ArchiveInv, JobInv, PlaceInv, RecordInv, RowsBelow, RowAt, Here, CodecHere
<1>3. \A j \in Job : LedgerInv(j)'
  BY DEF ArchiveInv, JobInv, LedgerInv, Mine, NewMsg, Here
<1>4. \A j \in Job : CacheInv(j)'
  BY DEF ArchiveInv, JobInv, CacheInv
<1>5. RowsClosed' /\ DisplacedClosed'
  BY DEF ArchiveInv, RowsClosed, DisplacedClosed, Closed, Named
<1>6. CachedPartsExist' /\ NoOrphanPart'
  BY DEF ArchiveInv, CachedPartsExist, NoOrphanPart, Named
<1>7. ArchiveIsWhole'
  BY DEF ArchiveInv, ArchiveIsWhole
<1> QED  BY <1>1, <1>2, <1>3, <1>4, <1>5, <1>6, <1>7 DEF ArchiveInv, JobInv

\* However the archive phases of any jobs on one album interleave, fail and are
\* cancelled (finalize_zip, replace_album_zip), ArchiveInv holds.
THEOREM ArchiveInvariant == Spec => []ArchiveInv
<1>1. Init => ArchiveInv
  BY ArchiveInit
<1>2. ArchiveInv /\ [Next]_vars => ArchiveInv'
  BY ArchiveStep, ArchiveStutter DEF Next, Step
<1> QED  BY <1>1, <1>2, PTL DEF Spec

\* For any jobs, policies and numbers of parts: the cache names only parts that
\* exist, a part nobody names is still somebody's to retract, and success left
\* a cached album (finalize_zip, retract_dump, replace_album_zip).
THEOREM PartsAccountedAlways == Spec => []PartsAccounted
<1>1. ArchiveInv => PartsAccounted
  <2> SUFFICES ASSUME ArchiveInv PROVE PartsAccounted
    OBVIOUS
  <2>1. CompleteIsCached
    <3>1. \A j \in Job : CacheInv(j)
      BY DEF ArchiveInv, JobInv
    <3> QED  BY <3>1 DEF CompleteIsCached, CacheInv
  <2> QED  BY <2>1 DEF ArchiveInv, PartsAccounted
<1> QED  BY <1>1, ArchiveInvariant, PTL

\* For any jobs, policies and numbers of parts, what a replacement leaves in
\* the cache is one whole archive of one job (replace_album_zip).
THEOREM ArchiveIsWholeAlways == Spec => []ArchiveIsWhole
<1>1. ArchiveInv => ArchiveIsWhole
  BY DEF ArchiveInv
<1> QED  BY <1>1, ArchiveInvariant, PTL
=============================================================================
