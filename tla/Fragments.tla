----------------------------- MODULE Fragments -----------------------------
(***************************************************************************)
(* What the rip does to the bytes of one media fragment and of one init    *)
(* segment (crates/apple/src/wrapper/decryptor.rs and cenc.rs).  Boxes are *)
(* removed and grown in place, so every size and offset that was written   *)
(* for the old layout has to be rewritten for the new one: the model keeps *)
(* the box lengths as numbers and leaves the payload bytes out.            *)
(*                                                                         *)
(* task selects the input: a fragment of a FairPlay stream                 *)
(* (decrypt_fragment, which ends with normalize_fragment), a fragment of a *)
(* Widevine stream (decrypt_cenc_fragment, then strip_encryption_boxes),   *)
(* or an init segment (transform_init_segment).  frag holds the bytes as   *)
(* they are now, source as they arrived, clear the decrypted byte ranges.  *)
(***************************************************************************)
EXTENDS Integers, Sequences, FiniteSets, SequencesExt

CONSTANTS
    Sizes,       \* the sample sizes of the fragments that arrive
    Gaps,        \* bytes a fragment may leave between two runs in mdat
    OddRuns      \* also runs the source's files do not have: no data-offset
                 \* field where an offset must be written, explicit durations
                 \* without sizes

VARIABLES task, stage, source, frag, clear

vars == <<task, stage, source, frag, clear>>

----------------------------------------------------------------------------
(* Layout                                                                  *)

Total(boxes) == FoldSeq(LAMBDA b, n : b.len + n, 0, boxes)

Sum(ns) == FoldSeq(LAMBDA a, n : a + n, 0, ns)

OfKind(boxes, kind) == SelectSeq(boxes, LAMBDA b : b.kind = kind)

TrafLen(f) == 8 + Total(f.boxes)

MoofLen(f) == 8 + 16 + f.pssh + TrafLen(f)   \* mfhd, pssh boxes, traf

MdatStart(f) == MoofLen(f) + 8

TrunLen(r) == 16 + (IF r.field THEN 4 ELSE 0)
                 + r.count * ((IF r.dur = "none" THEN 0 ELSE 4)
                              + (IF r.sized THEN 4 ELSE 0))

Runs(f) == OfKind(f.boxes, "trun")

(* parse_tfhd_defaults: the size a run without sizes takes, 0 when absent. *)
DefaultSize(f) == OfKind(f.boxes, "tfhd")[1].dsize

(* parse_trun: the sample sizes of a run. *)
RunSizes(f, r) ==
    IF r.sized THEN r.sizes ELSE [i \in 1..r.count |-> DefaultSize(f)]

(* Where run i's samples start, counted from the start of mdat's payload:  *)
(* its own data offset, else where the run before it ended.                *)
RunStart(f, sizes) ==
    LET rs == Runs(f)
        start[i \in 1..Len(rs)] ==
            IF rs[i].off > 0 THEN rs[i].off - MdatStart(f)
            ELSE IF i = 1 THEN 0 ELSE start[i - 1] + Sum(sizes[i - 1])
    IN  start

(* The samples of a fragment in order, as <<address, size>>, when run i    *)
(* has the sizes sizes[i].                                                 *)
SamplesOf(f, sizes) ==
    LET start == RunStart(f, sizes)
        run(i) == [k \in 1..Len(sizes[i]) |->
                      <<start[i] + Sum(SubSeq(sizes[i], 1, k - 1)), sizes[i][k]>>]
    IN  FlattenSeq([i \in 1..Len(Runs(f)) |-> run(i)])

Samples(f) == SamplesOf(f, [i \in 1..Len(Runs(f)) |-> RunSizes(f, Runs(f)[i])])

----------------------------------------------------------------------------
(* FairPlay: decrypt_fragment                                              *)

(* parse_senc: one entry per sample, the bytes its subsample map spans     *)
(* (0: no map).  A senc that cannot be read counts as none.                *)
SencOf(f) ==
    LET s == OfKind(f.boxes, "senc")
    IN  IF s = <<>> \/ s[1].bad THEN <<>> ELSE <<s[1].entries>>

(* Sizes missing from trun and tfhd are taken from senc for the first run. *)
SizesFound(f) ==
    LET rs == Runs(f)
        known(i) == RunSizes(f, rs[i])
        derived(i) == SubSeq(SencOf(f)[1], 1, rs[i].count)
        derive(i) == /\ i = 1 /\ SencOf(f) # <<>> /\ rs[i].count > 0
                     /\ \A k \in 1..Len(known(i)) : known(i)[k] = 0
                     /\ Len(SencOf(f)[1]) >= rs[i].count
                     /\ \A k \in 1..Len(derived(i)) : derived(i)[k] > 0
    IN  [i \in 1..Len(rs) |-> IF derive(i) THEN derived(i) ELSE known(i)]

(* The entry of sample k lets it be decrypted: a map longer than the       *)
(* sample is abandoned.                                                    *)
Decryptable(senc, k, size) ==
    senc = <<>> \/ (k <= Len(senc[1]) /\ senc[1][k] <= size)

DecryptFragment ==
    /\ task = "fairplay" /\ stage = "input"
    /\ LET sizes == SizesFound(frag)
           ss == SamplesOf(frag, sizes)
           noSizes == /\ \A i \in 1..Len(ss) : ss[i][2] = 0
                      /\ ss # <<>>
           outside == \E i \in 1..Len(ss) : ss[i][1] + ss[i][2] > frag.mdat
       IN  IF noSizes \/ outside
           THEN stage' = "failed" /\ UNCHANGED clear
           ELSE /\ stage' = "decrypted"
                /\ clear' = {ss[k] : k \in {j \in 1..Len(ss) :
                                  Decryptable(SencOf(frag), j, ss[j][2])}}
    /\ UNCHANGED <<task, source, frag>>

(* senc, saiz, saio and uuid boxes and the seam and seig sample groups.    *)
Protection(b) == b.kind \in {"senc", "saio", "uuid", "seam"}

(* Boxes cut out of a fragment: the data-offset field of every run that    *)
(* has one and both sizes are rewritten, then the boxes go.                *)
Cut(f) ==
    LET inTraf == Total(SelectSeq(f.boxes, Protection))
        inMoof == inTraf + f.pssh
        moved(b) == IF b.kind = "trun" /\ b.field
                    THEN [b EXCEPT !.off = @ - inMoof] ELSE b
        kept == SelectSeq(f.boxes, LAMBDA b : ~Protection(b))
    IN  [f EXCEPT !.boxes = [i \in 1..Len(kept) |-> moved(kept[i])],
                  !.trafSize = @ - inTraf, !.moofSize = @ - inMoof,
                  !.pssh = 0]

(* The rest of decrypt_fragment up to normalize_fragment. *)
CutProtection ==
    /\ task = "fairplay" /\ stage = "decrypted"
    /\ frag' = Cut(frag)
    /\ stage' = "cut"
    /\ UNCHANGED <<task, source, clear>>

(* Mutant: the index is cut from tfhd and traf, and moof keeps its size.   *)
IndexLeftInMoof(f) ==
    LET indexed(b) == b.kind = "tfhd" /\ b.sdi
    IN  IF ~\E i \in 1..Len(f.boxes) : indexed(f.boxes[i]) THEN f
        ELSE [f EXCEPT
            !.boxes = [i \in 1..Len(@) |->
                IF indexed(@[i]) THEN [@[i] EXCEPT !.sdi = FALSE, !.len = @ - 4]
                                 ELSE @[i]],
            !.trafSize = @ - 4]

(* normalize_fragment, first half: the sample description index is cut     *)
(* from tfhd and both sizes shrink by its four bytes.                      *)
WithoutIndex(f) ==
    LET indexed(b) == b.kind = "tfhd" /\ b.sdi
    IN  IF ~\E i \in 1..Len(f.boxes) : indexed(f.boxes[i]) THEN f
        ELSE [f EXCEPT
            !.boxes = [i \in 1..Len(@) |->
                IF indexed(@[i]) THEN [@[i] EXCEPT !.sdi = FALSE, !.len = @ - 4]
                                 ELSE @[i]],
            !.trafSize = @ - 4, !.moofSize = @ - 4]

(* A run whose sizes come from tfhd is rebuilt with a size and the default *)
(* duration for every sample and always with a data-offset field.          *)
NeedsSizes(f, b) ==
    b.kind = "trun" /\ ~b.sized /\ b.count > 0 /\ DefaultSize(f) > 0

Rebuilt(f, r) ==
    [r EXCEPT !.sized = TRUE, !.sizes = RunSizes(f, r), !.dur = "copy",
              !.field = TRUE, !.len = 20 + 8 * r.count]

(* normalize_fragment: the growth of every rebuilt run and the loss of the *)
(* index move mdat, so every offset is moved by their sum.                 *)
Normalized(f) ==
    LET g == WithoutIndex(f)
        shrink == TrafLen(g) - TrafLen(f)
        old == SelectSeq(g.boxes, LAMBDA b : NeedsSizes(g, b))
        grown == Total([i \in 1..Len(old) |-> Rebuilt(g, old[i])]) - Total(old)
        moved(b) == IF b.kind = "trun" /\ b.field
                    THEN [b EXCEPT !.off = @ + shrink + grown] ELSE b
    IN  [g EXCEPT
            !.boxes = [i \in 1..Len(@) |->
                moved(IF NeedsSizes(g, @[i]) THEN Rebuilt(g, @[i]) ELSE @[i])],
            !.trafSize = @ + grown, !.moofSize = @ + grown]

NormalizeFragment ==
    /\ task = "fairplay" /\ stage = "cut"
    /\ frag' = Normalized(frag)
    /\ stage' = "done"
    /\ UNCHANGED <<task, source, clear>>

----------------------------------------------------------------------------
(* Widevine: decrypt_cenc_fragment, strip_encryption_boxes                 *)

(* A fragment without senc is left as it is; an unreadable senc fails.     *)
(* Samples of size zero are passed over and take no entry.                 *)
DecryptCenc ==
    /\ task = "cenc" /\ stage = "input"
    /\ LET senc == OfKind(frag.boxes, "senc")
           ss == SelectSeq(Samples(frag), LAMBDA s : s[2] > 0)
       IN  \/ /\ senc = <<>>
              /\ stage' = "decrypted" /\ UNCHANGED clear
           \/ /\ senc # <<>>
              /\ \/ senc[1].bad
                 \/ \E i \in 1..Len(ss) : ss[i][1] + ss[i][2] > frag.mdat
              /\ stage' = "failed" /\ UNCHANGED clear
           \/ /\ senc # <<>> /\ ~senc[1].bad
              /\ \A i \in 1..Len(ss) : ss[i][1] + ss[i][2] <= frag.mdat
              /\ stage' = "decrypted"
              /\ clear' = {ss[k] : k \in {j \in 1..Len(ss) :
                               j <= Len(senc[1].entries)
                               /\ senc[1].entries[j] <= ss[j][2]}}
    /\ UNCHANGED <<task, source, frag>>

(* The word at the place of the data offset is rewritten in every run,     *)
(* also in one that has no such field: torn says something else was hit.   *)
StripEncryptionBoxes ==
    /\ task = "cenc" /\ stage = "decrypted"
    /\ LET cut == Cut(frag)
       IN  frag' = [cut EXCEPT !.torn =
                cut.moofSize # frag.moofSize
                /\ \E i \in 1..Len(Runs(frag)) : ~Runs(frag)[i].field]
    /\ stage' = "done"
    /\ UNCHANGED <<task, source, clear>>

----------------------------------------------------------------------------
(* transform_init_segment                                                  *)

(* The boxes around the sample description, innermost first. *)
Chain == {"stbl", "minf", "mdia", "trak", "moov"}

StsdLen(f) == 16 + Total(f.entries)

StblLen(f) == 8 + Total(f.before) + StsdLen(f) + Total(f.after)

(* The length box c really has; rest is what else it holds, pssh in moov.  *)
ChainLen(f, c) == StblLen(f) + f.rest[c] + (IF c = "moov" THEN f.pssh ELSE 0)

(* The first entry loses its sinf and takes the format frma names; every   *)
(* further entry goes.  The sizes around stsd still tell the old length.   *)
ClearEntry ==
    /\ task = "init" /\ stage = "input"
    /\ LET e == frag.entries[1]
           first == [e EXCEPT !.enca = FALSE, !.len = @ - e.sinf, !.sinf = 0]
       IN  IF e.enca /\ e.sinf = 0
           THEN stage' = "failed" /\ UNCHANGED frag
           ELSE /\ stage' = "entry"
                /\ frag' = [frag EXCEPT !.entries = <<first>>]
    /\ UNCHANGED <<task, source, clear>>

NotProtection(b) == ~Protection(b)

(* The search for seam and seig groups walks stbl with the size stsd had   *)
(* before: past a shrunken stsd it lands n bytes further on, on a box if   *)
(* one starts there, and otherwise wherever the bytes there lead.          *)
Resume(boxes, n) ==
    LET exact == {k \in 1..(Len(boxes) + 1) :
                     Total(SubSeq(boxes, 1, k - 1)) = n}
        later == {k \in 1..(Len(boxes) + 1) :
                     Total(SubSeq(boxes, 1, k - 1)) > n}
    IN  IF exact # {} THEN exact ELSE later \cup {Len(boxes) + 1}

(* The groups the walk meets are cut, then every size of the chain shrinks *)
(* by all that was removed and the pssh boxes of moov and of the file go.  *)
(* A shrunken stsd's size is written where stsd was at first: when groups  *)
(* before it were cut, its header keeps the old size and other bytes are   *)
(* hit.                                                                    *)
CutGroups ==
    /\ task = "init" /\ stage = "entry"
    /\ \E k \in Resume(frag.after, frag.stsdSize - StsdLen(frag)) :
        LET cut == [frag EXCEPT
                      !.before = SelectSeq(@, NotProtection),
                      !.after = SubSeq(@, 1, k - 1)
                                \o SelectSeq(SubSeq(@, k, Len(@)), NotProtection)]
            removed == StblLen(source) - StblLen(cut)
            stale == cut.before # frag.before
        IN  frag' = [cut EXCEPT
                      !.stsdSize = IF stale THEN @ ELSE StsdLen(frag),
                      !.torn = stale /\ frag.stsdSize # StsdLen(frag),
                      !.size = [c \in Chain |-> @[c] - removed
                                    - (IF c = "moov" THEN frag.pssh ELSE 0)],
                      !.pssh = 0, !.topPssh = FALSE]
    /\ stage' = "done"
    /\ UNCHANGED <<task, source, clear>>

----------------------------------------------------------------------------
(* normalize_fragment_start_time, over the fragments of the assembled file *)

(* A box that cannot be read, or a decode time of another version, leaves  *)
(* the file as it is; so does a file that starts at zero or has no times.  *)
NormalizeStartTime ==
    /\ task = "timeline" /\ stage = "input"
    /\ LET ts == {frag.times[i] : i \in 1..Len(frag.times)}
           first == CHOOSE t \in ts : \A u \in ts : t <= u
       IN  IF frag.broken \/ ts = {} THEN UNCHANGED frag
           ELSE frag' = [frag EXCEPT !.times =
                    [i \in 1..Len(@) |-> @[i] - first]]
    /\ stage' = "done"
    /\ UNCHANGED <<task, source, clear>>

----------------------------------------------------------------------------
(* The inputs                                                              *)

Box(kind, len) == [kind |-> kind, len |-> len]

RunInputs ==
    LET shapes == {r \in [kind : {"trun"}, field : BOOLEAN, sized : BOOLEAN,
                          dur : {"none", "own"}, count : 1..2, off : {0},
                          len : {0}, sizes : UNION {[1..n -> Sizes] : n \in 0..2}] :
                     /\ Len(r.sizes) = IF r.sized THEN r.count ELSE 0
                     /\ OddRuns \/ (r.field /\ (r.sized \/ r.dur = "none"))
                     /\ r.dur = "own" => r.count = 1}
    IN  {[r EXCEPT !.len = TrunLen(r)] : r \in shapes}

(* A fragment with its runs one after the other in mdat, gap bytes between *)
(* them, and sizes and offsets that agree with its layout.                 *)
Fragment(tfhd, senc, front, runs, back, pssh, gap) ==
    LET boxes == <<tfhd>> \o front \o runs \o senc \o back
        bare == [boxes |-> boxes, pssh |-> pssh, trafSize |-> 0, moofSize |-> 0,
                 mdat |-> 0, torn |-> FALSE]
        sizes == [i \in 1..Len(runs) |-> Sum(SizesFound(bare)[i])]
        at(i) == Sum(SubSeq(sizes, 1, i - 1)) + (i - 1) * gap
        placed == [i \in 1..Len(runs) |->
                     IF runs[i].field
                     THEN [runs[i] EXCEPT !.off = MdatStart(bare) + at(i)]
                     ELSE runs[i]]
    IN  [bare EXCEPT !.boxes = <<tfhd>> \o front \o placed \o senc \o back,
                     !.trafSize = TrafLen(bare), !.moofSize = MoofLen(bare),
                     !.mdat = Sum(sizes) + (Len(runs) - 1) * gap]

Tfhds == {[kind |-> "tfhd", sdi |-> s, dsize |-> d,
           len |-> 16 + (IF s THEN 4 ELSE 0) + (IF d > 0 THEN 4 ELSE 0)] :
              s \in BOOLEAN, d \in {0} \cup Sizes}

Sencs == {<<>>} \cup {<<[kind |-> "senc", entries |-> e, bad |-> FALSE,
                        len |-> 16 + 8 * Len(e)]>> :
             e \in {<<0, 0, 0, 0>>, <<0>>} \cup {<<z, z, z, z>> : z \in Sizes}}
         \cup {<<[kind |-> "senc", entries |-> <<>>, bad |-> TRUE, len |-> 24]>>}

FragmentInput ==
    \E tfhd \in Tfhds, senc \in Sencs, gap \in Gaps,
       front \in {<<>>, <<Box("saio", 20)>>, <<Box("roll", 26), Box("seam", 28)>>},
       back \in {<<>>, <<Box("uuid", 44)>>},
       runs \in {<<r>> : r \in RunInputs} \cup {<<r, q>> : r, q \in RunInputs} :
        /\ gap > 0 => \A i \in 1..Len(runs) : runs[i].field
        /\ frag = Fragment(tfhd, senc, front, runs, back, 10 * Len(back), gap)

InitInput ==
    \E sinf \in {0, 24, 30}, enca \in BOOLEAN, extra \in BOOLEAN,
       before, after \in {<<>>, <<Box("stts", 16), Box("seam", 24)>>,
                          <<Box("roll", 24), Box("seam", 30), Box("stsz", 20)>>},
       pssh \in {0, 40}, top \in BOOLEAN :
        LET entry == [enca |-> enca, sinf |-> sinf, len |-> 60 + sinf]
            bare == [before |-> before, after |-> after, pssh |-> pssh,
                     entries |-> IF extra THEN <<entry, entry>> ELSE <<entry>>,
                     rest |-> [c \in Chain |-> IF c = "stbl" THEN 0 ELSE 8],
                     stsdSize |-> 0, size |-> [c \in Chain |-> 0],
                     topPssh |-> top, torn |-> FALSE]
        IN  /\ enca \/ sinf = 0
            /\ frag = [bare EXCEPT !.stsdSize = StsdLen(bare),
                                   !.size = [c \in Chain |-> ChainLen(bare, c)]]

TimelineInput ==
    \E n \in 0..3 : \E ts \in [1..n -> 0..4], broken \in BOOLEAN :
        frag = [times |-> ts, broken |-> broken]

Init ==
    /\ \/ task \in {"fairplay", "cenc"} /\ FragmentInput
       \/ task = "init" /\ InitInput
       \/ task = "timeline" /\ TimelineInput
    /\ stage = "input"
    /\ source = frag
    /\ clear = {}

Next ==
    \/ DecryptFragment \/ CutProtection \/ NormalizeFragment
    \/ DecryptCenc \/ StripEncryptionBoxes
    \/ ClearEntry \/ CutGroups
    \/ NormalizeStartTime

Spec == Init /\ [][Next]_vars

----------------------------------------------------------------------------
(* Properties                                                              *)

TypeOK ==
    /\ task \in {"fairplay", "cenc", "init", "timeline"}
    /\ stage \in {"input", "decrypted", "cut", "entry", "done", "failed"}
    /\ \A r \in clear : r \in Nat \X Nat

(* An init segment with a seam or seig group before its sample             *)
(* description.                                                            *)
GroupFirst(f) == \E i \in 1..Len(f.before) : Protection(f.before[i])

(* After every cut and every rebuild the size written in each box header   *)
(* is the length of what the box then holds, except that of stsd when      *)
(* groups before it were cut (decrypt_fragment, normalize_fragment,        *)
(* strip_encryption_boxes, transform_init_segment).                        *)
SizesAgree ==
    stage \in {"cut", "done"} =>
        /\ task \in {"fairplay", "cenc"} =>
               frag.trafSize = TrafLen(frag) /\ frag.moofSize = MoofLen(frag)
        /\ task = "init" =>
               /\ GroupFirst(source) \/ (frag.stsdSize = StsdLen(frag) /\ ~frag.torn)
               /\ \A c \in Chain : frag.size[c] = ChainLen(frag, c)

(* The same without the exception, which fails; it is not checked.         *)
StsdSizeAgrees ==
    task = "init" /\ stage = "done" => frag.stsdSize = StsdLen(frag) /\ ~frag.torn

(* A player that follows the rewritten headers finds the samples where the *)
(* source had them in mdat, and every one of them is decrypted, unless the *)
(* source's senc does not cover it or a Widevine fragment carries none.    *)
SamplesStay ==
    LET senc == OfKind(source.boxes, "senc")
        ss == Samples(source)
        covered(k) == /\ senc # <<>> \/ task = "fairplay"
                      /\ (senc # <<>> /\ ~senc[1].bad) =>
                             /\ k <= Len(senc[1].entries)
                             /\ senc[1].entries[k] <= ss[k][2]
    IN  (stage = "done" /\ task \in {"fairplay", "cenc"}) =>
            /\ Samples(frag) = ss
            /\ ~frag.torn
            /\ \A k \in 1..Len(ss) :
                   (ss[k][2] > 0 /\ covered(k)) => ss[k] \in clear

(* The assembled file starts at zero and keeps the distance between any    *)
(* two of its fragments; a file with an unreadable box keeps its times.    *)
TimelineKept ==
    (task = "timeline" /\ stage = "done" /\ frag.times # <<>>) =>
        LET new == frag.times
            old == source.times
        IN  /\ \A i, j \in 1..Len(old) : new[i] - new[j] = old[i] - old[j]
            /\ IF frag.broken THEN new = old
               ELSE \E i \in 1..Len(new) : new[i] = 0

\* Rewriting the boxes around the samples changes neither the samples nor where
\* a player finds them (decryptor.rs, cenc.rs).
FragmentIntact ==
    TypeOK /\ SizesAgree /\ SamplesStay /\ TimelineKept
============================================================================
