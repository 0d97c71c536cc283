--------------------------- MODULE RipTrackProofs ---------------------------
(***************************************************************************)
(* Proofs about RipTrack, for any number of rips, any file names, retries  *)
(* and rounds.                                                             *)
(*                                                                         *)
(* CleanDisk speaks of finished rips.  It needs OwnerInv: at each step a   *)
(* file on disk is the one that its owner reserved and has yet to remove   *)
(* or to hand over, so that what a rip removes at its end is its own file  *)
(* and all it has; and NameInv: a collision id that was not given out yet  *)
(* names no file, so that create_new takes nobody's.  AbsentMeansAbsent    *)
(* needs SourceInv: a technical failure of the round is remembered by the  *)
(* flag that the candidates carry, until a round without it.               *)
(***************************************************************************)
EXTENDS RipTrack, TLAPS

Ats == {"start", "meta", "endpoint", "manifest", "status", "primary", "wrapper", "delay",
        "reserve", "download", "tag", "clean", "backoff", "done"}
Outs == Errors \cup {"none", "ok"}

\* Names that a rip may reserve.
Names == {BaseName[r] : r \in Rip} \X Nat

Progress ==
    [at : Ats, attempt : 0 .. MaxRetries, round : 0 .. Rounds, mirror : BOOLEAN, cand : {1, 2},
     only : BOOLEAN, absent : BOOLEAN, src : {"none", "mirror", "wrapper"},
     codec : {"none", "alac", "ec-3"}, file : {Nowhere} \cup Names, out : Outs]

\* The kinds of the variables.
RipType ==
    /\ TypeOK
    /\ technical \subseteq Rip
    /\ rip \in [Rip -> Progress]
    /\ \A n \in DOMAIN disk : n \in Names /\ disk[n] \in [owner : Rip, whole : BOOLEAN]

\* Where a rip has a result, a round left, a reserved name, a directory or a raw
\* download.
PlaceInv(r) ==
    /\ rip[r].at \in {"clean", "done"} <=> rip[r].out # "none"
    /\ rip[r].at \notin {"clean", "done"} => rip[r].round < Rounds
    /\ rip[r].at \notin {"download", "tag", "clean", "done"} => rip[r].file = Nowhere
    /\ rip[r].at \in {"download", "tag"} \/ rip[r].out = "ok" => rip[r].file # Nowhere
    /\ r \in dirs => rip[r].at \notin {"start", "backoff", "done"}
    /\ r \in raws => rip[r].at \in {"download", "tag", "clean"}

\* What a rip knows of its source.
SourceInv(r) ==
    /\ rip[r].at \in {"reserve", "download", "tag"} \/ rip[r].out = "ok" =>
          (r \in Atmos => rip[r].codec = "ec-3")
    /\ rip[r].absent => r \in Atmos
    /\ rip[r].out = "rendition" => r \in Atmos /\ r \notin technical
    /\ rip[r].at = "wrapper" /\ r \in technical => kind = "endpoints" /\ ~rip[r].only

\* The name a rip reserved and has not removed.
Has(r) == rip[r].file # Nowhere /\ (rip[r].at = "done" => rip[r].out = "ok")

\* The file on disk that its owner reserved.
Owned(n) == n # Nowhere /\ rip[disk[n].owner].file = n /\ Has(disk[n].owner)

\* A file on disk is its owner's, and an owner's file is on disk.
OwnerInv ==
    /\ \A n \in DOMAIN disk : Owned(n)
    /\ \A r \in Rip : Has(r) => rip[r].file \in DOMAIN disk /\ disk[rip[r].file].owner = r
    /\ \A r \in Rip : rip[r].out = "ok" => disk[rip[r].file].whole

\* Collision ids are given out in order.
NameInv == \A n \in DOMAIN disk : n[2] <= suffix

RipInv ==
    /\ RipType
    /\ \A r \in Rip : PlaceInv(r) /\ SourceInv(r)
    /\ OwnerInv /\ NameInv

-----------------------------------------------------------------------------
(* What a step of one rip leaves alone. *)

\* Only r moves.
Moves(r) == rip' \in [Rip -> Progress] /\ \A q \in Rip \ {r} : rip'[q] = rip[q]

\* What no rip's step changes, and what it may change of its own only.
OwnOnly(r) ==
    /\ Config' = Config /\ reading' \subseteq Rip
    /\ cached' \in BOOLEAN /\ circuit' \in {"closed", "mirror", "cancel"}
    /\ cancelled' = cancelled
    /\ dirs' \subseteq Rip /\ dirs' \ {r} = dirs \ {r}
    /\ raws' \subseteq Rip /\ raws' \ {r} = raws \ {r}
    /\ technical' \subseteq Rip /\ technical' \ {r} = technical \ {r}

\* A step of one rip (any of ripper.rs and acquisition.rs) leaves what is known of
\* the others as it is.
LEMMA OthersKept ==
    ASSUME RipInv, NEW r \in Rip, Moves(r), OwnOnly(r), PlaceInv(r)', SourceInv(r)'
    PROVE  \A q \in Rip : PlaceInv(q)' /\ SourceInv(q)'
<1> SUFFICES ASSUME NEW q \in Rip, q # r PROVE PlaceInv(q)' /\ SourceInv(q)'
  OBVIOUS
<1>1. rip'[q] = rip[q] /\ (q \in dirs' <=> q \in dirs) /\ (q \in raws' <=> q \in raws)
      /\ (q \in technical' <=> q \in technical) /\ kind' = kind
  BY DEF Moves, OwnOnly, Config
<1>2. PlaceInv(q) /\ SourceInv(q)
  BY DEF RipInv
<1> QED BY <1>1, <1>2 DEF PlaceInv, SourceInv

\* A step that keeps the files and the name the rip reserved, and does not yield the
\* track, keeps who owns them.
LEMMA FilesKept ==
    ASSUME RipInv, NEW r \in Rip, Moves(r), disk' = disk, suffix' = suffix,
           rip'[r].file = rip[r].file, rip[r].at # "done", rip'[r].out # "ok",
           rip'[r].at = "done" => rip[r].file = Nowhere
    PROVE  OwnerInv' /\ NameInv'
<1>1. \A q \in Rip : rip'[q].file = rip[q].file /\ (Has(q)' <=> Has(q))
                    /\ (rip'[q].out = "ok" => rip[q].out = "ok")
  BY DEF Moves, Has
<1>2. \A n \in DOMAIN disk : disk[n].owner \in Rip
  BY DEF RipInv, RipType, TypeOK
<1>3. OwnerInv /\ NameInv
  BY DEF RipInv
<1>4. \A n \in DOMAIN disk : Owned(n)'
  BY <1>1, <1>2, <1>3 DEF OwnerInv, Owned, Has
<1> QED BY <1>1, <1>3, <1>4 DEF OwnerInv, NameInv

\* The kinds of the variables after a step of one rip.
LEMMA TypeKept ==
    ASSUME RipInv, NEW r \in Rip, Moves(r), OwnOnly(r), suffix' \in Nat,
           \A n \in DOMAIN disk' : n \in Names /\ disk'[n] \in [owner : Rip, whole : BOOLEAN]
    PROVE  RipType'
<1>1. \A q \in Rip : rip'[q] \in Progress
  BY DEF Moves
<1>2. RipType
  BY DEF RipInv
<1> QED BY <1>1, <1>2 DEF Moves, OwnOnly, Config, RipType, TypeOK, Progress, Ats, Outs

\* A step that touches no reserved file.
LEMMA QuietStep ==
    ASSUME RipInv, NEW r \in Rip, Moves(r), OwnOnly(r), PlaceInv(r)', SourceInv(r)',
           disk' = disk, suffix' = suffix, rip'[r].file = rip[r].file, rip[r].at # "done",
           rip'[r].out # "ok", rip'[r].at = "done" => rip[r].file = Nowhere
    PROVE  RipInv'
<1>1. RipType'
  BY TypeKept DEF RipInv, RipType, TypeOK
<1> QED BY <1>1, OthersKept, FilesKept DEF RipInv

-----------------------------------------------------------------------------
(* The steps of a rip. *)

\* What is known of one rip.
Facts(r) ==
    /\ rip \in [Rip -> Progress] /\ rip[r] \in Progress /\ PlaceInv(r) /\ SourceInv(r)
    /\ dirs \subseteq Rip /\ raws \subseteq Rip /\ technical \subseteq Rip
    /\ reading \subseteq Rip
    /\ cached \in BOOLEAN /\ circuit \in {"closed", "mirror", "cancel"} /\ suffix \in Nat

\* They follow from the invariant.
LEMMA Known == RipInv => \A r \in Rip : Facts(r)
BY DEF RipInv, RipType, TypeOK, Facts


\* The next record differs in its place only, or in its place and its result.
Going(n, r, a) ==
    /\ n.at = a /\ n.out = rip[r].out /\ n.file = rip[r].file /\ n.round = rip[r].round
    /\ n.codec = rip[r].codec /\ n.absent = rip[r].absent /\ n.only = rip[r].only
Ending(n, r, a, e) ==
    /\ n.at = a /\ n.out = e /\ n.file = rip[r].file
    /\ n.codec = rip[r].codec /\ n.absent = rip[r].absent

\* A rip that moves on, fails, ends, or takes any other next record moves alone.
LEMMA GoMoves ==
    ASSUME NEW r \in Rip, Facts(r), NEW a \in Ats, Go(r, a)
    PROVE  Moves(r) /\ Going(rip'[r], r, a)
BY DEF Facts, Go, Moves, Progress, Going

\* Fail: rip_once goes to its end with an error.
LEMMA FailMoves ==
    ASSUME NEW r \in Rip, Facts(r), NEW e \in Outs, Fail(r, e)
    PROVE  Moves(r) /\ Ending(rip'[r], r, "clean", e)
BY DEF Facts, Fail, Moves, Progress, Ats, Ending

\* rip returns.
LEMMA EndMoves ==
    ASSUME NEW r \in Rip, Facts(r), NEW e \in Outs,
           rip' = [rip EXCEPT ![r].at = "done", ![r].out = e]
    PROVE  Moves(r) /\ Ending(rip'[r], r, "done", e)
BY DEF Facts, Moves, Progress, Ats, Ending

\* Any other step.
LEMMA PutMoves ==
    ASSUME NEW r \in Rip, Facts(r), NEW n \in Progress, rip' = [rip EXCEPT ![r] = n]
    PROVE  Moves(r) /\ rip'[r] = n
BY DEF Facts, Moves

\* connect_once's answer is taken unless the token is cancelled.
LEMMA AnswerMoves ==
    ASSUME NEW r \in Rip, Facts(r), NEW n \in Progress, Answer(r, n)
    PROVE  /\ Moves(r)
           /\ \/ rip'[r] = n
              \/ Ending(rip'[r], r, "clean", "cancelled")
<1>1. "cancelled" \in Outs
  BY DEF Outs, Errors, Terminal
<1> QED BY <1>1, PutMoves, FailMoves DEF Answer

\* What follows a round without a source.
RoundEnds(n, r) ==
    /\ n.file = rip[r].file /\ ~n.absent
    /\ \/ n.at = "delay" /\ n.out = "none" /\ n.round < Rounds
       \/ n.at = "clean" /\ n.out = "other"

\* What follows an answer that has a stream: accept_stream may refuse it.
Accepts(n, r, codec) ==
    /\ n.file = rip[r].file /\ n.absent = rip[r].absent
    /\ \/ r \in Atmos /\ codec # "ec-3" /\ n.at = "clean" /\ n.out = "rendition"
       \/ /\ n.at = "reserve" /\ n.out = "none" /\ n.round < Rounds
          /\ r \in Atmos => n.codec = "ec-3"

\* connect_stream, the end of a round.
LEMMA NoSourceIs ==
    ASSUME NEW r \in Rip, Facts(r), rip[r].at = "wrapper"
    PROVE  NoSource(r) \in Progress /\ RoundEnds(NoSource(r), r)
<1>1. rip[r] \in Progress /\ PlaceInv(r)
  BY DEF Facts
<1>2. rip[r].round \in 0 .. Rounds /\ rip[r].round < Rounds
  BY <1>1 DEF PlaceInv, Progress
<1>3. rip[r].round + 1 \in 0 .. Rounds
  <2>1. Rounds \in Nat
    BY RipAssumption
  <2> QED BY <1>2, <2>1
<1>4. PICK n : n = NoSource(r)
  OBVIOUS
<1>5. CASE rip[r].round + 1 < Rounds
  <2>1. n = [rip[r] EXCEPT !.at = "delay", !.out = "none", !.round = rip[r].round + 1,
                           !.cand = 1, !.only = TRUE, !.absent = FALSE]
    BY <1>4, <1>5 DEF NoSource
  <2>2. n \in Progress /\ RoundEnds(n, r)
    BY <1>1, <1>3, <1>5, <2>1 DEF RoundEnds, Progress, Ats, Outs
  <2> QED BY <1>4, <2>2
<1>6. CASE ~(rip[r].round + 1 < Rounds)
  <2>1. n = [rip[r] EXCEPT !.at = "clean", !.out = "other", !.round = rip[r].round + 1,
                           !.cand = 1, !.only = TRUE, !.absent = FALSE]
    BY <1>4, <1>6 DEF NoSource
  <2>2. n \in Progress /\ RoundEnds(n, r)
    BY <1>1, <1>3, <2>1 DEF RoundEnds, Progress, Ats, Outs, Errors
  <2> QED BY <1>4, <2>2
<1> QED BY <1>5, <1>6

\* accept_stream.
LEMMA AcceptedIs ==
    ASSUME NEW r \in Rip, Facts(r), NEW src \in {"mirror", "wrapper"},
           NEW codec \in {"alac", "ec-3"}, rip[r].at \in {"primary", "wrapper"}
    PROVE  Accepted(r, src, codec) \in Progress /\ Accepts(Accepted(r, src, codec), r, codec)
<1>1. rip[r] \in Progress /\ PlaceInv(r)
  BY DEF Facts
<1>2. rip[r].round < Rounds /\ rip[r].out = "none"
  BY <1>1 DEF PlaceInv, Progress
<1>3. PICK n : n = Accepted(r, src, codec)
  OBVIOUS
<1>4. CASE r \in Atmos /\ codec # "ec-3"
  <2>1. n = [rip[r] EXCEPT !.at = "clean", !.out = "rendition"]
    BY <1>3, <1>4 DEF Accepted
  <2>2. n \in Progress /\ Accepts(n, r, codec)
    BY <1>1, <1>4, <2>1 DEF Accepts, Progress, Ats, Outs, Errors, Terminal
  <2> QED BY <1>3, <2>2
<1>5. CASE ~(r \in Atmos /\ codec # "ec-3")
  <2>1. n = [rip[r] EXCEPT !.at = "reserve", !.src = src, !.codec = codec]
    BY <1>3, <1>5 DEF Accepted
  <2>2. n \in Progress /\ Accepts(n, r, codec)
    BY <1>1, <1>2, <1>5, <2>1 DEF Accepts, Progress, Ats
  <2> QED BY <1>3, <2>2
<1> QED BY <1>4, <1>5

-----------------------------------------------------------------------------
(* The steps of a rip that touch no reserved file. *)

\* ripper.rs, the head of an attempt.
LEMMA StartKeeps ==
    ASSUME RipInv, NEW r \in Rip, NEW ok \in BOOLEAN, Start(r, ok)
    PROVE  RipInv'
<1>0. Facts(r)
  BY Known
<1>1. /\ Moves(r)
      /\ \/ Ending(rip'[r], r, "done", "cancelled") /\ dirs' = dirs
         \/ Going(rip'[r], r, "meta")
         \/ Ending(rip'[r], r, "done", "io") /\ dirs' = dirs
  <2>1. /\ {"cancelled", "io", "other"} \subseteq Outs
        /\ {"tag", "primary", "meta", "endpoint"} \subseteq Ats
    BY DEF Ats, Outs, Errors, Terminal
  <2>2. CASE Stopped(r)
    BY <1>0, <2>1, <2>2, FailMoves, EndMoves DEF Start
  <2>3. CASE ~Stopped(r)
    BY <1>0, <2>1, <2>3, GoMoves, FailMoves, EndMoves DEF Start
  <2> QED BY <2>2, <2>3
<1>2. OwnOnly(r)
  BY <1>0 DEF Facts, Start, OwnOnly, Config, Policy, Files
<1>3. UNCHANGED <<raws, disk, suffix, kind, technical>> /\ rip[r].at = "start"
  BY DEF Start, At, Files, Config
<1>4. PlaceInv(r) /\ SourceInv(r)
  BY <1>0 DEF Facts
<1>5. PlaceInv(r)'
  BY <1>1, <1>3, <1>4 DEF PlaceInv, Going, Ending
<1>6. SourceInv(r)'
  BY <1>1, <1>3, <1>4 DEF SourceInv, PlaceInv, Going, Ending
<1>7. /\ rip'[r].file = rip[r].file /\ rip'[r].out # "ok"
      /\ rip'[r].at = "done" => rip[r].file = Nowhere
  BY <1>1, <1>3, <1>4 DEF PlaceInv, Going, Ending
<1> QED BY <1>1, <1>2, <1>3, <1>5, <1>6, <1>7, QuietStep

\* ripper.rs, the metadata of the track.
LEMMA MetaKeeps ==
    ASSUME RipInv, NEW r \in Rip, NEW ok \in BOOLEAN, Meta(r, ok)
    PROVE  RipInv'
<1>0. Facts(r)
  BY Known
<1>1. /\ Moves(r)
      /\ \/ Going(rip'[r], r, "endpoint")
         \/ Ending(rip'[r], r, "clean", "other")
         \/ Ending(rip'[r], r, "clean", "cancelled")
  <2>1. /\ {"cancelled", "io", "other"} \subseteq Outs
        /\ {"tag", "primary", "meta", "endpoint"} \subseteq Ats
    BY DEF Ats, Outs, Errors, Terminal
  <2>2. CASE Stopped(r)
    BY <1>0, <2>1, <2>2, FailMoves, EndMoves DEF Meta
  <2>3. CASE ~Stopped(r)
    BY <1>0, <2>1, <2>3, GoMoves, FailMoves, EndMoves DEF Meta
  <2> QED BY <2>2, <2>3
<1>2. OwnOnly(r)
  BY <1>0 DEF Facts, Meta, OwnOnly, Config, Policy, Files
<1>3. UNCHANGED <<raws, disk, suffix, kind, technical>> /\ dirs' = dirs /\ rip[r].at = "meta"
  BY DEF Meta, At, Files, Config
<1>4. PlaceInv(r) /\ SourceInv(r)
  BY <1>0 DEF Facts
<1>5. PlaceInv(r)'
  BY <1>1, <1>3, <1>4 DEF PlaceInv, Going, Ending
<1>6. SourceInv(r)'
  BY <1>1, <1>3, <1>4 DEF SourceInv, PlaceInv, Going, Ending
<1>7. /\ rip'[r].file = rip[r].file /\ rip'[r].out # "ok"
      /\ rip'[r].at = "done" => rip[r].file = Nowhere
  BY <1>1, <1>3, <1>4 DEF PlaceInv, Going, Ending
<1> QED BY <1>1, <1>2, <1>3, <1>5, <1>6, <1>7, QuietStep

\* ripper.rs, the delay before a retry.
LEMMA BackoffKeeps ==
    ASSUME RipInv, NEW r \in Rip, Backoff(r)
    PROVE  RipInv'
<1>0. Facts(r)
  BY Known
<1>1. /\ Moves(r)
      /\ \/ Going(rip'[r], r, "start")
         \/ Ending(rip'[r], r, "done", "cancelled")
  BY <1>0, GoMoves, FailMoves, EndMoves DEF Backoff, Ats, Outs, Errors, Terminal
<1>2. OwnOnly(r)
  BY <1>0 DEF Facts, Backoff, OwnOnly, Config, Policy, Files
<1>3. UNCHANGED <<raws, disk, suffix, kind, technical>> /\ dirs' = dirs /\ rip[r].at = "backoff"
  BY DEF Backoff, At, Files, Config
<1>4. PlaceInv(r) /\ SourceInv(r)
  BY <1>0 DEF Facts
<1>5. PlaceInv(r)'
  BY <1>1, <1>3, <1>4 DEF PlaceInv, Going, Ending
<1>6. SourceInv(r)'
  BY <1>1, <1>3, <1>4 DEF SourceInv, PlaceInv, Going, Ending
<1>7. /\ rip'[r].file = rip[r].file /\ rip'[r].out # "ok"
      /\ rip'[r].at = "done" => rip[r].file = Nowhere
  BY <1>1, <1>3, <1>4 DEF PlaceInv, Going, Ending
<1> QED BY <1>1, <1>2, <1>3, <1>5, <1>6, <1>7, QuietStep

\* mirror_policy.rs: the cache and the circuit.
LEMMA GetEndpointKeeps ==
    ASSUME RipInv, NEW r \in Rip, GetEndpoint(r)
    PROVE  RipInv'
<1>0. Facts(r)
  BY Known
<1>1. /\ Moves(r)
      /\ \/ Going(rip'[r], r, "primary")
         \/ Going(rip'[r], r, "manifest")
  <2>1. CASE rip' = [rip EXCEPT ![r].at = "primary", ![r].mirror = TRUE]
    BY <1>0, <2>1 DEF Facts, Moves, Progress, Ats, Going
  <2> QED BY <1>0, <2>1, GoMoves DEF GetEndpoint, Ats
<1>2. OwnOnly(r)
  BY <1>0 DEF Facts, GetEndpoint, OwnOnly, Config, Policy, Files
<1>3. UNCHANGED <<raws, disk, suffix, kind, technical>> /\ dirs' = dirs /\ rip[r].at = "endpoint"
  BY DEF GetEndpoint, At, Files, Config
<1>4. PlaceInv(r) /\ SourceInv(r)
  BY <1>0 DEF Facts
<1>5. PlaceInv(r)'
  BY <1>1, <1>3, <1>4 DEF PlaceInv, Going, Ending
<1>6. SourceInv(r)'
  BY <1>1, <1>3, <1>4 DEF SourceInv, PlaceInv, Going, Ending
<1>7. /\ rip'[r].file = rip[r].file /\ rip'[r].out # "ok"
      /\ rip'[r].at = "done" => rip[r].file = Nowhere
  BY <1>1, <1>3, <1>4 DEF PlaceInv, Going, Ending
<1> QED BY <1>1, <1>2, <1>3, <1>5, <1>6, <1>7, QuietStep

\* mirror_policy.rs: the manifest.
LEMMA ManifestKeeps ==
    ASSUME RipInv, NEW r \in Rip, NEW res \in {"ok", "failed", "cancelled", "malformed"},
           Manifest(r, res)
    PROVE  RipInv'
<1>0. Facts(r)
  BY Known
<1>1. /\ Moves(r)
      /\ \/ Going(rip'[r], r, "status")
         \/ Going(rip'[r], r, "primary")
  BY <1>0, GoMoves, FailMoves, EndMoves DEF Manifest, Ats, Outs, Errors, Terminal
<1>2. OwnOnly(r)
  BY <1>0 DEF Facts, Manifest, OwnOnly, Config, Policy, Files, Record, Observe
<1>3. UNCHANGED <<raws, disk, suffix, kind, technical>> /\ dirs' = dirs /\ rip[r].at = "manifest"
  BY DEF Manifest, At, Files, Config
<1>4. PlaceInv(r) /\ SourceInv(r)
  BY <1>0 DEF Facts
<1>5. PlaceInv(r)'
  BY <1>1, <1>3, <1>4 DEF PlaceInv, Going, Ending
<1>6. SourceInv(r)'
  BY <1>1, <1>3, <1>4 DEF SourceInv, PlaceInv, Going, Ending
<1>7. /\ rip'[r].file = rip[r].file /\ rip'[r].out # "ok"
      /\ rip'[r].at = "done" => rip[r].file = Nowhere
  BY <1>1, <1>3, <1>4 DEF PlaceInv, Going, Ending
<1> QED BY <1>1, <1>2, <1>3, <1>5, <1>6, <1>7, QuietStep

\* acquisition.rs: the delay before a round.
LEMMA DelayKeeps ==
    ASSUME RipInv, NEW r \in Rip, Delay(r)
    PROVE  RipInv'
<1>0. Facts(r)
  BY Known
<1>1. /\ Moves(r)
      /\ \/ Going(rip'[r], r, "primary")
         \/ Ending(rip'[r], r, "clean", "cancelled")
  <2>1. /\ {"cancelled", "io", "other"} \subseteq Outs
        /\ {"tag", "primary", "meta", "endpoint"} \subseteq Ats
    BY DEF Ats, Outs, Errors, Terminal
  <2>2. CASE Stopped(r)
    BY <1>0, <2>1, <2>2, FailMoves, EndMoves DEF Delay
  <2>3. CASE ~Stopped(r)
    BY <1>0, <2>1, <2>3, GoMoves, FailMoves, EndMoves DEF Delay
  <2> QED BY <2>2, <2>3
<1>2. OwnOnly(r)
  BY <1>0 DEF Facts, Delay, OwnOnly, Config, Policy, Files
<1>3. UNCHANGED <<raws, disk, suffix, kind, technical>> /\ dirs' = dirs /\ rip[r].at = "delay"
  BY DEF Delay, At, Files, Config
<1>4. PlaceInv(r) /\ SourceInv(r)
  BY <1>0 DEF Facts
<1>5. PlaceInv(r)'
  BY <1>1, <1>3, <1>4 DEF PlaceInv, Going, Ending
<1>6. SourceInv(r)'
  BY <1>1, <1>3, <1>4 DEF SourceInv, PlaceInv, Going, Ending
<1>7. /\ rip'[r].file = rip[r].file /\ rip'[r].out # "ok"
      /\ rip'[r].at = "done" => rip[r].file = Nowhere
  BY <1>1, <1>3, <1>4 DEF PlaceInv, Going, Ending
<1> QED BY <1>1, <1>2, <1>3, <1>5, <1>6, <1>7, QuietStep

\* ripper.rs: the download.
LEMMA DownloadKeeps ==
    ASSUME RipInv, NEW r \in Rip, NEW res \in {"whole", "broken", "io"}, Download(r, res)
    PROVE  RipInv'
<1>0. Facts(r)
  BY Known
<1>1. /\ Moves(r)
      /\ \/ Going(rip'[r], r, "tag")
         \/ Ending(rip'[r], r, "clean", "cancelled")
         \/ Ending(rip'[r], r, "clean", "io")
         \/ Ending(rip'[r], r, "clean", "other")
  <2>1. /\ {"cancelled", "io", "other"} \subseteq Outs
        /\ {"tag", "primary", "meta", "endpoint"} \subseteq Ats
    BY DEF Ats, Outs, Errors, Terminal
  <2>2. CASE Stopped(r)
    BY <1>0, <2>1, <2>2, FailMoves, EndMoves DEF Download
  <2>3. CASE ~Stopped(r)
    BY <1>0, <2>1, <2>3, GoMoves, FailMoves, EndMoves DEF Download
  <2> QED BY <2>2, <2>3
<1>2. OwnOnly(r)
  BY <1>0 DEF Facts, Download, OwnOnly, Config, Policy, Files, Record, Observe
<1>3. UNCHANGED <<raws, disk, suffix, kind, technical>> /\ dirs' = dirs /\ rip[r].at = "download"
  BY DEF Download, At, Files, Config
<1>4. PlaceInv(r) /\ SourceInv(r)
  BY <1>0 DEF Facts
<1>5. PlaceInv(r)'
  BY <1>1, <1>3, <1>4 DEF PlaceInv, Going, Ending
<1>6. SourceInv(r)'
  BY <1>1, <1>3, <1>4 DEF SourceInv, PlaceInv, Going, Ending
<1>7. /\ rip'[r].file = rip[r].file /\ rip'[r].out # "ok"
      /\ rip'[r].at = "done" => rip[r].file = Nowhere
  BY <1>1, <1>3, <1>4 DEF PlaceInv, Going, Ending
<1> QED BY <1>1, <1>2, <1>3, <1>5, <1>6, <1>7, QuietStep

\* mirror_policy.rs: the status of an endpoint.
LEMMA StatusKeeps ==
    ASSUME RipInv, NEW r \in Rip, NEW res \in {"ok", "failed", "cancelled"}, Status(r, res)
    PROVE  RipInv'
<1>0. Facts(r)
  BY Known
<1>1. Moves(r) /\ Going(rip'[r], r, "primary")
  BY <1>0 DEF Status, Facts, Moves, Progress, Ats, Going
<1>2. OwnOnly(r)
  BY <1>0 DEF Facts, Status, OwnOnly, Record, Files
<1>3. UNCHANGED <<dirs, raws, disk, suffix, kind, technical>> /\ rip[r].at = "status"
  BY DEF Status, At, Files, Config
<1>4. PlaceInv(r) /\ SourceInv(r)
  BY <1>0 DEF Facts
<1>5. PlaceInv(r)' /\ SourceInv(r)'
  BY <1>1, <1>3, <1>4 DEF PlaceInv, SourceInv, Going
<1>6. rip'[r].file = rip[r].file /\ rip'[r].out # "ok" /\ rip'[r].at # "done"
  BY <1>1, <1>3, <1>4 DEF PlaceInv, Going
<1> QED BY <1>1, <1>2, <1>3, <1>5, <1>6, QuietStep

\* stream_transport.rs: the body of an error answer.
LEMMA ErrorStatusKeeps ==
    ASSUME RipInv, NEW r \in Rip, ErrorStatus(r)
    PROVE  RipInv'
<1>0. Facts(r)
  BY Known
<1>1. /\ UNCHANGED <<Config, Policy, cancelled, rip, Files, technical>>
      /\ rip[r].at \in {"primary", "wrapper"}
  BY DEF ErrorStatus, At
<1>2. Moves(r) /\ OwnOnly(r)
  BY <1>0, <1>1 DEF ErrorStatus, Facts, Moves, OwnOnly, Config, Policy, Files
<1>3. PlaceInv(r)' /\ SourceInv(r)'
  BY <1>0, <1>1 DEF Facts, PlaceInv, SourceInv, Config, Files
<1>4. /\ disk' = disk /\ suffix' = suffix /\ rip'[r].file = rip[r].file
      /\ rip[r].at # "done" /\ rip'[r].at # "done" /\ rip'[r].out # "ok"
  BY <1>0, <1>1 DEF Facts, PlaceInv, Files
<1> QED BY <1>2, <1>3, <1>4, QuietStep

\* acquisition.rs: the mirror.
LEMMA TryPrimaryKeeps ==
    ASSUME RipInv, NEW r \in Rip, NEW res, NEW codec \in {"alac", "ec-3"}, TryPrimary(r, res, codec)
    PROVE  RipInv'
<1>0. Facts(r) /\ rip[r].at \in {"primary", "wrapper"}
  BY Known DEF TryPrimary, At
<1>1. /\ Moves(r)
      /\ \/ Going(rip'[r], r, "wrapper")
         \/ r \notin Atmos /\ Accepts(rip'[r], r, codec)
         \/ Ending(rip'[r], r, "clean", "cancelled")
  <2>1. Accepted(r, "mirror", codec) \in Progress /\ Accepts(Accepted(r, "mirror", codec), r, codec)
    BY <1>0, AcceptedIs
  <2> QED BY <1>0, <2>1, GoMoves, AnswerMoves DEF TryPrimary, Ats
<1>2. OwnOnly(r)
  BY <1>0 DEF Facts, TryPrimary, OwnOnly, Config, Record, Policy, Files
<1>3. UNCHANGED <<dirs, raws, disk, suffix, kind>> /\ r \notin technical'
  BY DEF TryPrimary, Files, Config
<1>4. PlaceInv(r) /\ SourceInv(r) /\ rip[r].out = "none" /\ rip[r].file = Nowhere
  BY <1>0 DEF Facts, PlaceInv
<1>5. PlaceInv(r)'
  BY <1>0, <1>1, <1>3, <1>4 DEF PlaceInv, Going, Ending, RoundEnds, Accepts
<1>6. SourceInv(r)'
  BY <1>0, <1>1, <1>3, <1>4 DEF SourceInv, Going, Ending, RoundEnds, Accepts
<1>7. /\ rip'[r].file = rip[r].file /\ rip'[r].out # "ok" /\ rip'[r].at # "done"
      /\ disk' = disk /\ suffix' = suffix /\ rip[r].at # "done"
  BY <1>0, <1>1, <1>3, <1>4 DEF Going, Ending, RoundEnds, Accepts
<1> QED BY <1>1, <1>2, <1>5, <1>6, <1>7, QuietStep

\* acquisition.rs: no wrapper is configured.
LEMMA NoWrapperKeeps ==
    ASSUME RipInv, NEW r \in Rip, NoWrapper(r)
    PROVE  RipInv'
<1>0. Facts(r) /\ rip[r].at \in {"primary", "wrapper"}
  BY Known DEF NoWrapper, At
<1>1. /\ Moves(r) /\ rip[r].at = "wrapper"
      /\ RoundEnds(rip'[r], r) \/ Ending(rip'[r], r, "clean", "cancelled")
  <2>1. rip[r].at = "wrapper" /\ NoSource(r) \in Progress /\ RoundEnds(NoSource(r), r)
    BY <1>0, NoSourceIs DEF NoWrapper, At
  <2> QED BY <1>0, <2>1, AnswerMoves DEF NoWrapper
<1>2. OwnOnly(r)
  BY <1>0 DEF Facts, NoWrapper, OwnOnly, Config, Record, Policy, Files
<1>3. UNCHANGED <<dirs, raws, disk, suffix, kind>>
  BY DEF NoWrapper, Files, Config
<1>4. PlaceInv(r) /\ SourceInv(r) /\ rip[r].out = "none" /\ rip[r].file = Nowhere
  BY <1>0 DEF Facts, PlaceInv
<1>5. PlaceInv(r)'
  BY <1>0, <1>1, <1>3, <1>4 DEF PlaceInv, Going, Ending, RoundEnds, Accepts
<1>6. SourceInv(r)'
  BY <1>0, <1>1, <1>3, <1>4 DEF SourceInv, Going, Ending, RoundEnds, Accepts
<1>7. /\ rip'[r].file = rip[r].file /\ rip'[r].out # "ok" /\ rip'[r].at # "done"
      /\ disk' = disk /\ suffix' = suffix /\ rip[r].at # "done"
  BY <1>0, <1>1, <1>3, <1>4 DEF Going, Ending, RoundEnds, Accepts
<1> QED BY <1>1, <1>2, <1>5, <1>6, <1>7, QuietStep

\* acquisition.rs: the native wrapper.
LEMMA NativeKeeps ==
    ASSUME RipInv, NEW r \in Rip, NEW res, NEW codec \in {"alac", "ec-3"}, Native(r, res, codec)
    PROVE  RipInv'
<1>0. Facts(r) /\ rip[r].at \in {"primary", "wrapper"}
  BY Known DEF Native, At
<1>1. /\ Moves(r) /\ rip[r].at = "wrapper"
      /\ \/ res = "ok" /\ Accepts(rip'[r], r, codec)
         \/ res = "absent" /\ r \in Atmos /\ Ending(rip'[r], r, "clean", "rendition")
         \/ Ending(rip'[r], r, "clean", "track")
         \/ Ending(rip'[r], r, "clean", "offline") \/ Ending(rip'[r], r, "clean", "other")
         \/ RoundEnds(rip'[r], r)
         \/ Ending(rip'[r], r, "clean", "cancelled")
  <2>1. /\ rip[r].at = "wrapper" /\ NoSource(r) \in Progress /\ RoundEnds(NoSource(r), r)
        /\ Accepted(r, "wrapper", codec) \in Progress
        /\ Accepts(Accepted(r, "wrapper", codec), r, codec)
    BY <1>0, NoSourceIs, AcceptedIs DEF Native, At
  <2>2. ASSUME NEW e \in Outs
        PROVE  LET n == [rip[r] EXCEPT !.at = "clean", !.out = e]
               IN  n \in Progress /\ Ending(n, r, "clean", e)
    BY <1>0 DEF Facts, Progress, Ats, Ending
  <2>3. ASSUME NEW e \in Outs, Refused(r, e)
        PROVE  /\ Moves(r)
               /\ Ending(rip'[r], r, "clean", e) \/ Ending(rip'[r], r, "clean", "cancelled")
    <3>1. PICK n : n = [rip[r] EXCEPT !.at = "clean", !.out = e]
      OBVIOUS
    <3>2. n \in Progress /\ Ending(n, r, "clean", e)
      BY <2>2, <3>1
    <3>3. Answer(r, n)
      BY <2>3, <3>1 DEF Refused
    <3> QED BY <1>0, <3>2, <3>3, AnswerMoves
  <2>4. {"rendition", "track", "offline", "other"} \subseteq Outs
    BY DEF Outs, Errors, Terminal
  <2>5. CASE res = "ok"
    BY <1>0, <2>1, <2>5, AnswerMoves DEF Native
  <2>6. CASE res = "absent"
    BY <2>1, <2>3, <2>4, <2>6 DEF Native
  <2>7. CASE res = "offline"
    BY <2>1, <2>3, <2>4, <2>7 DEF Native
  <2>8. CASE res = "auth"
    BY <2>1, <2>3, <2>4, <2>8 DEF Native
  <2>9. CASE res \in {"failed", "cancelled"}
    BY <1>0, <2>1, <2>9, AnswerMoves DEF Native
  <2> QED BY <2>5, <2>6, <2>7, <2>8, <2>9 DEF Native
<1>2. OwnOnly(r)
  BY <1>0 DEF Facts, Native, OwnOnly, Config, Record, Policy, Files
<1>3. /\ UNCHANGED <<dirs, raws, disk, suffix, kind>> /\ kind = "native"
      /\ res \in {"ok", "absent"} => technical' = technical
  BY DEF Native, Files, Config
<1>4. PlaceInv(r) /\ SourceInv(r) /\ rip[r].out = "none" /\ rip[r].file = Nowhere
  BY <1>0 DEF Facts, PlaceInv
<1>5. PlaceInv(r)'
  BY <1>0, <1>1, <1>3, <1>4 DEF PlaceInv, Going, Ending, RoundEnds, Accepts
<1>6. SourceInv(r)'
  BY <1>0, <1>1, <1>3, <1>4 DEF SourceInv, Going, Ending, RoundEnds, Accepts
<1>7. /\ rip'[r].file = rip[r].file /\ rip'[r].out # "ok" /\ rip'[r].at # "done"
      /\ disk' = disk /\ suffix' = suffix /\ rip[r].at # "done"
  BY <1>0, <1>1, <1>3, <1>4 DEF Going, Ending, RoundEnds, Accepts
<1> QED BY <1>1, <1>2, <1>5, <1>6, <1>7, QuietStep

\* What follows the answer of the first candidate.
Tried(n, r, res) ==
    /\ n.at = rip[r].at /\ n.out = rip[r].out /\ n.file = rip[r].file /\ n.round = rip[r].round
    /\ n.only = (rip[r].only /\ res # "failed") /\ n.absent = (rip[r].absent \/ res = "ok")

\* acquisition.rs: the wrapper's endpoints.
LEMMA CandidateKeeps ==
    ASSUME RipInv, NEW r \in Rip, NEW res, NEW codec \in {"alac", "ec-3"}, Candidate(r, res, codec)
    PROVE  RipInv'
<1>0. Facts(r) /\ rip[r].at \in {"primary", "wrapper"}
  BY Known DEF Candidate, At
<1> DEFINE N == [rip[r] EXCEPT !.cand = 2, !.only = rip[r].only /\ ~(res = "failed"),
                              !.absent = rip[r].absent \/ res = "ok"]
           Absent == [N EXCEPT !.at = "clean", !.out = "rendition"]
<1>a. N \in Progress
  BY <1>0 DEF Facts, Progress
<1>b. /\ Tried(N, r, res) /\ N.only = (rip[r].only /\ res # "failed")
      /\ N.absent = (rip[r].absent \/ res = "ok")
  BY <1>0 DEF Facts, Progress, Tried
<1>c. /\ Absent \in Progress /\ Absent.at = "clean" /\ Absent.out = "rendition"
      /\ Absent.file = N.file /\ Absent.absent = N.absent
  <2> HIDE DEF N
  <2> QED BY <1>a DEF Progress, Ats, Outs, Errors, Terminal
<1>1. /\ Moves(r) /\ rip[r].at = "wrapper"
      /\ \/ res = "ok" /\ (r \in Atmos => codec = "ec-3") /\ Accepts(rip'[r], r, codec)
         \/ (res = "ok" => r \in Atmos) /\ Tried(rip'[r], r, res)
         \/ /\ res = "ok" => r \in Atmos
            /\ rip[r].only /\ res # "failed" /\ (rip[r].absent \/ res = "ok")
            /\ rip'[r].at = "clean" /\ rip'[r].out = "rendition"
            /\ rip'[r].file = rip[r].file /\ (rip'[r].absent => rip[r].absent \/ res = "ok")
         \/ RoundEnds(rip'[r], r)
         \/ Ending(rip'[r], r, "clean", "cancelled")
  <2>1. /\ rip[r].at = "wrapper" /\ NoSource(r) \in Progress /\ RoundEnds(NoSource(r), r)
        /\ Accepted(r, "wrapper", codec) \in Progress
        /\ Accepts(Accepted(r, "wrapper", codec), r, codec)
    BY <1>0, NoSourceIs, AcceptedIs DEF Candidate, At
  <2>2. CASE Stopped(r)
    BY <1>0, <2>1, <2>2, FailMoves DEF Candidate, Outs, Errors, Terminal
  <2>3. CASE ~Stopped(r) /\ res = "ok" /\ (r \in Atmos => codec = "ec-3")
    <3>1. rip' = [rip EXCEPT ![r] = Accepted(r, "wrapper", codec)]
      BY <2>3 DEF Candidate
    <3> QED BY <1>0, <2>1, <2>3, <3>1, PutMoves
  <2>4. CASE ~Stopped(r) /\ ~(res = "ok" /\ (r \in Atmos => codec = "ec-3"))
    <3>1. rip' = [rip EXCEPT ![r] = AfterCandidate(r, res = "failed", res = "ok")]
      BY <2>4 DEF Candidate
    <3>2. AfterCandidate(r, res = "failed", res = "ok") =
             IF rip[r].cand = 1 THEN N ELSE IF N.only /\ N.absent THEN Absent ELSE NoSource(r)
      BY DEF AfterCandidate
    <3> HIDE DEF N, Absent
    <3>3. PICK n \in Progress : n = AfterCandidate(r, res = "failed", res = "ok")
      BY <1>a, <1>c, <2>1, <3>2
    <3>4. Moves(r) /\ rip'[r] = n
      BY <1>0, <3>1, <3>3, PutMoves
    <3>5. CASE rip[r].cand = 1
      BY <1>b, <2>1, <2>4, <3>2, <3>3, <3>4, <3>5
    <3>6. CASE rip[r].cand # 1 /\ N.only /\ N.absent
      <4>1. rip'[r] = Absent
        BY <3>2, <3>3, <3>4, <3>6
      <4>2. N.file = rip[r].file /\ rip[r].only /\ res # "failed" /\ (rip[r].absent \/ res = "ok")
        BY <1>b, <3>6 DEF Tried
      <4> QED BY <1>b, <1>c, <2>1, <2>4, <3>4, <4>1, <4>2
    <3>7. CASE rip[r].cand # 1 /\ ~(N.only /\ N.absent)
      BY <2>1, <3>2, <3>3, <3>4, <3>7
    <3> QED BY <3>5, <3>6, <3>7
  <2> QED BY <2>2, <2>3, <2>4
<1>2. OwnOnly(r)
  BY <1>0 DEF Facts, Candidate, OwnOnly, Config, Record, Policy, Files
<1>3. /\ UNCHANGED <<dirs, raws, disk, suffix, kind>> /\ kind = "endpoints"
      /\ technical' = IF res = "failed" THEN technical \cup {r} ELSE technical
      /\ res \in {"ok", "failed"}
  BY DEF Candidate, Files, Config
<1>4. PlaceInv(r) /\ SourceInv(r) /\ rip[r].out = "none" /\ rip[r].file = Nowhere
  BY <1>0 DEF Facts, PlaceInv
<1>5. PlaceInv(r)'
  BY <1>0, <1>1, <1>3, <1>4 DEF PlaceInv, Going, Ending, RoundEnds, Accepts, Tried
<1>6. SourceInv(r)'
  BY <1>0, <1>1, <1>3, <1>4 DEF SourceInv, Going, Ending, RoundEnds, Accepts, Tried
<1>7. /\ rip'[r].file = rip[r].file /\ rip'[r].out # "ok" /\ rip'[r].at # "done"
      /\ disk' = disk /\ suffix' = suffix /\ rip[r].at # "done"
  BY <1>0, <1>1, <1>3, <1>4 DEF Going, Ending, RoundEnds, Accepts, Tried
<1> QED BY <1>1, <1>2, <1>5, <1>6, <1>7, QuietStep

-----------------------------------------------------------------------------
(* The steps that touch a reserved file. *)

\* create_new takes a name that no file has; the file is the rip's own from then on.
LEMMA ReserveKeeps ==
    ASSUME RipInv, NEW r \in Rip, NEW ok \in BOOLEAN, Reserve(r, ok)
    PROVE  RipInv'
<1>0. Facts(r) /\ rip[r].at = "reserve"
  BY Known DEF Reserve, At
<1>1. CASE ~ok
  <2>1. Moves(r) /\ Ending(rip'[r], r, "clean", "io")
    BY <1>0, <1>1, FailMoves DEF Reserve, Outs, Errors, Terminal
  <2>2. OwnOnly(r) /\ UNCHANGED <<dirs, raws, disk, suffix, kind, technical>>
    BY <1>0, <1>1 DEF Reserve, Facts, OwnOnly, Config, Policy
  <2>3. PlaceInv(r)' /\ SourceInv(r)'
    BY <1>0, <2>1, <2>2 DEF Facts, PlaceInv, SourceInv, Ending
  <2>4. rip'[r].file = rip[r].file /\ rip'[r].out # "ok" /\ rip'[r].at # "done"
    BY <2>1 DEF Ending
  <2> QED BY <1>0, <2>1, <2>2, <2>3, <2>4, QuietStep
<1>2. CASE ok
  <2> DEFINE taken == <<BaseName[r], 0>> \in DOMAIN disk
             name == <<BaseName[r], IF taken THEN suffix + 1 ELSE 0>>
  <2>1. /\ disk' = With(disk, name, [owner |-> r, whole |-> FALSE])
        /\ suffix' = IF taken THEN suffix + 1 ELSE suffix
        /\ rip' = [rip EXCEPT ![r].at = "download", ![r].file = name]
        /\ raws' = raws \cup {r}
        /\ UNCHANGED <<Config, reading, cached, circuit, cancelled, dirs, technical>>
    BY <1>2 DEF Reserve, Config, Policy
  <2>2. suffix \in Nat /\ BaseName[r] # "none"
    BY <1>0, RipAssumption DEF Facts
  <2>a. PICK k \in Nat : k = IF taken THEN suffix + 1 ELSE 0
    BY <2>2
  <2>b. name = <<BaseName[r], k>> /\ name[1] = BaseName[r] /\ name[2] = k
    BY <2>a
  <2>c. suffix' \in Nat /\ suffix <= suffix' /\ k <= suffix'
    BY <2>1, <2>2, <2>a
  <2>3. name \in Names /\ name # Nowhere
    BY <2>2, <2>b DEF Names, Nowhere
  <2>4. suffix' \in Nat /\ suffix <= suffix' /\ name[2] <= suffix'
    BY <2>b, <2>c
  <2>5. name \notin DOMAIN disk
    <3>1. CASE taken
      <4>1. name[2] = suffix + 1
        BY <2>a, <2>b, <3>1
      <4>2. \A n \in DOMAIN disk : n[2] <= suffix
        BY DEF RipInv, NameInv
      <4>3. ~(suffix + 1 <= suffix)
        BY <2>2
      <4> HIDE DEF name, taken
      <4> QED BY <4>1, <4>2, <4>3
    <3> QED BY <3>1
  <2>d. PICK m : m = name
    OBVIOUS
  <2>e. /\ disk' = With(disk, m, [owner |-> r, whole |-> FALSE])
        /\ rip' = [rip EXCEPT ![r].at = "download", ![r].file = m]
        /\ m \in Names /\ m # Nowhere /\ m[2] <= suffix' /\ m \notin DOMAIN disk
    BY <2>1, <2>3, <2>4, <2>5, <2>d
  <2> HIDE DEF name, taken
  <2>6. Moves(r) /\ rip'[r] = [rip[r] EXCEPT !.at = "download", !.file = m]
    BY <1>0, <2>e DEF Facts, Moves, Progress, Ats
  <2>7. rip'[r].at = "download" /\ rip'[r].file = m /\ rip'[r].out = rip[r].out
        /\ rip'[r].round = rip[r].round /\ rip'[r].codec = rip[r].codec
        /\ rip'[r].absent = rip[r].absent
    BY <1>0, <2>6 DEF Facts, Progress
  <2>8. OwnOnly(r)
    BY <1>0, <2>1 DEF Facts, OwnOnly
  <2>9. PlaceInv(r)' /\ SourceInv(r)'
    BY <1>0, <2>1, <2>e, <2>7 DEF Facts, PlaceInv, SourceInv
  <2>10. /\ DOMAIN disk' = DOMAIN disk \cup {m}
         /\ disk'[m] = [owner |-> r, whole |-> FALSE]
         /\ \A n \in DOMAIN disk : disk'[n] = disk[n]
    BY <2>e DEF With
  <2>11. RipType'
    <3>1. \A n \in DOMAIN disk' :
             n \in Names /\ disk'[n] \in [owner : Rip, whole : BOOLEAN]
      <4>1. \A n \in DOMAIN disk :
               n \in Names /\ disk'[n] \in [owner : Rip, whole : BOOLEAN]
        BY <2>10 DEF RipInv, RipType
      <4>2. m \in Names /\ disk'[m] \in [owner : Rip, whole : BOOLEAN]
        <5>1. m \in Names /\ disk'[m] = [owner |-> r, whole |-> FALSE]
          BY <2>e, <2>10
        <5> QED BY <5>1
      <4> QED BY <2>10, <4>1, <4>2
    <3> QED BY <2>4, <2>6, <2>8, <3>1, TypeKept
  <2>12. OwnerInv'
    <3>1. \A n \in DOMAIN disk : disk[n].owner \in Rip /\ disk[n].owner # r
      BY <1>0 DEF RipInv, RipType, TypeOK, OwnerInv, Owned, Facts, PlaceInv
    <3>2. \A q \in Rip \ {r} : rip'[q] = rip[q] /\ (Has(q)' <=> Has(q))
      BY <2>6 DEF Moves, Has
    <3>3. Has(r)'
      BY <2>e, <2>7 DEF Has
    <3>4. OwnerInv
      BY DEF RipInv
    <3>5. \A n \in DOMAIN disk' : Owned(n)'
      <4>1. ASSUME NEW n \in DOMAIN disk PROVE Owned(n)'
        <5>1. PICK q \in Rip \ {r} : q = disk[n].owner /\ disk'[n].owner = q
          BY <2>10, <3>1
        <5>2. n # Nowhere /\ rip[q].file = n /\ Has(q)
          BY <3>4, <5>1 DEF OwnerInv, Owned
        <5> QED BY <3>2, <5>1, <5>2 DEF Owned, Has
      <4>2. Owned(m)'
        <5>1. disk'[m].owner = r
          BY <2>10
        <5> QED BY <2>e, <2>7, <3>3, <5>1 DEF Owned, Has
      <4> QED BY <2>10, <4>1, <4>2
    <3>6. \A q \in Rip : Has(q)' => rip'[q].file \in DOMAIN disk' /\ disk'[rip'[q].file].owner = q
      BY <2>7, <2>10, <3>2, <3>4 DEF OwnerInv
    <3>7. \A q \in Rip : rip'[q].out = "ok" => disk'[rip'[q].file].whole
      <4>1. ASSUME NEW q \in Rip, q # r, rip'[q].out = "ok" PROVE disk'[rip'[q].file].whole
        <5>1. rip[q].out = "ok" /\ rip'[q].file = rip[q].file /\ Facts(q)
          BY <3>2, <4>1, Known
        <5>2. Has(q)
          BY <5>1 DEF Has, Facts, PlaceInv
        <5> QED BY <2>10, <3>4, <5>1, <5>2 DEF OwnerInv
      <4> QED BY <1>0, <2>7, <4>1 DEF Facts, PlaceInv
    <3> QED BY <3>5, <3>6, <3>7 DEF OwnerInv
  <2>13. NameInv'
    <3>1. \A n \in DOMAIN disk : n[2] \in Nat /\ n[2] <= suffix
      <4>1. \A n \in DOMAIN disk : n \in Names /\ n[2] <= suffix
        BY DEF RipInv, RipType, NameInv
      <4> QED BY <4>1 DEF Names
    <3>2. \A n \in DOMAIN disk : n[2] <= suffix'
      BY <2>2, <2>4, <3>1
    <3> QED BY <2>e, <2>10, <3>2 DEF NameInv
  <2> QED BY <2>6, <2>8, <2>9, <2>11, <2>12, <2>13, OthersKept DEF RipInv
<1> QED BY <1>1, <1>2

\* finalize_m4a makes the file whole, or fails.
LEMMA TagKeeps ==
    ASSUME RipInv, NEW r \in Rip, NEW res \in {"ok", "io", "decode"}, Tag(r, res)
    PROVE  RipInv'
<1>0. Facts(r) /\ rip[r].at = "tag"
  BY Known DEF Tag, At
<1>1. OwnOnly(r) /\ UNCHANGED <<dirs, raws, suffix, kind, technical>>
  BY <1>0 DEF Tag, Facts, OwnOnly, Config, Policy, Observe, Record
<1>2. CASE disk' = disk /\ \E e \in {"cancelled", "io", "other"} : Fail(r, e)
  <2>1. PICK e \in {"cancelled", "io", "other"} : Fail(r, e)
    BY <1>2
  <2>2. e \in Outs
    BY DEF Outs, Errors, Terminal
  <2>3. Moves(r) /\ Ending(rip'[r], r, "clean", e)
    BY <1>0, <2>1, <2>2, FailMoves
  <2>4. PlaceInv(r)' /\ SourceInv(r)'
    BY <1>0, <1>1, <2>3 DEF Facts, PlaceInv, SourceInv, Ending
  <2>5. rip'[r].file = rip[r].file /\ rip'[r].out # "ok" /\ rip'[r].at # "done"
    BY <2>3 DEF Ending
  <2> QED BY <1>0, <1>1, <1>2, <2>3, <2>4, <2>5, QuietStep
<1>3. CASE /\ rip' = [rip EXCEPT ![r].at = "clean", ![r].out = "ok"]
           /\ disk' = [disk EXCEPT ![rip[r].file].whole = TRUE]
  <2>1. Moves(r) /\ rip'[r] = [rip[r] EXCEPT !.at = "clean", !.out = "ok"]
    BY <1>0, <1>3 DEF Facts, Moves, Progress, Ats, Outs
  <2>2. rip'[r].at = "clean" /\ rip'[r].out = "ok" /\ rip'[r].file = rip[r].file
        /\ rip'[r].round = rip[r].round /\ rip'[r].codec = rip[r].codec
        /\ rip'[r].absent = rip[r].absent
    BY <1>0, <2>1 DEF Facts, Progress
  <2>3. PlaceInv(r)' /\ SourceInv(r)'
    BY <1>0, <1>1, <2>2 DEF Facts, PlaceInv, SourceInv
  <2>4. Has(r) /\ Has(r)'
    BY <1>0, <2>2 DEF Has, Facts, PlaceInv
  <2>5. rip[r].file \in DOMAIN disk /\ disk[rip[r].file].owner = r
    BY <2>4 DEF RipInv, OwnerInv
  <2>6. \A n \in DOMAIN disk : disk[n] \in [owner : Rip, whole : BOOLEAN]
    BY DEF RipInv, RipType
  <2>7. /\ DOMAIN disk' = DOMAIN disk
        /\ \A n \in DOMAIN disk : n # rip[r].file => disk'[n] = disk[n]
        /\ disk'[rip[r].file] = [disk[rip[r].file] EXCEPT !.whole = TRUE]
    BY <1>3, <2>5
  <2>8. /\ \A n \in DOMAIN disk : disk'[n].owner = disk[n].owner
        /\ \A n \in DOMAIN disk : disk'[n] \in [owner : Rip, whole : BOOLEAN]
        /\ \A n \in DOMAIN disk : disk[n].whole => disk'[n].whole
        /\ disk'[rip[r].file].whole
    <3>1. \A n \in DOMAIN disk : disk'[n].owner = disk[n].owner /\ (disk[n].whole => disk'[n].whole)
                               /\ disk'[n] \in [owner : Rip, whole : BOOLEAN]
      <4> SUFFICES ASSUME NEW n \in DOMAIN disk
                   PROVE  disk'[n].owner = disk[n].owner /\ (disk[n].whole => disk'[n].whole)
                          /\ disk'[n] \in [owner : Rip, whole : BOOLEAN]
        OBVIOUS
      <4>1. CASE n = rip[r].file
        BY <2>6, <2>7, <4>1
      <4>2. CASE n # rip[r].file
        BY <2>6, <2>7, <4>2
      <4> QED BY <4>1, <4>2
    <3>2. disk'[rip[r].file].whole
      BY <2>5, <2>6, <2>7
    <3> QED BY <3>1, <3>2
  <2>9. RipType'
    <3>1. \A n \in DOMAIN disk' :
             n \in Names /\ disk'[n] \in [owner : Rip, whole : BOOLEAN]
      BY <2>7, <2>8 DEF RipInv, RipType
    <3> QED BY <1>0, <1>1, <2>1, <3>1, TypeKept DEF Facts
  <2>10. OwnerInv' /\ NameInv'
    <3>1. \A q \in Rip : rip'[q].file = rip[q].file /\ (Has(q)' <=> Has(q))
                      /\ (q # r => rip'[q].out = rip[q].out)
      BY <2>1, <2>2, <2>4 DEF Moves, Has
    <3>2. OwnerInv /\ NameInv
      BY DEF RipInv
    <3>3. \A n \in DOMAIN disk : disk[n].owner \in Rip
      BY <2>6
    <3>4. ASSUME NEW q \in Rip, rip'[q].out = "ok" PROVE disk'[rip'[q].file].whole
      <4>1. CASE q = r
        BY <2>2, <2>8, <4>1
      <4>2. CASE q # r
        <5>1. rip[q].out = "ok" /\ Facts(q)
          BY <3>1, <3>4, <4>2, Known
        <5>2. Has(q)
          BY <5>1 DEF Has, Facts, PlaceInv
        <5> QED BY <2>8, <3>1, <3>2, <5>1, <5>2 DEF OwnerInv
      <4> QED BY <4>1, <4>2
    <3>5. \A n \in DOMAIN disk' : Owned(n)'
      <4> SUFFICES ASSUME NEW n \in DOMAIN disk PROVE Owned(n)'
        BY <2>7
      <4>1. PICK q \in Rip : q = disk[n].owner /\ disk'[n].owner = q
        BY <2>8, <3>3
      <4>2. n # Nowhere /\ rip[q].file = n /\ Has(q)
        BY <3>2, <4>1 DEF OwnerInv, Owned
      <4> QED BY <3>1, <4>1, <4>2 DEF Owned, Has
    <3>6. \A q \in Rip : Has(q)' => rip'[q].file \in DOMAIN disk' /\ disk'[rip'[q].file].owner = q
      BY <2>7, <2>8, <3>1, <3>2 DEF OwnerInv
    <3> QED BY <1>1, <2>7, <3>2, <3>4, <3>5, <3>6 DEF OwnerInv, NameInv
  <2> QED BY <1>1, <2>1, <2>3, <2>9, <2>10, OthersKept DEF RipInv
<1> QED BY <1>2, <1>3 DEF Tag

\* The end of rip_once and of the retry loop: what is removed is the rip's own file
\* and all it has.
LEMMA CleanUpKeeps ==
    ASSUME RipInv, NEW r \in Rip, CleanUp(r)
    PROVE  RipInv'
<1>0. Facts(r) /\ rip[r].at = "clean"
  BY Known DEF CleanUp, At
<1>1. OwnOnly(r) /\ UNCHANGED <<suffix, kind, technical>> /\ r \notin dirs' /\ r \notin raws'
  BY <1>0 DEF CleanUp, Facts, OwnOnly, Config, Policy
<1>2. PICK n : n = AfterAttempt(r)
  OBVIOUS
<1>3. /\ n \in Progress
      /\ \/ /\ rip[r].out = "ok" /\ n.at = "done" /\ n.out = "ok" /\ n.file = rip[r].file
            /\ n.codec = rip[r].codec /\ n.absent = rip[r].absent
         \/ /\ rip[r].out # "ok" /\ n.at = "done" /\ n.out \notin {"ok", "none"}
            /\ n.out = "rendition" => rip[r].out = "rendition"
            /\ n.absent = rip[r].absent
         \/ /\ rip[r].out # "ok" /\ n.at = "backoff" /\ n.out = "none" /\ n.file = Nowhere
            /\ n.round < Rounds /\ ~n.absent
  <2>0. rip[r] \in Progress /\ rip[r].out # "none" /\ rip[r].out \in Outs
    BY <1>0 DEF Facts, PlaceInv, Progress
  <2>1. CASE rip[r].out \in Terminal \cup {"ok"}
    <3>1. n = [rip[r] EXCEPT !.at = "done"]
      BY <1>2, <2>1 DEF AfterAttempt
    <3> QED BY <2>0, <2>1, <3>1 DEF Progress, Ats, Terminal
  <2>2. CASE rip[r].out \notin Terminal \cup {"ok"} /\ Stopped(r)
    <3>1. n = [rip[r] EXCEPT !.at = "done", !.out = "cancelled"]
      BY <1>2, <2>2 DEF AfterAttempt
    <3> QED BY <2>0, <2>2, <3>1 DEF Progress, Ats, Outs, Errors, Terminal
  <2>3. CASE rip[r].out \notin Terminal \cup {"ok"} /\ ~Stopped(r) /\ rip[r].attempt >= MaxRetries
    <3>1. n = [rip[r] EXCEPT !.at = "done"]
      BY <1>2, <2>3 DEF AfterAttempt
    <3> QED BY <2>0, <2>3, <3>1 DEF Progress, Ats, Terminal
  <2>4. CASE /\ rip[r].out \notin Terminal \cup {"ok"} /\ ~Stopped(r)
             /\ ~(rip[r].attempt >= MaxRetries)
    <3>1. n = [Fresh EXCEPT !.at = "backoff", !.attempt = rip[r].attempt + 1]
      BY <1>2, <2>4 DEF AfterAttempt
    <3>2. MaxRetries \in Nat /\ Rounds \in Nat \ {0}
      BY RipAssumption
    <3>3. rip[r].attempt + 1 \in 0 .. MaxRetries /\ 0 \in 0 .. Rounds /\ 0 < Rounds
      <4>1. rip[r].attempt \in 0 .. MaxRetries
        BY <2>0 DEF Progress
      <4> QED BY <2>4, <3>2, <4>1
    <3> QED BY <2>4, <3>1, <3>3 DEF Fresh, Progress, Ats, Outs
  <2> QED BY <2>1, <2>2, <2>3, <2>4
<1>4. Moves(r) /\ rip'[r] = n
  BY <1>0, <1>2, <1>3, PutMoves DEF CleanUp
<1>5. PlaceInv(r)' /\ SourceInv(r)'
  BY <1>0, <1>1, <1>3, <1>4 DEF Facts, PlaceInv, SourceInv
<1>6. OwnerInv /\ NameInv /\ \A m \in DOMAIN disk : disk[m].owner \in Rip
  BY DEF RipInv, RipType, TypeOK
<1>7. \A q \in Rip \ {r} : rip'[q] = rip[q] /\ (Has(q)' <=> Has(q))
  BY <1>4 DEF Moves, Has
<1>8. CASE rip[r].out = "ok"
  <2>1. disk' = disk
    BY <1>8 DEF CleanUp
  <2>2. Has(r) /\ Has(r)' /\ rip'[r].file = rip[r].file
    BY <1>0, <1>3, <1>4, <1>8 DEF Has, Facts, PlaceInv
  <2>3. RipType'
    <3>1. \A m \in DOMAIN disk' :
             m \in Names /\ disk'[m] \in [owner : Rip, whole : BOOLEAN]
      BY <2>1 DEF RipInv, RipType
    <3> QED BY <1>0, <1>1, <1>4, <3>1, TypeKept DEF Facts
  <2>4. \A q \in Rip : rip'[q].file = rip[q].file /\ (Has(q)' <=> Has(q))
                    /\ (rip'[q].out = "ok" => rip[q].out = "ok")
    BY <1>7, <1>8, <2>2
  <2>5. ASSUME NEW m \in DOMAIN disk PROVE Owned(m)'
    <3>1. PICK q \in Rip : q = disk[m].owner /\ disk'[m].owner = q
      BY <1>6, <2>1
    <3>2. m # Nowhere /\ rip[q].file = m /\ Has(q)
      BY <1>6, <3>1 DEF OwnerInv, Owned
    <3> QED BY <2>4, <3>1, <3>2 DEF Owned, Has
  <2>6. OwnerInv' /\ NameInv'
    BY <1>1, <1>6, <2>1, <2>4, <2>5 DEF OwnerInv, NameInv
  <2> QED BY <1>1, <1>4, <1>5, <2>3, <2>6, OthersKept DEF RipInv
<1>9. CASE rip[r].out # "ok"
  <2>1. disk' = Without(disk, rip[r].file)
    BY <1>9 DEF CleanUp
  <2>2. DOMAIN disk' = DOMAIN disk \ {rip[r].file} /\ \A m \in DOMAIN disk' : disk'[m] = disk[m]
    BY <2>1 DEF Without
  <2>3. ~Has(r)' /\ rip'[r].out # "ok"
    BY <1>3, <1>4, <1>9 DEF Has
  <2>4. \A m \in DOMAIN disk' : disk[m].owner \in Rip \ {r}
    BY <1>6, <2>2 DEF OwnerInv, Owned
  <2>5. RipType'
    <3>1. \A m \in DOMAIN disk' :
             m \in Names /\ disk'[m] \in [owner : Rip, whole : BOOLEAN]
      BY <2>2 DEF RipInv, RipType
    <3> QED BY <1>0, <1>1, <1>4, <3>1, TypeKept DEF Facts
  <2>6. ASSUME NEW q \in Rip, Has(q)'
        PROVE  /\ rip'[q].file \in DOMAIN disk' /\ disk'[rip'[q].file].owner = q
               /\ rip'[q].out = "ok" => disk'[rip'[q].file].whole
    <3>1. q # r /\ Has(q) /\ rip'[q] = rip[q]
      BY <1>7, <2>3, <2>6
    <3>2. rip[q].file \in DOMAIN disk /\ disk[rip[q].file].owner = q
      BY <1>6, <3>1 DEF OwnerInv
    <3>3. rip[q].file # rip[r].file
      <4>1. SUFFICES ASSUME rip[q].file = rip[r].file PROVE FALSE
        OBVIOUS
      <4>2. Has(r)
        BY <1>0, <3>1, <4>1 DEF Has
      <4> QED BY <1>6, <3>1, <3>2, <4>1, <4>2 DEF OwnerInv
    <3> QED BY <1>6, <2>2, <3>1, <3>2, <3>3 DEF OwnerInv
  <2>7. ASSUME NEW q \in Rip, rip'[q].out = "ok" PROVE Has(q)'
    <3>1. q # r /\ rip'[q] = rip[q] /\ Facts(q) /\ rip[q].out = "ok"
      BY <1>7, <2>3, <2>7, Known
    <3>2. Has(q)
      BY <3>1 DEF Has, Facts, PlaceInv
    <3> QED BY <1>7, <3>1, <3>2
  <2>8. ASSUME NEW m \in DOMAIN disk' PROVE Owned(m)'
    <3>1. PICK q \in Rip \ {r} : q = disk[m].owner /\ disk'[m].owner = q
      BY <2>2, <2>4
    <3>2. m # Nowhere /\ rip[q].file = m /\ Has(q)
      BY <1>6, <2>2, <3>1 DEF OwnerInv, Owned
    <3> QED BY <1>7, <3>1, <3>2 DEF Owned, Has
  <2>9. OwnerInv' /\ NameInv'
    BY <1>1, <1>6, <2>2, <2>6, <2>7, <2>8 DEF OwnerInv, NameInv
  <2> QED BY <1>1, <1>4, <1>5, <2>5, <2>9, OthersKept DEF RipInv
<1> QED BY <1>8, <1>9

-----------------------------------------------------------------------------
(* The theorems. *)

\* Every step keeps the invariant, one case for each action of a rip.
LEMMA StepKeeps ==
    ASSUME RipInv, NEW r \in Rip, Step(r)
    PROVE  RipInv'
BY StartKeeps, MetaKeeps, ReserveKeeps, GetEndpointKeeps, ManifestKeeps, StatusKeeps,
   ErrorStatusKeeps, TryPrimaryKeeps, NativeKeeps, CandidateKeeps, NoWrapperKeeps, DelayKeeps, DownloadKeeps,
   TagKeeps, CleanUpKeeps, BackoffKeeps, Zenon DEF Step

\* The invariant implies what the runs check.
LEMMA InvIsClean == RipInv => RipIsClean
<1> SUFFICES ASSUME RipInv PROVE RipIsClean
  OBVIOUS
<1>1. TypeOK
  BY DEF RipInv, RipType
<1>2. ASSUME NEW r \in Rip, rip[r].at = "done"
      PROVE  /\ r \notin dirs \cup raws
             /\ {n \in DOMAIN disk : disk[n].owner = r} =
                   (IF rip[r].out = "ok" THEN {rip[r].file} ELSE {})
             /\ rip[r].out = "ok" => disk[rip[r].file].whole
  <2>1. Facts(r) /\ OwnerInv
    BY Known DEF RipInv
  <2>2. r \notin dirs \cup raws
    BY <1>2, <2>1 DEF Facts, PlaceInv
  <2>3. \A n \in DOMAIN disk : disk[n].owner = r => n = rip[r].file /\ rip[r].out = "ok"
    BY <1>2, <2>1 DEF OwnerInv, Owned, Has
  <2>4. rip[r].out = "ok" => rip[r].file \in DOMAIN disk /\ disk[rip[r].file].owner = r
    BY <2>1 DEF OwnerInv, Has, Facts, PlaceInv
  <2>5. rip[r].out = "ok" => disk[rip[r].file].whole
    BY <2>1 DEF OwnerInv
  <2> QED BY <2>2, <2>3, <2>4, <2>5
<1>3. AbsentMeansAbsent /\ AtmosIsAtmos
  BY RipAssumption DEF RipInv, SourceInv, AbsentMeansAbsent, AtmosIsAtmos
<1> QED BY <1>1, <1>2, <1>3 DEF RipIsClean, CleanDisk

\* The invariant of ripper.rs and acquisition.rs: who owns which file at each step of
\* each rip, and what each knows of its source, whatever fails and is cancelled.
THEOREM RipInvariant == Spec => []RipInv
<1>1. Init => RipInv
  <2> SUFFICES ASSUME Init PROVE RipInv
    OBVIOUS
  <2>1. MaxRetries \in Nat /\ Rounds \in Nat \ {0}
    BY RipAssumption
  <2>2. Fresh \in Progress
    BY <2>1 DEF Fresh, Progress, Ats, Outs
  <2>3. rip \in [Rip -> Progress] /\ \A r \in Rip : rip[r] = Fresh
    BY <2>2 DEF Init
  <2>a. /\ Fresh.at = "start" /\ Fresh.out = "none" /\ Fresh.round = 0 /\ Fresh.attempt = 0
        /\ Fresh.file = Nowhere /\ Fresh.absent = FALSE
    BY DEF Fresh
  <2>b. /\ kind \in Kinds /\ override \in BOOLEAN /\ reading = {} /\ cached \in BOOLEAN /\ circuit = "closed" /\ suffix = 0
        /\ cancelled = {} /\ dirs = {} /\ raws = {} /\ technical = {}
    BY DEF Init
  <2>4. DOMAIN disk = {}
    BY DEF Init
  <2>5. RipType
    BY <2>1, <2>3, <2>a, <2>b, <2>4 DEF RipType, TypeOK
  <2>6. \A r \in Rip : PlaceInv(r) /\ SourceInv(r)
    <3> SUFFICES ASSUME NEW r \in Rip PROVE PlaceInv(r) /\ SourceInv(r)
      OBVIOUS
    <3>1. /\ rip[r].at = "start" /\ rip[r].out = "none" /\ rip[r].round = 0
          /\ rip[r].file = Nowhere /\ rip[r].absent = FALSE /\ 0 < Rounds
      BY <2>1, <2>3, <2>a
    <3> QED BY <2>b, <3>1 DEF PlaceInv, SourceInv
  <2>7. OwnerInv /\ NameInv
    BY <2>3, <2>4, <2>a DEF OwnerInv, NameInv, Has
  <2> QED BY <2>5, <2>6, <2>7 DEF RipInv
<1>2. RipInv /\ [Next]_vars => RipInv'
  <2> SUFFICES ASSUME RipInv, [Next]_vars PROVE RipInv'
    OBVIOUS
  <2>1. ASSUME UNCHANGED <<Config, reading, rip, Files, technical>>, cached' \in BOOLEAN,
               circuit' \in {"closed", "mirror", "cancel"}, cancelled' \subseteq Rip
        PROVE  RipInv'
    <3>1. RipType'
      BY <2>1 DEF RipInv, RipType, TypeOK, Files, Config
    <3>2. ASSUME NEW r \in Rip PROVE PlaceInv(r)' /\ SourceInv(r)'
      BY <2>1 DEF RipInv, PlaceInv, SourceInv, Files, Config
    <3>3. OwnerInv' /\ NameInv'
      BY <2>1 DEF RipInv, OwnerInv, NameInv, Owned, Has, Files
    <3> QED BY <3>1, <3>2, <3>3 DEF RipInv
  <2>2. /\ cached \in BOOLEAN /\ circuit \in {"closed", "mirror", "cancel"}
        /\ cancelled \subseteq Rip
    BY DEF RipInv, RipType, TypeOK
  <2>3. CASE CooldownEnds \/ CacheExpires \/ \E r \in Rip : Cancel(r)
    BY <2>1, <2>2, <2>3 DEF CooldownEnds, CacheExpires, Cancel, Config, Policy
  <2>4. CASE UNCHANGED vars
    BY <2>1, <2>2, <2>4 DEF vars, Files, Config
  <2> QED BY <2>3, <2>4, StepKeeps DEF Next
<1> QED BY <1>1, <1>2, PTL DEF Spec

\* ripper.rs, acquisition.rs: a rip leaves its one whole file or nothing, calls a
\* rendition absent only when no technical failure hid it, and never passes stereo
\* off as Atmos.
THEOREM RipIsCleanAlways == Spec => []RipIsClean
BY RipInvariant, InvIsClean, PTL
=============================================================================
