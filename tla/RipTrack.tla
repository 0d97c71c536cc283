------------------------------ MODULE RipTrack ------------------------------
(***************************************************************************)
(* Ripping one track to a file: the retry loop and the temporary files of  *)
(* AlacTrackRipper (crates/engine/src/ripper.rs), the choice of a source   *)
(* over mirror and wrapper (crates/apple/src/acquisition.rs, the transport *)
(* in crates/engine/src/streaming), and the mirror's cached endpoint and   *)
(* circuit, which all rips share (crates/apple/src/mirror_policy.rs).      *)
(*                                                                         *)
(* An HTTP request is one step with any outcome, except that the body of   *)
(* an error answer, which has no timeout, is read in a step of its own.    *)
(* Time appears as the end of a cooldown or of a cache entry; delays       *)
(* before a retry as a step that a cancellation may overtake.  Metadata,   *)
(* tags, lyrics, artwork and the bytes themselves are left out; what the   *)
(* native wrapper does inside one request is modelled in AppleStream.      *)
(***************************************************************************)
EXTENDS Integers

CONSTANTS
    Rip,         \* rips that may run at one time
    BaseName,    \* build_track_filename_with_codec: the name each rip asks for
    Atmos,       \* the rips that ask for Dolby Atmos, a subset of Rip
    Kinds,       \* wrappers: "native", "endpoints", "none" (not configured)
    MaxRetries,  \* RipperConfig.max_retries, 3
    Rounds       \* RetryPolicy.total_attempts of an acquisition, 3, at least 1

\* A file name ends in its extension: "none" is not one.
ASSUME RipAssumption ==
    /\ Atmos \subseteq Rip /\ \A r \in Rip : BaseName[r] # "none"
    /\ MaxRetries \in Nat /\ Rounds \in Nat \ {0}

VARIABLES
    kind,        \* WrapperKind of this deployment
    override,    \* env_override: the deployment names its mirror itself
    cached,      \* PolicyState.cached: an endpoint that has not expired
    circuit,     \* PolicyState.last_failure within its cooldown, with its cause
    cancelled,   \* rips whose token is cancelled
    rip,         \* each rip's progress
    reading,     \* rips in collect_body: the body of an error answer
    dirs, raws,  \* track directories and raw downloads on disk, by rip
    disk,        \* files in the target directory: name -> [owner, whole]
    suffix,      \* unique_temp_suffix
    technical    \* history: rips whose last round met a technical failure of the
                 \* wrapper

vars == <<kind, override, cached, circuit, cancelled, rip, reading, dirs, raws, disk, suffix,
          technical>>
Config == <<kind, override>>
Policy == <<cached, circuit>>
Files == <<dirs, raws, disk, suffix>>

Terminal == {"cancelled", "track", "rendition", "io", "offline"}
Errors == Terminal \cup {"other"}
Nowhere == <<"none", 0>>
Fresh == [at |-> "start", attempt |-> 0, round |-> 0, mirror |-> FALSE, cand |-> 1,
          only |-> TRUE, absent |-> FALSE, src |-> "none", codec |-> "none", file |-> Nowhere,
          out |-> "none"]

TypeOK ==
    /\ kind \in Kinds /\ override \in BOOLEAN /\ cached \in BOOLEAN
    /\ circuit \in {"closed", "mirror", "cancel"}
    /\ suffix \in Nat
    /\ cancelled \subseteq Rip /\ reading \subseteq Rip /\ dirs \subseteq Rip /\ raws \subseteq Rip
    /\ \A r \in Rip :
          /\ rip[r].at \in {"start", "meta", "endpoint", "manifest", "status", "primary", "wrapper",
                            "delay", "reserve", "download", "tag", "clean", "backoff", "done"}
          /\ rip[r].attempt \in 0 .. MaxRetries /\ rip[r].round \in 0 .. Rounds
          /\ rip[r].out \in Errors \cup {"none", "ok"}
    /\ \A n \in DOMAIN disk : disk[n].owner \in Rip

Init ==
    /\ kind \in Kinds /\ override \in BOOLEAN /\ reading = {}
    /\ cached = FALSE /\ circuit = "closed" /\ cancelled = {}
    /\ rip = [r \in Rip |-> Fresh]
    /\ dirs = {} /\ raws = {} /\ disk = <<>> /\ suffix = 0 /\ technical = {}

With(f, x, y) == [z \in DOMAIN f \cup {x} |-> IF z = x THEN y ELSE f[z]]
Without(f, x) == [z \in DOMAIN f \ {x} |-> f[z]]
At(r, a) == rip[r].at = a
Go(r, a) == rip' = [rip EXCEPT ![r].at = a]
Fail(r, e) == rip' = [rip EXCEPT ![r].at = "clean", ![r].out = e]
Stopped(r) == r \in cancelled

Cancel(r) ==
    /\ rip[r].at # "done" /\ r \notin cancelled
    /\ cancelled' = cancelled \cup {r}
    /\ UNCHANGED <<Config, reading, Policy, rip, Files, technical>>

\* last_failure is older than failure_cooldown; expires_at has passed.
CooldownEnds == circuit # "closed" /\ circuit' = "closed"
                /\ UNCHANGED <<Config, reading, cached, cancelled, rip, Files, technical>>
CacheExpires == cached /\ cached' = FALSE
                /\ UNCHANGED <<Config, reading, circuit, cancelled, rip, Files, technical>>

-----------------------------------------------------------------------------
(* rip: attempts and rip_once. *)

\* The token is looked at before each attempt; the directory may not be made.
Start(r, ok) ==
    /\ At(r, "start")
    /\ \/ /\ Stopped(r)
          /\ rip' = [rip EXCEPT ![r].at = "done", ![r].out = "cancelled"] /\ UNCHANGED dirs
       \/ ~Stopped(r) /\ ok /\ Go(r, "meta") /\ dirs' = dirs \cup {r}
       \/ /\ ~Stopped(r) /\ ~ok
          /\ rip' = [rip EXCEPT ![r].at = "done", ![r].out = "io"] /\ UNCHANGED dirs
    /\ UNCHANGED <<Config, reading, Policy, cancelled, raws, disk, suffix, technical>>

Meta(r, ok) ==
    /\ At(r, "meta")
    /\ IF ~ok THEN Fail(r, "other")
       ELSE IF Stopped(r) THEN Fail(r, "cancelled") ELSE Go(r, "endpoint")
    /\ UNCHANGED <<Config, reading, Policy, cancelled, Files, technical>>

\* The end of rip_once: the raw file and the directory go, and the reserved
\* file when the rip failed.  Then the retry loop decides.
AfterAttempt(r) ==
    IF rip[r].out \in Terminal \cup {"ok"} THEN [rip[r] EXCEPT !.at = "done"]
    ELSE IF Stopped(r) THEN [rip[r] EXCEPT !.at = "done", !.out = "cancelled"]
    ELSE IF rip[r].attempt >= MaxRetries THEN [rip[r] EXCEPT !.at = "done"]
    ELSE [Fresh EXCEPT !.at = "backoff", !.attempt = rip[r].attempt + 1]

CleanUp(r) ==
    /\ At(r, "clean")
    /\ raws' = raws \ {r} /\ dirs' = dirs \ {r}
    /\ disk' = IF rip[r].out = "ok" THEN disk ELSE Without(disk, rip[r].file)
    /\ rip' = [rip EXCEPT ![r] = AfterAttempt(r)]
    /\ UNCHANGED <<Config, reading, Policy, cancelled, suffix, technical>>

Backoff(r) ==
    /\ At(r, "backoff")
    /\ \/ Go(r, "start")
       \/ Stopped(r) /\ rip' = [rip EXCEPT ![r].at = "done", ![r].out = "cancelled"]
    /\ UNCHANGED <<Config, reading, Policy, cancelled, Files, technical>>

-----------------------------------------------------------------------------
(* get_endpoint.  ReqwestMirrorHttp answers Cancelled once the token is      *)
(* cancelled, and every error but a manifest that is no JSON is recorded.    *)

\* An override is used whatever the circuit and the cache say.
GetEndpoint(r) ==
    /\ At(r, "endpoint")
    /\ \/ /\ override \/ (circuit = "closed" /\ cached)
          /\ rip' = [rip EXCEPT ![r].at = "primary", ![r].mirror = TRUE]
       \/ ~override /\ circuit # "closed" /\ Go(r, "primary")
       \/ ~override /\ circuit = "closed" /\ ~cached /\ Go(r, "manifest")
    /\ UNCHANGED <<Config, reading, Policy, cancelled, Files, technical>>

Record(cause) == circuit' = cause /\ UNCHANGED cached

Manifest(r, res) ==
    /\ At(r, "manifest")
    /\ res = "cancelled" => Stopped(r)
    /\ IF res = "ok" THEN Go(r, "status") ELSE Go(r, "primary")
    /\ \/ res = "cancelled" /\ Record("cancel")
       \/ res = "failed" /\ Record("mirror")
       \/ res \in {"ok", "malformed"} /\ UNCHANGED Policy
    /\ UNCHANGED <<Config, reading, cancelled, Files, technical>>

Status(r, res) ==
    /\ At(r, "status")
    /\ res = "cancelled" => Stopped(r)
    /\ rip' = [rip EXCEPT ![r].at = "primary", ![r].mirror = (res = "ok")]
    /\ \/ res = "ok" /\ cached' = TRUE /\ circuit' = "closed"
       \/ res = "cancelled" /\ Record("cancel")
       \/ res = "failed" /\ Record("mirror")
    /\ UNCHANGED <<Config, reading, cancelled, Files, technical>>

-----------------------------------------------------------------------------
(* connect_stream: rounds over the mirror and the wrapper. *)

\* After connect_once: a cancelled token wins over whatever it answered.
Answer(r, next) == IF Stopped(r) THEN Fail(r, "cancelled") ELSE rip' = [rip EXCEPT ![r] = next]

Accepted(r, src, codec) ==
    IF r \in Atmos /\ codec # "ec-3" THEN [rip[r] EXCEPT !.at = "clean", !.out = "rendition"]
    ELSE [rip[r] EXCEPT !.at = "reserve", !.src = src, !.codec = codec]

\* Mutant: the rounds are not counted.
NoSourceForever(r) == [rip[r] EXCEPT !.at = "delay", !.cand = 1, !.only = TRUE, !.absent = FALSE]

\* Nothing this round: another one after a delay, or the end.
NoSource(r) == [rip[r] EXCEPT !.at = IF rip[r].round + 1 < Rounds THEN "delay" ELSE "clean",
                              !.out = IF rip[r].round + 1 < Rounds THEN "none" ELSE "other",
                              !.round = @ + 1, !.cand = 1, !.only = TRUE, !.absent = FALSE]

\* fetch_endpoint: a status outside 200 .. 299; its body is read before the error
\* is returned, and neither the handshake's timeout nor the token ends that.
ErrorStatus(r) ==
    /\ r \notin reading
    /\ \/ At(r, "primary") /\ rip[r].mirror /\ r \notin Atmos
       \/ At(r, "wrapper") /\ kind = "endpoints"
    /\ reading' = reading \cup {r}
    /\ UNCHANGED <<Config, Policy, cancelled, rip, Files, technical>>

\* A mirror failure counts against the mirror unless the rip was cancelled.
TryPrimary(r, res, codec) ==
    /\ At(r, "primary")
    /\ technical' = technical \ {r} /\ reading' = reading \ {r}
    /\ IF ~rip[r].mirror \/ r \in Atmos
       THEN res = "skip" /\ Go(r, "wrapper") /\ UNCHANGED Policy
       ELSE /\ res \in {"ok", "failed", "cancelled"}
            /\ res = "cancelled" => Stopped(r)
            /\ r \in reading => res = "failed"
            /\ IF res = "ok" THEN circuit' = "closed" /\ UNCHANGED cached
               ELSE IF res = "failed" /\ ~Stopped(r) THEN Record("mirror")
               ELSE UNCHANGED Policy
            /\ IF res = "ok" THEN Answer(r, Accepted(r, "mirror", codec)) ELSE Go(r, "wrapper")
    /\ UNCHANGED <<Config, cancelled, Files>>

NoWrapper(r) ==
    /\ At(r, "wrapper") /\ kind = "none"
    /\ Answer(r, NoSource(r))
    /\ UNCHANGED <<Config, reading, Policy, cancelled, Files, technical>>

\* An answer that ends the rounds.
Refused(r, e) == Answer(r, [rip[r] EXCEPT !.at = "clean", !.out = e])

\* rip_track_with_outcome.  "absent": no Atmos variant, or no such track.
Native(r, res, codec) ==
    /\ At(r, "wrapper") /\ kind = "native"
    /\ res = "cancelled" => Stopped(r)
    /\ technical' = IF res \in {"ok", "absent"} THEN technical ELSE technical \cup {r}
    /\ \/ res = "ok" /\ Answer(r, Accepted(r, "wrapper", codec))
       \/ res = "absent" /\ Refused(r, IF r \in Atmos THEN "rendition" ELSE "track")
       \/ res = "offline" /\ Refused(r, "offline")
       \/ res = "auth" /\ Refused(r, "other")
       \/ res \in {"failed", "cancelled"} /\ Answer(r, NoSource(r))
    /\ UNCHANGED <<Config, reading, Policy, cancelled, Files>>

\* Absence is said when every candidate answered and every answer was refused.
AfterCandidate(r, failed, refused) ==
    LET n == [rip[r] EXCEPT !.cand = 2, !.only = @ /\ ~failed, !.absent = @ \/ refused] IN
    IF rip[r].cand = 1 THEN n
    ELSE IF n.only /\ n.absent THEN [n EXCEPT !.at = "clean", !.out = "rendition"]
    ELSE NoSource(r)

\* The wrapper's two endpoints, in order.
Candidate(r, res, codec) ==
    /\ At(r, "wrapper") /\ kind = "endpoints"
    /\ res \in {"ok", "failed"}
    /\ r \in reading => res = "failed"
    /\ reading' = reading \ {r}
    /\ technical' = IF res = "failed" THEN technical \cup {r} ELSE technical
    /\ IF Stopped(r) THEN Fail(r, "cancelled")
       ELSE rip' = [rip EXCEPT ![r] =
                      IF res = "ok" /\ (r \in Atmos => codec = "ec-3")
                      THEN Accepted(r, "wrapper", codec)
                      ELSE AfterCandidate(r, res = "failed", res = "ok")]
    /\ UNCHANGED <<Config, Policy, cancelled, Files>>

\* The delay before a round; the endpoint found at the start is used again.
Delay(r) ==
    /\ At(r, "delay")
    /\ IF Stopped(r) THEN Fail(r, "cancelled") ELSE Go(r, "primary")
    /\ UNCHANGED <<Config, reading, Policy, cancelled, Files, technical>>

-----------------------------------------------------------------------------
(* The file. *)

\* Mutant: the name is taken whether it is free or not.
ReserveAnyway(r, ok) ==
    /\ At(r, "reserve")
    /\ disk' = With(disk, <<BaseName[r], 0>>, [owner |-> r, whole |-> FALSE])
    /\ rip' = [rip EXCEPT ![r].at = "download", ![r].file = <<BaseName[r], 0>>]
    /\ raws' = raws \cup {r}
    /\ UNCHANGED <<Config, reading, Policy, cancelled, dirs, suffix, technical>>

\* create_new: a name that exists gets a collision id.
Reserve(r, ok) ==
    /\ At(r, "reserve")
    /\ IF ok THEN LET taken == <<BaseName[r], 0>> \in DOMAIN disk
                      name == <<BaseName[r], IF taken THEN suffix + 1 ELSE 0>> IN
                  /\ disk' = With(disk, name, [owner |-> r, whole |-> FALSE])
                  /\ suffix' = IF taken THEN suffix + 1 ELSE suffix
                  /\ rip' = [rip EXCEPT ![r].at = "download", ![r].file = name]
                  /\ raws' = raws \cup {r}
             ELSE Fail(r, "io") /\ UNCHANGED <<disk, suffix, raws>>
    /\ UNCHANGED <<Config, reading, Policy, cancelled, dirs, technical>>

\* observe_stream_failure counts against the mirror only.
Observe(r) == IF rip[r].src = "mirror" THEN Record("mirror") ELSE UNCHANGED Policy

\* The body ends whole, ends short, breaks, stalls for CHUNK_INACTIVITY_TIMEOUT,
\* or the disk is full.  A cancelled token is looked at before the source is
\* blamed.
Download(r, res) ==
    /\ At(r, "download")
    /\ \/ Stopped(r) /\ Fail(r, "cancelled") /\ UNCHANGED Policy
       \/ ~Stopped(r) /\ res = "whole" /\ Go(r, "tag") /\ UNCHANGED Policy
       \/ ~Stopped(r) /\ res = "io" /\ Fail(r, "io") /\ UNCHANGED Policy
       \/ ~Stopped(r) /\ res = "broken" /\ Fail(r, "other") /\ Observe(r)
    /\ UNCHANGED <<Config, reading, cancelled, Files, technical>>

\* finalize_m4a has a token of its own: once it runs the rip is not cancelled.
Tag(r, res) ==
    /\ At(r, "tag")
    /\ \/ Stopped(r) /\ Fail(r, "cancelled") /\ UNCHANGED <<Policy, disk>>
       \/ /\ res = "ok"
          /\ rip' = [rip EXCEPT ![r].at = "clean", ![r].out = "ok"]
          /\ disk' = [disk EXCEPT ![rip[r].file].whole = TRUE]
          /\ UNCHANGED Policy
       \/ res = "io" /\ Fail(r, "io") /\ UNCHANGED <<Policy, disk>>
       \/ /\ res = "decode" /\ ~Stopped(r)
          /\ Fail(r, "other") /\ Observe(r) /\ UNCHANGED disk
    /\ UNCHANGED <<Config, reading, cancelled, dirs, raws, suffix, technical>>

Step(r) ==
    \/ \E ok \in BOOLEAN : Start(r, ok) \/ Meta(r, ok) \/ Reserve(r, ok)
    \/ GetEndpoint(r)
    \/ \E res \in {"ok", "failed", "cancelled", "malformed"} : Manifest(r, res)
    \/ \E res \in {"ok", "failed", "cancelled"} : Status(r, res)
    \/ \E codec \in {"alac", "ec-3"} :
          \/ \E res \in {"ok", "failed", "cancelled", "skip"} : TryPrimary(r, res, codec)
          \/ \E res \in {"ok", "absent", "offline", "auth", "failed", "cancelled"} :
                Native(r, res, codec)
          \/ \E res \in {"ok", "failed"} : Candidate(r, res, codec)
    \/ ErrorStatus(r) \/ NoWrapper(r) \/ Delay(r)
    \/ \E res \in {"whole", "broken", "io"} : Download(r, res)
    \/ \E res \in {"ok", "io", "decode"} : Tag(r, res)
    \/ CleanUp(r) \/ Backoff(r)

Next == CooldownEnds \/ CacheExpires \/ \E r \in Rip : Cancel(r) \/ Step(r)

Spec == Init /\ [][Next]_vars

-----------------------------------------------------------------------------

\* A finished rip leaves its one whole file and nothing else, a failed or
\* cancelled one nothing at all, whatever step it failed at and however many
\* rips ask for the same file name (rip_once: create_new, the removals at its end).
CleanDisk ==
    \A r \in Rip : rip[r].at = "done" =>
       /\ r \notin dirs \cup raws
       /\ {n \in DOMAIN disk : disk[n].owner = r} =
             (IF rip[r].out = "ok" THEN {rip[r].file} ELSE {})
       /\ rip[r].out = "ok" => disk[rip[r].file].whole

\* "Rendition unavailable" is final, so it is said only when the wrapper
\* answered every request of the round: a technical failure is retried instead
\* (connect_once: only_unavailable, rendition_absence).
AbsentMeansAbsent == \A r \in Rip : rip[r].out = "rendition" => r \in Atmos /\ r \notin technical

\* An Atmos rip never yields a stereo file (accept_stream).
AtmosIsAtmos == \A r \in Atmos : rip[r].out = "ok" => rip[r].codec = "ec-3"

\* "cancellation is not a mirror failure" (crates/apple/tests/acquisition.rs):
\* the circuit is never open because a rip was cancelled.
CancelIsNoMirrorFailure == circuit # "cancel"

\* What a rip leaves behind and what it says of a failure (ripper.rs,
\* mirror_policy.rs).
RipIsClean ==
    TypeOK /\ CleanDisk /\ AbsentMeansAbsent /\ AtmosIsAtmos
=============================================================================
