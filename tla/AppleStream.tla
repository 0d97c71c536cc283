---------------------------- MODULE AppleStream ----------------------------
(***************************************************************************)
(* One attempt of the native engine at one track                           *)
(* (crates/apple/src/wrapper: engine.rs, client.rs, playlist.rs,           *)
(* widevine.rs): ask the wrapper for the master playlist, choose a         *)
(* variant, read its media playlist, fetch the keys, download, decrypt.    *)
(* The wrapper, Apple's servers and the network answer as they like; what  *)
(* one fragment's decryption does to its bytes is the module Fragments.    *)
(***************************************************************************)
EXTENDS Integers, Sequences, FiniteSets, SequencesExt

CONSTANTS
    MaxVariants,   \* stream variants and audio renditions of a master playlist
    MaxLines,      \* key and segment lines of a media playlist
    KeyTries,      \* attempts at one key template (client.rs: 3)
    OddPlaylists   \* also playlists Apple is not known to send: encryption
                   \* turned off again, Widevine streams in several files

VARIABLES
    pc,            \* the await the attempt is suspended at
    cancelled,     \* the cancellation token
    pref,          \* CodecPreference: "atmos" or one of the others, "best"
    viaWeb,        \* webplayback_fallback supplied the playlist
    master,        \* the variants of the master playlist just read
    codec,         \* the selected stream's codec
    lines,         \* the media playlist as it arrived
    media,         \* MediaPlaylistInfo: its segments, keys and layout
    templates,     \* key_templates: the keys whose template was fetched
    tries,         \* attempts already made at the current key template
    key,           \* the content key of a Widevine stream
    out,           \* the output: <<segment, key it was decrypted with>>
    result         \* what rip_track_with_outcome returned

vars == <<pc, cancelled, pref, viaWeb, master, codec, lines, media, templates,
          tries, key, out, result>>

NoMedia == [segs |-> <<>>, method |-> "none", kid |-> "none", single |-> TRUE,
            bad |-> FALSE]

Init ==
    /\ pc = "start" /\ cancelled = FALSE
    /\ pref \in {"best", "atmos"}
    /\ viaWeb = FALSE /\ master = <<>> /\ codec = "none"
    /\ lines = <<>> /\ media = NoMedia
    /\ templates = {} /\ tries = 0 /\ key = "none"
    /\ out = <<>> /\ result = "none"

Return(r) == pc' = "end" /\ result' = r

Goto(place) == pc' = place /\ UNCHANGED result

Cancel ==
    /\ ~cancelled /\ cancelled' = TRUE
    /\ UNCHANGED <<pc, pref, viaWeb, master, codec, lines, media, templates,
                   tries, key, out, result>>

----------------------------------------------------------------------------
(* playlist.rs: the master playlist                                        *)

(* What a stream variant or an audio rendition may offer.  An odd one has  *)
(* a group name whose bitrate cannot be read.                              *)
Variants == {[codec |-> "alac", rate |-> 96], [codec |-> "alac", rate |-> 44],
             [codec |-> "aac", rate |-> 256], [codec |-> "he", rate |-> 64],
             [codec |-> "ec3", rate |-> 768], [codec |-> "odd", rate |-> 0]}

Masters == UNION {[1..n -> Variants] : n \in 0..MaxVariants}

(* group_rank: -1 where the preference does not admit the codec. *)
GroupRank(v, p) ==
    CASE v.codec = "ec3"  /\ p = "atmos" -> 20000 + v.rate
      [] v.codec = "alac" /\ p # "atmos" -> 10000000 + v.rate
      [] v.codec = "aac"  /\ p # "atmos" -> 5000 + v.rate
      [] v.codec = "he"   /\ p # "atmos" -> 4000 + v.rate
      [] OTHER -> -1

(* select_variant: the first of the best rank, 0 when none is admitted. *)
SelectVariant(m, p) ==
    LET better(best, i) ==
            IF GroupRank(m[i], p) >= 0
               /\ (best = 0 \/ GroupRank(m[i], p) > GroupRank(m[best], p))
            THEN i ELSE best
    IN  FoldLeft(better, 0, [i \in 1..Len(m) |-> i])

(* parse_master_playlist: a malformed variant, or none, fails all of it.   *)
ParseMaster(m, p) ==
    IF m = <<>> \/ \E i \in 1..Len(m) : m[i].codec = "odd"
    THEN "malformed"
    ELSE IF SelectVariant(m, p) # 0 THEN "selected"
    ELSE IF p = "atmos" THEN "unavailable" ELSE "malformed"

----------------------------------------------------------------------------
(* playlist.rs: the media playlist                                         *)

(* Key lines: the track's FairPlay key and the prefetch key every track    *)
(* shares, a key of another system, no encryption, a Widevine key;         *)
(* segments with and without a byte range; bad stands for a line that      *)
(* cannot be read and for a playlist without an init segment.              *)
FairPlayKeys == {"keyA", "keyP"}

FairPlayLines == FairPlayKeys \cup {"keyOther", "seg", "bare", "bad"}
                 \cup (IF OddPlaylists THEN {"keyNone"} ELSE {})

WidevineLines == {"keyCenc", "seg", "bare", "bad"}

(* A media playlist, its segments in one file or in one each.  Widevine is *)
(* what the web playback serves, in one file.                              *)
MediaInputs(web) ==
    LET lists(kinds) == UNION {[1..n -> kinds] : n \in 0..MaxLines}
        fairplay == [ls : lists(FairPlayLines), sameFile : BOOLEAN]
        widevine == [ls : lists(WidevineLines), sameFile : BOOLEAN]
    IN  fairplay \cup {w \in widevine : OddPlaylists \/ (web /\ w.sameFile)}

Segments == {"seg", "bare"}

(* Mutant: a key line of another system counts as FairPlay's. *)
ParseLineAnyFormat(st, line) ==
    CASE line \in FairPlayKeys \cup {"keyOther"} ->
            [st EXCEPT !.cur = line, !.method = "SAMPLE-AES"]
      [] line = "keyCenc" ->
            [st EXCEPT !.cur = line, !.kid = line, !.method = "ISO-23001-7"]
      [] line = "keyNone" -> [st EXCEPT !.method = line]
      [] line \in Segments ->
            [st EXCEPT !.segs = Append(@, [key |-> st.cur, ranged |-> line = "seg"])]
      [] OTHER -> [st EXCEPT !.bad = TRUE]

(* parse_media_playlist, line by line: the key stays current for all the   *)
(* segments that follow, the method is that of the last key line.          *)
ParseLine(st, line) ==
    CASE line \in FairPlayKeys ->
            [st EXCEPT !.cur = line, !.method = "SAMPLE-AES"]
      [] line = "keyCenc" ->
            [st EXCEPT !.cur = line, !.kid = line, !.method = "ISO-23001-7"]
      [] line \in {"keyOther", "keyNone"} -> [st EXCEPT !.method = line]
      [] line \in Segments ->
            [st EXCEPT !.segs = Append(@, [key |-> st.cur, ranged |-> line = "seg"])]
      [] OTHER -> [st EXCEPT !.bad = TRUE]

ParseMedia(ls, sameFile) ==
    LET st == FoldLeft(ParseLine, [cur |-> "none", segs |-> <<>>, kid |-> "none",
                                   method |-> "none", bad |-> FALSE], ls)
    IN  [segs |-> st.segs, method |-> st.method, kid |-> st.kid,
         single |-> sameFile \/ st.segs = <<>>, bad |-> st.bad]

----------------------------------------------------------------------------
(* engine.rs: rip_track_with_outcome up to the media playlist              *)

ClientErrors == {"timeout", "offline", "auth", "error"}   \* map_client_error

FetchErrors == {"timeout", "error"}                       \* map_reqwest_error

KeepKeys == UNCHANGED <<cancelled, pref, templates, tries, key, out>>

Start ==
    /\ pc = "start"
    /\ IF cancelled THEN Return("cancelled") ELSE Goto("m3u8")
    /\ KeepKeys /\ UNCHANGED <<viaWeb, master, codec, lines, media>>

(* fetch_m3u8_url: the wrapper's 404 says the track is absent. *)
FetchM3u8 ==
    /\ pc = "m3u8"
    /\ \/ Goto("master")
       \/ \E r \in {"absent"} \cup ClientErrors : Return(r)
    /\ KeepKeys /\ UNCHANGED <<viaWeb, master, codec, lines, media>>

(* A response that is media, or no master playlist, goes to the fallback;  *)
(* its status is not looked at.                                            *)
FetchMaster ==
    /\ pc = "master"
    /\ \/ /\ \/ \E r \in FetchErrors : Return(r)
             \/ Goto("web")
          /\ UNCHANGED <<master, codec>>
       \/ \E m \in Masters :
            /\ master' = m
            /\ \/ /\ ParseMaster(m, pref) = "selected"
                  /\ codec' = m[SelectVariant(m, pref)].codec
                  /\ Goto("media")
               \/ /\ ParseMaster(m, pref) = "unavailable"
                  /\ Return("absent") /\ UNCHANGED codec
               \/ /\ ParseMaster(m, pref) = "malformed"
                  /\ Return("parse") /\ UNCHANGED codec
    /\ KeepKeys /\ UNCHANGED <<viaWeb, lines, media>>

(* webplayback_fallback looks at the token first. *)
Fallback ==
    /\ pc = "web"
    /\ IF cancelled THEN Return("cancelled") /\ UNCHANGED viaWeb
                    ELSE Goto("weburl") /\ viaWeb' = TRUE
    /\ KeepKeys /\ UNCHANGED <<master, codec, lines, media>>

FetchWebplayback ==
    /\ pc = "weburl"
    /\ \/ Goto("webmaster")
       \/ \E r \in ClientErrors : Return(r)
    /\ KeepKeys /\ UNCHANGED <<viaWeb, master, codec, lines, media>>

(* A media playlist was read: the variant is settled, the keys come next.  *)
ReadMedia(input) ==
    /\ media' = ParseMedia(input.ls, input.sameFile)
    /\ lines' = input.ls
    /\ master' = <<>>

(* The fallback chooses as HighestQuality whatever was asked for, or takes *)
(* the response as the media playlist itself.                              *)
FetchWebMaster ==
    /\ pc = "webmaster"
    /\ \/ /\ \E r \in FetchErrors \cup {"auth"} : Return(r)
          /\ UNCHANGED <<master, codec, lines, media>>
       \/ \E m \in Masters :
            /\ master' = m
            /\ IF ParseMaster(m, "best") = "selected"
               THEN /\ codec' = m[SelectVariant(m, "best")].codec
                    /\ Goto("media")
               ELSE Return("parse") /\ UNCHANGED codec
            /\ UNCHANGED <<lines, media>>
       \/ \E input \in MediaInputs(viaWeb) :
            /\ ReadMedia(input)
            /\ IF media'.bad \/ media'.segs = <<>>
               THEN Return("parse") /\ UNCHANGED codec
               ELSE Goto("keys") /\ codec' = "aac"
    /\ KeepKeys /\ UNCHANGED viaWeb

FetchMedia ==
    /\ pc = "media"
    /\ \/ /\ \E r \in FetchErrors : Return(r)
          /\ UNCHANGED <<master, lines, media>>
       \/ \E input \in MediaInputs(viaWeb) :
            /\ ReadMedia(input)
            /\ IF media'.bad THEN Return("parse") ELSE Goto("keys")
    /\ KeepKeys /\ UNCHANGED <<viaWeb, codec>>

----------------------------------------------------------------------------
(* FairPlay                                                                *)

KeepMedia == UNCHANGED <<cancelled, pref, viaWeb, master, lines, media>>

FairPlay == media.method # "ISO-23001-7"

Missing == {i \in 1..Len(media.segs) :
                /\ media.segs[i].key # "none"
                /\ media.segs[i].key \notin templates}

FirstMissing == CHOOSE i \in Missing : \A j \in Missing : i <= j

(* fetch_template: transport errors, server errors and unreadable answers  *)
(* are tried again, anything else ends the attempt at once.                *)
FetchTemplate ==
    /\ pc = "keys" /\ FairPlay /\ Missing # {}
    /\ \/ /\ templates' = templates \cup {media.segs[FirstMissing].key}
          /\ tries' = 0 /\ Goto("keys")
       \/ /\ IF tries + 1 < KeyTries THEN tries' = tries + 1 /\ Goto("keys")
                                     ELSE Return("decrypt") /\ UNCHANGED tries
          /\ UNCHANGED templates
       \/ Return("decrypt") /\ UNCHANGED <<templates, tries>>
    /\ KeepMedia /\ UNCHANGED <<codec, key, out>>

HaveTemplates ==
    /\ pc = "keys" /\ FairPlay /\ Missing = {}
    /\ Goto(IF media.single THEN "file" ELSE "init")
    /\ KeepMedia /\ UNCHANGED <<codec, templates, tries, key, out>>

(* The template of a segment no key line precedes: any but the prefetch    *)
(* key's where there is one.                                               *)
Defaults == IF templates \ {"keyP"} # {} THEN templates \ {"keyP"} ELSE templates

TemplateFor(i, default) ==
    IF media.segs[i].key \in templates THEN media.segs[i].key ELSE default

(* decrypt_single_file_stream: every segment is a byte range of one file.  *)
(* The file may be cut short, or a fragment of it be unreadable.           *)
DecryptSingleFile ==
    /\ pc = "file"
    /\ \/ \E r \in FetchErrors \cup {"decrypt"} : Return(r) /\ UNCHANGED out
       \/ /\ Defaults # {}
          /\ \A i \in 1..Len(media.segs) : media.segs[i].ranged
          /\ \E d \in Defaults :
                out' = [i \in 1..Len(media.segs) |-> <<i, TemplateFor(i, d)>>]
          /\ Return("source")
    /\ KeepMedia /\ UNCHANGED <<codec, templates, tries, key>>

(* decrypt_multi_segment_stream: the init segment, then one by one. *)
FetchInit ==
    /\ pc = "init"
    /\ \/ \E r \in FetchErrors \cup {"decrypt"} : Return(r)
       \/ Defaults # {} /\ Goto("segments")
    /\ KeepMedia /\ UNCHANGED <<codec, templates, tries, key, out>>

FetchSegment ==
    /\ pc = "segments"
    /\ \/ \E r \in FetchErrors \cup {"decrypt"} : Return(r) /\ UNCHANGED out
       \/ \E d \in Defaults :
            LET i == Len(out) + 1
            IN  /\ out' = Append(out, <<i, TemplateFor(i, d)>>)
                /\ IF i = Len(media.segs) THEN Return("source")
                                          ELSE Goto("segments")
    /\ KeepMedia /\ UNCHANGED <<codec, templates, tries, key>>

----------------------------------------------------------------------------
(* Widevine: rip_cenc_stream                                               *)

StartCenc ==
    /\ pc = "keys" /\ ~FairPlay
    /\ \/ cancelled /\ Return("cancelled")
       \/ ~cancelled /\ (Return("decrypt") \/ Goto("license"))
    /\ KeepMedia /\ UNCHANGED <<codec, templates, tries, key, out>>

(* The keys a license may hold; content_keys keeps those of type content.  *)
Licenses == UNION {[1..n -> [id : {"keyCenc", "keyElse"}, content : BOOLEAN]] :
                       n \in 0..2}

ContentKeys(license) == SelectSeq(license, LAMBDA k : k.content)

(* The key of the playlist's key id, else the first of the license. *)
ContentKey(keys, kid) ==
    IF \E i \in 1..Len(keys) : keys[i].id = kid THEN kid ELSE keys[1].id

FetchLicense ==
    /\ pc = "license"
    /\ \/ \E r \in {"timeout", "license"} : Return(r) /\ UNCHANGED key
       \/ \E license \in Licenses :
            LET keys == ContentKeys(license)
            IN  \/ keys = <<>> /\ Return("license") /\ UNCHANGED key
                \/ /\ keys # <<>>
                   /\ key' = ContentKey(keys, media.kid)
                   /\ IF cancelled THEN Return("cancelled") ELSE Goto("cencfile")
    /\ KeepMedia /\ UNCHANGED <<codec, templates, tries, out>>

(* One file holds the stream; fewer bytes than it announces is an error.   *)
DownloadCenc ==
    /\ pc = "cencfile"
    /\ \/ \E r \in FetchErrors \cup {"decrypt"} : Return(r)
       \/ Goto("cencsegments")
    /\ KeepMedia /\ UNCHANGED <<codec, templates, tries, key, out>>

(* Segment by segment, with a look at the token before each.  In a stream  *)
(* of several files every range is read from the first.                    *)
DecryptCencSegment ==
    /\ pc = "cencsegments" /\ Len(out) < Len(media.segs)
    /\ LET i == Len(out) + 1
       IN  \/ cancelled /\ Return("cancelled") /\ UNCHANGED out
           \/ ~cancelled /\ Return("decrypt") /\ UNCHANGED out
           \/ /\ ~cancelled /\ media.segs[i].ranged
              /\ out' = Append(out, <<IF media.single THEN i ELSE 1, key>>)
              /\ Goto("cencsegments")
    /\ KeepMedia /\ UNCHANGED <<codec, templates, tries, key>>

FinishCenc ==
    /\ pc = "cencsegments" /\ Len(out) = Len(media.segs)
    /\ Return("source") /\ codec' = "aac"
    /\ KeepMedia /\ UNCHANGED <<templates, tries, key, out>>

Next ==
    \/ Cancel
    \/ Start \/ FetchM3u8 \/ FetchMaster \/ Fallback \/ FetchWebplayback
    \/ FetchWebMaster \/ FetchMedia
    \/ FetchTemplate \/ HaveTemplates \/ DecryptSingleFile \/ FetchInit
    \/ FetchSegment
    \/ StartCenc \/ FetchLicense \/ DownloadCenc \/ DecryptCencSegment
    \/ FinishCenc

Spec == Init /\ [][Next]_vars

----------------------------------------------------------------------------
(* Properties                                                              *)

TypeOK ==
    /\ cancelled \in BOOLEAN /\ viaWeb \in BOOLEAN
    /\ codec \in {"none", "alac", "aac", "he", "ec3"}
    /\ IsFiniteSet(templates)
    /\ tries \in 0..(KeyTries - 1)
    /\ Len(out) <= Len(media.segs)
    /\ pc = "end" <=> result # "none"

(* The lines of the segments, and the key the playlist gives the segment   *)
(* of line p: that of the last key line before it that FairPlay can use.   *)
SegmentLines == SelectSeq([i \in 1..Len(lines) |-> i],
                          LAMBDA i : lines[i] \in Segments)

OwnKey(p) ==
    LET before == {q \in 1..(p - 1) :
                       lines[q] \in FairPlayKeys \cup {"keyNone"}}
    IN  IF before = {} THEN "none"
        ELSE lines[CHOOSE q \in before : \A r \in before : r <= q]

(* A delivered stream holds every segment of its media playlist, in order, *)
(* and every segment that a FairPlay key line precedes is decrypted with   *)
(* that key, whatever became of the key fetches, of the fallback template  *)
(* and of the other keys in the playlist.                                  *)
EverySegmentItsKey ==
    result = "source" =>
        /\ Len(out) = Len(SegmentLines)
        /\ \A i \in 1..Len(out) :
            /\ out[i][1] = i
            /\ FairPlay /\ OwnKey(SegmentLines[i]) # "none"
                   => out[i][2] = OwnKey(SegmentLines[i])

(* What each codec is worth to one who asked for anything but Atmos. *)
Worth == [alac |-> 3, aac |-> 2, he |-> 1, ec3 |-> 0]

(* The stream that is fetched is the best the master playlist offers to    *)
(* the request: Atmos and only Atmos for a request for Atmos, the highest  *)
(* class otherwise; and Atmos is called absent only of a playlist without  *)
(* it.  What the fallback selects is judged by the rip that receives it.   *)
BestOffered ==
    LET offered == {master[i].codec : i \in 1..Len(master)}
    IN  /\ (pc = "media" /\ ~viaWeb) =>
               IF pref = "atmos" THEN codec = "ec3"
               ELSE /\ codec # "ec3"
                    /\ \A c \in offered : Worth[c] <= Worth[codec]
        /\ (result = "absent" /\ master # <<>>) =>
               pref = "atmos" /\ "ec3" \notin offered

\* The stream that is delivered is the one that was asked for, decrypted with the
\* keys its playlist names (engine.rs, client.rs, playlist.rs).
StreamAsAsked ==
    TypeOK /\ EverySegmentItsKey /\ BestOffered
============================================================================
