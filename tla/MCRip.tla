------------------------------- MODULE MCRip -------------------------------
(***************************************************************************)
(* One run over what gets a track from Apple: RipTrack, AppleStream and    *)
(* Fragments, with what must eventually happen to a rip and, as the run    *)
(* that assumes fairness, to an upload of TelegramSink.  Every behaviour   *)
(* is one of a single component: `part` says which.  RipTrack, whose       *)
(* property theorems state too, is extended and stays in an initial state  *)
(* while another one is explored; the variables of the others are 0 then.  *)
(***************************************************************************)
EXTENDS RipTrack, Sequences

CONSTANTS
    Parts,                  \* the components to explore
    ripA, ripS,             \* an Atmos rip and a stereo rip
    MaxTogether,            \* bound on the retries and rounds of two rips at once
    o1, o2, w1, pr, none    \* TelegramSink

VARIABLES
    part,
    pc, stopped, pref, viaWeb, master, codec, lines, media, templates, tries, key, out,
    result,
    task, stage, source, frag, clear,
    op, slotQueue, mainQueue, slow, flooded, dump, lost

\* Two rips that want the same file name.
SameName == [r \in Rip |-> "a.m4a"]

\* What two rips that run together tried again, at most MaxTogether.
TriedAgain == rip[ripA].attempt + rip[ripA].round + rip[ripS].attempt + rip[ripS].round

\* The one rip of a part that explores a single one.
Alone == IF part = "stereo" THEN ripS ELSE ripA

\* A choice of variants with a short playlist; a long playlist.
Variants == INSTANCE AppleStream WITH
    MaxVariants <- 2, MaxLines <- 2, KeyTries <- 3, OddPlaylists <- FALSE,
    cancelled <- stopped

Lines == INSTANCE AppleStream WITH
    MaxVariants <- 1, MaxLines <- 4, KeyTries <- 1, OddPlaylists <- FALSE,
    cancelled <- stopped

Fragment == INSTANCE Fragments WITH Sizes <- {16}, Gaps <- {0, 8}, OddRuns <- FALSE

Sink == INSTANCE TelegramSink WITH
    Op <- {o1, o2}, Worker <- {w1}, Primary <- pr, NoSession <- none,
    MaxAttempts <- 2, Stall <- 1, MaxAcks <- 0

streamVars == <<pc, stopped, pref, viaWeb, master, codec, lines, media, templates,
                tries, key, out, result>>
fragVars == <<task, stage, source, frag, clear>>
sinkVars == <<op, slotQueue, mainQueue, slow, flooded, dump, lost>>
partsVars == <<part, vars, streamVars, fragVars, sinkVars>>

\* A component that is not explored.
NoRip == Init /\ kind = "none" /\ ~override

NoStream ==
    /\ pc = 0 /\ stopped = 0 /\ pref = 0 /\ viaWeb = 0 /\ master = 0
    /\ codec = 0 /\ lines = 0 /\ media = 0 /\ templates = 0 /\ tries = 0
    /\ key = 0 /\ out = 0 /\ result = 0

NoFragment ==
    /\ task = 0 /\ stage = 0 /\ source = 0 /\ frag = 0 /\ clear = 0

NoSink ==
    /\ op = 0 /\ slotQueue = 0 /\ mainQueue = 0 /\ slow = 0 /\ flooded = 0
    /\ dump = 0 /\ lost = 0

PartsInit ==
    /\ part \in Parts
    /\ IF part \in {"pair", "atmos", "stereo"} THEN Init ELSE NoRip
    /\ part = "pair" => kind # "endpoints" /\ ~override
    /\ CASE part = "variants" -> Variants!Init [] part = "lines" -> Lines!Init [] OTHER -> NoStream
    /\ IF part = "fragment" THEN Fragment!Init ELSE NoFragment
    /\ IF part = "sink" THEN Sink!SinkInit ELSE NoSink

PartsNext ==
    /\ part' = part
    /\ \/ /\ part = "pair" /\ Next /\ TriedAgain' <= MaxTogether
          /\ UNCHANGED <<streamVars, fragVars, sinkVars>>
       \/ /\ part \in {"atmos", "stereo"}
          /\ CooldownEnds \/ CacheExpires \/ Cancel(Alone) \/ Step(Alone)
          /\ UNCHANGED <<streamVars, fragVars, sinkVars>>
       \/ /\ ((part = "variants" /\ Variants!Next) \/ (part = "lines" /\ Lines!Next))
          /\ UNCHANGED <<vars, fragVars, sinkVars>>
       \/ /\ part = "fragment" /\ Fragment!Next
          /\ UNCHANGED <<vars, streamVars, sinkVars>>
       \/ /\ part = "sink" /\ Sink!SinkNext
          /\ UNCHANGED <<vars, streamVars, fragVars>>

\* Every delay ends and every request has a timeout, so a rip keeps stepping: all
\* but the body of an error answer, which nothing bounds (collect_body).  Telegram
\* answers or times out, and freed permits are handed on.
RipStep ==
    /\ part \in {"atmos", "stereo"} /\ Alone \notin reading /\ Step(Alone)
    /\ part' = part /\ UNCHANGED <<streamVars, fragVars, sinkVars>>
SinkStep(o) ==
    /\ part = "sink" /\ Sink!Step(o)
    /\ part' = part /\ UNCHANGED <<vars, streamVars, fragVars>>

PartsSpec == /\ PartsInit /\ [][PartsNext]_partsVars
             /\ WF_partsVars(RipStep)
             /\ \A o \in {o1, o2} : WF_partsVars(SinkStep(o))

-----------------------------------------------------------------------------
\* wrapper/engine.rs, client.rs, playlist.rs: the delivered stream is the best one
\* offered to the request, whole, every segment with its own key.
StreamAsAsked == /\ part = "variants" => Variants!StreamAsAsked
                 /\ part = "lines" => Lines!StreamAsAsked

\* wrapper/decryptor.rs, cenc.rs: rewritten boxes have the sizes they state, lead
\* to the same samples, all of them decrypted, and keep the timeline.
FragmentIntact == part = "fragment" => Fragment!FragmentIntact

\* ripper.rs, acquisition.rs: every rip ends, or waits for good for the body of an
\* error answer: attempts, rounds, candidates, cancellation and the mirror's circuit
\* hold up nothing else.
RipOver == part \in {"atmos", "stereo"} => rip[Alone].at = "done"
EveryRipEnds == <>RipOver \/ <>[](Alone \in reading)

\* ripper.rs: a rip ends; a cancelled one does.  It does not when a mirror or a
\* wrapper answers with an error status and never ends the body: collect_body
\* (stream_transport.rs) watches neither a timeout nor the token.
NoRipHangs == <>RipOver

\* telegram_sink.rs: every upload that was requested ends, although all wait for
\* the bot's own session and transfers stall.
EveryOperationEnds ==
    \A o \in {o1, o2} :
        (part = "sink" /\ Sink!Waits(o)) ~> (part = "sink" => Sink!IsOver(o))
=============================================================================
