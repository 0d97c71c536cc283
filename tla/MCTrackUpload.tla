---------------------------- MODULE MCTrackUpload ----------------------------
(***************************************************************************)
(* Instances of TrackUpload for TLC.  The two uploads of the first job are *)
(* tracks 1 and 2 of a list, or, where `shape` says so, the two renditions *)
(* of track 1, which have one track_index.                                 *)
(***************************************************************************)
EXTENDS TrackUpload

CONSTANTS j1, j2, x1, x2

VARIABLE shape

\* A list, and the upload of a forced job for the second track alone.
TwoJobs == <<j1, j1, j2>>
SharedTrack == <<x1, x2, x2>>
OneSingle == <<1, 2, 0>>
SharedPlace == <<1, 1, 0>>

Dual == INSTANCE TrackUpload WITH Index <- SharedPlace

ShapedInit == Init /\ shape \in {"list", "dual"}
ShapedNext ==
    /\ \/ shape = "list" /\ Next
       \/ shape = "dual" /\ Dual!Next
    /\ UNCHANGED shape
ShapedSpec == ShapedInit /\ [][ShapedNext]_<<vars, shape>>

\* A list whose first track came from the cache: its only upload is that
\* of track 2.
OneJob == <<j1>>
OneTrack == <<x1>>
AfterCached == <<2>>

\* upload_lane.rs:406: two renditions under one key of pending_deliveries are
\* never both copied, nor one of them twice, and the sequencer does not go back.
OnePlaceServedOnce == shape = "dual" => Dual!InTrackOrder

=============================================================================
