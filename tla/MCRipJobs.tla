------------------------------ MODULE MCRipJobs ------------------------------
(* Instances of RipJobs for TLC. *)
EXTENDS RipJobs, TLC

CONSTANTS j1, j2, j3, album, track

\* j2 is a batch of both targets, j1 and j3 ask for one each.
MCTargets == j1 :> <<album>> @@ j2 :> <<album, track>> @@ j3 :> <<track>>

\* Two requests for the same album.
TwoTargets == j1 :> <<album>> @@ j2 :> <<album>>

=============================================================================
