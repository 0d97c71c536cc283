----------------------------- MODULE MCRipQueue -----------------------------
(* Instances of RipQueue for TLC. *)
EXTENDS RipQueue

CONSTANTS a, b, c

\* A client track, a bot album and a bot playlist (rungs 160, 10, -60 of
\* priority.rs); at 5 points a second the album catches the client up after
\* 3000 seconds and the playlist the album after 1400.
MCPriority == a :> 10 @@ b :> 160 @@ c :> -60

\* All equal: the queue is first in, first out.
EqualPriority == a :> 0 @@ b :> 0 @@ c :> 0

=============================================================================
