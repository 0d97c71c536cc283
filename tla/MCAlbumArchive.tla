--------------------------- MODULE MCAlbumArchive ---------------------------
(***************************************************************************)
(* Two jobs for one album id: j1 delivers and also asks for atmos, j2 is a *)
(* forced rip that only fills the cache.  Both have aac tracks, an earlier *)
(* archive is alac.                                                        *)
(***************************************************************************)
EXTENDS AlbumArchive, TLC

CONSTANTS j1, j2

MCPolicy == (j1 :> <<"primary", "atmos">>) @@ (j2 :> <<"primary">>)
MCParts == [r \in Rendition |-> IF r = "primary" THEN 2 ELSE 1]
MCGen == [j \in Job |-> "g"]
MCCodecOf == [j \in Job |-> "aac"]

=============================================================================
