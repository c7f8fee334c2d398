------------------------------- MODULE MCDocker -------------------------------
(* Docker on two containers, one named by its digest and one by a tag.     *)
EXTENDS Docker, TLC

CONSTANTS a, b, p, q, one, two, arm

MCVolsOf == one :> {p, q} @@ two :> {} @@ arm :> {} @@ NoImage :> {}
MCSizeOf == one :> 1 @@ two :> 2 @@ arm :> 1
MCRoomOf == a :> 1 @@ b :> 2
=============================================================================
