----------------------------- MODULE MCSessions -----------------------------
(***************************************************************************)
(* An instance of Sessions for TLC: two sessions that a controller opens,  *)
(* one that the node opens to it, and a PASE session; two ids for them.    *)
(***************************************************************************)
EXTENDS Sessions, TLC

CONSTANTS r1, r2, i1, c1, p
MCKindOf == r1 :> "responder" @@ r2 :> "responder" @@ i1 :> "initiator" @@ c1 :> "pase"
MCPeerOf == r1 :> p @@ r2 :> p @@ i1 :> p @@ c1 :> NoPeer
Responders == Permutations({r1, r2})
=============================================================================
