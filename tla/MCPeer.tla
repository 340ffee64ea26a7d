------------------------------- MODULE MCPeer -------------------------------
(***************************************************************************)
(* Peer for TLC: three calls are enough for a request whose handler nests  *)
(* a request whose handler nests a third, and for requests of both ends    *)
(* that carry the same id.                                                 *)
(***************************************************************************)
EXTENDS Peer
=============================================================================
