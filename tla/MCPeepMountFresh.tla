--------------------------- MODULE MCPeepMountFresh ---------------------------
(* A small instance of PeepMountFresh for TLC. *)
EXTENDS PeepMountFresh, MCPeepMount
=============================================================================
