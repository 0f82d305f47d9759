----------------------------- MODULE MCPeepCache -----------------------------
(* Small instances of PeepCache for TLC. *)
EXTENDS PeepCache

Symmetry == Permutations(Threads) \cup Permutations(Names)
=============================================================================
