----------------------------- MODULE MCPeepMount -----------------------------
(* Small instances of PeepMount for TLC. *)
EXTENDS PeepMount

CONSTANTS d, f, other   \* a directory, a file in it, a file next to it

MCParent == [n \in Names |-> IF n = f THEN d ELSE Top]

\* Archives with and without the file, and with its directory left out.
Plain == {<<d>>, <<d, f>>, <<f, d>>}
\* Archives of which one does not fit into a cache of three entries.
Large == {<<d>>, <<d, f, other>>}
\* An archive that has no member for the directory of its file.
Implicit == {<<f>>}
\* Archives that have no member in common.
Disjoint == {<<d, f>>, <<other>>}

Symmetry == Permutations(Threads)

MCMetadata == [version : 1 .. MaxVersions, index : 1 .. 3]
=============================================================================
