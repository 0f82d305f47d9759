----------------------------- MODULE MCOpenFiles -----------------------------
(* A small instance of OpenFiles for TLC. *)
EXTENDS OpenFiles, TLC

CONSTANTS x, y   \* member names

\* The members change places, some go, and one name is there twice.
MCContents == {<<x, x, y>>, <<y>>, <<y, x>>, <<>>}

Symmetry == Permutations(Files)
=============================================================================
