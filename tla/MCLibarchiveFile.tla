--------------------------- MODULE MCLibarchiveFile ---------------------------
(* Small instances of LibarchiveFile for TLC. *)
EXTENDS LibarchiveFile

\* Sizes of the members of each archive; the file opened is the second one.
MCContents == {<<1, 3>>, <<2, 2>>, <<1>>}
===============================================================================
