----------------------------- MODULE MCNamespace -----------------------------
(* A small instance of Namespace for TLC. *)
EXTENDS Namespace

CONSTANTS
  notes, xzip,  \* words: a plain name, and one with an archive's extension
  t1, t2        \* threads

Plain == <<Slash, notes>>                   \* /notes
Packed == <<Slash, xzip>>                   \* /x.zip
Contents == Append(Packed, Suffix)          \* /x.zip.peep
Member == Contents \o Plain                 \* /x.zip.peep/notes

Ask(op, p) == [op |-> op, path |-> p, newpath |-> TopDir, target |-> TopDir,
               special |-> FALSE]
Pair(op, p, q) == [Ask(op, p) EXCEPT !.newpath = q]
Special(q) == [q EXCEPT !.special = TRUE]
LinkTo(p, target) == [Ask("symlink", p) EXCEPT !.target = target]

Inode(kind, labels) == [Fresh(kind, TopDir) EXCEPT !.labels = labels]

\* A base with an archive, one with a directory where its contents would be.
MCBases ==
  {[at |-> TopDir :> 1 @@ Packed :> 2, node |-> 1 :> Inode("dir", 0) @@
                                            2 :> Inode("archive", 1)],
   [at |-> TopDir :> 1 @@ Contents :> 2 @@ Plain :> 5,
    node |-> 1 :> Inode("dir", 0) @@ 2 :> Inode("dir", 0) @@
             5 :> Inode("archive", 0)]}

Everything ==
  {Ask("mkdir", Contents), Ask("mknod", Member), Ask("create", Packed),
   Ask("rmdir", Contents), Ask("unlink", Packed), LinkTo(Plain, Packed),
   Pair("rename", Plain, Packed), Pair("rename", Packed, Member),
   Pair("link", Plain, Member), Ask("readlink", Plain),
   Ask("truncate", Plain), Special(Ask("utimens", Contents)),
   Ask("utimens", Contents), Ask("chmod", Plain), Ask("chown", Packed),
   Special(Pair("rename", Plain, Packed)),
   Special(Ask("access", Member)), Ask("access", Contents),
   Ask("statfs", Member), Ask("listxattr", Packed),
   Ask("getxattr", Packed), Ask("getxattr", Contents),
   Ask("getattr", Contents), Ask("getattr", Member),
   Ask("readdir", TopDir), Ask("readdir", Contents)}

\* What goes on beside it: what is done at the archive and its contents.
Beside ==
  {Ask("mkdir", Contents), Ask("unlink", Packed),
   Pair("rename", Plain, Packed), Ask("getattr", Contents)}

MCRequests == t1 :> Everything @@ t2 :> Beside

MCOutside == {Ask("mkdir", Contents), Pair("rename", Plain, Packed)}

=============================================================================
