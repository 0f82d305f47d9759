-------------------------------- MODULE AsIs --------------------------------
(***************************************************************************)
(* What a program is promised that makes a call on the base file system    *)
(* itself: which requests fail, and what is different afterwards.  Nothing *)
(* here says how a call is carried out: a request q is judged by the base  *)
(* b before it, the base c after it and its error, and is about the object *)
(* that its path names, be it a symbolic link.                             *)
(***************************************************************************)
EXTENDS BaseFiles

Making == {"mkdir", "mknod", "symlink"}
Changing == {"truncate", "utimens", "chmod", "chown"}
Inspecting == {"getattr", "readdir", "access", "statfs", "readlink",
               "listxattr", "getxattr"}

AtOrBelow(p, dir) == p = dir \/ Below(p, dir)

\* The names of the object that p names, itself among them.
NamesOf(b, p) ==
  {r \in DOMAIN b.at : Exists(b, p) /\ b.at[r] = b.at[p]}

\* p in one base and r in the other name the same object, as it was.
SameObject(b, p, c, r) ==
  /\ Exists(b, p) /\ Exists(c, r)
  /\ c.at[r] = b.at[p] /\ NodeAt(c, r) = NodeAt(b, p)

\* Whatever has another name than these is the same, and nothing is new.
OnlyAt(names, b, c) ==
  \A p \in (DOMAIN b.at \cup DOMAIN c.at) \ names : SameObject(b, p, c, p)

-----------------------------------------------------------------------------
(* Why a request fails.                                                    *)

\* The name that the request adds, if it does.
NewName(q) == IF q.op \in {"rename", "link"} THEN q.newpath ELSE q.path
AddsName(b, q) ==
  \/ q.op \in Making \cup {"rename", "link"}
  \/ q.op = "create" /\ ~Exists(b, q.path)

\* What the request is about is not there, or the directory it adds to.
Missing(b, q) ==
  \/ q.op \notin Making \cup {"create"} /\ ~Exists(b, q.path)
  \/ AddsName(b, q) /\ ~Exists(b, DirectoryOf(NewName(q)))

RenameObstacle(b, old, new) ==
  \/ Below(new, old)
  \/ /\ Exists(b, new) => b.at[new] # b.at[old]
     /\ \/ Exists(b, new) /\ (IsDir(b, old) # IsDir(b, new))
        \/ ~Empty(b, new)

Obstacle(b, q) ==
  \/ Missing(b, q)
  \/ AddsName(b, q) /\ ~IsDir(b, DirectoryOf(NewName(q)))
  \/ q.op \in Making \cup {"link"} /\ Exists(b, NewName(q))
  \/ q.op \in Making /\ FreeInodes(b) = {}
  \/ q.op = "create" /\ ~Exists(b, q.path) /\ FreeInodes(b) = {}
  \/ q.op \in {"create", "unlink", "truncate", "link"} /\ IsDir(b, q.path)
  \/ q.op \in {"rmdir", "readdir"} /\ ~IsDir(b, q.path)
  \/ q.op = "rmdir" /\ ~Empty(b, q.path)
  \/ q.op = "readlink" /\ ~IsKind(b, q.path, {"link"})
  \/ q.op = "rename" /\ RenameObstacle(b, q.path, q.newpath)
  \/ q.op = "rename" /\ q.special /\ Exists(b, q.newpath)
  \/ q.op = "getxattr" /\ NodeAt(b, q.path).labels = 0

-----------------------------------------------------------------------------
(* What is different after a request that did not fail.                    *)

Appeared(b, c, p, kind, target) ==
  /\ ~Exists(b, p) /\ Exists(c, p)
  /\ \A r \in DOMAIN b.at : b.at[r] # c.at[p]
  /\ NodeAt(c, p) = [kind |-> kind, target |-> target, attr |-> "none",
                     labels |-> 0]
  /\ OnlyAt({p}, b, c)

Disappeared(b, c, p) == ~Exists(c, p) /\ OnlyAt({p}, b, c)

\* All that was called old, or was below it, is now called new or below it.
Moved(b, c, old, new) ==
  LET was == {p \in DOMAIN b.at : AtOrBelow(p, old)}
      is == {p \in DOMAIN c.at : AtOrBelow(p, new)}
      rebased(p) == new \o SubSeq(p, Len(old) + 1, Len(p))
  IN  /\ \A p \in was : SameObject(b, p, c, rebased(p))
      /\ \A p \in is : \E r \in was : p = rebased(r)
      /\ \A p \in DOMAIN c.at : ~AtOrBelow(p, old)
      /\ OnlyAt(was \cup is, b, c)

Attributed(b, c, p, op) ==
  /\ \A r \in NamesOf(b, p) :
       /\ Exists(c, r) /\ c.at[r] = b.at[p]
       /\ NodeAt(c, r) = [NodeAt(b, p) EXCEPT !.attr = op]
  /\ OnlyAt(NamesOf(b, p), b, c)

Effect(b, c, q) ==
  LET p == q.path
      new == q.newpath
  IN  /\ q.op = "mkdir" => Appeared(b, c, p, "dir", TopDir)
      /\ q.op = "mknod" => Appeared(b, c, p, "file", TopDir)
      /\ q.op = "symlink" => Appeared(b, c, p, "link", q.target)
      /\ q.op = "create" =>
           IF Exists(b, p) THEN c = b ELSE Appeared(b, c, p, "file", TopDir)
      /\ q.op \in {"rmdir", "unlink"} => Disappeared(b, c, p)
      /\ q.op = "rename" =>
           IF Exists(b, new) /\ b.at[new] = b.at[p] THEN c = b
           ELSE Moved(b, c, p, new)
      /\ q.op = "link" => SameObject(b, p, c, new) /\ OnlyAt({new}, b, c)
      /\ q.op \in Changing => Attributed(b, c, p, q.op)
      /\ q.op \in Inspecting => c = b

-----------------------------------------------------------------------------
\* The request is refused exactly if something is in its way, with ENOENT
\* exactly if something is missing, and then nothing is changed.
AsAsked(b, c, q, error) ==
  /\ error = 0 <=> ~Obstacle(b, q)
  /\ error = ENOENT <=> Missing(b, q)
  /\ IF error = 0 THEN Effect(b, c, q) ELSE c = b

\* And whatever it does, it stays with the names that it is about, what is
\* below them, and what its path leads to.
Confined(b, c, q) ==
  \A p \in DOMAIN b.at \cup DOMAIN c.at :
    \/ SameObject(b, p, c, p)
    \/ AtOrBelow(p, q.path)
    \/ q.op \in {"rename", "link"} /\ AtOrBelow(p, q.newpath)
    \/ p = Follow(b, q.path)
    \/ p \in NamesOf(b, Follow(b, q.path))
=============================================================================
