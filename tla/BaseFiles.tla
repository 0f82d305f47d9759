------------------------------ MODULE BaseFiles ------------------------------
(***************************************************************************)
(* External: the base file system below the mount, as far as peepfs uses   *)
(* it: names in directories, the inodes that they stand for, and what the  *)
(* system calls in src/src/peepfs.c do to them.                            *)
(*                                                                         *)
(* A path is a sequence of tokens: words, "/" before every name, and       *)
(* occurrences of the magic suffix; <<>> is the base directory itself.     *)
(* Cutting the string at an occurrence is cutting the sequence there.      *)
(***************************************************************************)
EXTENDS Naturals, Sequences, SequencesExt

CONSTANTS
  Words,       \* pieces of names, without "/" and the suffix
  Suffix,      \* params->magic_suffix, ".peep"
  Slash,
  Inodes       \* the inode numbers that the base file system has

ASSUME BaseAssumption ==
  /\ Suffix \notin Words
  /\ Slash \notin Words \cup {Suffix}
  /\ Inodes \subseteq Nat \ {0}
  /\ IsFiniteSet(Inodes)

Path == Seq(Words \cup {Suffix, Slash})
TopDir == <<>>

ENOENT == 2
EACCES == 13
EEXIST == 17
ENOTDIR == 20
EISDIR == 21
EINVAL == 22
ENOSPC == 28
ENOTEMPTY == 39
ENODATA == 61
ENOTSUP == 95

\* The directory that a path's last name is in.
LastSlash(p) == CHOOSE i \in DOMAIN p : p[i] = Slash /\
                  \A j \in i + 1 .. Len(p) : p[j] # Slash
DirectoryOf(p) == SubSeq(p, 1, LastSlash(p) - 1)
Below(p, dir) == IsPrefix(Append(dir, Slash), p)

(***************************************************************************)
(* b.at leads from paths to inodes, b.node says what they are: "archive"   *)
(* and "file" are regular files that can and cannot be opened as archives, *)
(* "link" a symbolic link to the path in target.  attr is the last change  *)
(* to the inode's attributes or data, named by the operation; labels is    *)
(* the number of its extended attributes.                                  *)
(***************************************************************************)
Kinds == {"dir", "file", "archive", "link"}
Node == [kind : Kinds, target : Path, labels : Nat,
         attr : {"none", "truncate", "utimens", "chmod", "chown"}]
Fresh(kind, target) ==
  [kind |-> kind, target |-> target, attr |-> "none", labels |-> 0]

IsBase(b) ==
  /\ b = [at |-> [p \in DOMAIN b.at |-> b.at[p]],
          node |-> [i \in DOMAIN b.node |-> b.node[i]]]
  /\ DOMAIN b.at \subseteq Path
  /\ DOMAIN b.node \subseteq Inodes
  /\ \A p \in DOMAIN b.at : b.at[p] \in DOMAIN b.node
  /\ \A i \in DOMAIN b.node : b.node[i] \in Node

Exists(b, p) == p \in DOMAIN b.at
NodeAt(b, p) == b.node[b.at[p]]
IsKind(b, p, kinds) == Exists(b, p) /\ NodeAt(b, p).kind \in kinds
Regular(b, p) == IsKind(b, p, {"file", "archive"})
IsDir(b, p) == IsKind(b, p, {"dir"})
Empty(b, dir) == \A p \in DOMAIN b.at : ~Below(p, dir)
Entries(b, dir) == {p \in DOMAIN b.at \ {TopDir} : DirectoryOf(p) = dir}

\* Calls without AT_SYMLINK_NOFOLLOW are about what a link leads to.
Follow(b, p) == IF IsKind(b, p, {"link"}) THEN NodeAt(b, p).target ELSE p

\* f with v at x, which may be new to it.
Put(f, x, v) == [y \in DOMAIN f \cup {x} |-> IF y = x THEN v ELSE f[y]]

\* Inodes without a name are gone.
Sweep(at, node) ==
  [at |-> at, node |-> [n \in {at[p] : p \in DOMAIN at} |-> node[n]]]

Unnamed(b, p) == Sweep([q \in DOMAIN b.at \ {p} |-> b.at[q]], b.node)

\* Another name p for inode n, in place of what had that name before.
Named(b, p, n) == Sweep(Put(b.at, p, n), b.node)

FreeInodes(b) == Inodes \ DOMAIN b.node
Made(b, p, node) ==
  LET n == CHOOSE n \in FreeInodes(b) : TRUE
  IN  [at |-> Put(b.at, p, n), node |-> Put(b.node, n, node)]

Changed(b, p, op) == [b EXCEPT !.node[b.at[p]].attr = op]

\* rename of a directory takes along what is below it.
Renamed(b, old, new) ==
  LET moved(p) == new \o SubSeq(p, Len(old) + 1, Len(p))
      kept == {p \in DOMAIN b.at \ {old, new} : ~Below(p, old)}
      under == {p \in DOMAIN b.at : Below(p, old)} \cup {old}
  IN  Sweep([p \in kept \cup {moved(q) : q \in under} |->
               IF p \in kept THEN b.at[p]
               ELSE b.at[CHOOSE q \in under : moved(q) = p]], b.node)

-----------------------------------------------------------------------------
(* System calls: the base after the call, its errno (0 for success), and   *)
(* the length that the call returns.                                       *)

Fails(b, error) == [base |-> b, error |-> error, length |-> 0]
Succeeds(b) == [base |-> b, error |-> 0, length |-> 0]
Returns(b, length) == [base |-> b, error |-> 0, length |-> length]

\* What is wrong with the directory that p is to be a name in, or 0.
NoDirectory(b, p) ==
  LET dir == DirectoryOf(p)
  IN  IF IsDir(b, dir) THEN 0 ELSE IF Exists(b, dir) THEN ENOTDIR ELSE ENOENT

\* mkdir, mknod, symlink: a new name with a new inode.
Make(b, p, kind, target) ==
  IF NoDirectory(b, p) # 0 THEN Fails(b, NoDirectory(b, p))
  ELSE IF Exists(b, p) THEN Fails(b, EEXIST)
  ELSE IF FreeInodes(b) = {} THEN Fails(b, ENOSPC)
  ELSE Succeeds(Made(b, p, Fresh(kind, target)))

\* open with O_CREAT, as peepfs_create calls it.
OpenCreate(b, path) ==
  LET p == Follow(b, path)
  IN  IF ~Exists(b, p) THEN Make(b, p, "file", <<>>)
      ELSE IF IsDir(b, p) THEN Fails(b, EISDIR) ELSE Succeeds(b)

\* Nothing is below a name that is no directory's.
RemoveDir(b, p) ==
  IF ~Exists(b, p) THEN Fails(b, ENOENT)
  ELSE IF ~IsDir(b, p) THEN Fails(b, ENOTDIR)
  ELSE IF ~Empty(b, p) THEN Fails(b, ENOTEMPTY)
  ELSE Succeeds(Unnamed(b, p))

Unlink(b, p) ==
  IF ~Exists(b, p) THEN Fails(b, ENOENT)
  ELSE IF IsDir(b, p) THEN Fails(b, EISDIR)
  ELSE Succeeds(Unnamed(b, p))

Rename(b, old, new) ==
  IF ~Exists(b, old) THEN Fails(b, ENOENT)
  ELSE IF NoDirectory(b, new) # 0 THEN Fails(b, NoDirectory(b, new))
  ELSE IF Below(new, old) THEN Fails(b, EINVAL)
  ELSE IF Exists(b, new) /\ b.at[new] = b.at[old] THEN Succeeds(b)
  ELSE IF IsDir(b, old) /\ Exists(b, new) /\ ~IsDir(b, new)
       THEN Fails(b, ENOTDIR)
  ELSE IF ~IsDir(b, old) /\ IsDir(b, new) THEN Fails(b, EISDIR)
  ELSE IF ~Empty(b, new) THEN Fails(b, ENOTEMPTY)
  ELSE Succeeds(Renamed(b, old, new))

Link(b, old, new) ==
  IF ~Exists(b, old) THEN Fails(b, ENOENT)
  ELSE IF NoDirectory(b, new) # 0 THEN Fails(b, NoDirectory(b, new))
  ELSE IF Exists(b, new) THEN Fails(b, EEXIST)
  ELSE IF IsDir(b, old) THEN Fails(b, EACCES)
  ELSE Succeeds(Named(b, new, b.at[old]))

ReadLink(b, p) ==
  IF ~Exists(b, p) THEN Fails(b, ENOENT)
  ELSE IF ~IsKind(b, p, {"link"}) THEN Fails(b, EINVAL)
  ELSE Succeeds(b)

\* truncate, utimes, chmod, chown.
Change(b, path, op) ==
  LET p == Follow(b, path)
  IN  IF ~Exists(b, p) THEN Fails(b, ENOENT)
      ELSE IF op = "truncate" /\ IsDir(b, p) THEN Fails(b, EISDIR)
      ELSE Succeeds(Changed(b, p, op))

\* access, statvfs.
Look(b, path) ==
  IF Exists(b, Follow(b, path)) THEN Succeeds(b) ELSE Fails(b, ENOENT)

\* listxattr: the length of the list of names.
ListAttributes(b, path) ==
  LET p == Follow(b, path)
  IN  IF Exists(b, p) THEN Returns(b, NodeAt(b, p).labels)
      ELSE Fails(b, ENOENT)

\* getxattr: the length of an attribute's value, which is not empty.
GetAttribute(b, path) ==
  LET p == Follow(b, path)
  IN  IF ~Exists(b, p) THEN Fails(b, ENOENT)
      ELSE IF NodeAt(b, p).labels = 0 THEN Fails(b, ENODATA)
      ELSE Returns(b, 1)
=============================================================================
