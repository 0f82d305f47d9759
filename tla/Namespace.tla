------------------------------ MODULE Namespace ------------------------------
(***************************************************************************)
(* Which object a path of the mount stands for, and what the operations on *)
(* it do (src/src/peepfs.c): a handler composes the path in the base file  *)
(* system in a buffer of its thread, searches it for the magic suffix with *)
(* a regular file before it, and either makes one system call on the base  *)
(* path or answers for the inside of an archive.                           *)
(*                                                                         *)
(* One step is one system call.  Between two of them other threads and     *)
(* other programs change the base file system.  What getattr, readdir and  *)
(* open do inside an archive is the subject of PeepMount and OpenFiles;    *)
(* here those handlers end with the archive and the member's name.         *)
(***************************************************************************)
EXTENDS AsIs

CONSTANTS
  Threads,      \* the FUSE worker threads
  Requests,     \* bound: what each thread is asked for
  Outside,      \* bound: what other programs ask of the base file system
  Bases,        \* the base file systems to start from
  ArchiveWords, \* last words of names that have an archive's extension
  Errnos,       \* what an earlier failure may have left in a thread's errno
  HalfWord      \* 2^32: an inode number is composed of two halves of a word

Refusing == {"mkdir", "mknod", "symlink", "create", "rmdir", "unlink",
             "readlink", "truncate", "utimens", "chmod", "chown", "rename",
             "link"}
Unsupported == {"listxattr", "getxattr"}
Operations == Refusing \cup Unsupported \cup
  {"getattr", "readdir", "access", "statfs"}

\* newpath is for rename and link, target for symlink; special says W_OK for
\* access, UTIME_NOW or UTIME_OMIT for utimens, RENAME_NOREPLACE for rename.
Request ==
  {q \in [op : Operations, path : Path, newpath : Path, target : Path,
          special : BOOLEAN] :
     q.op \notin {"rename", "link"} => q.newpath = TopDir}
NoRequest == [op |-> "none", path |-> TopDir, newpath |-> TopDir,
              target |-> TopDir, special |-> FALSE]

ASSUME NamespaceAssumption ==
  /\ Requests \in [Threads -> SUBSET Request]
  /\ Outside \subseteq Request
  /\ \A b \in Bases : IsBase(b)
  /\ ArchiveWords \subseteq Words
  /\ Errnos \subseteq Nat
  /\ HalfWord \in Nat \ {0}
  /\ Inodes \subseteq 1 .. HalfWord * HalfWord - 1

VARIABLES
  base,        \* the base file system
  at,          \* where each thread is in its handler
  request,     \* what the thread was asked for
  ctx,         \* peepfs_ctx_t: the path buffers of each context
  token,       \* peepfs_static_archive_path: the last occurrence it tried
  todo,        \* readdir: the entries that it has not read yet
  filled,      \* readdir: what it gave to filler
  answer,      \* the latest answer of each thread
  always,      \* history: the occurrences that were behind a regular file all
               \* the time since the request came
  ever,        \* history: those that were behind one at some time since
  still        \* history: whether the base has stayed the same since

vars == <<base, at, request, ctx, token, todo, filled, answer, always, ever,
          still>>

NoStat == [kind |-> "none", ino |-> 0]
NoAnswer == [error |-> 0, stat |-> NoStat, names |-> {}]
Buffers == [fullpath |-> <<>>, new_fullpath |-> <<>>, archivepath |-> <<>>]

-----------------------------------------------------------------------------
(* Paths and numbers.                                                      *)

\* Mutation: all threads share one context.
SharedContext(t) == CHOOSE u \in Threads : TRUE

\* peepfs_get_ctx: each thread has its own.
Context(t) == t

\* Mutation: the base inode is shifted out of the word.
ComposeShifted(ino, rel) ==
  ((rel % HalfWord) + ino * (HalfWord * HalfWord)) % (HalfWord * HalfWord)

\* (rel & 0xffffffff) | (ino << 32), in a word of 64 bits.
ComposeIno(ino, rel) ==
  ((rel % HalfWord) + ino * HalfWord) % (HalfWord * HalfWord)

\* Where strstr finds the suffix, and what is before and after it.
Occurrences(p) == {k \in DOMAIN p : p[k] = Suffix}
ArchivePath(p, k) == SubSeq(p, 1, k - 1)
RelPath(p, k) ==
  LET rest == SubSeq(p, k + 1, Len(p))
  IN  IF rest # <<>> /\ Head(rest) = Slash THEN Tail(rest) ELSE rest

\* Mutation: the file is not opened, its name is enough.
IdentifiedByName(b, p) == p[Len(p)] \in ArchiveWords

\* peepfs_archive_ident: the extension is an archive's, and the file opens.
Identified(b, p) ==
  p[Len(p)] \in ArchiveWords /\ IsKind(b, Follow(b, p), {"archive"})
PeepName(p) == Append(p, Suffix)

Stat(kind, ino) == [kind |-> kind, ino |-> ino]
StatOf(b, p) == Stat(NodeAt(b, p).kind, b.at[p])
ContentsStat(b, p) == Stat("dir", ComposeIno(b.at[p], 1))

-----------------------------------------------------------------------------
(* Steps that the handlers share.                                          *)

Full(t) == ctx[Context(t)].fullpath
NewFull(t) == ctx[Context(t)].new_fullpath

Goto(t, label) == at' = [at EXCEPT ![t] = label]

\* Every handler but statfs searches its path.
Begin(t, q) ==
  /\ at[t] = "idle"
  /\ Goto(t, IF q.op = "statfs" THEN "call" ELSE "search")
  /\ request' = [request EXCEPT ![t] = q]
  /\ ctx' = [ctx EXCEPT ![Context(t)] =
               [@ EXCEPT !.fullpath = q.path, !.new_fullpath = q.newpath]]
  /\ token' = [token EXCEPT ![t] = 0]
  /\ answer' = [answer EXCEPT ![t] = NoAnswer]
  /\ UNCHANGED <<base, todo, filled>>

\* What the handler leaves in its buffers is not looked at again.
Answer(t, error, stat, names) ==
  /\ Goto(t, "idle")
  /\ answer' = [answer EXCEPT ![t] =
                  [error |-> error, stat |-> stat, names |-> names]]
  /\ request' = [request EXCEPT ![t] = NoRequest]
  /\ ctx' = [ctx EXCEPT ![Context(t)] = Buffers]
  /\ token' = [token EXCEPT ![t] = 0]
  /\ todo' = [todo EXCEPT ![t] = {}]
  /\ filled' = [filled EXCEPT ![t] = {}]

Says(t, error) == Answer(t, error, NoStat, {}) /\ UNCHANGED base

\* Mutation: rename and link look at the old path twice.
SearchedOld(t) == Full(t)

\* rename and link search the old path and then the new one.
Searched(t) == IF at[t] = "search_new" THEN NewFull(t) ELSE Full(t)

Searching(t) == at[t] \in {"search", "search_new"}

\* The next place where strstr finds the suffix.
Found(t, k) ==
  /\ k \in Occurrences(Searched(t))
  /\ k > token[t]
  /\ \A j \in Occurrences(Searched(t)) : j > token[t] => k <= j
FoundNone(t) == \A j \in Occurrences(Searched(t)) : j <= token[t]

\* Mutation: anything that lstat finds before the suffix is an archive.
AnythingThere(b, p) == Exists(b, p)

\* lstat, and S_ISREG of what it finds.
IsArchivePath(b, p) == Regular(b, p)

Tried(t, k) ==
  ctx' = [ctx EXCEPT ![Context(t)] =
            [@ EXCEPT !.archivepath = ArchivePath(Searched(t), k)]]

TryNext(t) ==
  /\ Searching(t)
  /\ \E k \in DOMAIN Searched(t) :
       /\ Found(t, k)
       /\ ~IsArchivePath(base, ArchivePath(Searched(t), k))
       /\ Tried(t, k)
       /\ token' = [token EXCEPT ![t] = k]
  /\ UNCHANGED <<base, at, request, todo, filled, answer>>

LeadsInside(t) ==
  /\ Searching(t)
  /\ \E k \in DOMAIN Searched(t) :
       /\ Found(t, k)
       /\ IsArchivePath(base, ArchivePath(Searched(t), k))
       /\ Tried(t, k)
       /\ token' = [token EXCEPT ![t] = k]
  /\ Goto(t, "inside")
  /\ UNCHANGED <<base, request, todo, filled, answer>>

LeadsToBase(t) ==
  /\ Searching(t)
  /\ FoundNone(t)
  /\ IF request[t].op \in {"rename", "link"} /\ at[t] = "search"
     THEN Goto(t, "search_new") /\ token' = [token EXCEPT ![t] = 0]
     ELSE Goto(t, "call") /\ UNCHANGED token
  /\ UNCHANGED <<base, request, ctx, todo, filled, answer>>

-----------------------------------------------------------------------------
(* Inside an archive.                                                      *)

Inside(t, ops) == at[t] = "inside" /\ request[t].op \in ops

Refuse(t) ==
  \/ Inside(t, Refusing) /\ Says(t, EACCES)
  \/ Inside(t, Unsupported) /\ Says(t, ENOTSUP)

\* The second lstat of the archive may find that it is gone.
GetattrInside(t) ==
  LET p == ctx[Context(t)].archivepath
      relpath == RelPath(Full(t), token[t])
  IN  /\ Inside(t, {"getattr"})
      /\ \/ ~Exists(base, p) /\ Says(t, ENOENT)
         \/ /\ Exists(base, p) /\ relpath = <<>>
            /\ Answer(t, 0, ContentsStat(base, p), {})
            /\ UNCHANGED base
         \/ /\ Exists(base, p) /\ relpath # <<>>   \* PeepMount goes on
            /\ Answer(t, 0, Stat("member", 0), {})
            /\ UNCHANGED base

\* PeepMount goes on from here: the archive's members.
ReaddirInside(t) == Inside(t, {"readdir"}) /\ Says(t, 0)

AccessInside(t) ==
  /\ Inside(t, {"access"})
  /\ Says(t, IF request[t].special THEN EACCES
             ELSE Look(base, ctx[Context(t)].archivepath).error)

-----------------------------------------------------------------------------
(* One system call on the base path, and its error.                        *)

Calls(t, op) == at[t] = "call" /\ request[t].op = op

Passes(t, op, outcome) ==
  /\ Calls(t, op)
  /\ base' = outcome.base
  /\ Answer(t, outcome.error, NoStat, {})

Mkdir(t) == Passes(t, "mkdir", Make(base, Full(t), "dir", <<>>))
Mknod(t) == Passes(t, "mknod", Make(base, Full(t), "file", <<>>))
Symlink(t) ==
  Passes(t, "symlink", Make(base, Full(t), "link", request[t].target))
Create(t) == Passes(t, "create", OpenCreate(base, Full(t)))
Rmdir(t) == Passes(t, "rmdir", RemoveDir(base, Full(t)))
UnlinkFile(t) == Passes(t, "unlink", Unlink(base, Full(t)))
RenameFile(t) == Passes(t, "rename", Rename(base, Full(t), NewFull(t)))
LinkFile(t) == Passes(t, "link", Link(base, Full(t), NewFull(t)))
Readlink(t) == Passes(t, "readlink", ReadLink(base, Full(t)))
Truncate(t) == Passes(t, "truncate", Change(base, Full(t), "truncate"))
Chmod(t) == Passes(t, "chmod", Change(base, Full(t), "chmod"))
Chown(t) == Passes(t, "chown", Change(base, Full(t), "chown"))
Access(t) == Passes(t, "access", Look(base, Full(t)))
Statfs(t) == Passes(t, "statfs", Look(base, Full(t)))

\* UTIME_NOW and UTIME_OMIT, divided by 1000, are no number of microseconds.
Utimens(t) ==
  Passes(t, "utimens",
         IF request[t].special /\ Exists(base, Follow(base, Full(t)))
         THEN Fails(base, EINVAL)
         ELSE Change(base, Full(t), "utimens"))

\* Any length but 0 is taken for an error, whatever errno is from.
Xattr(t, op, outcome) ==
  /\ Calls(t, op)
  /\ \/ outcome.length = 0 /\ Says(t, outcome.error)
     \/ outcome.length # 0 /\ \E e \in Errnos : Says(t, e)
Listxattr(t) == Xattr(t, "listxattr", ListAttributes(base, Full(t)))
Getxattr(t) == Xattr(t, "getxattr", GetAttribute(base, Full(t)))

Getattr(t) ==
  /\ Calls(t, "getattr")
  /\ IF Exists(base, Full(t)) THEN Answer(t, 0, StatOf(base, Full(t)), {})
     ELSE Answer(t, ENOENT, NoStat, {})
  /\ UNCHANGED base

\* opendir, and the entries that readdir is going to find.
Opendir(t) ==
  /\ Calls(t, "readdir")
  /\ \/ /\ ~IsDir(base, Full(t))
        /\ Says(t, IF Exists(base, Full(t)) THEN ENOTDIR ELSE ENOENT)
     \/ /\ IsDir(base, Full(t))
        /\ todo' = [todo EXCEPT ![t] =
             {[path |-> p, stat |-> StatOf(base, p)] :
                p \in Entries(base, Full(t))}]
        /\ Goto(t, "listing")
        /\ UNCHANGED <<base, request, ctx, token, filled, answer>>

\* Mutation: st_mode is forgotten.
ContentsEntryUntyped(e) ==
  [path |-> PeepName(e.path), stat |-> Stat("none", ComposeIno(e.stat.ino, 1))]
ContentsEntry(e) ==
  [path |-> PeepName(e.path), stat |-> Stat("dir", ComposeIno(e.stat.ino, 1))]

\* One directory entry, and the directory of its contents if it is an archive.
FillEntry(t) ==
  /\ at[t] = "listing"
  /\ \E e \in todo[t] :
       /\ todo' = [todo EXCEPT ![t] = @ \ {e}]
       /\ filled' = [filled EXCEPT ![t] = @ \cup {e} \cup
            IF Identified(base, e.path) THEN {ContentsEntry(e)} ELSE {}]
  /\ UNCHANGED <<base, at, request, ctx, token, answer>>

Closedir(t) ==
  /\ at[t] = "listing"
  /\ todo[t] = {}
  /\ Answer(t, 0, NoStat, filled[t])
  /\ UNCHANGED base

-----------------------------------------------------------------------------
\* External: another program works on the base file system.
Direct(b, q) ==
  CASE q.op = "mkdir" -> Make(b, q.path, "dir", <<>>)
    [] q.op = "mknod" -> Make(b, q.path, "file", <<>>)
    [] q.op = "symlink" -> Make(b, q.path, "link", q.target)
    [] q.op = "create" -> OpenCreate(b, q.path)
    [] q.op = "rmdir" -> RemoveDir(b, q.path)
    [] q.op = "unlink" -> Unlink(b, q.path)
    [] q.op = "rename" -> Rename(b, q.path, q.newpath)
    [] q.op = "link" -> Link(b, q.path, q.newpath)
    [] q.op \in Changing -> Change(b, q.path, q.op)
    [] OTHER -> Succeeds(b)
Other(q) ==
  /\ base' = Direct(base, q).base
  /\ UNCHANGED <<at, request, ctx, token, todo, filled, answer>>

Call(t) ==
  \/ Mkdir(t) \/ Mknod(t) \/ Symlink(t) \/ Create(t) \/ Rmdir(t)
  \/ UnlinkFile(t) \/ RenameFile(t) \/ LinkFile(t) \/ Readlink(t)
  \/ Truncate(t) \/ Chmod(t) \/ Chown(t) \/ Access(t) \/ Statfs(t)
  \/ Utimens(t) \/ Listxattr(t) \/ Getxattr(t) \/ Getattr(t) \/ Opendir(t)

Step(t) ==
  \/ TryNext(t) \/ LeadsInside(t) \/ LeadsToBase(t)
  \/ Refuse(t) \/ GetattrInside(t) \/ ReaddirInside(t) \/ AccessInside(t)
  \/ Call(t) \/ FillEntry(t) \/ Closedir(t)

\* The places in a request's paths that are behind a regular file in b.
BehindFiles(b, p) ==
  {k \in Occurrences(p) : Regular(b, ArchivePath(p, k))}
Behind(b, q) ==
  UNION {{<<p, k>> : k \in BehindFiles(b, p)} : p \in {q.path, q.newpath}}

Watch ==
  /\ always' = [t \in Threads |->
       IF at[t] = "idle" THEN Behind(base', request'[t])
       ELSE always[t] \cap Behind(base', request'[t])]
  /\ ever' = [t \in Threads |->
       IF at[t] = "idle" THEN Behind(base', request'[t])
       ELSE IF at'[t] = "idle" THEN {}
       ELSE ever[t] \cup Behind(base', request'[t])]
  /\ still' = [t \in Threads |->
       at[t] = "idle" \/ at'[t] = "idle" \/ (still[t] /\ base' = base)]

Init ==
  /\ base \in Bases
  /\ at = [t \in Threads |-> "idle"]
  /\ request = [t \in Threads |-> NoRequest]
  /\ ctx = [t \in Threads |-> Buffers]
  /\ token = [t \in Threads |-> 0]
  /\ todo = [t \in Threads |-> {}]
  /\ filled = [t \in Threads |-> {}]
  /\ answer = [t \in Threads |-> NoAnswer]
  /\ always = [t \in Threads |-> {}]
  /\ ever = [t \in Threads |-> {}]
  /\ still = [t \in Threads |-> TRUE]

Next ==
  /\ \/ \E t \in Threads : \/ \E q \in Requests[t] : Begin(t, q)
                           \/ Step(t)
     \/ \E q \in Outside : Other(q)
  /\ Watch

Spec == Init /\ [][Next]_vars

-----------------------------------------------------------------------------
Entry == [path : Path, stat : [kind : Kinds, ino : Nat]]

TypeOK ==
  /\ IsBase(base)
  /\ at \in [Threads -> {"idle", "search", "search_new", "inside", "call",
                         "listing"}]
  /\ request \in [Threads -> Request \cup {NoRequest}]
  /\ ctx \in [Threads -> [fullpath : Path, new_fullpath : Path,
                          archivepath : Path]]
  /\ token \in [Threads -> Nat]
  /\ todo \in [Threads -> SUBSET Entry]
  /\ filled \in [Threads -> SUBSET Entry]

(***************************************************************************)
(* No operation reaches the base file system behind an archive: a handler  *)
(* makes its call on the base path only if none of the places where its    *)
(* path, or the other path of a rename or link, has the suffix was behind  *)
(* a regular file all the time (peepfs.c:129-174, 802-840, 873-909).       *)
(***************************************************************************)
PassedOnlyOutside ==
  \A t \in Threads :
    at[t] \in {"call", "listing"} /\ request[t].op # "statfs" =>
      always[t] = {}

(***************************************************************************)
(* And none is refused, or taken to an archive, for another reason: the    *)
(* archive that a handler goes on with was a regular file in its own path  *)
(* during the call, and no place before it was one throughout.             *)
(***************************************************************************)
RefusedOnlyInside ==
  \A t \in Threads : at[t] = "inside" =>
    \E p \in {request[t].path, request[t].newpath} :
      /\ <<p, token[t]>> \in ever[t]
      /\ ctx[Context(t)].archivepath = ArchivePath(p, token[t])
      /\ \A k \in 1 .. token[t] - 1 : <<p, k>> \notin always[t]

\* Where the code does not do as the base file system does: it follows a link
\* that is asked about itself, takes the value of an attribute for an error,
\* spoils the times UTIME_NOW and UTIME_OMIT, and ignores rename's flags.
Following == Changing \cup Unsupported \cup {"create", "access", "statfs"}
Altered(b, q) ==
  \/ q.op \in Following /\ IsKind(b, q.path, {"link"})
  \/ q.op \in Unsupported /\ Exists(b, q.path) /\ NodeAt(b, q.path).labels # 0
  \/ q.op = "utimens" /\ q.special
  \/ q.op = "rename" /\ q.special /\ Exists(b, q.newpath)

(***************************************************************************)
(* README.md:13-14, "passed through to the base file system directly       *)
(* as-is": a handler's call does to the base, and answers, what a program  *)
(* that called the base itself was promised for the request of this thread *)
(* (module AsIs), whatever the other threads have in their buffers.  Left  *)
(* out is what the code alters; but no call, altered or not, touches       *)
(* anything else than the names and the object that it was asked about.    *)
(***************************************************************************)
CallsAsAsked ==
  [][\A t \in Threads :
       LET q == request[t]
       IN  at[t] = "call" /\ at'[t] = "idle" =>
             /\ Confined(base, base', q)
             /\ ~Altered(base, q) =>
                  AsAsked(base, base', q, answer'[t].error)]_vars

\* What a path of the mount stands for, as a function of the base.
Lookup(b, p) ==
  IF BehindFiles(b, p) = {}
  THEN IF Exists(b, p) THEN StatOf(b, p) ELSE NoStat
  ELSE LET k == CHOOSE k \in BehindFiles(b, p) :
                  \A j \in BehindFiles(b, p) : k <= j
       IN  IF RelPath(p, k) = <<>> THEN ContentsStat(b, ArchivePath(p, k))
           ELSE Stat("member", 0)

\* No regular file before a suffix hides what has this name in the base.
Reachable(b, p) == BehindFiles(b, p) = {}
HasContents(b, p) ==
  p[Len(p)] \in ArchiveWords /\ IsKind(b, p, {"archive"})

\* An entry is an object of the base, or the contents of an archive; these are
\* found unless a symbolic link leads to the archive (lstat does not follow it).
ShownAsFound(b, e) ==
  \/ Exists(b, e.path) /\ e.stat = StatOf(b, e.path)
  \/ LET p == ArchivePath(e.path, Len(e.path))
     IN  /\ IsKind(b, Follow(b, p), {"archive"})
         /\ Reachable(b, p) /\ ~IsKind(b, p, {"link"}) =>
              Lookup(b, e.path) = e.stat

ListedIfThere(b, p, names) ==
  Reachable(b, p) =>
    /\ [path |-> p, stat |-> Lookup(b, p)] \in names
    /\ HasContents(b, p) =>
         [path |-> PeepName(p), stat |-> Lookup(b, PeepName(p))] \in names

(***************************************************************************)
(* getattr and readdir agree on one tree: while the base stays the same,   *)
(* getattr answers what the path stands for, and readdir shows every       *)
(* object of the directory, and the contents of every archive and of no    *)
(* other file, with the kind and inode number that getattr gives it.       *)
(* Names hidden by a regular file before their suffix, and archives behind *)
(* symbolic links, are the exceptions (peepfs.c:129-218, 283-330, 477-528).*)
(***************************************************************************)
OneTree ==
  [][\A t \in Threads :
       LET q == request[t]
           reply == answer'[t]
       IN  at[t] # "idle" /\ at'[t] = "idle" /\ still[t] =>
             /\ q.op = "getattr" => reply.stat = Lookup(base, q.path)
             /\ at[t] = "listing" =>
                  /\ \A e \in reply.names : ShownAsFound(base, e)
                  /\ \A p \in Entries(base, q.path) :
                       ListedIfThere(base, p, reply.names)]_vars

\* The inode numbers of what is found through inode n of the base: the object
\* itself, an archive's directory (rel 1) and its members (rel index + 2).
Number(n, rel) == IF rel = 0 THEN n ELSE ComposeIno(n, rel)

\* The halves of the word that such a number should have.
Halves(n, rel) ==
  IF rel = 0 THEN <<n \div HalfWord, n % HalfWord>>
  ELSE <<n % HalfWord, rel>>

(***************************************************************************)
(* Which objects of the mount share an inode number (peepfs.c:111-115, 322,*)
(* 365, 432, 521; libfuse uses the numbers when it is told to, use_ino,    *)
(* peepfs.c:1343): for inodes of the base of a whole word and members of   *)
(* half a word, those that agree in the lower half of the base's inode and *)
(* in the member, or where an inode of the base is wide enough to look     *)
(* composed; none, if the base's inodes fit in half a word.                *)
(***************************************************************************)
DistinctInodes ==
  \A m, n \in DOMAIN base.node : \A i, j \in 0 .. HalfWord - 1 :
    /\ Number(m, i) = Number(n, j) <=> Halves(m, i) = Halves(n, j)
    /\ m < HalfWord /\ n < HalfWord /\ Number(m, i) = Number(n, j) =>
         m = n /\ i = j
=============================================================================
