------------------------------ MODULE PeepMount ------------------------------
(***************************************************************************)
(* getattr and readdir inside archives (src/src/peepfs.c): each FUSE       *)
(* thread asks the cache, and on a miss opens the archive file, reads it   *)
(* and caches what it read.  Nothing is held between those steps, so other *)
(* threads' calls, and programs that replace the archive file in the base  *)
(* file system, come in between.                                           *)
(*                                                                         *)
(* An archive file is the sequence of its versions; the last is on disk.   *)
(* Replacing it gives a new inode (rename over it): a zip handle goes on   *)
(* reading the version it opened, while libarchive opens the file by name  *)
(* again for every operation.  A member is named by its normalised path;   *)
(* its attributes are the version and the position they were read from.    *)
(***************************************************************************)
EXTENDS PeepCache

CONSTANTS
  Readers,     \* the threads that serve readdir; every thread serves getattr
  Zips,        \* the archives whose path ends in .zip: libzip, else libarchive
  Contents,    \* the member sequences an archive may have
  Asked,       \* bound: the names and directories that requests are about
  Top,         \* the archive's own directory, relpath ""
  Parent,      \* the directory that a member's name puts it in
  MaxVersions, \* bound: how often an archive file is written
  ReadErrors   \* whether reading an archive may fail midway

Dirs == Names \cup {Top}

ASSUME MountAssumption ==
  /\ Readers \subseteq Threads
  /\ Zips \subseteq Archives
  /\ Contents \subseteq Seq(Names)
  /\ Top \notin Names
  /\ Asked \subseteq Dirs
  /\ Parent \in [Names -> Dirs]
  /\ MaxVersions \in Nat \ {0}
  /\ ReadErrors \in BOOLEAN
  /\ \A v \in 1 .. MaxVersions, c \in Contents : \A i \in 1 .. Len(c) :
       [version |-> v, index |-> i] \in Metadata

VARIABLES
  disk,        \* the versions of each archive file in the base file system
  at,          \* where each thread is in its handler
  request,     \* the operation and path that the thread serves
  handle,      \* peepfs_archive_t: the version it reads, or NoHandle
  position,    \* position in the enumeration
  filled,      \* the names given to filler
  found,       \* the handler's peepfs_archive_entry_t
  answer,      \* the latest answer of each thread
  mounted      \* FALSE once the process has crashed

mount_vars == <<disk, at, request, handle, position, filled, found, answer,
                mounted>>
all_vars == <<vars, mount_vars>>

NoHandle == -1   \* peepfs_archive_open returned NULL
ByName == 0      \* libarchive: the file name only, opened again when used

\* Versions: a "file" is a regular file that cannot be opened as an archive.
Version ==
  [kind : {"archive"}, members : Contents] \cup
  [kind : {"file", "gone"}, members : {<<>>}]

OnDisk(a) == Len(disk[a])
IsArchive(a, v) == disk[a][v].kind = "archive"
Members(a, v) == disk[a][v].members
Meta(v, i) == [version |-> v, index |-> i]

NoRequest == [op |-> "none", archivepath |-> NoArchive, relpath |-> Top,
              since |-> 0]
NoAnswer == [request |-> NoRequest, error |-> 0, entry |-> NoMetadata,
             names |-> {}]
ENOENT == 2

Archive(t) == request[t].archivepath

\* peepfs_archive_open; peepfs_libzip_open refuses an archive without members.
Opened(a) ==
  IF \/ ~IsArchive(a, OnDisk(a))
     \/ a \in Zips /\ Members(a, OnDisk(a)) = <<>>
  THEN NoHandle
  ELSE IF a \in Zips THEN OnDisk(a) ELSE ByName

\* The version that an operation on the thread's handle reads.
Source(t) == IF handle[t] = ByName THEN OnDisk(Archive(t)) ELSE handle[t]

\* The names that peepfs_readdir_callback hands to filler, of those it is given.
Directly(names, dir) == {n \in names : Parent[n] = dir}

-----------------------------------------------------------------------------
(* Steps of a handler.  The handler waits while its cache call runs.       *)

Running(t, label) == mounted /\ at[t] = label /\ pc[t] = "idle"

Goto(t, label) == at' = [at EXCEPT ![t] = label]

Answer(t, error, entry, names) ==
  /\ Goto(t, "idle")
  /\ answer' = [answer EXCEPT ![t] = [request |-> request[t], error |-> error,
                                      entry |-> entry, names |-> names]]
  /\ request' = [request EXCEPT ![t] = NoRequest]
  /\ handle' = [handle EXCEPT ![t] = NoHandle]
  /\ position' = [position EXCEPT ![t] = 0]
  /\ filled' = [filled EXCEPT ![t] = {}]
  /\ found' = [found EXCEPT ![t] = NoMetadata]
  /\ UNCHANGED <<disk, mounted>>

\* The request comes in and peepfs_static_archive_path finds a regular file.
Accept(t, op, a, relpath, label) ==
  /\ Running(t, "idle")
  /\ disk[a][OnDisk(a)].kind # "gone"
  /\ request' = [request EXCEPT ![t] =
                   [op |-> op, archivepath |-> a, relpath |-> relpath,
                    since |-> OnDisk(a)]]
  /\ answer' = [answer EXCEPT ![t] = NoAnswer]
  /\ Goto(t, label)
  /\ UNCHANGED <<disk, handle, position, filled, found, mounted>>

Open(t, label) ==
  /\ handle' = [handle EXCEPT ![t] = Opened(Archive(t))]
  /\ Goto(t, label)
  /\ UNCHANGED vars
  /\ UNCHANGED <<disk, request, position, filled, found, answer, mounted>>

\* peepfs_getattr of a name inside an archive.
Getattr(t, a, name) ==
  /\ Accept(t, "getattr", a, name, "get")
  /\ BeginGet(t, a, name)

GetattrHit(t) ==
  /\ Running(t, "get")
  /\ reply[t].error = 0
  /\ Answer(t, 0, served[t][1].entry, {})
  /\ UNCHANGED vars

GetattrMiss(t) ==
  /\ Running(t, "get")
  /\ reply[t].error # 0
  /\ Open(t, "entry_open")

\* peepfs_archive_entry_open follows the NULL archive.
NullArchive(t) ==
  /\ Running(t, "entry_open")
  /\ handle[t] = NoHandle
  /\ mounted' = FALSE
  /\ UNCHANGED vars
  /\ UNCHANGED <<disk, at, request, handle, position, filled, found, answer>>

\* Mutations: the name is not compared; only one member is looked at.
FirstMember(t, i) == i = 1 /\ Members(Archive(t), Source(t)) # <<>>
MatchAtStart(t, i) ==
  FirstMember(t, i) /\ Members(Archive(t), Source(t))[1] = request[t].relpath

(***************************************************************************)
(* The member that entry_open finds: the first whose normalised name is    *)
(* the one asked for, as peepfs_libarchive_entry_open walks to it.         *)
(* peepfs_libzip_entry_open looks up the exact name and, only if there is  *)
(* none, the name with a slash at its end (peepfs_libzip.c:132-140): the   *)
(* same, unless an archive has both.                                       *)
(***************************************************************************)
FirstMatch(t, i) ==
  LET members == Members(Archive(t), Source(t))
      name == request[t].relpath
  IN  /\ i \in 1 .. Len(members)
      /\ members[i] = name
      /\ \A j \in 1 .. i - 1 : members[j] # name

EntryOpen(t) ==
  /\ Running(t, "entry_open")
  /\ handle[t] # NoHandle
  /\ \E i \in 1 .. Len(Members(Archive(t), Source(t))) :
       LET entry == Meta(Source(t), i)
       IN  /\ FirstMatch(t, i)
           /\ found' = [found EXCEPT ![t] = entry]
           /\ BeginInsertAttr(t, Archive(t), request[t].relpath, entry)
  /\ Goto(t, "cached")
  /\ UNCHANGED <<disk, request, handle, position, filled, answer, mounted>>

\* No such member, or the file could not be opened again or read to the member.
EntryMissing(t) ==
  /\ Running(t, "entry_open")
  /\ handle[t] # NoHandle
  /\ \/ ~\E i \in 1 .. Len(Members(Archive(t), Source(t))) : FirstMatch(t, i)
     \/ ReadErrors
  /\ Answer(t, ENOENT, NoMetadata, {})
  /\ UNCHANGED vars

GetattrCached(t) ==
  /\ Running(t, "cached")
  /\ Answer(t, 0, found[t], {})
  /\ UNCHANGED vars

\* peepfs_readdir of a directory inside an archive.
Readdir(t, a, dir) ==
  /\ t \in Readers
  /\ Accept(t, "readdir", a, dir, "scandir")
  /\ BeginScandir(t, a)

ReaddirHit(t) ==
  /\ Running(t, "scandir")
  /\ reply[t].error = 0
  /\ LET names == {served[t][i].path.relpath : i \in 1 .. Len(served[t])}
     IN  Answer(t, 0, NoMetadata, Directly(names, request[t].relpath))
  /\ UNCHANGED vars

ReaddirMiss(t) ==
  /\ Running(t, "scandir")
  /\ reply[t].error # 0
  /\ Open(t, "opened")

\* The Root entry goes in before the first member is read.
CacheRoot(t) ==
  /\ Running(t, "opened")
  /\ BeginInsertRoot(t, Archive(t))
  /\ Goto(t, "rooted")
  /\ UNCHANGED <<disk, request, handle, position, filled, found, answer,
                 mounted>>

CanEnumerate(t) == handle[t] # NoHandle /\ IsArchive(Archive(t), Source(t))

\* peepfs_archive_enumerate starts; from here it reads one open file.
Enumerate(t) ==
  /\ Running(t, "rooted")
  /\ CanEnumerate(t)
  /\ handle' = [handle EXCEPT ![t] = Source(t)]
  /\ position' = [position EXCEPT ![t] = 1]
  /\ Goto(t, "enumerating")
  /\ UNCHANGED vars
  /\ UNCHANGED <<disk, request, filled, found, answer, mounted>>

\* No archive, or libarchive cannot open it again: success, and no names.
NothingToEnumerate(t) ==
  /\ Running(t, "rooted")
  /\ ~CanEnumerate(t)
  /\ Answer(t, 0, NoMetadata, {})
  /\ UNCHANGED vars

Enumerated(t) == Members(Archive(t), handle[t])

\* peepfs_readdir_callback: cache the member, then look at its name.
CacheMember(t) ==
  /\ Running(t, "enumerating")
  /\ position[t] <= Len(Enumerated(t))
  /\ BeginInsertMember(t, Enumerated(t)[position[t]],
                       Meta(handle[t], position[t]))
  /\ Goto(t, "member")
  /\ UNCHANGED <<disk, request, handle, position, filled, found, answer,
                 mounted>>

\* Mutation: the enumeration stays at the member it was at.
FillMemberAgain(t) ==
  /\ Running(t, "member")
  /\ filled' = [filled EXCEPT ![t] =
                  @ \cup Directly({Enumerated(t)[position[t]]},
                                  request[t].relpath)]
  /\ Goto(t, "enumerating")
  /\ UNCHANGED vars
  /\ UNCHANGED <<disk, request, handle, position, found, answer, mounted>>

FillMember(t) ==
  /\ Running(t, "member")
  /\ filled' = [filled EXCEPT ![t] =
                  @ \cup Directly({Enumerated(t)[position[t]]},
                                  request[t].relpath)]
  /\ position' = [position EXCEPT ![t] = @ + 1]
  /\ Goto(t, "enumerating")
  /\ UNCHANGED vars
  /\ UNCHANGED <<disk, request, handle, found, answer, mounted>>

\* Mutation: the last member is left out.
EnumerateDoneEarly(t) ==
  /\ Running(t, "enumerating")
  /\ position[t] >= Len(Enumerated(t)) \/ ReadErrors
  /\ Answer(t, 0, NoMetadata, filled[t])
  /\ UNCHANGED vars

\* The end of the archive, or an error in it, which peepfs_readdir ignores.
EnumerateDone(t) ==
  /\ Running(t, "enumerating")
  /\ position[t] > Len(Enumerated(t)) \/ ReadErrors
  /\ Answer(t, 0, NoMetadata, filled[t])
  /\ UNCHANGED vars

-----------------------------------------------------------------------------
(* The base file system: the archive file is replaced or removed.          *)

Rewrite(a) ==
  /\ OnDisk(a) < MaxVersions
  /\ \E v \in Version : disk' = [disk EXCEPT ![a] = Append(@, v)]
  /\ UNCHANGED vars
  /\ UNCHANGED <<at, request, handle, position, filled, found, answer,
                 mounted>>

MountInit ==
  /\ Init
  /\ disk \in [Archives -> {<<v>> : v \in Version}]
  /\ at = [t \in Threads |-> "idle"]
  /\ request = [t \in Threads |-> NoRequest]
  /\ handle = [t \in Threads |-> NoHandle]
  /\ position = [t \in Threads |-> 0]
  /\ filled = [t \in Threads |-> {}]
  /\ found = [t \in Threads |-> NoMetadata]
  /\ answer = [t \in Threads |-> NoAnswer]
  /\ mounted = TRUE

Request(t) ==
  \/ \E a \in Archives, name \in Asked \cap Names : Getattr(t, a, name)
  \/ \E a \in Archives, dir \in Asked : Readdir(t, a, dir)

\* What the thread itself does once it has a request.
Serve(t) ==
  \/ mounted /\ Critical(t) /\ UNCHANGED mount_vars
  \/ GetattrHit(t)
  \/ GetattrMiss(t)
  \/ NullArchive(t)
  \/ EntryOpen(t)
  \/ EntryMissing(t)
  \/ GetattrCached(t)
  \/ ReaddirHit(t)
  \/ ReaddirMiss(t)
  \/ CacheRoot(t)
  \/ Enumerate(t)
  \/ NothingToEnumerate(t)
  \/ CacheMember(t)
  \/ FillMember(t)
  \/ EnumerateDone(t)

TakeLock(t) == mounted /\ Acquire(t) /\ UNCHANGED mount_vars

MountNext ==
  \/ Tick /\ UNCHANGED mount_vars
  \/ \E a \in Archives : Rewrite(a)
  \/ \E t \in Threads : Request(t) \/ TakeLock(t) \/ Serve(t)

MountSpec == MountInit /\ [][MountNext]_all_vars

(***************************************************************************)
(* A thread with a request is scheduled, and is not passed over for ever   *)
(* when it wants the cache's mutex, which every call soon gives back.      *)
(***************************************************************************)
FairMountSpec ==
  /\ MountSpec
  /\ \A t \in Threads : WF_all_vars(Serve(t)) /\ SF_all_vars(TakeLock(t))

-----------------------------------------------------------------------------
MountTypeOK ==
  /\ TypeOK
  /\ disk \in [Archives -> Seq(Version)]
  /\ \A a \in Archives : disk[a] # <<>>
  /\ at \in [Threads -> {"idle", "get", "entry_open", "cached", "scandir",
                         "opened", "rooted", "enumerating", "member"}]
  /\ request \in [Threads ->
       [op : {"none", "getattr", "readdir"},
        archivepath : Archives \cup {NoArchive}, relpath : Dirs, since : Nat]]
  /\ handle \in [Threads -> Nat \cup {NoHandle}]
  /\ position \in [Threads -> Nat]
  /\ filled \in [Threads -> SUBSET Names]
  /\ found \in [Threads -> Metadata \cup {NoMetadata}]
  /\ mounted \in BOOLEAN

\* The thread's answer, its request and the archive the request was about.
Answered(t, op) == answer[t].request.op = op /\ answer[t].error = 0

Children(a, v, dir) == {n \in Range(Members(a, v)) : Parent[n] = dir}

(***************************************************************************)
(* The chain of a cached directory is the beginning of one enumeration of  *)
(* one version of the archive, in its order and without gaps: what other   *)
(* calls replaced, evicted or expired took the whole directory along.      *)
(***************************************************************************)
DirIsPrefix ==
  \A h \in Live(cache) :
    LET a == cache.ents[h].path.archivepath
        dir == cache.ents[h].dir
    IN  \E v \in 1 .. OnDisk(a) :
          /\ Len(dir) <= Len(Members(a, v))
          /\ \A i \in 1 .. Len(dir) :
               /\ cache.ents[dir[i]].entry = Meta(v, i)
               /\ cache.ents[dir[i]].path.relpath = Members(a, v)[i]

(***************************************************************************)
(* One readdir at a time: every listing, from the cache or from the        *)
(* archive, is the complete directory of one version of the archive file   *)
(* that was on disk, whatever getattr calls, evictions and replacements    *)
(* came in between (peepfs.c:544-561).                                     *)
(***************************************************************************)
ListingComplete ==
  \A t \in Threads : Answered(t, "readdir") =>
    LET q == answer[t].request
    IN  \E v \in 1 .. OnDisk(q.archivepath) :
          answer[t].names = Children(q.archivepath, v, q.relpath)

(***************************************************************************)
(* Also with several readdirs at once, a listing never mixes two versions  *)
(* of the archive and names nothing that was not in it.                    *)
(***************************************************************************)
ListingOfOneVersion ==
  \A t \in Threads : Answered(t, "readdir") =>
    LET q == answer[t].request
    IN  \E v \in 1 .. OnDisk(q.archivepath) :
          answer[t].names \subseteq Children(q.archivepath, v, q.relpath)

(***************************************************************************)
(* What getattr says of a name is about a member of that name, whichever   *)
(* of cache and archive it came from and whoever cached it.                *)
(***************************************************************************)
GetattrOfMember ==
  \A t \in Threads : Answered(t, "getattr") =>
    LET q == answer[t].request
        e == answer[t].entry
    IN  /\ e.version \in 1 .. OnDisk(q.archivepath)
        /\ Members(q.archivepath, e.version)[e.index] = q.relpath

(***************************************************************************)
(* A name that was in the archive from before the call until its answer is *)
(* never reported missing: no ENOENT is kept or made up by the cache.      *)
(***************************************************************************)
NoFalseENOENT ==
  \A t \in Threads :
    LET q == answer[t].request
    IN  q.op = "getattr" /\ answer[t].error = ENOENT =>
          \E v \in q.since .. OnDisk(q.archivepath) :
            q.relpath \notin Range(Members(q.archivepath, v))

(***************************************************************************)
(* README.md:13-14, "File operations on non-archive files are passed       *)
(* through to the base file system": an operation below a file that is no  *)
(* archive is answered with its error and is not the end of the mount.     *)
(***************************************************************************)
StaysMounted == mounted

\* The directories above a member, which extraction creates.
Above[n \in Names] ==
  IF Parent[n] = Top THEN {} ELSE {Parent[n]} \cup Above[Parent[n]]

(***************************************************************************)
(* README.md:9-11, "as though the archive had been extracted": also a      *)
(* directory that the archive has no member for is in the tree, when a     *)
(* member is below it.                                                     *)
(***************************************************************************)
ListingAsExtracted ==
  \A t \in Threads : Answered(t, "readdir") =>
    LET q == answer[t].request
    IN  \E v \in 1 .. OnDisk(q.archivepath) :
          LET members == Range(Members(q.archivepath, v))
          IN  answer[t].names =
                {n \in members \cup UNION {Above[m] : m \in members} :
                   Parent[n] = q.relpath}

\* How far a handler is from its answer: the parts of it still to come, the
\* steps left in the enumeration, and those left in the cache call.
PartsLeft(t) ==
  CASE at[t] = "scandir" -> 4
    [] at[t] \in {"get", "opened"} -> 3
    [] at[t] \in {"entry_open", "rooted"} -> 2
    [] at[t] \in {"cached", "enumerating", "member"} -> 1
    [] OTHER -> 0

MembersLeft(t) ==
  LET left == Len(Enumerated(t)) + 1 - position[t]
  IN  CASE at[t] = "enumerating" -> 2 * left + 1
        [] at[t] = "member" -> 2 * left
        [] OTHER -> 0

CallLeft(t) ==
  CASE pc[t] = "idle" -> 0
    [] pc[t] = "waiting" -> 2 * MaxEntries + 3
    [] OTHER -> StepsLeft(t)

\* A step of t: something of it is less, in the order of their weight.
GetsCloser(t) ==
  \/ PartsLeft(t)' \in 0 .. PartsLeft(t) - 1
  \/ /\ PartsLeft(t)' = PartsLeft(t)
     /\ \/ MembersLeft(t)' \in 0 .. MembersLeft(t) - 1
        \/ /\ MembersLeft(t)' = MembersLeft(t)
           /\ CallLeft(t)' \in 0 .. CallLeft(t) - 1

StaysAsClose(t) ==
  UNCHANGED <<PartsLeft(t), MembersLeft(t), CallLeft(t)>>

HandlersMove ==
  \A t \in Threads :
    at[t] # "idle" =>
      IF Serve(t) \/ TakeLock(t) THEN GetsCloser(t) \/ ~mounted'
                                ELSE StaysAsClose(t)

(***************************************************************************)
(* A handler cannot go round in circles: each step that its thread takes   *)
(* brings its answer closer, over all that it does with the cache and the  *)
(* archive, and no step of another thread, of the clock or of a program    *)
(* that replaces the archive moves it back (peepfs.c:330-352, 544-561).    *)
(***************************************************************************)
RequestAdvances == [][HandlersMove]_all_vars

(***************************************************************************)
(* Every request is answered, unless the process crashed or the bound on   *)
(* entry ids stopped it.                                                   *)
(***************************************************************************)
EveryRequestAnswered ==
  \A t \in Threads :
    (at[t] # "idle") ~> (at[t] = "idle" \/ ~mounted \/ ~IdsLeft)
=============================================================================
