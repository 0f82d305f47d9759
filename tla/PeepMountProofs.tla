---------------------------- MODULE PeepMountProofs ----------------------------
(***************************************************************************)
(* getattr and readdir use the cache as PeepCache says its callers do: a   *)
(* mount implements the cache's specification, so all that is proved of    *)
(* the cache holds of every mount.                                         *)
(***************************************************************************)
EXTENDS PeepMount, PeepCacheProofs

-----------------------------------------------------------------------------
(* What the handlers know between two steps.                               *)

DiskInv ==
  /\ disk \in [Archives -> Seq(Version)]
  /\ \A a \in Archives : OnDisk(a) \in 1 .. MaxVersions

HandlerTypes ==
  /\ at \in [Threads -> {"idle", "get", "entry_open", "cached", "scandir",
                         "opened", "rooted", "enumerating", "member"}]
  /\ request \in [Threads ->
       [op : {"none", "getattr", "readdir"},
        archivepath : Archives \cup {NoArchive}, relpath : Dirs, since : Nat]]
  /\ handle \in [Threads -> Int]
  /\ position \in [Threads -> Nat]

\* A handler has a request, an open handle reads a version that was on disk.
HandlerInv ==
  /\ DiskInv
  /\ HandlerTypes
  /\ \A t \in Threads :
       /\ at[t] # "idle" => Archive(t) \in Archives
       /\ handle[t] # NoHandle =>
            at[t] # "idle" /\ handle[t] \in 0 .. OnDisk(Archive(t))
       /\ at[t] \in {"enumerating", "member"} =>
            handle[t] # NoHandle /\ handle[t] # ByName /\ position[t] >= 1

\* The members of a version have names, and attributes that can be cached.
LEMMA MembersCacheable ==
  ASSUME DiskInv, NEW a \in Archives, NEW v \in 1 .. OnDisk(a)
  PROVE  /\ Members(a, v) \in Seq(Names)
         /\ \A i \in 1 .. Len(Members(a, v)) :
              Members(a, v)[i] \in Names /\ Meta(v, i) \in Metadata
<1>1. disk[a] \in Seq(Version) /\ v \in 1 .. Len(disk[a])
      /\ v \in 1 .. MaxVersions
  BY MountAssumption DEF DiskInv, OnDisk
<1>2. disk[a][v] \in Version
  BY <1>1
<1>3. Members(a, v) \in Contents \/ Members(a, v) = <<>>
  BY <1>2 DEF Version, Members
<1>4. Members(a, v) \in Seq(Names)
  <2>1. Contents \subseteq Seq(Names) /\ <<>> \in Seq(Names)
    BY MountAssumption
  <2> QED BY <1>3, <2>1
<1>5. ASSUME NEW i \in 1 .. Len(Members(a, v))
      PROVE  Members(a, v)[i] \in Names /\ Meta(v, i) \in Metadata
  <2>1. Members(a, v)[i] \in Names
    BY <1>4
  <2>2. Members(a, v) \in Contents
    BY <1>3
  <2>3. [version |-> v, index |-> i] \in Metadata
    BY <1>1, <2>2, MountAssumption
  <2> QED BY <2>1, <2>3 DEF Meta
<1> QED BY <1>4, <1>5

\* An operation on an open handle reads a version that is or was on disk.
LEMMA SourceOnDisk ==
  ASSUME HandlerInv, NEW t \in Threads, handle[t] # NoHandle
  PROVE  Archive(t) \in Archives /\ Source(t) \in 1 .. OnDisk(Archive(t))
<1>1. Archive(t) \in Archives /\ handle[t] \in 0 .. OnDisk(Archive(t))
  BY DEF HandlerInv
<1>2. OnDisk(Archive(t)) \in 1 .. MaxVersions
  BY <1>1 DEF HandlerInv, DiskInv
<1> QED BY <1>1, <1>2, MountAssumption DEF Source, ByName

\* peepfs_archive_open gives no handle, or one on what is on disk now.
LEMMA OpenedOnDisk ==
  ASSUME NEW a \in Archives, OnDisk(a) \in Nat
  PROVE  Opened(a) \in Int /\ (Opened(a) # NoHandle => Opened(a) \in 0 .. OnDisk(a))
BY DEF Opened, NoHandle, ByName

\* A mount starts with an empty cache and idle threads.
LEMMA MountInitHandlers == MountInit => Init /\ HandlerInv
<1> SUFFICES ASSUME MountInit PROVE Init /\ HandlerInv
  OBVIOUS
<1>1. disk \in [Archives -> {<<v>> : v \in Version}]
  BY DEF MountInit
<1>2. ASSUME NEW a \in Archives
      PROVE  disk[a] \in Seq(Version) /\ Len(disk[a]) = 1
  <2>1. PICK v \in Version : disk[a] = <<v>>
    BY <1>1
  <2> QED BY <2>1
<1>3. DiskInv
  <2>1. disk \in [Archives -> Seq(Version)]
    BY <1>1, <1>2
  <2>2. 1 \in 1 .. MaxVersions
    BY MountAssumption
  <2> QED BY <1>2, <2>1, <2>2 DEF DiskInv, OnDisk
<1>4. HandlerTypes
  <2>1. NoRequest \in [op : {"none", "getattr", "readdir"},
          archivepath : Archives \cup {NoArchive}, relpath : Dirs,
          since : Nat]
    BY DEF NoRequest, Dirs
  <2> QED BY <2>1 DEF MountInit, HandlerTypes, NoHandle
<1> QED BY <1>3, <1>4 DEF MountInit, HandlerInv, NoHandle

-----------------------------------------------------------------------------
(* The ways in which a step moves a handler on.                            *)

Labels == {"idle", "get", "entry_open", "cached", "scandir", "opened",
           "rooted", "enumerating", "member"}

\* The handler returns: it has no request and no archive any more.
LEMMA AnswerKeeps ==
  ASSUME HandlerInv, NEW t \in Threads, NEW error, NEW entry, NEW names,
         Answer(t, error, entry, names)
  PROVE  HandlerInv'
<1>1. /\ at' = [at EXCEPT ![t] = "idle"]
      /\ request' = [request EXCEPT ![t] = NoRequest]
      /\ handle' = [handle EXCEPT ![t] = NoHandle]
      /\ position' = [position EXCEPT ![t] = 0]
      /\ disk' = disk
  BY DEF Answer, Goto
<1>2. DiskInv'
  BY <1>1 DEF HandlerInv, DiskInv, OnDisk
<1>3. HandlerTypes'
  BY <1>1 DEF HandlerInv, HandlerTypes, NoRequest, NoHandle, Dirs
<1>4. ASSUME NEW u \in Threads, u # t
      PROVE  /\ at'[u] = at[u] /\ request'[u] = request[u]
             /\ handle'[u] = handle[u] /\ position'[u] = position[u]
  BY <1>1, <1>4 DEF HandlerInv, HandlerTypes
<1>5. at'[t] = "idle" /\ handle'[t] = NoHandle
  BY <1>1 DEF HandlerInv, HandlerTypes
<1> QED BY <1>1, <1>2, <1>3, <1>4, <1>5 DEF HandlerInv, Archive, OnDisk

\* A request comes in.
LEMMA AcceptKeeps ==
  ASSUME HandlerInv, NEW t \in Threads, NEW op \in {"getattr", "readdir"},
         NEW a \in Archives, NEW relpath \in Dirs,
         NEW label \in {"get", "scandir"}, Accept(t, op, a, relpath, label)
  PROVE  HandlerInv'
<1> DEFINE q == [op |-> op, archivepath |-> a, relpath |-> relpath,
                 since |-> OnDisk(a)]
<1>1. /\ at[t] = "idle"
      /\ at' = [at EXCEPT ![t] = label]
      /\ request' = [request EXCEPT ![t] = q]
      /\ handle' = handle
      /\ position' = position
      /\ disk' = disk
  BY DEF Accept, Goto, Running
<1>2. DiskInv'
  BY <1>1 DEF HandlerInv, DiskInv, OnDisk
<1>3. OnDisk(a) \in Nat
  BY DEF HandlerInv, DiskInv
<1>4. q \in [op : {"none", "getattr", "readdir"},
             archivepath : Archives \cup {NoArchive}, relpath : Dirs,
             since : Nat]
  BY <1>3
<1>5. q.archivepath = a
  OBVIOUS
<1> HIDE DEF q
<1>6. HandlerTypes'
  BY <1>1, <1>4 DEF HandlerInv, HandlerTypes
<1>7. ASSUME NEW u \in Threads, u # t
      PROVE  at'[u] = at[u] /\ request'[u] = request[u]
  BY <1>1, <1>7 DEF HandlerInv, HandlerTypes
<1>8. at'[t] = label /\ request'[t] = q /\ handle[t] = NoHandle
  BY <1>1 DEF HandlerInv, HandlerTypes
<1> QED BY <1>1, <1>2, <1>5, <1>6, <1>7, <1>8 DEF HandlerInv, Archive, OnDisk

\* The archive is opened.
LEMMA OpenKeeps ==
  ASSUME HandlerInv, NEW t \in Threads, NEW label \in {"entry_open", "opened"},
         at[t] # "idle", Open(t, label)
  PROVE  HandlerInv'
<1>1. /\ at' = [at EXCEPT ![t] = label]
      /\ handle' = [handle EXCEPT ![t] = Opened(Archive(t))]
      /\ request' = request
      /\ position' = position
      /\ disk' = disk
  BY DEF Open, Goto
<1>2. DiskInv'
  BY <1>1 DEF HandlerInv, DiskInv, OnDisk
<1>3. Archive(t) \in Archives
  BY DEF HandlerInv
<1>4. OnDisk(Archive(t)) \in Nat
  BY <1>3 DEF HandlerInv, DiskInv
<1> DEFINE h == Opened(Archive(t))
<1>5. h \in Int /\ (h # NoHandle => h \in 0 .. OnDisk(Archive(t)))
  BY <1>3, <1>4, OpenedOnDisk
<1>6. handle' = [handle EXCEPT ![t] = h]
  BY <1>1
<1> HIDE DEF h
<1>7. HandlerTypes'
  BY <1>1, <1>5, <1>6 DEF HandlerInv, HandlerTypes
<1>8. ASSUME NEW u \in Threads, u # t
      PROVE  at'[u] = at[u] /\ handle'[u] = handle[u]
  BY <1>1, <1>6, <1>8 DEF HandlerInv, HandlerTypes
<1>9. at'[t] = label /\ handle'[t] = h
  BY <1>1, <1>6 DEF HandlerInv, HandlerTypes
<1> QED BY <1>1, <1>2, <1>3, <1>5, <1>7, <1>8, <1>9
        DEF HandlerInv, Archive, OnDisk

\* The handler goes on with the request and the archive it has.
LEMMA GotoKeeps ==
  ASSUME HandlerInv, NEW t \in Threads, NEW label \in Labels \ {"idle"},
         at[t] # "idle", Goto(t, label),
         label \in {"enumerating", "member"} =>
           handle[t] # NoHandle /\ handle[t] # ByName /\ position'[t] >= 1,
         position' \in [Threads -> Nat],
         \A u \in Threads \ {t} : position'[u] = position[u],
         UNCHANGED <<disk, request, handle>>
  PROVE  HandlerInv'
<1>1. at' = [at EXCEPT ![t] = label]
  BY DEF Goto
<1>2. DiskInv'
  BY DEF HandlerInv, DiskInv, OnDisk
<1>3. HandlerTypes'
  BY <1>1 DEF HandlerInv, HandlerTypes, Labels
<1>4. ASSUME NEW u \in Threads, u # t
      PROVE  at'[u] = at[u]
  BY <1>1, <1>4 DEF HandlerInv, HandlerTypes
<1>5. at'[t] = label /\ label # "idle"
  BY <1>1 DEF HandlerInv, HandlerTypes
<1> QED BY <1>2, <1>3, <1>4, <1>5 DEF HandlerInv, Archive, OnDisk

\* Replacing an archive file takes no version away.
LEMMA RewriteKeeps ==
  ASSUME HandlerInv, NEW a \in Archives, Rewrite(a)
  PROVE  HandlerInv'
<1>1. PICK v \in Version : disk' = [disk EXCEPT ![a] = Append(@, v)]
  BY DEF Rewrite
<1>2. UNCHANGED <<at, request, handle, position>> /\ OnDisk(a) < MaxVersions
  BY DEF Rewrite
<1>3. disk[a] \in Seq(Version) /\ OnDisk(a) \in 1 .. MaxVersions
  BY DEF HandlerInv, DiskInv
<1>4. Append(disk[a], v) \in Seq(Version)
      /\ Len(Append(disk[a], v)) = OnDisk(a) + 1
  BY <1>3 DEF OnDisk
<1>5. ASSUME NEW b \in Archives
      PROVE  /\ disk'[b] \in Seq(Version)
             /\ OnDisk(b)' \in 1 .. MaxVersions
             /\ OnDisk(b) <= OnDisk(b)'
             /\ OnDisk(b) \in Nat
  <2>1. disk'[b] = IF b = a THEN Append(disk[a], v) ELSE disk[b]
    BY <1>1 DEF HandlerInv, DiskInv
  <2>2. disk[b] \in Seq(Version) /\ OnDisk(b) \in 1 .. MaxVersions
    BY DEF HandlerInv, DiskInv
  <2>3. MaxVersions \in Nat
    BY MountAssumption
  <2> QED BY <1>2, <1>3, <1>4, <2>1, <2>2, <2>3 DEF OnDisk
<1>6. DiskInv'
  BY <1>1, <1>5 DEF HandlerInv, DiskInv
<1>7. HandlerTypes'
  BY <1>2 DEF HandlerInv, HandlerTypes
<1>8. ASSUME NEW t \in Threads, handle[t] # NoHandle
      PROVE  handle[t] \in 0 .. OnDisk(Archive(t))'
  <2>1. Archive(t) \in Archives /\ handle[t] \in 0 .. OnDisk(Archive(t))
        /\ Archive(t)' = Archive(t)
    BY <1>2, <1>8 DEF HandlerInv, Archive
  <2>2. /\ OnDisk(Archive(t))' \in 1 .. MaxVersions
        /\ OnDisk(Archive(t)) <= OnDisk(Archive(t))'
        /\ OnDisk(Archive(t)) \in Nat
    BY <1>5, <2>1 DEF OnDisk
  <2>3. MaxVersions \in Nat
    BY MountAssumption
  <2> QED BY <2>1, <2>2, <2>3
<1> QED BY <1>2, <1>6, <1>7, <1>8 DEF HandlerInv, Archive

\* peepfs_archive_enumerate fixes the version it reads.
LEMMA EnumerateKeeps ==
  ASSUME HandlerInv, NEW t \in Threads, Enumerate(t)
  PROVE  HandlerInv'
<1>1. /\ at' = [at EXCEPT ![t] = "enumerating"]
      /\ handle' = [handle EXCEPT ![t] = Source(t)]
      /\ position' = [position EXCEPT ![t] = 1]
      /\ request' = request
      /\ disk' = disk
      /\ handle[t] # NoHandle
  BY DEF Enumerate, Goto, CanEnumerate
<1> DEFINE v == Source(t)
<1>2. Archive(t) \in Archives /\ v \in 1 .. OnDisk(Archive(t))
  BY <1>1, SourceOnDisk
<1>3. handle' = [handle EXCEPT ![t] = v]
  BY <1>1
<1>4. OnDisk(Archive(t)) \in Nat
  BY <1>2 DEF HandlerInv, DiskInv
<1> HIDE DEF v
<1>5. DiskInv'
  BY <1>1 DEF HandlerInv, DiskInv, OnDisk
<1>6. HandlerTypes'
  BY <1>1, <1>2, <1>3, <1>4 DEF HandlerInv, HandlerTypes
<1>7. ASSUME NEW u \in Threads, u # t
      PROVE  /\ at'[u] = at[u] /\ handle'[u] = handle[u]
             /\ position'[u] = position[u]
  BY <1>1, <1>3, <1>7 DEF HandlerInv, HandlerTypes
<1>8. at'[t] = "enumerating" /\ handle'[t] = v /\ position'[t] = 1
  BY <1>1, <1>3 DEF HandlerInv, HandlerTypes
<1>9. v # NoHandle /\ v # ByName /\ v \in 0 .. OnDisk(Archive(t))
  BY <1>2, <1>4 DEF NoHandle, ByName
<1> QED BY <1>1, <1>2, <1>5, <1>6, <1>7, <1>8, <1>9
        DEF HandlerInv, Archive, OnDisk

\* A step that is the cache's alone, or nobody's.
LEMMA IdleKeeps ==
  ASSUME HandlerInv, UNCHANGED <<disk, at, request, handle, position>>
  PROVE  HandlerInv'
BY DEF HandlerInv, DiskInv, HandlerTypes, Archive, OnDisk

-----------------------------------------------------------------------------
(* A step of a mount is a step of the cache, or does not touch it.         *)

\* A call of the cache by one of the threads.
LEMMA CallIsCacheStep ==
  ASSUME NEW t \in Threads, BeginCall(t) \/ Acquire(t) \/ Critical(t)
  PROVE  Next
BY DEF Next, CacheStep

\* A request: getattr asks for an entry, readdir for a directory.
LEMMA RequestStep ==
  ASSUME HandlerInv, NEW t \in Threads, Request(t)
  PROVE  HandlerInv' /\ Next
<1>1. CASE \E a \in Archives, name \in Names : Getattr(t, a, name)
  <2>1. PICK a \in Archives, name \in Names : Getattr(t, a, name)
    BY <1>1
  <2>2. Accept(t, "getattr", a, name, "get") /\ BeginGet(t, a, name)
    BY <2>1 DEF Getattr
  <2>3. HandlerInv'
    BY <2>2, AcceptKeeps DEF Dirs
  <2>4. BeginCall(t)
    BY <2>2 DEF BeginCall
  <2> QED BY <2>3, <2>4, CallIsCacheStep
<1>2. CASE \E a \in Archives, dir \in Dirs : Readdir(t, a, dir)
  <2>1. PICK a \in Archives, dir \in Dirs : Readdir(t, a, dir)
    BY <1>2
  <2>2. Accept(t, "readdir", a, dir, "scandir") /\ BeginScandir(t, a)
    BY <2>1 DEF Readdir
  <2>3. HandlerInv'
    BY <2>2, AcceptKeeps
  <2>4. BeginCall(t)
    BY <2>2 DEF BeginCall
  <2> QED BY <2>3, <2>4, CallIsCacheStep
<1>3. Asked \subseteq Dirs
  BY MountAssumption
<1> QED BY <1>1, <1>2, <1>3 DEF Request

\* What is found in the archive goes into the cache (peepfs.c:343).
LEMMA EntryOpenStep ==
  ASSUME HandlerInv, NEW t \in Threads, EntryOpen(t)
  PROVE  HandlerInv' /\ Next
<1>1. /\ at[t] = "entry_open" /\ handle[t] # NoHandle
      /\ Goto(t, "cached")
      /\ UNCHANGED <<disk, request, handle, position>>
  BY DEF EntryOpen, Running
<1>2. HandlerInv'
  BY <1>1, GotoKeeps DEF Labels, HandlerInv, HandlerTypes
<1>3. PICK i \in 1 .. Len(Members(Archive(t), Source(t))) :
        /\ FirstMatch(t, i)
        /\ BeginInsertAttr(t, Archive(t), request[t].relpath,
                           Meta(Source(t), i))
  BY DEF EntryOpen
<1>4. Archive(t) \in Archives /\ Source(t) \in 1 .. OnDisk(Archive(t))
  BY <1>1, SourceOnDisk
<1>5. /\ Members(Archive(t), Source(t))[i] \in Names
      /\ Meta(Source(t), i) \in Metadata
  BY <1>4, MembersCacheable DEF HandlerInv
<1>6. request[t].relpath \in Names
  BY <1>3, <1>5 DEF FirstMatch
<1>7. BeginCall(t)
  BY <1>3, <1>4, <1>5, <1>6 DEF BeginCall
<1> QED BY <1>2, <1>7, CallIsCacheStep

\* The Root entry goes in (peepfs.c:553).
LEMMA CacheRootStep ==
  ASSUME HandlerInv, NEW t \in Threads, CacheRoot(t)
  PROVE  HandlerInv' /\ Next
<1>1. /\ at[t] = "opened"
      /\ Goto(t, "rooted")
      /\ UNCHANGED <<disk, request, handle, position>>
      /\ BeginInsertRoot(t, Archive(t))
  BY DEF CacheRoot, Running
<1>2. HandlerInv'
  BY <1>1, GotoKeeps DEF Labels, HandlerInv, HandlerTypes
<1>3. Archive(t) \in Archives
  BY <1>1 DEF HandlerInv
<1>4. BeginCall(t)
  BY <1>1, <1>3 DEF BeginCall
<1> QED BY <1>2, <1>4, CallIsCacheStep

\* Each member goes in (peepfs.c:414).
LEMMA CacheMemberStep ==
  ASSUME HandlerInv, NEW t \in Threads, CacheMember(t)
  PROVE  HandlerInv' /\ Next
<1>1. /\ at[t] = "enumerating"
      /\ Goto(t, "member")
      /\ UNCHANGED <<disk, request, handle, position>>
      /\ position[t] <= Len(Enumerated(t))
      /\ BeginInsertMember(t, Enumerated(t)[position[t]],
                           Meta(handle[t], position[t]))
  BY DEF CacheMember, Running
<1>2. /\ handle[t] # NoHandle /\ handle[t] # ByName /\ position[t] >= 1
      /\ handle[t] \in 0 .. OnDisk(Archive(t)) /\ Archive(t) \in Archives
  BY <1>1 DEF HandlerInv
<1>3. OnDisk(Archive(t)) \in Nat /\ position[t] \in Nat
  BY <1>2 DEF HandlerInv, DiskInv, HandlerTypes
<1>4. HandlerInv'
  BY <1>1, <1>2, GotoKeeps DEF Labels, HandlerInv, HandlerTypes
<1>5. handle[t] \in 1 .. OnDisk(Archive(t))
  BY <1>2, <1>3 DEF ByName
<1>6. Enumerated(t) \in Seq(Names)
  BY <1>2, <1>5, MembersCacheable DEF HandlerInv, Enumerated
<1>7. position[t] \in 1 .. Len(Enumerated(t))
  BY <1>1, <1>2, <1>3, <1>6
<1>8. /\ Enumerated(t)[position[t]] \in Names
      /\ Meta(handle[t], position[t]) \in Metadata
  BY <1>2, <1>5, <1>7, MembersCacheable DEF HandlerInv, Enumerated
<1>9. BeginCall(t)
  BY <1>1, <1>8 DEF BeginCall
<1> QED BY <1>4, <1>9, CallIsCacheStep

\* What the thread does with its request.
LEMMA ServeStep ==
  ASSUME HandlerInv, NEW t \in Threads, Serve(t)
  PROVE  HandlerInv' /\ (Next \/ UNCHANGED vars)
<1>1. CASE mounted /\ Critical(t) /\ UNCHANGED mount_vars
  BY <1>1, IdleKeeps, CallIsCacheStep DEF mount_vars
<1>2. CASE GetattrHit(t)
  BY <1>2, AnswerKeeps DEF GetattrHit
<1>3. CASE GetattrMiss(t)
  BY <1>3, OpenKeeps DEF GetattrMiss, Running, Open
<1>4. CASE NullArchive(t)
  BY <1>4, IdleKeeps DEF NullArchive
<1>5. CASE EntryOpen(t)
  BY <1>5, EntryOpenStep
<1>6. CASE EntryMissing(t)
  BY <1>6, AnswerKeeps DEF EntryMissing
<1>7. CASE GetattrCached(t)
  BY <1>7, AnswerKeeps DEF GetattrCached
<1>8. CASE ReaddirHit(t)
  <2>1. PICK names : Answer(t, 0, NoMetadata, names)
    BY <1>8 DEF ReaddirHit
  <2>2. HandlerInv'
    BY <2>1, AnswerKeeps
  <2> QED BY <1>8, <2>2 DEF ReaddirHit
<1>9. CASE ReaddirMiss(t)
  BY <1>9, OpenKeeps DEF ReaddirMiss, Running, Open
<1>10. CASE CacheRoot(t)
  BY <1>10, CacheRootStep
<1>11. CASE Enumerate(t)
  BY <1>11, EnumerateKeeps DEF Enumerate
<1>12. CASE NothingToEnumerate(t)
  BY <1>12, AnswerKeeps DEF NothingToEnumerate
<1>13. CASE CacheMember(t)
  BY <1>13, CacheMemberStep
<1>14. CASE FillMember(t)
  <2>1. /\ at[t] = "member"
        /\ Goto(t, "enumerating")
        /\ UNCHANGED <<disk, request, handle>>
        /\ position' = [position EXCEPT ![t] = @ + 1]
    BY <1>14 DEF FillMember, Running
  <2>2. /\ position \in [Threads -> Nat]
        /\ handle[t] # NoHandle /\ handle[t] # ByName /\ position[t] >= 1
    BY <2>1 DEF HandlerInv, HandlerTypes
  <2>3. /\ position' \in [Threads -> Nat] /\ position'[t] >= 1
        /\ \A u \in Threads \ {t} : position'[u] = position[u]
    BY <2>1, <2>2
  <2>4. HandlerInv'
    BY <2>1, <2>2, <2>3, GotoKeeps DEF Labels
  <2> QED BY <1>14, <2>4 DEF FillMember
<1>15. CASE EnumerateDone(t)
  BY <1>15, AnswerKeeps DEF EnumerateDone
<1> QED BY <1>1, <1>2, <1>3, <1>4, <1>5, <1>6, <1>7, <1>8, <1>9, <1>10,
           <1>11, <1>12, <1>13, <1>14, <1>15 DEF Serve

\* Any step of a mount.
LEMMA MountStep ==
  HandlerInv /\ [MountNext]_all_vars => HandlerInv' /\ [Next]_vars
<1> SUFFICES ASSUME HandlerInv, [MountNext]_all_vars
             PROVE  HandlerInv' /\ [Next]_vars
  OBVIOUS
<1>1. CASE UNCHANGED all_vars
  BY <1>1, IdleKeeps DEF all_vars, mount_vars
<1>2. CASE Tick /\ UNCHANGED mount_vars
  BY <1>2, IdleKeeps DEF mount_vars, Next
<1>3. CASE \E a \in Archives : Rewrite(a)
  BY <1>3, RewriteKeeps DEF Rewrite
<1>4. ASSUME NEW t \in Threads, Request(t) \/ TakeLock(t) \/ Serve(t)
      PROVE  HandlerInv' /\ [Next]_vars
  <2>1. CASE Request(t)
    BY <2>1, RequestStep
  <2>2. CASE TakeLock(t)
    BY <2>2, IdleKeeps, CallIsCacheStep DEF TakeLock, mount_vars
  <2>3. CASE Serve(t)
    BY <2>3, ServeStep
  <2> QED BY <1>4, <2>1, <2>2, <2>3
<1> QED BY <1>1, <1>2, <1>3, <1>4 DEF MountNext

-----------------------------------------------------------------------------
(* The theorems.                                                           *)

(***************************************************************************)
(* The handlers of peepfs.c use the cache as its specification says: every *)
(* run of a mount is, for the cache, a run of PeepCache.                   *)
(***************************************************************************)
THEOREM MountImplementsCache == MountSpec => Spec
<1>1. MountInit => Init /\ HandlerInv
  BY MountInitHandlers
<1>2. HandlerInv /\ [MountNext]_all_vars => HandlerInv' /\ [Next]_vars
  BY MountStep
<1> QED BY <1>1, <1>2, PTL DEF MountSpec, Spec

(***************************************************************************)
(* In every mount the cache is sound: its structures agree, it is bounded, *)
(* no chain dangles, and nothing older than the grace period is served.    *)
(***************************************************************************)
THEOREM MountKeepsCacheSound == MountSpec => []Invariant
BY MountImplementsCache, InvariantHolds, PTL
===============================================================================
