----------------------- MODULE PeepMountListingProofs -----------------------
(***************************************************************************)
(* What getattr and readdir answer about the inside of archives is true:   *)
(* for any threads, archives and names, and any sequence of replacements,  *)
(* evictions and expiries, however the handlers' steps interleave.         *)
(***************************************************************************)
EXTENDS PeepMountProofs, PeepCacheScanProofs, PeepMountFresh,
        NaturalsInduction, WellFoundedInduction

-----------------------------------------------------------------------------
(* What each handler waits for.                                            *)

\* Versions stay: an archive file only gets more of them.
Grows(d, e) ==
  \A a \in Archives : /\ Len(d[a]) <= Len(e[a])
                      /\ \A v \in 1 .. Len(d[a]) : e[a][v] = d[a][v]

\* A step that is another thread's.
Same(u) ==
  /\ pc'[u] = pc[u] /\ call'[u] = call[u] /\ served'[u] = served[u]
  /\ reply'[u] = reply[u] /\ dir_id'[u] = dir_id[u]
  /\ at'[u] = at[u] /\ request'[u] = request[u] /\ handle'[u] = handle[u]
  /\ position'[u] = position[u] /\ filled'[u] = filled[u]
  /\ found'[u] = found[u] /\ answer'[u] = answer[u]

\* Each thread has its own.
Functions ==
  /\ filled = [t \in Threads |-> filled[t]]
  /\ found = [t \in Threads |-> found[t]]
  /\ answer = [t \in Threads |-> answer[t]]

MemberPath(t) ==
  [archivepath |-> Archive(t), relpath |-> request[t].relpath]

\* The call of the cache that is in progress at each place of the handlers.
CallOf(t) ==
  /\ at[t] \in {"get", "cached", "scandir", "rooted", "member"}
  /\ at[t] = "get" => call[t].op = "get" /\ call[t].path = MemberPath(t)
  /\ at[t] = "cached" =>
       /\ call[t].op = "insert" /\ call[t].archive_id = NoId
       /\ call[t].path = MemberPath(t) /\ call[t].entry = found[t]
  /\ at[t] = "scandir" =>
       call[t].op = "scandir" /\ call[t].path = RootPath(Archive(t))
  /\ at[t] = "rooted" =>
       call[t].op = "insert" /\ call[t].path = RootPath(Archive(t))
  /\ at[t] = "member" =>
       /\ call[t].op = "insert" /\ call[t].archive_id = dir_id[t].id
       /\ call[t].path = [archivepath |-> dir_id[t].archivepath,
                          relpath |-> Enumerated(t)[position[t]]]
       /\ call[t].entry = Meta(handle[t], position[t])

\* A thread has added its Root entry and adds the members.
Filling(t) == \/ at[t] \in {"enumerating", "member"}
              \/ at[t] = "rooted" /\ pc[t] = "idle"

\* A handler serves its request, with a handle from the time of the request.
Serving(t) ==
  /\ pc[t] = "idle" => call[t].op = "none"
  /\ pc[t] # "idle" => CallOf(t)
  /\ at[t] \in {"get", "entry_open", "cached"} =>
       request[t].op = "getattr" /\ request[t].relpath \in Names
  /\ at[t] \in {"scandir", "opened", "rooted", "enumerating", "member"} =>
       request[t].op = "readdir" /\ t \in Readers
  /\ at[t] # "idle" => request[t].since \in 1 .. OnDisk(Archive(t))
  /\ handle[t] \notin {NoHandle, ByName} =>
       /\ handle[t] >= request[t].since
       /\ IsArchive(Archive(t), handle[t])
  /\ at[t] \in {"entry_open", "opened", "rooted"} /\ handle[t] = NoHandle =>
       \E v \in request[t].since .. OnDisk(Archive(t)) :
         Members(Archive(t), v) = <<>>
  /\ Filling(t) => dir_id[t].archivepath = Archive(t)
  /\ at[t] = "enumerating" => position[t] <= Len(Enumerated(t)) + 1
  /\ at[t] = "member" => position[t] <= Len(Enumerated(t))

ServingInv == Functions /\ \A t \in Threads : Serving(t)

\* The steps of a thread.
StepOf(t) == Request(t) \/ TakeLock(t) \/ Serve(t)

OneOfEach ==
  /\ DOMAIN pc = Threads /\ DOMAIN call = Threads /\ DOMAIN served = Threads
  /\ DOMAIN reply = Threads /\ DOMAIN dir_id = Threads /\ DOMAIN at = Threads
  /\ DOMAIN request = Threads /\ DOMAIN handle = Threads
  /\ DOMAIN position = Threads /\ DOMAIN filled = Threads
  /\ DOMAIN found = Threads /\ DOMAIN answer = Threads

\* Each thread has one of each.
LEMMA EachThread ==
  Invariant /\ HandlerInv /\ Functions => OneOfEach
<1>1. Functions => DOMAIN filled = Threads /\ DOMAIN found = Threads
                   /\ DOMAIN answer = Threads
  BY DEF Functions
<1> QED BY <1>1 DEF OneOfEach, Invariant, TypeOK, HandlerInv, HandlerTypes

\* A thread changes its own part of the state only.
LEMMA OthersSame ==
  ASSUME Invariant, HandlerInv, Functions, NEW t \in Threads, StepOf(t),
         NEW u \in Threads, u # t
  PROVE  Same(u)
<1>1. OneOfEach
  BY EachThread
<1> USE DEF OneOfEach
<1>2. CASE TakeLock(t)
  BY <1>1, <1>2 DEF TakeLock, Acquire, mount_vars, Same
<1>3. CASE Critical(t) /\ UNCHANGED mount_vars
  BY <1>1, <1>3 DEF Critical, ExpungeOne, InsertDone, InsertNoMemory, GetHit,
     Miss, ScanBegin, ScanMember, ScanEnd, Unlock, RememberDir, mount_vars, Same
<1>4. ASSUME NEW op, NEW path, NEW archive_id, NEW entry, NEW now,
             Begin(t, op, path, archive_id, entry, now)
      PROVE  /\ pc'[u] = pc[u] /\ call'[u] = call[u] /\ served'[u] = served[u]
             /\ reply'[u] = reply[u] /\ dir_id'[u] = dir_id[u]
  BY <1>1, <1>4 DEF Begin
<1>5. CASE Request(t)
  BY <1>1, <1>4, <1>5 DEF Request, Getattr, Readdir, Accept, Goto, BeginGet,
     BeginScandir, Same
<1>6. CASE EntryOpen(t) \/ CacheRoot(t) \/ CacheMember(t)
  BY <1>1, <1>4, <1>6 DEF EntryOpen, CacheRoot, CacheMember, Goto,
     BeginInsertAttr, BeginInsertRoot, BeginInsertMember, BeginInsert, Same
<1>7. ASSUME NEW error, NEW entry, NEW names, Answer(t, error, entry, names),
             UNCHANGED vars
      PROVE  Same(u)
  BY <1>1, <1>7 DEF Answer, Goto, vars, Same
<1>8. CASE \/ GetattrHit(t) \/ EntryMissing(t) \/ GetattrCached(t)
           \/ ReaddirHit(t) \/ NothingToEnumerate(t) \/ EnumerateDone(t)
  BY <1>7, <1>8 DEF GetattrHit, EntryMissing, GetattrCached, ReaddirHit,
     NothingToEnumerate, EnumerateDone
<1>9. CASE \/ GetattrMiss(t) \/ ReaddirMiss(t) \/ NullArchive(t)
           \/ Enumerate(t) \/ FillMember(t)
  BY <1>1, <1>9 DEF GetattrMiss, ReaddirMiss, Open, NullArchive, Enumerate,
     FillMember, Goto, vars, Same
<1> QED BY <1>2, <1>3, <1>5, <1>6, <1>8, <1>9 DEF StepOf, Serve

\* Archive files are not the handlers' to change.
LEMMA HandlersLeaveDisk ==
  ASSUME NEW t \in Threads, Request(t) \/ TakeLock(t) \/ Serve(t)
  PROVE  disk' = disk
<1>1. CASE Request(t) \/ TakeLock(t)
  BY <1>1 DEF Request, Getattr, Readdir, Accept, TakeLock, mount_vars
<1>2. CASE Critical(t) /\ UNCHANGED mount_vars
  BY <1>2 DEF mount_vars
<1>3. CASE \/ GetattrHit(t) \/ EntryMissing(t) \/ GetattrCached(t)
           \/ ReaddirHit(t) \/ NothingToEnumerate(t) \/ EnumerateDone(t)
  BY <1>3 DEF GetattrHit, EntryMissing, GetattrCached, ReaddirHit,
     NothingToEnumerate, EnumerateDone, Answer
<1>4. CASE GetattrMiss(t) \/ ReaddirMiss(t) \/ EntryOpen(t) \/ NullArchive(t)
  BY <1>4 DEF GetattrMiss, ReaddirMiss, Open, EntryOpen, NullArchive
<1>5. CASE CacheRoot(t) \/ Enumerate(t) \/ CacheMember(t) \/ FillMember(t)
  BY <1>5 DEF CacheRoot, Enumerate, CacheMember, FillMember
<1> QED BY <1>1, <1>2, <1>3, <1>4, <1>5 DEF Serve

\* No step takes a version of an archive file away.
LEMMA StepGrows ==
  HandlerInv /\ [MountNext]_all_vars => Grows(disk, disk')
<1> SUFFICES ASSUME HandlerInv, [MountNext]_all_vars
             PROVE  Grows(disk, disk')
  OBVIOUS
<1>1. disk \in [Archives -> Seq(Version)]
  BY DEF HandlerInv, DiskInv
<1>2. CASE disk' = disk
  BY <1>1, <1>2 DEF Grows
<1>3. ASSUME NEW a \in Archives, Rewrite(a) PROVE Grows(disk, disk')
  <2>1. PICK v \in Version : disk' = [disk EXCEPT ![a] = Append(@, v)]
    BY <1>3 DEF Rewrite
  <2>2. disk'[a] = Append(disk[a], v)
        /\ \A b \in Archives \ {a} : disk'[b] = disk[b]
    BY <1>1, <2>1
  <2>3. disk[a] \in Seq(Version)
    BY <1>1
  <2>4. /\ Len(Append(disk[a], v)) = Len(disk[a]) + 1
        /\ \A i \in 1 .. Len(disk[a]) : Append(disk[a], v)[i] = disk[a][i]
        /\ Len(disk[a]) \in Nat
    BY <2>3, AppendProperties
  <2> QED BY <1>1, <2>2, <2>4 DEF Grows
<1>4. disk' = disk \/ \E a \in Archives : Rewrite(a)
  BY HandlersLeaveDisk DEF MountNext, all_vars, mount_vars
<1> QED BY <1>2, <1>3, <1>4

\* What was on disk is the same afterwards.
LEMMA VersionStays ==
  ASSUME DiskInv, DiskInv', Grows(disk, disk'), NEW a \in Archives,
         NEW v \in 1 .. OnDisk(a)
  PROVE  /\ v \in 1 .. OnDisk(a)' /\ disk'[a][v] = disk[a][v]
BY DEF Grows, OnDisk, DiskInv

\* A handle on a version is on one that is or was on disk.
LEMMA HandleOnDisk ==
  ASSUME HandlerInv, NEW t \in Threads, handle[t] \notin {NoHandle, ByName}
  PROVE  /\ Archive(t) \in Archives /\ handle[t] \in 1 .. OnDisk(Archive(t))
         /\ at[t] # "idle"
<1>1. /\ at[t] # "idle" /\ Archive(t) \in Archives
      /\ handle[t] \in 0 .. OnDisk(Archive(t))
  BY DEF HandlerInv
<1>2. OnDisk(Archive(t)) \in Nat
  BY <1>1 DEF HandlerInv, DiskInv
<1> QED BY <1>1, <1>2 DEF ByName

\* The other threads' handlers stay where they are.
LEMMA SameServes ==
  ASSUME HandlerInv, HandlerInv', Grows(disk, disk'), NEW u \in Threads,
         Same(u), Serving(u)
  PROVE  Serving(u)'
<1>1. /\ Archive(u)' = Archive(u)
      /\ at[u] # "idle" => Archive(u) \in Archives
  BY DEF Same, Archive, HandlerInv
<1>2. handle[u] \notin {NoHandle, ByName} =>
        disk'[Archive(u)][handle[u]] = disk[Archive(u)][handle[u]]
  BY HandleOnDisk, VersionStays DEF HandlerInv
<1>3. at[u] # "idle" => /\ OnDisk(Archive(u)) <= OnDisk(Archive(u))'
                        /\ OnDisk(Archive(u)) \in Nat
                        /\ OnDisk(Archive(u))' \in Nat
  BY <1>1 DEF Grows, OnDisk, HandlerInv, DiskInv
<1>4. at[u] \in {"enumerating", "member"} =>
        handle[u] \notin {NoHandle, ByName}
  BY DEF HandlerInv
<1>5. at[u] \in {"enumerating", "member"} => Enumerated(u)' = Enumerated(u)
  BY <1>1, <1>2, <1>4 DEF Same, Enumerated, Members
<1>6. pc[u] # "idle" => CallOf(u)'
  BY <1>1, <1>5 DEF Serving, CallOf, Same, MemberPath
<1>7. handle[u] \notin {NoHandle, ByName} =>
        (IsArchive(Archive(u), handle[u]) => IsArchive(Archive(u), handle[u])')
  BY <1>1, <1>2 DEF IsArchive, Same
<1>8. ASSUME at[u] # "idle", NEW v \in 1 .. OnDisk(Archive(u)),
             Members(Archive(u), v) = <<>>
      PROVE  v \in 1 .. OnDisk(Archive(u))' /\ Members(Archive(u), v)' = <<>>
  <2>1. Archive(u) \in Archives /\ DiskInv /\ DiskInv'
    BY <1>1, <1>8 DEF HandlerInv
  <2> DEFINE a == Archive(u)
  <2>2. a \in Archives /\ v \in 1 .. OnDisk(a)
    BY <2>1
  <2>3. Len(disk[a]) <= Len(disk'[a]) /\ disk'[a][v] = disk[a][v]
    BY <2>2 DEF Grows, OnDisk
  <2> QED BY <1>1, <1>3, <1>8, <2>3 DEF Members, OnDisk
<1>9. at[u] \in {"entry_open", "opened", "rooted"} /\ handle[u] = NoHandle =>
        (\E v \in request[u].since .. OnDisk(Archive(u)) :
           Members(Archive(u), v) = <<>>)'
  <2>1. SUFFICES ASSUME at[u] # "idle", handle[u] = NoHandle,
                        at[u] \in {"entry_open", "opened", "rooted"}
                 PROVE  \E v \in request'[u].since .. OnDisk(Archive(u))' :
                          Members(Archive(u), v)' = <<>>
    OBVIOUS
  <2>2. PICK v \in request[u].since .. OnDisk(Archive(u)) :
          Members(Archive(u), v) = <<>>
    BY <2>1 DEF Serving
  <2>3. request[u].since \in 1 .. OnDisk(Archive(u)) /\ request'[u] = request[u]
    BY <2>1 DEF Serving, Same
  <2>4. v \in 1 .. OnDisk(Archive(u))
    BY <1>3, <2>1, <2>2, <2>3
  <2>5. v \in 1 .. OnDisk(Archive(u))' /\ Members(Archive(u), v)' = <<>>
    BY <1>8, <2>1, <2>2, <2>4
  <2> QED BY <1>3, <2>1, <2>2, <2>3, <2>5
<1>10. at[u] # "idle" => request'[u].since \in 1 .. OnDisk(Archive(u))'
  BY <1>1, <1>3 DEF Serving, Same
<1>11. /\ pc'[u] = pc[u] /\ at'[u] = at[u] /\ call'[u] = call[u]
       /\ request'[u] = request[u] /\ handle'[u] = handle[u]
       /\ dir_id'[u] = dir_id[u] /\ position'[u] = position[u]
  BY DEF Same
<1>12. /\ pc'[u] = "idle" => call'[u].op = "none"
       /\ at'[u] \in {"get", "entry_open", "cached"} =>
            request'[u].op = "getattr" /\ request'[u].relpath \in Names
       /\ at'[u] \in {"scandir", "opened", "rooted", "enumerating", "member"} =>
            request'[u].op = "readdir" /\ u \in Readers
       /\ handle'[u] \notin {NoHandle, ByName} =>
            handle'[u] >= request'[u].since /\ IsArchive(Archive(u), handle[u])'
  BY <1>7, <1>11 DEF Serving
<1>13. /\ Filling(u)' => dir_id'[u].archivepath = Archive(u)'
       /\ at'[u] = "enumerating" => position'[u] <= Len(Enumerated(u)') + 1
       /\ at'[u] = "member" => position'[u] <= Len(Enumerated(u)')
  BY <1>1, <1>5, <1>11 DEF Serving, Filling
<1> QED BY <1>1, <1>6, <1>9, <1>10, <1>11, <1>12, <1>13 DEF Serving

-----------------------------------------------------------------------------
(* What a step makes of its own thread.                                    *)

\* A handler that the cache works for has a call; a member's has its name.
LEMMA InCall ==
  ASSUME Invariant, HandlerInv, NEW t \in Threads, Serving(t), pc[t] # "idle"
  PROVE  /\ at[t] \in {"get", "cached", "scandir", "rooted", "member"}
         /\ Archive(t) \in Archives
         /\ call[t].path.relpath = Root <=> at[t] \in {"scandir", "rooted"}
         /\ at[t] = "member" => /\ handle[t] \in 1 .. OnDisk(Archive(t))
                                /\ position[t] \in 1 .. Len(Enumerated(t))
                                /\ Enumerated(t)[position[t]] \in Names
<1>1. CallOf(t)
  BY DEF Serving
<1>2. at[t] \in {"get", "cached", "scandir", "rooted", "member"}
  BY <1>1 DEF CallOf
<1>3. Archive(t) \in Archives
  BY <1>2 DEF HandlerInv
<1>4. CASE at[t] = "member"
  <2>1. handle[t] \notin {NoHandle, ByName} /\ position[t] >= 1
        /\ position[t] \in Nat
    BY <1>4 DEF HandlerInv, HandlerTypes
  <2>2. handle[t] \in 1 .. OnDisk(Archive(t))
    BY <2>1, HandleOnDisk
  <2>3. Enumerated(t) \in Seq(Names)
    BY <1>3, <2>2, MembersCacheable DEF HandlerInv, Enumerated
  <2>4. position[t] \in 1 .. Len(Enumerated(t))
    BY <1>4, <2>1, <2>3 DEF Serving
  <2>5. Enumerated(t)[position[t]] \in Names
    BY <2>3, <2>4
  <2>6. call[t].path.relpath # Root
    BY <1>1, <1>4, <2>5, CacheAssumption DEF CallOf
  <2> QED BY <1>2, <1>3, <1>4, <2>2, <2>4, <2>5, <2>6
<1>5. CASE at[t] \in {"get", "cached"}
  <2>1. call[t].path.relpath = request[t].relpath /\ request[t].relpath \in Names
    BY <1>1, <1>5 DEF CallOf, Serving, MemberPath
  <2> QED BY <1>2, <1>3, <1>5, <2>1, CacheAssumption
<1>6. CASE at[t] \in {"scandir", "rooted"}
  BY <1>1, <1>2, <1>3, <1>6 DEF CallOf, RootPath
<1> QED BY <1>2, <1>4, <1>5, <1>6

\* The cache's steps of a call, up to the last.
CallGoesOn(t) ==
  /\ pc[t] # "idle" /\ pc'[t] # "idle" /\ pc'[t] # "waiting"
  /\ call'[t] = call[t] /\ dir_id'[t] = dir_id[t] /\ reply'[t] = reply[t]
  /\ UNCHANGED mount_vars

\* The last.
CallReturns(t) ==
  /\ pc[t] # "idle" /\ pc'[t] = "idle" /\ call'[t] = NoCall
  /\ dir_id'[t] = IF at[t] = "rooted"
                  THEN [archivepath |-> Archive(t), id |-> dir_id'[t].id]
                  ELSE dir_id[t]
  /\ UNCHANGED mount_vars

\* Those are all the steps of a thread in the cache.
LEMMA CallSteps ==
  ASSUME Invariant, HandlerInv, NEW t \in Threads, Serving(t),
         TakeLock(t) \/ (Critical(t) /\ UNCHANGED mount_vars)
  PROVE  \/ CallGoesOn(t)
            /\ (TakeLock(t) \/ ExpungeOne(t) \/ ScanBegin(t) \/ ScanMember(t))
         \/ CallReturns(t)
            /\ (\/ InsertDone(t) \/ InsertNoMemory(t) \/ GetHit(t)
                \/ Miss(t) \/ ScanEnd(t))
<1>1. /\ pc \in [Threads -> {"idle", "waiting", "locked", "scanning"}]
      /\ call \in [Threads -> CallType]
      /\ DOMAIN dir_id = Threads
  BY DEF Invariant, TypeOK
<1>2. CASE TakeLock(t) \/ ExpungeOne(t) \/ ScanBegin(t) \/ ScanMember(t)
  BY <1>1, <1>2 DEF TakeLock, Acquire, ExpungeOne, ScanBegin, ScanMember,
     InBody, CallGoesOn
<1>3. CASE InsertDone(t) \/ InsertNoMemory(t)
  <2>1. PICK id : /\ pc[t] = "locked" /\ call[t].op = "insert"
                  /\ Unlock(t, 0, id) /\ RememberDir(t, id)
                  /\ UNCHANGED mount_vars
    BY <1>3 DEF InsertDone, InsertNoMemory, InBody, TakeLock
  <2>2. pc[t] # "idle" /\ pc'[t] = "idle" /\ call'[t] = NoCall
    BY <1>1, <2>1 DEF Unlock
  <2>3. CallOf(t)
    BY <2>1 DEF Serving
  <2>4. CASE at[t] = "rooted"
    <3>1. call[t].path = RootPath(Archive(t))
      BY <2>3, <2>4 DEF CallOf
    <3>2. dir_id'[t] = [archivepath |-> Archive(t), id |-> id]
      BY <1>1, <2>1, <3>1 DEF RememberDir, RootPath
    <3> QED BY <1>3, <2>1, <2>2, <2>4, <3>2 DEF CallReturns
  <2>5. CASE at[t] # "rooted"
    <3>1. at[t] # "scandir"
      BY <2>1, <2>3 DEF CallOf
    <3>2. call[t].path.relpath # Root
      BY <2>2, <2>5, <3>1, InCall
    <3>3. dir_id'[t] = dir_id[t]
      BY <2>1, <3>2 DEF RememberDir
    <3> QED BY <1>3, <2>1, <2>2, <2>5, <3>3 DEF CallReturns
  <2> QED BY <2>4, <2>5
<1>4. CASE GetHit(t) \/ Miss(t) \/ ScanEnd(t)
  <2>1. /\ pc[t] # "idle" /\ pc'[t] = "idle" /\ call'[t] = NoCall
        /\ dir_id' = dir_id /\ UNCHANGED mount_vars
        /\ call[t].op # "insert"
    <3>1. pc[t] = "scanning" => call[t].op = "scandir"
      BY DEF Invariant, CallInv
    <3> QED BY <1>1, <1>4, <3>1 DEF GetHit, Miss, ScanEnd, Unlock, InBody,
               TakeLock, Acquire
  <2>2. at[t] # "rooted"
    BY <2>1 DEF Serving, CallOf
  <2> QED BY <1>4, <2>1, <2>2 DEF CallReturns
<1> QED BY <1>2, <1>3, <1>4 DEF Critical


\* Its steps in the cache.
LEMMA CallServes ==
  ASSUME Invariant, HandlerInv, NEW t \in Threads, Serving(t),
         CallGoesOn(t) \/ CallReturns(t)
  PROVE  Serving(t)'
<1>1. /\ CallOf(t) /\ pc[t] # "idle" /\ UNCHANGED mount_vars
  BY DEF CallGoesOn, CallReturns, Serving
<1> USE DEF mount_vars
<1>2. /\ Archive(t)' = Archive(t) /\ Enumerated(t)' = Enumerated(t)
      /\ OnDisk(Archive(t))' = OnDisk(Archive(t))
      /\ \A v : /\ IsArchive(Archive(t), v)' = IsArchive(Archive(t), v)
                /\ Members(Archive(t), v)' = Members(Archive(t), v)
  BY <1>1 DEF Archive, Enumerated, Members, OnDisk, IsArchive
<1>3. CASE CallGoesOn(t)
  <2>1. pc'[t] # "idle" /\ call'[t] = call[t] /\ dir_id'[t] = dir_id[t]
    BY <1>3 DEF CallGoesOn
  <2>2. CallOf(t)'
    BY <1>1, <1>2, <2>1 DEF CallOf, MemberPath
  <2>3. Filling(t)' => dir_id'[t].archivepath = Archive(t)'
    BY <1>1, <1>2, <2>1 DEF Filling, Serving
  <2> QED BY <1>1, <1>2, <2>1, <2>2, <2>3 DEF Serving
<1>4. CASE CallReturns(t)
  <2>1. /\ pc'[t] = "idle" /\ call'[t] = NoCall
        /\ at[t] # "rooted" => dir_id'[t] = dir_id[t]
        /\ at[t] = "rooted" => dir_id'[t].archivepath = Archive(t)
    BY <1>4 DEF CallReturns
  <2>2. call'[t].op = "none"
    BY <2>1 DEF NoCall
  <2>3. Filling(t)' => dir_id'[t].archivepath = Archive(t)'
    BY <1>1, <1>2, <2>1 DEF Filling, Serving
  <2> QED BY <1>1, <1>2, <2>1, <2>2, <2>3 DEF Serving
<1> QED BY <1>3, <1>4

\* The handler answers and is idle.
LEMMA AnswerServes ==
  ASSUME Invariant, HandlerInv, Functions, NEW t \in Threads, Serving(t),
         pc[t] = "idle", UNCHANGED vars,
         NEW error, NEW entry, NEW names, Answer(t, error, entry, names)
  PROVE  Serving(t)'
<1>1. OneOfEach
  BY EachThread
<1>2. at'[t] = "idle" /\ handle'[t] = NoHandle /\ pc'[t] = "idle"
      /\ call'[t] = call[t]
  BY <1>1 DEF OneOfEach, Answer, Goto, vars
<1> QED BY <1>2 DEF Serving, Filling

\* What a call that begins leaves of the thread's state.
LEMMA BeginSets ==
  ASSUME Invariant, NEW t \in Threads, NEW op, NEW path, NEW archive_id,
         NEW entry, NEW now, Begin(t, op, path, archive_id, entry, now)
  PROVE  /\ pc'[t] = "waiting" /\ served'[t] = <<>>
         /\ call'[t].op = op /\ call'[t].path = path
         /\ call'[t].archive_id = archive_id /\ call'[t].entry = entry
         /\ dir_id' = dir_id /\ cache' = cache
BY DEF Begin, Invariant, TypeOK

\* A request comes in.
LEMMA RequestServes ==
  ASSUME Invariant, HandlerInv, Functions, NEW t \in Threads, Serving(t),
         Request(t)
  PROVE  Serving(t)'
<1>1. OneOfEach
  BY EachThread
<1> DEFINE q(op, a, relpath) ==
      [op |-> op, archivepath |-> a, relpath |-> relpath, since |-> OnDisk(a)]
<1>2. ASSUME NEW op, NEW a \in Archives, NEW relpath, NEW label,
             Accept(t, op, a, relpath, label), label \in {"get", "scandir"}
      PROVE  /\ at'[t] = label /\ request'[t] = q(op, a, relpath)
             /\ Archive(t)' = a /\ handle'[t] = NoHandle
             /\ request'[t].since \in 1 .. OnDisk(Archive(t))'
             /\ ~Filling(t)'
  <2>1. at'[t] = label /\ request'[t] = q(op, a, relpath) /\ disk' = disk
    BY <1>1, <1>2 DEF Accept, Goto, OneOfEach
  <2>2. handle'[t] = NoHandle
    BY <1>2 DEF Accept, Running, HandlerInv
  <2>3. OnDisk(a) \in 1 .. MaxVersions
    BY DEF HandlerInv, DiskInv
  <2>4. OnDisk(a)' = OnDisk(a)
    BY <2>1 DEF OnDisk
  <2> QED BY <1>2, <2>1, <2>2, <2>3, <2>4, MountAssumption DEF Archive, Filling
<1>3. CASE \E a \in Archives, name \in Asked \cap Names : Getattr(t, a, name)
  <2>1. PICK a \in Archives, name \in Names : Getattr(t, a, name)
    BY <1>3
  <2>2. /\ Accept(t, "getattr", a, name, "get")
        /\ Begin(t, "get", [archivepath |-> a, relpath |-> name], NoId,
                 NoMetadata, 0)
    BY <2>1 DEF Getattr, BeginGet
  <2>3. /\ pc'[t] = "waiting" /\ call'[t].op = "get"
        /\ call'[t].path = [archivepath |-> a, relpath |-> name]
    BY <2>2, BeginSets
  <2>4. /\ at'[t] = "get" /\ request'[t] = q("getattr", a, name)
        /\ Archive(t)' = a /\ handle'[t] = NoHandle
        /\ request'[t].since \in 1 .. OnDisk(Archive(t))'
        /\ ~Filling(t)'
    BY <1>2, <2>2
  <2>5. CallOf(t)'
    BY <2>3, <2>4 DEF CallOf, MemberPath
  <2> QED BY <2>3, <2>4, <2>5 DEF Serving
<1>4. CASE \E a \in Archives, dir \in Asked : Readdir(t, a, dir)
  <2>1. PICK a \in Archives, dir \in Asked : Readdir(t, a, dir)
    BY <1>4
  <2>2. /\ Accept(t, "readdir", a, dir, "scandir") /\ t \in Readers
        /\ Begin(t, "scandir", RootPath(a), NoId, NoMetadata, 0)
    BY <2>1 DEF Readdir, BeginScandir
  <2>3. /\ pc'[t] = "waiting" /\ call'[t].op = "scandir"
        /\ call'[t].path = RootPath(a)
    BY <2>2, BeginSets
  <2>4. /\ at'[t] = "scandir" /\ request'[t] = q("readdir", a, dir)
        /\ Archive(t)' = a /\ handle'[t] = NoHandle
        /\ request'[t].since \in 1 .. OnDisk(Archive(t))'
        /\ ~Filling(t)'
    BY <1>2, <2>2
  <2>5. CallOf(t)'
    BY <2>3, <2>4 DEF CallOf
  <2> QED BY <2>2, <2>3, <2>4, <2>5 DEF Serving
<1> QED BY <1>3, <1>4 DEF Request

\* The archive is opened; without a handle there is nothing in it.
LEMMA OpenServes ==
  ASSUME Invariant, HandlerInv, Functions, NEW t \in Threads, Serving(t),
         GetattrMiss(t) \/ ReaddirMiss(t)
  PROVE  Serving(t)'
<1>1. OneOfEach
  BY EachThread
<1>0. PICK a, v : a = Archive(t) /\ v = OnDisk(a)
  OBVIOUS
<1>2. /\ pc[t] = "idle" /\ at[t] \in {"get", "scandir"}
      /\ at'[t] = IF at[t] = "get" THEN "entry_open" ELSE "opened"
      /\ handle'[t] = Opened(a)
      /\ UNCHANGED <<vars, disk, request, position>>
  BY <1>0, <1>1 DEF GetattrMiss, ReaddirMiss, Running, Open, Goto, OneOfEach
<1>3. a \in Archives /\ v \in 1 .. MaxVersions /\ MaxVersions \in Nat
      /\ disk[a] \in Seq(Version)
  BY <1>0, <1>2, MountAssumption DEF HandlerInv, DiskInv
<1>4. disk[a][v] \in Version
  BY <1>0, <1>3 DEF OnDisk
<1>5. /\ Archive(t)' = a /\ OnDisk(a)' = v
      /\ \A w : /\ IsArchive(a, w)' = IsArchive(a, w)
                /\ Members(a, w)' = Members(a, w)
  BY <1>0, <1>2 DEF Archive, OnDisk, IsArchive, Members
<1>6. Opened(a) = NoHandle => Members(a, v) = <<>>
  BY <1>0, <1>3, <1>4 DEF Opened, IsArchive, Members, Version, NoHandle, ByName
<1>7. Opened(a) \notin {NoHandle, ByName} => Opened(a) = v /\ IsArchive(a, v)
  BY <1>0 DEF Opened
<1>8. request[t].since \in 1 .. v
  BY <1>0, <1>2 DEF Serving
<1>9. pc'[t] = "idle" /\ call'[t] = call[t] /\ request'[t] = request[t]
  BY <1>2 DEF vars
<1>10. ~Filling(t)'
  BY <1>2 DEF Filling
<1>11. handle'[t] \notin {NoHandle, ByName} =>
         handle'[t] >= request'[t].since /\ IsArchive(Archive(t), handle[t])'
  <2>1. ASSUME handle'[t] \notin {NoHandle, ByName}
        PROVE  handle'[t] = v /\ IsArchive(a, v)
    BY <1>2, <1>7, <2>1
  <2>2. IsArchive(Archive(t), handle[t])'
          <=> disk[a][handle'[t]].kind = "archive"
    BY <1>2, <1>5 DEF IsArchive
  <2> QED BY <1>3, <1>8, <1>9, <2>1, <2>2 DEF IsArchive
<1>12. handle'[t] = NoHandle =>
         \E w \in request'[t].since .. OnDisk(Archive(t))' :
           Members(Archive(t), w)' = <<>>
  <2>1. v \in request'[t].since .. v
    BY <1>3, <1>8, <1>9
  <2>2. OnDisk(Archive(t))' = v /\ Members(Archive(t), v)' = Members(a, v)
    BY <1>2, <1>5 DEF OnDisk, Members
  <2> QED BY <1>2, <1>6, <2>1, <2>2
<1>13. at[t] \in {"get", "scandir"} /\ request'[t].since \in 1 .. OnDisk(Archive(t))'
  BY <1>2, <1>5, <1>8, <1>9 DEF OnDisk
<1> QED BY <1>2, <1>9, <1>10, <1>11, <1>12, <1>13 DEF Serving

\* What the handler found goes into the cache.
LEMMA EntryOpenServes ==
  ASSUME Invariant, HandlerInv, Functions, NEW t \in Threads, Serving(t),
         EntryOpen(t)
  PROVE  Serving(t)'
<1>1. OneOfEach
  BY EachThread
<1>2. PICK i \in 1 .. Len(Members(Archive(t), Source(t))) :
        /\ found' = [found EXCEPT ![t] = Meta(Source(t), i)]
        /\ BeginInsertAttr(t, Archive(t), request[t].relpath,
                           Meta(Source(t), i))
  BY DEF EntryOpen
<1>3. /\ at[t] = "entry_open" /\ at'[t] = "cached"
      /\ UNCHANGED <<disk, request, handle, position>>
  BY <1>1 DEF EntryOpen, Running, Goto, OneOfEach
<1>4. /\ pc'[t] = "waiting" /\ call'[t].op = "insert"
      /\ call'[t].path = MemberPath(t) /\ call'[t].archive_id = NoId
      /\ call'[t].entry = Meta(Source(t), i)
  BY <1>2, BeginSets DEF BeginInsertAttr, BeginInsert, MemberPath
<1>5. found'[t] = Meta(Source(t), i)
  BY <1>1, <1>2 DEF OneOfEach
<1>6. CallOf(t)'
  BY <1>3, <1>4, <1>5 DEF CallOf, MemberPath, Archive
<1> QED BY <1>3, <1>4, <1>6 DEF Serving, Filling, Archive, OnDisk, IsArchive

\* The Root entry goes into the cache.
LEMMA CacheRootServes ==
  ASSUME Invariant, HandlerInv, Functions, NEW t \in Threads, Serving(t),
         CacheRoot(t)
  PROVE  Serving(t)'
<1>1. OneOfEach
  BY EachThread
<1>2. /\ at[t] = "opened" /\ at'[t] = "rooted"
      /\ UNCHANGED <<disk, request, handle, position>>
      /\ BeginInsertRoot(t, Archive(t))
  BY <1>1 DEF CacheRoot, Running, Goto, OneOfEach
<1>3. /\ pc'[t] = "waiting" /\ call'[t].op = "insert"
      /\ call'[t].path = RootPath(Archive(t))
  BY <1>2, BeginSets DEF BeginInsertRoot, BeginInsert
<1>4. CallOf(t)'
  BY <1>2, <1>3 DEF CallOf, Archive
<1> QED BY <1>2, <1>3, <1>4
    DEF Serving, Filling, Archive, OnDisk, IsArchive, Members

\* The enumeration begins, of what is an archive.
LEMMA EnumerateServes ==
  ASSUME Invariant, HandlerInv, Functions, NEW t \in Threads, Serving(t),
         Enumerate(t)
  PROVE  Serving(t)'
<1>1. OneOfEach
  BY EachThread
<1>0. PICK a, v : a = Archive(t) /\ v = Source(t)
  OBVIOUS
<1>2. /\ pc[t] = "idle" /\ at[t] = "rooted" /\ at'[t] = "enumerating"
      /\ handle[t] # NoHandle /\ IsArchive(a, v)
      /\ handle'[t] = v /\ position'[t] = 1
      /\ UNCHANGED <<vars, disk, request>>
  BY <1>0, <1>1 DEF Enumerate, CanEnumerate, Running, Goto, OneOfEach
<1>3. a \in Archives /\ v \in 1 .. OnDisk(a)
  BY <1>0, <1>2, SourceOnDisk
<1>4. Members(a, v) \in Seq(Names)
  BY <1>3, MembersCacheable DEF HandlerInv
<1>5. request[t].since \in 1 .. OnDisk(a)
  BY <1>0, <1>2 DEF Serving
<1>6. v >= request[t].since
  BY <1>0, <1>2, <1>3, <1>5 DEF Source, Serving, HandlerInv, DiskInv
<1>7. dir_id[t].archivepath = a
  BY <1>0, <1>2 DEF Serving, Filling
<1>8. /\ Archive(t)' = a /\ OnDisk(a)' = OnDisk(a)
      /\ IsArchive(a, v)' = IsArchive(a, v) /\ Members(a, v)' = Members(a, v)
  BY <1>0, <1>2 DEF Archive, OnDisk, IsArchive, Members
<1>9. Enumerated(t)' = Members(a, v)
  BY <1>0, <1>2, <1>8 DEF Enumerated, Members
<1>10. pc'[t] = "idle" /\ call'[t] = call[t] /\ dir_id'[t] = dir_id[t]
  BY <1>0, <1>2 DEF vars
<1>11. position'[t] <= Len(Members(a, v)) + 1
  BY <1>0, <1>2, <1>4
<1>12. IsArchive(Archive(t), handle[t])'
  BY <1>0, <1>2, <1>8 DEF IsArchive
<1>13. request'[t] = request[t] /\ OnDisk(Archive(t))' = OnDisk(a)
  BY <1>0, <1>2, <1>8 DEF OnDisk
<1> QED BY <1>0, <1>2, <1>5, <1>6, <1>7, <1>8, <1>9, <1>10, <1>11, <1>12, <1>13
        DEF Serving

\* A member goes into the cache.
LEMMA CacheMemberServes ==
  ASSUME Invariant, HandlerInv, Functions, NEW t \in Threads, Serving(t),
         CacheMember(t)
  PROVE  Serving(t)'
<1>1. OneOfEach
  BY EachThread
<1>2. /\ at[t] = "enumerating" /\ at'[t] = "member"
      /\ position[t] <= Len(Enumerated(t))
      /\ UNCHANGED <<disk, request, handle, position>>
      /\ BeginInsertMember(t, Enumerated(t)[position[t]],
                           Meta(handle[t], position[t]))
  BY <1>1 DEF CacheMember, Running, Goto, OneOfEach
<1>3. /\ pc'[t] = "waiting" /\ call'[t].op = "insert"
      /\ call'[t].path = [archivepath |-> dir_id[t].archivepath,
                          relpath |-> Enumerated(t)[position[t]]]
      /\ call'[t].archive_id = dir_id[t].id
      /\ call'[t].entry = Meta(handle[t], position[t])
      /\ dir_id' = dir_id
  BY <1>2, BeginSets DEF BeginInsertMember, BeginInsert
<1>4. Archive(t)' = Archive(t) /\ Enumerated(t)' = Enumerated(t)
  BY <1>2 DEF Archive, Enumerated, Members
<1>5. CallOf(t)'
  BY <1>2, <1>3, <1>4 DEF CallOf
<1>6. dir_id[t].archivepath = Archive(t)
  BY <1>2 DEF Serving, Filling
<1> QED BY <1>2, <1>3, <1>4, <1>5, <1>6 DEF Serving, OnDisk, IsArchive

\* The next member.
LEMMA FillMemberServes ==
  ASSUME Invariant, HandlerInv, Functions, NEW t \in Threads, Serving(t),
         FillMember(t)
  PROVE  Serving(t)'
<1>1. OneOfEach
  BY EachThread
<1>2. /\ pc[t] = "idle" /\ at[t] = "member" /\ at'[t] = "enumerating"
      /\ position'[t] = position[t] + 1
      /\ UNCHANGED <<vars, disk, request, handle>>
  BY <1>1 DEF FillMember, Running, Goto, OneOfEach
<1>3. Archive(t)' = Archive(t) /\ Enumerated(t)' = Enumerated(t)
  BY <1>2 DEF Archive, Enumerated, Members
<1>4. pc'[t] = "idle" /\ call'[t] = call[t] /\ dir_id'[t] = dir_id[t]
  BY <1>2 DEF vars
<1>5. /\ position[t] <= Len(Enumerated(t)) /\ position[t] \in Nat
      /\ dir_id[t].archivepath = Archive(t)
  BY <1>2 DEF Serving, Filling, HandlerInv, HandlerTypes
<1>6. Len(Enumerated(t)) \in Nat
  <2>1. handle[t] \in 1 .. OnDisk(Archive(t)) /\ Archive(t) \in Archives
    BY <1>2, HandleOnDisk DEF HandlerInv
  <2>2. Enumerated(t) \in Seq(Names)
    BY <2>1, MembersCacheable DEF HandlerInv, Enumerated
  <2> QED BY <2>2
<1>7. position'[t] <= Len(Enumerated(t)') + 1
  BY <1>2, <1>3, <1>5, <1>6
<1> QED BY <1>2, <1>3, <1>4, <1>5, <1>7 DEF Serving, OnDisk, IsArchive

\* All the steps of a thread.
LEMMA StepServes ==
  ASSUME Invariant, HandlerInv, HandlerInv', Functions, Grows(disk, disk'),
         NEW t \in Threads, Serving(t), StepOf(t)
  PROVE  Serving(t)'
<1>1. CASE TakeLock(t) \/ (Critical(t) /\ UNCHANGED mount_vars)
  BY <1>1, CallSteps, CallServes
<1>2. CASE \/ GetattrHit(t) \/ EntryMissing(t) \/ GetattrCached(t)
           \/ NothingToEnumerate(t) \/ EnumerateDone(t) \/ ReaddirHit(t)
  <2>1. /\ pc[t] = "idle" /\ UNCHANGED vars
        /\ \E error, entry, names : Answer(t, error, entry, names)
    BY <1>2 DEF GetattrHit, EntryMissing, GetattrCached, NothingToEnumerate,
       EnumerateDone, ReaddirHit, Running
  <2> QED BY <2>1, AnswerServes
<1>3. CASE NullArchive(t)
  <2>1. Same(t)
    BY <1>3 DEF NullArchive, vars, Same
  <2> QED BY <2>1, SameServes
<1> QED BY <1>1, <1>2, <1>3, RequestServes, OpenServes, EntryOpenServes,
           CacheRootServes, EnumerateServes, CacheMemberServes,
           FillMemberServes DEF StepOf, Serve

\* A step is a thread's, or no thread notices it and nor does the cache.
LEMMA WhoSteps ==
  ASSUME [MountNext]_all_vars
  PROVE  \/ \E t \in Threads : StepOf(t)
         \/ cache' = cache /\ \A u \in Threads : Same(u)
BY DEF MountNext, all_vars, mount_vars, vars, StepOf, Tick, Rewrite, Same

\* Each thread still has its own.
LEMMA FunctionsStay ==
  ASSUME Functions, [MountNext]_all_vars
  PROVE  Functions'
<1>1. CASE UNCHANGED <<filled, found, answer>>
  BY <1>1 DEF Functions
<1>2. ASSUME NEW t \in Threads, NEW error, NEW entry, NEW names,
             Answer(t, error, entry, names)
      PROVE  Functions'
  BY <1>2 DEF Functions, Answer
<1>3. ASSUME NEW t \in Threads, StepOf(t) PROVE Functions'
  <2>1. CASE Request(t)
    <3>1. UNCHANGED <<filled, found>> /\ answer' = [answer EXCEPT ![t] = NoAnswer]
      BY <2>1 DEF Request, Getattr, Readdir, Accept
    <3> QED BY <3>1 DEF Functions
  <2>2. CASE \/ GetattrHit(t) \/ EntryMissing(t) \/ GetattrCached(t)
             \/ NothingToEnumerate(t) \/ EnumerateDone(t) \/ ReaddirHit(t)
    BY <1>2, <2>2 DEF GetattrHit, EntryMissing, GetattrCached,
       NothingToEnumerate, EnumerateDone, ReaddirHit
  <2>3. CASE EntryOpen(t)
    BY <2>3 DEF EntryOpen, Functions
  <2>4. CASE FillMember(t)
    BY <2>4 DEF FillMember, Functions
  <2>5. CASE \/ TakeLock(t) \/ (Critical(t) /\ UNCHANGED mount_vars)
             \/ GetattrMiss(t) \/ ReaddirMiss(t) \/ NullArchive(t)
             \/ CacheRoot(t) \/ Enumerate(t) \/ CacheMember(t)
    BY <1>1, <2>5 DEF TakeLock, mount_vars, GetattrMiss, ReaddirMiss, Open,
       NullArchive, CacheRoot, Enumerate, CacheMember
  <2> QED BY <1>3, <2>1, <2>2, <2>3, <2>4, <2>5 DEF StepOf, Serve
<1> QED BY <1>1, <1>3
    DEF MountNext, StepOf, all_vars, mount_vars, Rewrite

\* Every step.
LEMMA ServingStays ==
  ASSUME Invariant, HandlerInv, HandlerInv', ServingInv, [MountNext]_all_vars
  PROVE  ServingInv'
<1>1. Functions' /\ Grows(disk, disk')
  BY FunctionsStay, StepGrows DEF ServingInv
<1>2. ASSUME NEW u \in Threads PROVE Serving(u)'
  <2>1. CASE Same(u)
    BY <1>1, <2>1, SameServes DEF ServingInv
  <2>2. CASE \E t \in Threads : StepOf(t)
    <3>1. PICK t \in Threads : StepOf(t)
      BY <2>2
    <3>2. CASE u = t
      BY <1>1, <3>1, <3>2, StepServes DEF ServingInv
    <3>3. CASE u # t
      BY <2>1, <3>1, <3>3, OthersSame DEF ServingInv
    <3> QED BY <3>2, <3>3
  <2> QED BY <2>1, <2>2, WhoSteps
<1> QED BY <1>1, <1>2 DEF ServingInv

\* Nothing is served when the file system is mounted.
LEMMA ServingInit == MountInit => ServingInv
BY DEF MountInit, Init, ServingInv, Functions, Serving, Filling, NoCall,
   NoHandle

\* What all layers rest on.
Base == Invariant /\ HandlerInv /\ ServingInv

\* In every run.
LEMMA BaseHolds == MountSpec => []Base
<1>1. MountInit => HandlerInv /\ ServingInv
  BY MountInitHandlers, ServingInit
<1>2. HandlerInv /\ [MountNext]_all_vars => HandlerInv'
  BY MountStep
<1>3. Invariant /\ HandlerInv /\ HandlerInv' /\ ServingInv
        /\ [MountNext]_all_vars => ServingInv'
  BY ServingStays
<1> QED BY <1>1, <1>2, <1>3, MountKeepsCacheSound, PTL DEF MountSpec, Base

-----------------------------------------------------------------------------
(* Attributes.                                                             *)

\* The k-th member of version v of archive a, in d, has name n and entry e.
IsNth(d, a, v, k, e, n) ==
  /\ k \in 1 .. Len(d[a][v].members)
  /\ d[a][v].members[k] = n
  /\ e = Meta(v, k)

\* The attributes e are those of the member that the path names, in a version.
About(d, path, e) ==
  \E v \in 1 .. Len(d[path.archivepath]) :
    \E k \in 1 .. Len(d[path.archivepath][v].members) :
      IsNth(d, path.archivepath, v, k, e, path.relpath)

PathOf(q) == [archivepath |-> q.archivepath, relpath |-> q.relpath]

\* What a thread is going to cache, what it was handed out, what it found.
CallAbout(t) ==
  call[t].op = "insert" /\ call[t].path.relpath # Root =>
    About(disk, call[t].path, call[t].entry)

ServedAbout(t) ==
  \A i \in 1 .. Len(served[t]) :
    served[t][i].path.relpath # Root =>
      About(disk, served[t][i].path, served[t][i].entry)

HitAbout(t) ==
  at[t] = "get" /\ pc[t] = "idle" /\ reply[t].error = 0 =>
    Len(served[t]) = 1 /\ served[t][1].path = MemberPath(t)

FoundAbout(t) ==
  /\ found[t] \in Metadata \cup {NoMetadata}
  /\ at[t] = "cached" => About(disk, MemberPath(t), found[t])

\* What was answered was so.
AnsweredWell(t) ==
  LET q == answer[t].request
  IN  q.op = "getattr" =>
        /\ q.archivepath \in Archives
        /\ q.since \in Nat \ {0}
        /\ answer[t].error = 0 => About(disk, PathOf(q), answer[t].entry)
        /\ answer[t].error # 0 /\ ~ReadErrors =>
             \E v \in q.since .. Len(disk[q.archivepath]) :
               q.relpath \notin Range(disk[q.archivepath][v].members)

CacheAbout ==
  \A x \in Live(cache) : cache.ents[x].path.relpath # Root =>
    About(disk, cache.ents[x].path, cache.ents[x].entry)

Attributed(t) ==
  CallAbout(t) /\ ServedAbout(t) /\ HitAbout(t) /\ FoundAbout(t)

AttributesInv ==
  CacheAbout /\ \A t \in Threads : Attributed(t) /\ AnsweredWell(t)

\* What is said of a member stays true: its version stays.
LEMMA AboutStays ==
  ASSUME DiskInv, DiskInv', Grows(disk, disk'),
         NEW path, path.archivepath \in Archives, NEW e, About(disk, path, e)
  PROVE  About(disk', path, e)
<1> DEFINE a == path.archivepath
<1>1. PICK v \in 1 .. Len(disk[a]) :
        \E k \in 1 .. Len(disk[a][v].members) :
          IsNth(disk, a, v, k, e, path.relpath)
  BY DEF About
<1>2. v \in 1 .. Len(disk'[a]) /\ disk'[a][v] = disk[a][v]
  BY VersionStays DEF OnDisk
<1> QED BY <1>1, <1>2 DEF About, IsNth

\* A member that is read is what is said of it.
LEMMA AboutMember ==
  ASSUME NEW a, NEW v \in 1 .. OnDisk(a), NEW k \in 1 .. Len(Members(a, v)),
         NEW path, path = [archivepath |-> a, relpath |-> Members(a, v)[k]]
  PROVE  About(disk, path, Meta(v, k))
<1>1. /\ v \in 1 .. Len(disk[a]) /\ k \in 1 .. Len(disk[a][v].members)
      /\ path.archivepath = a /\ path.relpath = Members(a, v)[k]
  BY DEF OnDisk, Members
<1>2. IsNth(disk, a, v, k, Meta(v, k), path.relpath)
  BY <1>1 DEF IsNth, Members
<1> QED BY <1>1, <1>2 DEF About

\* A thread's call stays, or is not one that caches something.
LEMMA CallAboutStays ==
  ASSUME Invariant, HandlerInv, HandlerInv', Grows(disk, disk'),
         NEW u \in Threads, CallAbout(u),
         call'[u] = call[u] \/ call'[u].op # "insert"
  PROVE  CallAbout(u)'
<1> SUFFICES ASSUME call'[u] = call[u], call[u].op = "insert",
                    call[u].path.relpath # Root
             PROVE  About(disk', call[u].path, call[u].entry)
  BY DEF CallAbout
<1>1. call[u].path.archivepath \in Archives
  BY DEF Invariant, CallInv, Paths
<1>2. About(disk, call[u].path, call[u].entry)
  BY DEF CallAbout
<1> QED BY <1>1, <1>2, AboutStays DEF HandlerInv

\* What was handed out stays true, until the next call begins.
LEMMA ServedAboutStays ==
  ASSUME Invariant, HandlerInv, HandlerInv', Grows(disk, disk'),
         NEW u \in Threads, ServedAbout(u),
         served'[u] = served[u] \/ served'[u] = <<>>
  PROVE  ServedAbout(u)'
<1>1. CASE served'[u] = <<>>
  BY <1>1 DEF ServedAbout
<1>2. CASE served'[u] = served[u]
  <2> SUFFICES ASSUME NEW i \in 1 .. Len(served[u]),
                      served[u][i].path.relpath # Root
               PROVE  About(disk', served[u][i].path, served[u][i].entry)
    BY <1>2 DEF ServedAbout
  <2>1. served[u] \in Seq(EntryRecords)
    BY DEF Invariant, TypeOK
  <2>2. served[u][i] \in EntryRecords
    BY <2>1
  <2>3. served[u][i].path.archivepath \in Archives
    BY <2>2 DEF EntryRecords, Paths
  <2>4. About(disk, served[u][i].path, served[u][i].entry)
    BY DEF ServedAbout
  <2> QED BY <2>3, <2>4, AboutStays DEF HandlerInv
<1> QED BY <1>1, <1>2

\* An answer stays true: the versions it is about stay.
LEMMA AnswerStays ==
  ASSUME HandlerInv, HandlerInv', Grows(disk, disk'), NEW u \in Threads,
         AnsweredWell(u), answer'[u] = answer[u] \/ answer'[u].request.op # "getattr"
  PROVE  AnsweredWell(u)'
<1> DEFINE q == answer[u].request
           a == q.archivepath
<1> SUFFICES ASSUME answer'[u] = answer[u], q.op = "getattr"
             PROVE  AnsweredWell(u)'
  BY DEF AnsweredWell
<1>1. a \in Archives /\ q.since \in Nat \ {0}
  BY DEF AnsweredWell
<1>2. answer[u].error = 0 => About(disk', PathOf(q), answer[u].entry)
  <2>1. PathOf(q).archivepath \in Archives
    BY <1>1 DEF PathOf
  <2> QED BY <2>1, AboutStays DEF AnsweredWell, HandlerInv
<1>3. ASSUME NEW v \in q.since .. Len(disk[a])
      PROVE  v \in q.since .. Len(disk'[a]) /\ disk'[a][v] = disk[a][v]
  BY <1>1, <1>3 DEF HandlerInv, DiskInv, OnDisk, Grows
<1> QED BY <1>1, <1>2, <1>3 DEF AnsweredWell

\* Other threads' attributes.
LEMMA SameAttributed ==
  ASSUME Invariant, HandlerInv, HandlerInv', Grows(disk, disk'),
         NEW u \in Threads, Same(u), Attributed(u), AnsweredWell(u)
  PROVE  Attributed(u)' /\ AnsweredWell(u)'
<1>1. CallAbout(u)' /\ ServedAbout(u)' /\ AnsweredWell(u)'
  BY CallAboutStays, ServedAboutStays, AnswerStays DEF Same, Attributed
<1>2. MemberPath(u)' = MemberPath(u)
  BY DEF Same, MemberPath, Archive
<1>3. HitAbout(u)'
  BY <1>2 DEF Same, Attributed, HitAbout
<1>4. at[u] = "cached" => MemberPath(u).archivepath \in Archives
  BY DEF MemberPath, HandlerInv
<1>5. FoundAbout(u)'
  BY <1>2, <1>4, AboutStays DEF Same, Attributed, FoundAbout, HandlerInv
<1> QED BY <1>1, <1>3, <1>5 DEF Attributed

\* What is cached stays true, and what comes in is what the call says.
LEMMA CacheAboutStays ==
  ASSUME Invariant, HandlerInv, HandlerInv', Grows(disk, disk'), CacheAbout,
         \/ Shrunk(cache, cache')
         \/ \E t \in Threads : CallAbout(t) /\ call[t].op = "insert"
              /\ Inserted(cache, cache', call[t].path, call[t].archive_id,
                          call[t].entry)
  PROVE  CacheAbout'
<1>1. ASSUME NEW x \in Live(cache), cache.ents[x].path.relpath # Root
      PROVE  About(disk', cache.ents[x].path, cache.ents[x].entry)
  <2>1. cache.ents[x].path.archivepath \in Archives
    BY DEF Invariant, CacheInv, CacheTypeOK, EntryRecords, Paths
  <2>2. About(disk, cache.ents[x].path, cache.ents[x].entry)
    BY <1>1 DEF CacheAbout
  <2> QED BY <2>1, <2>2, AboutStays DEF HandlerInv
<1>2. CASE Shrunk(cache, cache')
  BY <1>1, <1>2 DEF CacheAbout, Shrunk
<1>3. ASSUME NEW t \in Threads, CallAbout(t), call[t].op = "insert",
             Inserted(cache, cache', call[t].path, call[t].archive_id,
                      call[t].entry)
      PROVE  CacheAbout'
  <2>1. call[t].path.relpath # Root =>
          About(disk', call[t].path, call[t].entry)
    <3>1. call[t].path.archivepath \in Archives
      BY <1>3 DEF Invariant, CallInv, Paths
    <3> QED BY <1>3, <3>1, AboutStays DEF CallAbout, HandlerInv
  <2> SUFFICES ASSUME NEW x \in Live(cache'),
                      cache'.ents[x].path.relpath # Root
               PROVE  About(disk', cache'.ents[x].path, cache'.ents[x].entry)
    BY DEF CacheAbout
  <2>2. CASE x = cache.next_id
    BY <1>3, <2>1, <2>2 DEF Inserted
  <2>3. CASE x # cache.next_id
    <3>1. /\ x \in Live(cache) /\ cache'.ents[x].path = cache.ents[x].path
          /\ cache'.ents[x].entry = cache.ents[x].entry
      BY <1>3, <2>3 DEF Inserted
    <3> QED BY <1>1, <3>1
  <2> QED BY <2>2, <2>3
<1> QED BY <1>2, <1>3

\* A scan hands out what is in the cache.
LEMMA ScannedLive ==
  ASSUME Invariant, NEW t \in Threads, ScanMember(t)
  PROVE  /\ ScannedDir(t)[cursor[t]] \in Live(cache)
         /\ served'[t] = Append(served[t], cache.ents[ScannedDir(t)[cursor[t]]])
         /\ served[t] \in Seq(EntryRecords)
<1> DEFINE h == Find(cache, call[t].path)
<1>1. /\ pc[t] = "scanning" /\ cursor[t] <= Len(ScannedDir(t))
      /\ served'[t] = Append(served[t], cache.ents[ScannedDir(t)[cursor[t]]])
      /\ served[t] \in Seq(EntryRecords)
  BY DEF ScanMember, Invariant, TypeOK
<1>2. h # NoId /\ cursor[t] >= 1 /\ cursor[t] \in Nat
  BY <1>1 DEF Invariant, CallInv, TypeOK
<1>3. h \in Live(cache)
  BY <1>2, FindFinds DEF Invariant, CacheInv
<1>4. Len(cache.ents[h].dir) \in Nat
  BY <1>3, ElementOfSeq DEF Invariant, CacheInv, CacheTypeOK, EntryRecords
<1>5. cursor[t] \in 1 .. Len(cache.ents[h].dir)
  BY <1>1, <1>2, <1>4 DEF ScannedDir
<1>6. cache.ents[h].dir[cursor[t]] \in Live(cache)
  BY <1>3, <1>5 DEF Invariant, CacheInv, ChainsSound
<1> QED BY <1>1, <1>6 DEF ScannedDir

\* The cache hands out what it has.
LEMMA CallAttributed ==
  ASSUME Base, Base', Grows(disk, disk'), AttributesInv, NEW t \in Threads,
         TakeLock(t) \/ (Critical(t) /\ UNCHANGED mount_vars)
  PROVE  Attributed(t)' /\ AnsweredWell(t)'
<1>1. /\ Invariant /\ HandlerInv /\ HandlerInv' /\ Serving(t)
      /\ Attributed(t) /\ AnsweredWell(t) /\ CacheAbout
  BY DEF Base, ServingInv, AttributesInv
<1>2. \/ CallGoesOn(t)
            /\ (TakeLock(t) \/ ExpungeOne(t) \/ ScanBegin(t) \/ ScanMember(t))
      \/ CallReturns(t)
            /\ (\/ InsertDone(t) \/ InsertNoMemory(t) \/ GetHit(t)
                \/ Miss(t) \/ ScanEnd(t))
  BY <1>1, CallSteps
<1>3. UNCHANGED mount_vars /\ (call'[t] = call[t] \/ call'[t].op # "insert")
  BY <1>2 DEF CallGoesOn, CallReturns, NoCall
<1>4. CallAbout(t)' /\ AnsweredWell(t)'
  BY <1>1, <1>3, CallAboutStays, AnswerStays DEF Attributed, mount_vars
<1>5. FoundAbout(t)'
  BY <1>1, <1>3 DEF Attributed, FoundAbout, mount_vars, MemberPath, Archive
<1>6. ServedAbout(t)'
  <2>1. CASE ScanMember(t)
    <3> DEFINE rec == cache.ents[ScannedDir(t)[cursor[t]]]
    <3>1. /\ served'[t] = Append(served[t], rec)
          /\ served[t] \in Seq(EntryRecords)
          /\ rec.path.relpath # Root => About(disk, rec.path, rec.entry)
      BY <1>1, <2>1, ScannedLive DEF CacheAbout
    <3> HIDE DEF rec
    <3>2. /\ Len(served'[t]) = Len(served[t]) + 1
          /\ served'[t][Len(served[t]) + 1] = rec
          /\ \A k \in 1 .. Len(served[t]) : served'[t][k] = served[t][k]
          /\ Len(served[t]) \in Nat
      BY <3>1, AppendProperties
    <3>3. \A k \in 1 .. Len(served'[t]) :
            k = Len(served[t]) + 1 \/ k \in 1 .. Len(served[t])
      BY <3>2
    <3> QED BY <1>1, <1>3, <3>1, <3>2, <3>3
            DEF Attributed, ServedAbout, mount_vars
  <2>2. CASE GetHit(t)
    <3>1. PICK e : /\ e = Find(cache, call[t].path) /\ e # NoId
                   /\ served'[t] = <<cache.ents[e]>>
      BY <1>1, <2>2 DEF GetHit, Invariant, TypeOK
    <3>2. e \in Live(cache)
      BY <1>1, <3>1, FindFinds DEF Invariant, CacheInv
    <3> QED BY <1>1, <1>3, <3>1, <3>2 DEF ServedAbout, CacheAbout, mount_vars
  <2>3. CASE ~ScanMember(t) /\ ~GetHit(t)
    <3>1. served' = served
      BY <1>2, <2>3 DEF TakeLock, Acquire, ExpungeOne, ScanBegin, InsertDone,
         InsertNoMemory, Miss, ScanEnd
    <3> QED BY <1>1, <3>1, ServedAboutStays DEF Attributed
  <2> QED BY <2>1, <2>2, <2>3
<1>7. HitAbout(t)'
  <2> SUFFICES ASSUME at[t] = "get", pc'[t] = "idle", reply'[t].error = 0
               PROVE  Len(served'[t]) = 1 /\ served'[t][1].path = MemberPath(t)
    BY <1>3 DEF HitAbout, mount_vars, MemberPath, Archive
  <2>1. pc[t] # "idle" /\ CallReturns(t)
    BY <1>2 DEF CallGoesOn, CallReturns
  <2>2. call[t].op = "get" /\ call[t].path = MemberPath(t)
    BY <1>1, <2>1 DEF Serving, CallOf
  <2>3. pc[t] # "scanning"
    BY <1>1, <2>2 DEF Invariant, CallInv
  <2>4. GetHit(t) \/ Miss(t)
    BY <1>2, <2>1, <2>2, <2>3 DEF InsertDone, InsertNoMemory, ScanEnd, InBody,
       CallGoesOn
  <2>5. ~Miss(t)
    BY <1>1 DEF Miss, Unlock, Invariant, TypeOK
  <2>6. PICK e : /\ e = Find(cache, call[t].path) /\ e # NoId
                 /\ served'[t] = <<cache.ents[e]>>
    BY <1>1, <2>4, <2>5 DEF GetHit, Invariant, TypeOK
  <2>7. cache.ents[e].path = call[t].path
    BY <1>1, <2>6, FindFinds DEF Invariant, CacheInv
  <2> QED BY <2>2, <2>6, <2>7
<1> QED BY <1>4, <1>5, <1>6, <1>7 DEF Attributed

\* A non-empty set of naturals has a least element.
LEMMA LeastIndex ==
  ASSUME NEW S \in SUBSET Nat, S # {}
  PROVE  \E m \in S : \A n \in S : m <= n
<1>1. \E R : /\ IsWellFoundedOn(R, Nat)
             /\ \A m, n \in Nat : <<n, m>> \in R <=> n < m
  <2> DEFINE R == OpToRel(<, Nat)
  <2>1. IsWellFoundedOn(R, Nat)
    BY NatLessThanWellFounded
  <2>2. \A m, n \in Nat : <<n, m>> \in R <=> n < m
    BY DEF OpToRel
  <2> HIDE DEF R
  <2> QED BY <2>1, <2>2
<1>2. PICK R : /\ IsWellFoundedOn(R, Nat)
               /\ \A m, n \in Nat : <<n, m>> \in R <=> n < m
  BY <1>1
<1>3. PICK m \in S : \A n \in S : ~ (<<n, m>> \in R)
  BY <1>2, WFMin
<1>4. ASSUME NEW n \in S PROVE m <= n
  <2>1. m \in Nat /\ n \in Nat /\ ~ (n < m)
    BY <1>2, <1>3
  <2> QED BY <2>1
<1> QED BY <1>4

\* A name without a first match is the name of no member.
LEMMA NoMatchNoMember ==
  ASSUME HandlerInv, NEW t \in Threads, handle[t] # NoHandle,
         ~\E i \in 1 .. Len(Members(Archive(t), Source(t))) : FirstMatch(t, i)
  PROVE  request[t].relpath \notin Range(Members(Archive(t), Source(t)))
<1> DEFINE members == Members(Archive(t), Source(t))
           name == request[t].relpath
           S == {i \in 1 .. Len(members) : members[i] = name}
<1>1. Archive(t) \in Archives /\ Source(t) \in 1 .. OnDisk(Archive(t))
  BY SourceOnDisk
<1>2. members \in Seq(Names)
  BY <1>1, MembersCacheable DEF HandlerInv
<1>3. S = {}
  <2> SUFFICES ASSUME S # {} PROVE FALSE
    OBVIOUS
  <2>1. S \in SUBSET Nat
    OBVIOUS
  <2>2. PICK m \in S : \A n \in S : m <= n
    BY <2>1, LeastIndex
  <2>3. m \in 1 .. Len(members) /\ members[m] = name
    OBVIOUS
  <2>4. ASSUME NEW j \in 1 .. m - 1 PROVE members[j] # name
    <3>1. Len(members) \in Nat /\ m \in Nat
      BY <1>2
    <3>2. j \in 1 .. Len(members) /\ ~ (m <= j)
      BY <2>3, <3>1
    <3> QED BY <2>2, <3>2
  <2>5. FirstMatch(t, m)
    BY <2>3, <2>4 DEF FirstMatch
  <2> QED BY <2>3, <2>5
<1> QED BY <1>2, <1>3 DEF Range

\* A handler that answers keeps nothing.
LEMMA AnswerAttributed ==
  ASSUME Base, Base', AttributesInv, NEW t \in Threads,
         pc[t] = "idle", UNCHANGED vars,
         NEW error, NEW entry, NEW names, Answer(t, error, entry, names)
  PROVE  /\ Attributed(t)'
         /\ answer'[t] = [request |-> request[t], error |-> error,
                          entry |-> entry, names |-> names]
         /\ request[t].op # "getattr" => AnsweredWell(t)'
<1>1. /\ Invariant /\ HandlerInv /\ HandlerInv' /\ Functions /\ OneOfEach
      /\ Attributed(t)
  BY EachThread DEF Base, ServingInv, AttributesInv
<1>2. /\ at'[t] = "idle" /\ found'[t] = NoMetadata /\ disk' = disk
      /\ answer'[t] = [request |-> request[t], error |-> error,
                       entry |-> entry, names |-> names]
      /\ call'[t] = call[t] /\ served'[t] = served[t]
  BY <1>1 DEF OneOfEach, Answer, Goto, vars
<1>3. CallAbout(t)' /\ ServedAbout(t)'
  BY <1>1, <1>2 DEF Attributed, CallAbout, ServedAbout
<1>4. HitAbout(t)' /\ FoundAbout(t)'
  BY <1>2 DEF HitAbout, FoundAbout
<1>5. request[t].op # "getattr" => AnsweredWell(t)'
  BY <1>2 DEF AnsweredWell
<1> QED BY <1>2, <1>3, <1>4, <1>5 DEF Attributed

\* What getattr answers.
LEMMA GetattrAnswers ==
  ASSUME Base, Base', AttributesInv, NEW t \in Threads,
         GetattrHit(t) \/ EntryMissing(t) \/ GetattrCached(t)
  PROVE  Attributed(t)' /\ AnsweredWell(t)'
<1>1. /\ Invariant /\ HandlerInv /\ HandlerInv' /\ Serving(t)
      /\ Attributed(t)
  BY DEF Base, ServingInv, AttributesInv
<1>2. /\ pc[t] = "idle" /\ UNCHANGED <<vars, disk>>
      /\ at[t] \in {"get", "entry_open", "cached"}
  BY DEF GetattrHit, EntryMissing, GetattrCached, Running, Answer
<1>3. /\ request[t].op = "getattr" /\ Archive(t) \in Archives
      /\ request[t].since \in 1 .. OnDisk(Archive(t))
      /\ request[t].relpath \in Names
  BY <1>1, <1>2 DEF Serving, HandlerInv
<1>4. PathOf(request[t]) = MemberPath(t)
  BY DEF PathOf, MemberPath, Archive
<1>5. CASE GetattrHit(t) \/ GetattrCached(t)
  <2>1. PICK entry : /\ Answer(t, 0, entry, {})
                     /\ entry = IF at[t] = "get" THEN served[t][1].entry
                                ELSE found[t]
    BY <1>5 DEF GetattrHit, GetattrCached, Running
  <2>2. About(disk, MemberPath(t), entry)
    <3>1. CASE at[t] = "get"
      <4>1. reply[t].error = 0
        BY <1>5, <3>1 DEF GetattrHit, GetattrCached, Running
      <4>2. Len(served[t]) = 1 /\ served[t][1].path = MemberPath(t)
        BY <1>1, <1>2, <3>1, <4>1 DEF Attributed, HitAbout
      <4>3. served[t][1].path.relpath # Root
        BY <1>3, <4>2, CacheAssumption DEF MemberPath
      <4> QED BY <1>1, <2>1, <3>1, <4>2, <4>3 DEF Attributed, ServedAbout
    <3>2. CASE at[t] # "get"
      <4>1. at[t] = "cached"
        BY <1>5, <3>2 DEF GetattrHit, GetattrCached, Running
      <4> QED BY <1>1, <2>1, <4>1 DEF Attributed, FoundAbout
    <3> QED BY <3>1, <3>2
  <2>3. /\ Attributed(t)'
        /\ answer'[t] = [request |-> request[t], error |-> 0,
                         entry |-> entry, names |-> {}]
    BY <1>2, <2>1, AnswerAttributed
  <2> QED BY <1>2, <1>3, <1>4, <2>2, <2>3 DEF AnsweredWell, Archive, OnDisk
<1>6. CASE EntryMissing(t)
  <2>1. /\ handle[t] # NoHandle /\ Answer(t, ENOENT, NoMetadata, {})
        /\ ~ReadErrors =>
             ~\E i \in 1 .. Len(Members(Archive(t), Source(t))) :
                FirstMatch(t, i)
    BY <1>6 DEF EntryMissing
  <2>2. ~ReadErrors =>
          request[t].relpath \notin Range(Members(Archive(t), Source(t)))
    BY <1>1, <2>1, NoMatchNoMember
  <2>3. Source(t) \in request[t].since .. OnDisk(Archive(t))
    <3>1. Source(t) \in 1 .. OnDisk(Archive(t))
      BY <1>1, <2>1, SourceOnDisk
    <3>2. OnDisk(Archive(t)) \in Nat
      BY <1>1, <1>3 DEF HandlerInv, DiskInv
    <3>3. Source(t) >= request[t].since
      BY <1>1, <1>3, <2>1, <3>2 DEF Source, Serving
    <3> QED BY <1>3, <3>1, <3>2, <3>3
  <2>4. /\ Attributed(t)'
        /\ answer'[t] = [request |-> request[t], error |-> ENOENT,
                         entry |-> NoMetadata, names |-> {}]
    <3>1. pc[t] = "idle" /\ UNCHANGED vars
      BY <1>2
    <3>2. Answer(t, ENOENT, NoMetadata, {})
      BY <2>1
    <3> QED BY <3>1, <3>2, AnswerAttributed
  <2>5. ENOENT # 0
    BY DEF ENOENT
  <2> QED BY <1>2, <1>3, <2>2, <2>3, <2>4, <2>5
          DEF AnsweredWell, Archive, OnDisk, Members
<1> QED BY <1>5, <1>6

\* A call of the cache begins, with what is true.
LEMMA BeginAttributed ==
  ASSUME Base, Base', AttributesInv, NEW t \in Threads,
         Request(t) \/ EntryOpen(t) \/ CacheRoot(t) \/ CacheMember(t)
  PROVE  Attributed(t)' /\ AnsweredWell(t)'
<1>1. /\ Invariant /\ HandlerInv /\ HandlerInv' /\ Serving(t) /\ OneOfEach
      /\ Attributed(t) /\ AnsweredWell(t)
  BY EachThread DEF Base, ServingInv, AttributesInv
<1>2. disk' = disk
  BY DEF Request, Getattr, Readdir, Accept, EntryOpen, CacheRoot, CacheMember
<1>3. ASSUME served'[t] = <<>>, pc'[t] = "waiting"
      PROVE  ServedAbout(t)' /\ HitAbout(t)'
  BY <1>3 DEF ServedAbout, HitAbout
<1>4. ASSUME answer'[t] = answer[t] PROVE AnsweredWell(t)'
  BY <1>1, <1>2, <1>4 DEF AnsweredWell
<1>5. CASE Request(t)
  <2>1. PICK op, path :
          /\ op \in {"get", "scandir"}
          /\ Begin(t, op, path, NoId, NoMetadata, 0)
    <3>1. CASE \E a \in Archives, name \in Asked \cap Names : Getattr(t, a, name)
      BY <3>1 DEF Getattr, BeginGet
    <3>2. CASE \E a \in Archives, dir \in Asked : Readdir(t, a, dir)
      BY <3>2 DEF Readdir, BeginScandir
    <3> QED BY <1>5, <3>1, <3>2 DEF Request
  <2>2. /\ pc'[t] = "waiting" /\ served'[t] = <<>>
        /\ call'[t].op \in {"get", "scandir"}
    BY <1>1, <2>1, BeginSets
  <2>3. answer'[t] = NoAnswer /\ found' = found /\ at'[t] \in {"get", "scandir"}
    BY <1>1, <1>5 DEF Request, Getattr, Readdir, Accept, Goto, OneOfEach
  <2>4. AnsweredWell(t)'
    BY <2>3 DEF AnsweredWell, NoAnswer, NoRequest
  <2>5. FoundAbout(t)'
    BY <1>1, <2>3 DEF Attributed, FoundAbout
  <2>6. CallAbout(t)'
    BY <2>2 DEF CallAbout
  <2> QED BY <1>3, <2>2, <2>4, <2>5, <2>6 DEF Attributed
<1>6. CASE EntryOpen(t)
  <2> DEFINE a == Archive(t)
             v == Source(t)
  <2>1. PICK i \in 1 .. Len(Members(a, v)) :
          /\ FirstMatch(t, i)
          /\ found' = [found EXCEPT ![t] = Meta(v, i)]
          /\ BeginInsertAttr(t, a, request[t].relpath, Meta(v, i))
    BY <1>6 DEF EntryOpen
  <2>2. /\ handle[t] # NoHandle /\ at'[t] = "cached"
        /\ UNCHANGED <<request, answer>>
    BY <1>1, <1>6 DEF EntryOpen, Goto, OneOfEach, Running
  <2>3. a \in Archives /\ v \in 1 .. OnDisk(a)
    BY <1>1, <2>2, SourceOnDisk
  <2>4. MemberPath(t) = [archivepath |-> a, relpath |-> Members(a, v)[i]]
    BY <2>1 DEF FirstMatch, MemberPath
  <2>5. About(disk, MemberPath(t), Meta(v, i))
    BY <2>3, <2>4, AboutMember
  <2>6. /\ pc'[t] = "waiting" /\ served'[t] = <<>>
        /\ call'[t].path = MemberPath(t) /\ call'[t].entry = Meta(v, i)
    BY <1>1, <2>1, BeginSets DEF BeginInsertAttr, BeginInsert, MemberPath
  <2>7. found'[t] = Meta(v, i) /\ Meta(v, i) \in Metadata
    BY <1>1, <2>1, <2>3, MembersCacheable DEF OneOfEach, HandlerInv
  <2>8. MemberPath(t)' = MemberPath(t)
    BY <2>2 DEF MemberPath, Archive
  <2>9. CallAbout(t)' /\ FoundAbout(t)'
    BY <1>2, <2>2, <2>5, <2>6, <2>7, <2>8 DEF CallAbout, FoundAbout
  <2> QED BY <1>3, <1>4, <2>2, <2>6, <2>9 DEF Attributed
<1>7. CASE CacheRoot(t)
  <2>1. /\ at'[t] = "rooted" /\ UNCHANGED <<answer, found>>
        /\ BeginInsertRoot(t, Archive(t))
    BY <1>1, <1>7 DEF CacheRoot, Goto, OneOfEach, Running
  <2>2. /\ pc'[t] = "waiting" /\ served'[t] = <<>>
        /\ call'[t].path.relpath = Root
    BY <1>1, <2>1, BeginSets DEF BeginInsertRoot, BeginInsert, RootPath
  <2>3. CallAbout(t)' /\ FoundAbout(t)'
    BY <1>1, <2>1, <2>2 DEF CallAbout, FoundAbout, Attributed
  <2> QED BY <1>3, <1>4, <2>1, <2>2, <2>3 DEF Attributed
<1>8. CASE CacheMember(t)
  <2> DEFINE a == Archive(t)
             v == handle[t]
             k == position[t]
  <2>1. /\ at[t] = "enumerating" /\ at'[t] = "member"
        /\ UNCHANGED <<answer, found>> /\ k <= Len(Enumerated(t))
        /\ BeginInsertMember(t, Enumerated(t)[k], Meta(v, k))
    BY <1>1, <1>8 DEF CacheMember, Goto, OneOfEach, Running
  <2>2. dir_id[t].archivepath = a
    BY <1>1, <2>1 DEF Serving, Filling
  <2>3. v \in 1 .. OnDisk(a) /\ a \in Archives
    BY <1>1, <2>1, HandleOnDisk DEF HandlerInv
  <2>4. Enumerated(t) \in Seq(Names) /\ Enumerated(t) = Members(a, v)
    BY <1>1, <2>3, MembersCacheable DEF Enumerated, HandlerInv
  <2>5. k \in 1 .. Len(Members(a, v))
    BY <1>1, <2>1, <2>4 DEF HandlerInv, HandlerTypes
  <2>6. PICK path : path = [archivepath |-> a, relpath |-> Members(a, v)[k]]
    OBVIOUS
  <2>7. /\ pc'[t] = "waiting" /\ served'[t] = <<>>
        /\ call'[t].path = path /\ call'[t].entry = Meta(v, k)
    BY <1>1, <2>1, <2>2, <2>4, <2>6, BeginSets
       DEF BeginInsertMember, BeginInsert
  <2>8. About(disk, path, Meta(v, k))
    BY <2>3, <2>5, <2>6, AboutMember
  <2>9. CallAbout(t)' /\ FoundAbout(t)'
    BY <1>1, <1>2, <2>1, <2>7, <2>8 DEF CallAbout, FoundAbout, Attributed
  <2> QED BY <1>3, <1>4, <2>1, <2>7, <2>9 DEF Attributed
<1> QED BY <1>5, <1>6, <1>7, <1>8

\* All the steps of a thread.
LEMMA StepAttributed ==
  ASSUME Base, Base', Grows(disk, disk'), AttributesInv, NEW t \in Threads,
         StepOf(t)
  PROVE  Attributed(t)' /\ AnsweredWell(t)'
<1>1. /\ Invariant /\ HandlerInv /\ HandlerInv' /\ OneOfEach /\ Serving(t)
      /\ Attributed(t) /\ AnsweredWell(t)
  BY EachThread DEF Base, ServingInv, AttributesInv
<1>2. CASE TakeLock(t) \/ (Critical(t) /\ UNCHANGED mount_vars)
  BY <1>2, CallAttributed
<1>3. CASE Request(t) \/ EntryOpen(t) \/ CacheRoot(t) \/ CacheMember(t)
  BY <1>3, BeginAttributed
<1>4. CASE GetattrHit(t) \/ EntryMissing(t) \/ GetattrCached(t)
  BY <1>4, GetattrAnswers
<1>5. CASE NothingToEnumerate(t) \/ EnumerateDone(t) \/ ReaddirHit(t)
  <2>1. PICK names : Answer(t, 0, NoMetadata, names)
    BY <1>5 DEF NothingToEnumerate, EnumerateDone, ReaddirHit
  <2>2. /\ pc[t] = "idle" /\ UNCHANGED vars
        /\ at[t] \in {"rooted", "enumerating", "scandir"}
    BY <1>5 DEF NothingToEnumerate, EnumerateDone, ReaddirHit, Running
  <2>3. request[t].op # "getattr"
    BY <1>1, <2>2 DEF Serving
  <2> QED BY <2>1, <2>2, <2>3, AnswerAttributed
<1>6. CASE NullArchive(t)
  <2>1. Same(t)
    BY <1>6 DEF NullArchive, vars, Same
  <2> QED BY <1>1, <2>1, SameAttributed
<1>7. CASE GetattrMiss(t) \/ ReaddirMiss(t) \/ Enumerate(t) \/ FillMember(t)
  <2>1. /\ at'[t] \in {"entry_open", "opened", "enumerating"}
        /\ UNCHANGED <<vars, found, answer, disk>>
    BY <1>1, <1>7 DEF GetattrMiss, ReaddirMiss, Open, Enumerate, FillMember,
       Goto, OneOfEach, Running
  <2>2. CallAbout(t)' /\ ServedAbout(t)' /\ AnsweredWell(t)'
    BY <1>1, <2>1, CallAboutStays, ServedAboutStays, AnswerStays
       DEF Attributed, vars
  <2>3. HitAbout(t)' /\ FoundAbout(t)'
    BY <1>1, <2>1 DEF Attributed, HitAbout, FoundAbout
  <2> QED BY <2>2, <2>3 DEF Attributed
<1> QED BY <1>2, <1>3, <1>4, <1>5, <1>6, <1>7 DEF StepOf, Serve

\* A step of a thread changes the cache as its call says, or shrinks it.
LEMMA StepChanges ==
  ASSUME Invariant, NEW t \in Threads, StepOf(t)
  PROVE  \/ InsertDone(t) /\ UNCHANGED mount_vars
            /\ Inserted(cache, cache', call[t].path, call[t].archive_id,
                        call[t].entry)
         \/ ~InsertDone(t) /\ Shrunk(cache, cache')
<1>1. CASE Critical(t) /\ UNCHANGED mount_vars
  BY <1>1, CriticalChanges
<1>2. CASE ~(Critical(t) /\ UNCHANGED mount_vars)
  <2>1. cache' = cache
    <3>1. CASE Request(t)
      BY <3>1 DEF Request, Getattr, Readdir, BeginGet, BeginScandir, Begin
    <3>2. CASE EntryOpen(t) \/ CacheRoot(t) \/ CacheMember(t)
      BY <3>2 DEF EntryOpen, CacheRoot, CacheMember, BeginInsertAttr,
         BeginInsertRoot, BeginInsertMember, BeginInsert, Begin
    <3>3. CASE UNCHANGED vars
      BY <3>3 DEF vars
    <3>4. CASE TakeLock(t)
      BY <3>4 DEF TakeLock, Acquire
    <3> QED BY <1>2, <3>1, <3>2, <3>3, <3>4 DEF StepOf, Serve, GetattrHit,
            GetattrMiss, NullArchive, EntryMissing, GetattrCached, ReaddirHit,
            ReaddirMiss, Open, Enumerate, NothingToEnumerate, FillMember,
            EnumerateDone
  <2>2. Shrunk(cache, cache')
    BY <2>1 DEF Shrunk
  <2>3. cache.next_id \in Nat
    BY DEF Invariant, CacheInv, CacheTypeOK
  <2>4. ~InsertDone(t)
    <3>1. SUFFICES ASSUME InsertDone(t) PROVE FALSE
      OBVIOUS
    <3>2. cache.num_entries <= MaxEntries /\ CacheInv(cache)
      BY DEF Invariant, Bounded
    <3>3. Critical(t)
      BY <3>1 DEF Critical
    <3>4. Inserted(cache, cache', call[t].path, call[t].archive_id,
                   call[t].entry)
      BY <3>1, <3>3, CriticalChanges
    <3>5. cache'.next_id = cache.next_id + 1
      BY <3>4 DEF Inserted
    <3> QED BY <2>1, <2>3, <3>5
  <2> QED BY <2>2, <2>4
<1> QED BY <1>1, <1>2

\* Every step.
LEMMA AttributesStay ==
  ASSUME Base, Base', AttributesInv, [MountNext]_all_vars
  PROVE  AttributesInv'
<1>1. /\ Invariant /\ HandlerInv /\ HandlerInv' /\ Functions
      /\ Grows(disk, disk') /\ CacheAbout
      /\ \A t \in Threads : Attributed(t) /\ AnsweredWell(t) /\ Serving(t)
  BY StepGrows DEF Base, ServingInv, AttributesInv
<1>2. CASE cache' = cache /\ \A u \in Threads : Same(u)
  <2>1. Shrunk(cache, cache')
    BY <1>2 DEF Shrunk
  <2>2. CacheAbout'
    BY <1>1, <2>1, CacheAboutStays
  <2> QED BY <1>1, <1>2, <2>2, SameAttributed DEF AttributesInv
<1>3. ASSUME NEW t \in Threads, StepOf(t) PROVE AttributesInv'
  <2>1. CacheAbout'
    <3>1. InsertDone(t) => call[t].op = "insert" /\ CallAbout(t)
      BY <1>1 DEF InsertDone, InBody, Attributed
    <3> QED BY <1>1, <1>3, <3>1, StepChanges, CacheAboutStays
  <2>2. ASSUME NEW u \in Threads PROVE Attributed(u)' /\ AnsweredWell(u)'
    <3>1. CASE u = t
      BY <1>1, <1>3, <3>1, StepAttributed
    <3>2. CASE u # t
      <4>1. Same(u)
        BY <1>1, <1>3, <3>2, OthersSame
      <4> QED BY <1>1, <4>1, SameAttributed
    <3> QED BY <3>1, <3>2
  <2> QED BY <2>1, <2>2 DEF AttributesInv
<1> QED BY <1>2, <1>3, WhoSteps

\* An empty cache says nothing of any member.
LEMMA AttributesInit == MountInit => AttributesInv
<1>1. Live(EmptyCache) = {}
  BY DEF EmptyCache, Live
<1>2. MountInit => CacheAbout
  BY <1>1 DEF MountInit, Init, CacheAbout
<1>3. MountInit => \A t \in Threads : Attributed(t) /\ AnsweredWell(t)
  BY DEF MountInit, Init, Attributed, AnsweredWell, CallAbout, ServedAbout,
     HitAbout, FoundAbout, NoCall, NoAnswer, NoRequest
<1> QED BY <1>2, <1>3 DEF AttributesInv

\* In every run.
LEMMA AttributesHold == MountSpec => []AttributesInv
<1>1. MountInit => AttributesInv
  BY AttributesInit
<1>2. Base /\ Base' /\ AttributesInv /\ [MountNext]_all_vars => AttributesInv'
  BY AttributesStay
<1> QED BY <1>1, <1>2, BaseHolds, PTL DEF MountSpec

(***************************************************************************)
(* The attributes that getattr answers are those of a member that has the  *)
(* name, for any number of threads, archives and versions.                 *)
(***************************************************************************)
THEOREM GetattrTellsOfMember == MountSpec => []GetattrOfMember
<1>1. Base /\ AttributesInv => GetattrOfMember
  <2> SUFFICES ASSUME Base, AttributesInv, NEW t \in Threads,
                      Answered(t, "getattr")
               PROVE  LET q == answer[t].request
                          e == answer[t].entry
                      IN  /\ e.version \in 1 .. OnDisk(q.archivepath)
                          /\ Members(q.archivepath, e.version)[e.index]
                               = q.relpath
    BY DEF GetattrOfMember
  <2> DEFINE q == answer[t].request
             e == answer[t].entry
  <2>1. About(disk, PathOf(q), e)
    BY DEF AttributesInv, AnsweredWell, Answered
  <2>2. PICK v \in 1 .. Len(disk[q.archivepath]) :
          \E k \in 1 .. Len(disk[q.archivepath][v].members) :
            IsNth(disk, q.archivepath, v, k, e, q.relpath)
    BY <2>1 DEF About, PathOf
  <2>3. PICK k : /\ disk[q.archivepath][v].members[k] = q.relpath
                 /\ e = [version |-> v, index |-> k]
    BY <2>2 DEF IsNth, Meta
  <2>4. e.version = v /\ e.index = k
    BY <2>3
  <2> QED BY <2>2, <2>3, <2>4 DEF Members, OnDisk
<1> QED BY <1>1, BaseHolds, AttributesHold, PTL

(***************************************************************************)
(* As long as archives can be read, a name that getattr reports missing    *)
(* was missing from a version that was on disk during the call: neither    *)
(* the cache nor another thread's call makes an ENOENT up.                 *)
(***************************************************************************)
THEOREM NothingFalselyMissing ==
  ASSUME ReadErrors = FALSE PROVE MountSpec => []NoFalseENOENT
<1>1. AttributesInv => NoFalseENOENT
  BY DEF AttributesInv, AnsweredWell, NoFalseENOENT, ENOENT, OnDisk, Members
<1> QED BY <1>1, AttributesHold, PTL

-----------------------------------------------------------------------------
(* Listings.                                                               *)

\* Memory does not run out, and archives can be read.
Perfect == ~AllocFails /\ ~ReadErrors
OneReader == \A r, s \in Readers : r = s

\* The chain of h has members of version v, and if memory does not run out in
\* their order and without gaps.
ChainOf(d, c, h, v) ==
  LET a == c.ents[h].path.archivepath
      dir == c.ents[h].dir
  IN  \A i \in 1 .. Len(dir) :
        \E k \in 1 .. Len(d[a][v].members) :
          /\ IsNth(d, a, v, k, c.ents[dir[i]].entry, c.ents[dir[i]].path.relpath)
          /\ ~AllocFails => k = i

\* Where memory does not run out, the cached members are the first ones.
LEMMA ChainTells ==
  ASSUME NEW h, NEW v, ChainOf(disk, cache, h, v), ~AllocFails,
         NEW i \in 1 .. Len(cache.ents[h].dir)
  PROVE  LET x == cache.ents[cache.ents[h].dir[i]]
         IN  /\ x.entry.version = v
             /\ x.path.relpath
                  = disk[cache.ents[h].path.archivepath][v].members[i]
<1>1. PICK a : a = cache.ents[h].path.archivepath
  OBVIOUS
<1>2. PICK x : x = cache.ents[cache.ents[h].dir[i]]
  OBVIOUS
<1>3. IsNth(disk, a, v, i, x.entry, x.path.relpath)
  BY <1>1, <1>2 DEF ChainOf
<1>4. x.entry = Meta(v, i) /\ x.path.relpath = disk[a][v].members[i]
  BY <1>3 DEF IsNth
<1>5. x.entry.version = v
  BY <1>4 DEF Meta
<1> QED BY <1>1, <1>2, <1>4, <1>5

\* A cached directory is complete, or a readdir is still adding to it.
Complete(h, v) ==
  \/ Len(cache.ents[h].dir)
       = Len(disk[cache.ents[h].path.archivepath][v].members)
  \/ \E t \in Threads : Filling(t) /\ dir_id[t].id = h

\* What is cached as the directory h is one version's.
OneVersion(h) ==
  \E v \in 1 .. OnDisk(cache.ents[h].path.archivepath) :
    /\ ChainOf(disk, cache, h, v)
    /\ Perfect /\ cache.ents[h].path.relpath = Root => Complete(h, v)

\* The Root entry that a thread put in last, and the chain it builds there.
Building(t) ==
  LET h == dir_id[t].id
  IN  /\ h < cache.next_id
      /\ h \in Live(cache) =>
           /\ cache.ents[h].path = RootPath(dir_id[t].archivepath)
           /\ at[t] = "rooted" /\ pc[t] = "idle" =>
                cache.ents[h].dir = <<>>
           /\ at[t] \in {"enumerating", "member"} =>
                /\ ChainOf(disk, cache, h, handle[t])
                /\ ~AllocFails =>
                     Len(cache.ents[h].dir) =
                       IF at[t] = "member" /\ pc[t] = "idle"
                       THEN position[t] ELSE position[t] - 1

ListedNames(t) == {served[t][i].path.relpath : i \in 1 .. Len(served[t])}

\* The names that a thread has, of one version of the archive.
Gathered(t) ==
  LET a == Archive(t)
      dir == request[t].relpath
  IN  /\ at[t] \notin {"enumerating", "member"} => filled[t] = {}
      /\ at[t] \in {"enumerating", "member"} =>
           /\ filled[t] \subseteq Children(a, handle[t], dir)
           /\ \A k \in 1 .. position[t] - 1 :
                Parent[Enumerated(t)[k]] = dir => Enumerated(t)[k] \in filled[t]
      /\ at[t] = "scandir" /\ pc[t] = "idle" /\ reply[t].error = 0 =>
           \E v \in 1 .. OnDisk(a) :
             /\ ListedNames(t) \subseteq Range(Members(a, v))
             /\ Perfect /\ OneReader => Range(Members(a, v)) \subseteq ListedNames(t)

\* The names are those of a directory of one version.
NamesOf(d, q, names) ==
  \E v \in 1 .. Len(d[q.archivepath]) :
    LET there == {n \in Range(d[q.archivepath][v].members) :
                    Parent[n] = q.relpath}
    IN  /\ names \subseteq there
        /\ Perfect /\ OneReader => there \subseteq names

ListedWell(t) ==
  answer[t].request.op = "readdir" =>
    /\ answer[t].request.archivepath \in Archives
    /\ NamesOf(disk, answer[t].request, answer[t].names)

\* No two threads build the same directory.
IdsDiffer ==
  \A t, u \in Threads :
    t # u /\ dir_id[t].id = dir_id[u].id => dir_id[t].id = NoId

ListingsInv ==
  /\ \A h \in Live(cache) : OneVersion(h)
  /\ IdsDiffer
  /\ \A t \in Threads : Building(t) /\ Gathered(t) /\ ListedWell(t)

\* What a change of the cache leaves as it was: the entries of a chain that
\* stays.
LEMMA ChainKept ==
  ASSUME Invariant, Invariant', HandlerInv, HandlerInv', Grows(disk, disk'),
         \/ Shrunk(cache, cache')
         \/ \E path, archive_id, entry :
              Inserted(cache, cache', path, archive_id, entry),
         NEW h \in Live(cache), h \in Live(cache'),
         cache'.ents[h].dir = cache.ents[h].dir,
         NEW v \in 1 .. OnDisk(cache.ents[h].path.archivepath),
         ChainOf(disk, cache, h, v)
  PROVE  /\ cache'.ents[h].path = cache.ents[h].path
         /\ v \in 1 .. Len(disk'[cache.ents[h].path.archivepath])
         /\ ChainOf(disk', cache', h, v)
<1> DEFINE a == cache.ents[h].path.archivepath
           dir == cache.ents[h].dir
<1>1. /\ a \in Archives /\ cache.next_id \in Nat
      /\ Live(cache) \subseteq 1 .. cache.next_id - 1
  BY DEF Invariant, CacheInv, CacheTypeOK, EntryRecords, Paths
<1>2. v \in 1 .. Len(disk'[a]) /\ disk'[a][v] = disk[a][v]
  BY <1>1, VersionStays DEF OnDisk, HandlerInv
<1>3. \A x \in Live(cache) \cap Live(cache') :
        /\ cache'.ents[x].path = cache.ents[x].path
        /\ cache'.ents[x].entry = cache.ents[x].entry
  <2>1. CASE Shrunk(cache, cache')
    BY <2>1 DEF Shrunk
  <2>2. ASSUME NEW path, NEW archive_id, NEW entry,
               Inserted(cache, cache', path, archive_id, entry)
        PROVE  \A x \in Live(cache) \cap Live(cache') :
                 /\ cache'.ents[x].path = cache.ents[x].path
                 /\ cache'.ents[x].entry = cache.ents[x].entry
    BY <1>1, <2>2 DEF Inserted
  <2> QED BY <2>1, <2>2
<1>4. \A i \in 1 .. Len(dir) : dir[i] \in Live(cache) \cap Live(cache')
  BY DEF Invariant, CacheInv, ChainsSound
<1>5. ChainOf(disk', cache', h, v)
  <2> SUFFICES ASSUME NEW i \in 1 .. Len(dir)
               PROVE  \E k \in 1 .. Len(disk'[a][v].members) :
                        /\ IsNth(disk', a, v, k, cache'.ents[dir[i]].entry,
                                 cache'.ents[dir[i]].path.relpath)
                        /\ ~AllocFails => k = i
    BY <1>3 DEF ChainOf
  <2>1. PICK k \in 1 .. Len(disk[a][v].members) :
          /\ IsNth(disk, a, v, k, cache.ents[dir[i]].entry,
                   cache.ents[dir[i]].path.relpath)
          /\ ~AllocFails => k = i
    BY DEF ChainOf
  <2>2. IsNth(disk', a, v, k, cache'.ents[dir[i]].entry,
              cache'.ents[dir[i]].path.relpath)
    BY <1>2, <1>3, <1>4, <2>1 DEF IsNth
  <2> QED BY <1>2, <2>1, <2>2
<1>6. cache'.ents[h].path = cache.ents[h].path
  BY <1>3
<1> QED BY <1>2, <1>5, <1>6

\* The chain that grows by the member that comes next.
LEMMA ChainGrown ==
  ASSUME Invariant, Invariant', HandlerInv, HandlerInv', disk' = disk,
         NEW path, NEW archive_id, NEW entry,
         Inserted(cache, cache', path, archive_id, entry),
         NEW h \in Live(cache), h \in Live(cache'),
         cache'.ents[h].dir = Append(cache.ents[h].dir, cache.next_id),
         NEW v, ChainOf(disk, cache, h, v),
         NEW k \in 1 .. Len(disk[cache.ents[h].path.archivepath][v].members),
         IsNth(disk, cache.ents[h].path.archivepath, v, k, entry, path.relpath),
         ~AllocFails => k = Len(cache.ents[h].dir) + 1
  PROVE  /\ cache'.ents[h].path = cache.ents[h].path
         /\ Len(cache'.ents[h].dir) = Len(cache.ents[h].dir) + 1
         /\ ChainOf(disk', cache', h, v)
<1> DEFINE a == cache.ents[h].path.archivepath
           dir == cache.ents[h].dir
           id == cache.next_id
<1>1. /\ id \in Nat /\ Live(cache) \subseteq 1 .. id - 1
      /\ dir \in Seq(Nat)
  BY DEF Invariant, CacheInv, CacheTypeOK, EntryRecords
<1>2. \A i \in 1 .. Len(dir) : dir[i] \in Live(cache)
  BY DEF Invariant, CacheInv, ChainsSound
<1>3. PICK dir2, grown : dir2 = dir /\ grown = Append(dir2, id)
  OBVIOUS
<1>4. /\ Len(grown) = Len(dir2) + 1
      /\ grown[Len(dir2) + 1] = id
      /\ \A i \in 1 .. Len(dir2) : grown[i] = dir2[i]
      /\ Len(dir2) \in Nat
  <2>1. dir2 \in Seq(Nat) /\ grown = Append(dir2, id)
    BY <1>1, <1>3
  <2> QED BY <1>1, <2>1, AppendProperties
<1>5. /\ cache'.ents[h].dir = grown
      /\ cache'.ents[h].path = cache.ents[h].path
  <2>1. h # cache.next_id
    BY <1>1
  <2>2. \A x \in Live(cache') \ {cache.next_id} :
          cache'.ents[x].path = cache.ents[x].path
    BY DEF Inserted
  <2> QED BY <1>3, <2>1, <2>2
<1>6. ASSUME NEW i \in 1 .. Len(dir2)
      PROVE  /\ cache'.ents[dir2[i]].entry = cache.ents[dir2[i]].entry
             /\ cache'.ents[dir2[i]].path = cache.ents[dir2[i]].path
  <2>1. dir2[i] \in Live(cache)
    BY <1>2, <1>3
  <2>2. dir2[i] \in Live(cache')
    <3>1. i \in 1 .. Len(cache'.ents[h].dir) /\ cache'.ents[h].dir[i] = dir2[i]
      BY <1>4, <1>5
    <3> QED BY <3>1 DEF Invariant, CacheInv, ChainsSound
  <2>3. dir2[i] # cache.next_id
    BY <1>1, <2>1
  <2>4. \A x \in Live(cache') \ {cache.next_id} :
          /\ cache'.ents[x].entry = cache.ents[x].entry
          /\ cache'.ents[x].path = cache.ents[x].path
    BY DEF Inserted
  <2> QED BY <2>2, <2>3, <2>4
<1>7. cache'.ents[id].entry = entry /\ cache'.ents[id].path = path
  BY DEF Inserted
<1> DEFINE Nth(i, e, n) == \E m \in 1 .. Len(disk[a][v].members) :
                             IsNth(disk, a, v, m, e, n) /\ (~AllocFails => m = i)
<1>8. \A i \in 1 .. Len(dir2) :
        Nth(i, cache.ents[dir2[i]].entry, cache.ents[dir2[i]].path.relpath)
  <2>1. \A i \in 1 .. Len(dir) :
          Nth(i, cache.ents[dir[i]].entry, cache.ents[dir[i]].path.relpath)
    BY DEF ChainOf
  <2> HIDE DEF Nth
  <2> QED BY <1>3, <2>1
<1>9. Nth(Len(dir2) + 1, entry, path.relpath)
  BY <1>3
<1>10. (\A i \in 1 .. Len(grown) :
          Nth(i, cache'.ents[grown[i]].entry, cache'.ents[grown[i]].path.relpath))
         => ChainOf(disk', cache', h, v)
  BY <1>5 DEF ChainOf
<1> HIDE DEF Nth
<1>11. ASSUME NEW i \in 1 .. Len(grown)
       PROVE  Nth(i, cache'.ents[grown[i]].entry,
                  cache'.ents[grown[i]].path.relpath)
  <2>1. CASE i \in 1 .. Len(dir2)
    BY <1>4, <1>6, <1>8, <2>1
  <2>2. CASE i = Len(dir2) + 1
    BY <1>4, <1>7, <1>9, <2>2
  <2> QED BY <1>4, <2>1, <2>2
<1> QED BY <1>3, <1>4, <1>5, <1>10, <1>11

\* A change of the cache: entries go, and at most one comes.
Changed ==
  \/ Shrunk(cache, cache')
  \/ \E path, archive_id, entry :
       Inserted(cache, cache', path, archive_id, entry)

\* A directory whose chain stays is still one version's.
LEMMA DirStays ==
  ASSUME Invariant, Invariant', HandlerInv, HandlerInv', Grows(disk, disk'),
         Changed, NEW h \in Live(cache), h \in Live(cache'),
         cache'.ents[h].dir = cache.ents[h].dir, OneVersion(h),
         \A u \in Threads : Filling(u) /\ dir_id[u].id = h =>
           Filling(u)' /\ dir_id'[u].id = h
  PROVE  OneVersion(h)'
<1> DEFINE a == cache.ents[h].path.archivepath
<1>1. PICK v \in 1 .. OnDisk(a) :
        /\ ChainOf(disk, cache, h, v)
        /\ Perfect /\ cache.ents[h].path.relpath = Root => Complete(h, v)
  BY DEF OneVersion
<1>2. /\ cache'.ents[h].path = cache.ents[h].path
      /\ v \in 1 .. Len(disk'[a])
      /\ ChainOf(disk', cache', h, v)
  BY <1>1, ChainKept DEF Changed
<1>3. disk'[a][v] = disk[a][v]
  <2>1. a \in Archives
    BY DEF Invariant, CacheInv, CacheTypeOK, EntryRecords, Paths
  <2> QED BY <1>1, <2>1, VersionStays DEF HandlerInv
<1>4. Complete(h, v) => Complete(h, v)'
  BY <1>2, <1>3 DEF Complete
<1> QED BY <1>1, <1>2, <1>4 DEF OneVersion, OnDisk

\* Only a readdir adds to a chain: to the one that it builds.
LEMMA ChainOwner ==
  ASSUME Base, NEW t \in Threads, InsertDone(t),
         Inserted(cache, cache', call[t].path, call[t].archive_id,
                  call[t].entry),
         NEW h \in Live(cache), h \in Live(cache'),
         cache'.ents[h].dir # cache.ents[h].dir
  PROVE  at[t] = "member" /\ h = dir_id[t].id
<1>1. /\ Invariant /\ HandlerInv /\ Serving(t)
      /\ Live(cache) \subseteq 1 .. cache.next_id - 1 /\ cache.next_id \in Nat
  BY DEF Base, ServingInv, Invariant, CacheInv, CacheTypeOK
<1>2. h = call[t].archive_id /\ h # NoId
  BY <1>1 DEF Inserted, ChainAfter, NoId
<1>3. call[t].op = "insert" /\ pc[t] = "locked"
  BY DEF InsertDone, InBody
<1>4. CallOf(t)
  BY <1>1, <1>3 DEF Serving
<1>5. at[t] \in {"cached", "rooted", "member"}
  BY <1>3, <1>4 DEF CallOf
<1>6. at[t] # "cached"
  BY <1>2, <1>4 DEF CallOf
<1>7. at[t] # "rooted"
  <2>1. call[t].path.relpath = Root => call[t].archive_id = NoId
    BY <1>1 DEF Invariant, CallInv
  <2> QED BY <1>2, <1>4, <2>1 DEF CallOf, RootPath
<1> QED BY <1>2, <1>4, <1>5, <1>6, <1>7 DEF CallOf

\* The directory that another thread builds keeps its chain.
LEMMA OthersChain ==
  ASSUME Base, IdsDiffer, NEW t \in Threads, StepOf(t),
         NEW u \in Threads, u # t, NEW h, h = dir_id[u].id,
         h < cache.next_id, h \in Live(cache')
  PROVE  h \in Live(cache) /\ cache'.ents[h].dir = cache.ents[h].dir
<1>1. Invariant /\ Live(cache) \subseteq 1 .. cache.next_id - 1
      /\ cache.next_id \in Nat
  BY DEF Base, Invariant, CacheInv, CacheTypeOK
<1>2. CASE Shrunk(cache, cache')
  BY <1>2 DEF Shrunk
<1>3. CASE InsertDone(t)
            /\ Inserted(cache, cache', call[t].path, call[t].archive_id,
                        call[t].entry)
  <2>1. h \in Live(cache)
    BY <1>1, <1>3 DEF Inserted
  <2>2. cache'.ents[h].dir # cache.ents[h].dir => h = dir_id[t].id
    BY <1>3, <2>1, ChainOwner
  <2>3. h # NoId
    BY <1>1, <2>1 DEF NoId
  <2> QED BY <2>1, <2>2, <2>3 DEF IdsDiffer
<1> QED BY <1>1, <1>2, <1>3, StepChanges

\* A readdir goes on with its directory until it is done.
LEMMA FillingGoesOn ==
  ASSUME Base, NEW t \in Threads, StepOf(t), Filling(t),
         ~EnumerateDone(t), ~NothingToEnumerate(t)
  PROVE  Filling(t)' /\ dir_id'[t] = dir_id[t]
<1>1. Invariant /\ HandlerInv /\ Serving(t) /\ OneOfEach
  BY EachThread DEF Base, ServingInv
<1>2. CASE TakeLock(t) \/ (Critical(t) /\ UNCHANGED mount_vars)
  <2>1. CallGoesOn(t) \/ CallReturns(t)
    BY <1>1, <1>2, CallSteps
  <2>2. at[t] = "member" /\ at' = at
    BY <1>1, <2>1 DEF CallGoesOn, CallReturns, Serving, CallOf, Filling,
       mount_vars
  <2> QED BY <2>1, <2>2 DEF CallGoesOn, CallReturns, Filling
<1>3. at[t] \in {"rooted", "enumerating", "member"}
  BY DEF Filling
<1>4. CASE Enumerate(t) \/ FillMember(t)
  BY <1>1, <1>4 DEF Enumerate, FillMember, Goto, OneOfEach, vars, Filling
<1>5. CASE CacheMember(t)
  <2>1. PICK op, path, archive_id, entry, now :
          Begin(t, op, path, archive_id, entry, now)
    BY <1>5 DEF CacheMember, BeginInsertMember, BeginInsert
  <2> QED BY <1>1, <1>5, <2>1 DEF CacheMember, Goto, OneOfEach, Filling, Begin
<1>6. CASE NullArchive(t)
  BY <1>6 DEF NullArchive, vars, Filling
<1> QED BY <1>2, <1>3, <1>4, <1>5, <1>6 DEF StepOf, Serve, Request, Getattr,
        Readdir, Accept, GetattrHit, GetattrMiss, EntryOpen, EntryMissing,
        GetattrCached, ReaddirHit, ReaddirMiss, CacheRoot, Running

\* The chain gets the member that the thread is at.
LEMMA MemberChained ==
  ASSUME Base, Base', NEW t \in Threads, InsertDone(t), UNCHANGED mount_vars,
         Inserted(cache, cache', call[t].path, call[t].archive_id,
                  call[t].entry),
         at[t] = "member", Building(t), NEW h, h = dir_id[t].id,
         h \in Live(cache), h \in Live(cache')
  PROVE  /\ cache'.ents[h].path = cache.ents[h].path
         /\ cache'.ents[h].path.archivepath = Archive(t)
         /\ handle[t] \in 1 .. OnDisk(Archive(t))
         /\ ChainOf(disk', cache', h, handle[t])
         /\ ~AllocFails => Len(cache'.ents[h].dir) = position[t]
<1>1. /\ Invariant /\ Invariant' /\ HandlerInv /\ HandlerInv' /\ Serving(t)
      /\ Live(cache) \subseteq 1 .. cache.next_id - 1 /\ cache.next_id \in Nat
  BY DEF Base, ServingInv, Invariant, CacheInv, CacheTypeOK
<1>2. call[t].op = "insert" /\ pc[t] = "locked"
  BY DEF InsertDone, InBody
<1>3. /\ call[t].archive_id = h
      /\ call[t].path = [archivepath |-> dir_id[t].archivepath,
                         relpath |-> Enumerated(t)[position[t]]]
      /\ call[t].entry = Meta(handle[t], position[t])
  BY <1>1, <1>2 DEF Serving, CallOf
<1>4. /\ cache.ents[h].path = RootPath(dir_id[t].archivepath)
      /\ ChainOf(disk, cache, h, handle[t])
      /\ ~AllocFails => Len(cache.ents[h].dir) = position[t] - 1
  BY <1>2 DEF Building
<1>5. dir_id[t].archivepath = Archive(t)
  BY <1>1 DEF Serving, Filling
<1>6. /\ handle[t] \in 1 .. OnDisk(Archive(t))
      /\ position[t] \in 1 .. Len(Enumerated(t))
  BY <1>1, <1>2, InCall
<1>7. /\ cache.ents[h].path.archivepath = Archive(t)
      /\ call[t].path.archivepath = Archive(t)
      /\ call[t].path.relpath = Enumerated(t)[position[t]]
  BY <1>3, <1>4, <1>5 DEF RootPath
<1>8. cache'.ents[h].dir = Append(cache.ents[h].dir, cache.next_id)
  <2>1. h # cache.next_id /\ h \in Live(cache') \ {cache.next_id}
    BY <1>1
  <2>2. cache.ents[h].path = RootPath(call[t].path.archivepath)
    BY <1>4, <1>5, <1>7
  <2> QED BY <1>3, <2>1, <2>2 DEF Inserted, ChainAfter
<1>9. IsNth(disk, cache.ents[h].path.archivepath, handle[t], position[t],
            call[t].entry, call[t].path.relpath)
  BY <1>3, <1>6, <1>7 DEF IsNth, Enumerated, Members
<1>10. position[t] \in
         1 .. Len(disk[cache.ents[h].path.archivepath][handle[t]].members)
  BY <1>6, <1>7 DEF Enumerated, Members
<1>11. disk' = disk
  BY DEF mount_vars
<1>12. Len(cache.ents[h].dir) \in Nat
  <2>1. cache.ents[h] \in EntryRecords
    BY <1>1 DEF Invariant, CacheInv, CacheTypeOK
  <2>2. cache.ents[h].dir \in Seq(Nat)
    BY <2>1 DEF EntryRecords
  <2> QED BY <2>2, LenProperties
<1>13. position[t] \in Nat
  BY <1>1 DEF HandlerInv, HandlerTypes
<1>14. ASSUME ~AllocFails
       PROVE  position[t] = Len(cache.ents[h].dir) + 1
  <2>1. Len(cache.ents[h].dir) = position[t] - 1
    BY <1>4, <1>14
  <2> QED BY <1>12, <1>13, <2>1
<1>15. PICK v, k, path, archive_id, entry :
         /\ v = handle[t] /\ k = position[t] /\ path = call[t].path
         /\ archive_id = call[t].archive_id /\ entry = call[t].entry
  OBVIOUS
<1>16. /\ cache'.ents[h].path = cache.ents[h].path
       /\ Len(cache'.ents[h].dir) = Len(cache.ents[h].dir) + 1
       /\ ChainOf(disk', cache', h, v)
  <2>1. /\ ChainOf(disk, cache, h, v)
        /\ k \in 1 .. Len(disk[cache.ents[h].path.archivepath][v].members)
        /\ IsNth(disk, cache.ents[h].path.archivepath, v, k, entry, path.relpath)
        /\ ~AllocFails => k = Len(cache.ents[h].dir) + 1
    BY <1>4, <1>9, <1>10, <1>14, <1>15
  <2>2. Inserted(cache, cache', path, archive_id, entry)
    BY <1>15
  <2> QED BY <1>1, <1>8, <1>11, <2>1, <2>2, ChainGrown
<1> QED BY <1>6, <1>7, <1>14, <1>15, <1>16

\* The chain that grew is of the version that is being read.
LEMMA GrownDir ==
  ASSUME Base, Base', NEW t \in Threads, InsertDone(t), UNCHANGED mount_vars,
         Inserted(cache, cache', call[t].path, call[t].archive_id,
                  call[t].entry),
         at[t] = "member", Building(t), StepOf(t), NEW h, h = dir_id[t].id,
         h \in Live(cache), h \in Live(cache')
  PROVE  OneVersion(h)'
<1>1. /\ cache'.ents[h].path.archivepath = Archive(t)
      /\ handle[t] \in 1 .. OnDisk(Archive(t))
      /\ ChainOf(disk', cache', h, handle[t])
  BY MemberChained
<1>2. pc[t] = "locked" /\ disk' = disk
  BY DEF InsertDone, InBody, mount_vars
<1>3. Filling(t) /\ ~EnumerateDone(t) /\ ~NothingToEnumerate(t)
  BY <1>2 DEF Filling, EnumerateDone, NothingToEnumerate, Running
<1>4. Filling(t)' /\ dir_id'[t].id = h
  BY <1>3, FillingGoesOn
<1>5. PICK v : v = handle[t]
  OBVIOUS
<1>6. Complete(h, v)'
  BY <1>4 DEF Complete
<1>7. v \in 1 .. Len(disk'[cache'.ents[h].path.archivepath])
      /\ ChainOf(disk', cache', h, v)
  BY <1>1, <1>2, <1>5 DEF OnDisk
<1> QED BY <1>6, <1>7 DEF OneVersion, OnDisk

\* A new entry has no chain yet; a Root entry is its thread's to fill.
LEMMA NewDir ==
  ASSUME Base, Base', NEW t \in Threads, InsertDone(t), UNCHANGED mount_vars,
         Inserted(cache, cache', call[t].path, call[t].archive_id,
                  call[t].entry),
         NEW h, h = cache.next_id
  PROVE  OneVersion(h)'
<1>1. /\ Invariant /\ HandlerInv' /\ HandlerInv /\ Serving(t)
  BY DEF Base, ServingInv
<1>2. /\ cache'.ents[h].dir = <<>> /\ cache'.ents[h].path = call[t].path
  BY DEF Inserted
<1>3. call[t].op = "insert" /\ pc[t] = "locked"
  BY DEF InsertDone, InBody
<1>4. call[t].path.archivepath \in Archives
  BY <1>1, <1>3 DEF Invariant, CallInv, Paths
<1>5. 1 \in 1 .. Len(disk'[cache'.ents[h].path.archivepath])
  BY <1>1, <1>2, <1>4, MountAssumption DEF HandlerInv, DiskInv, OnDisk
<1>6. ChainOf(disk', cache', h, 1)
  BY <1>2 DEF ChainOf
<1>7. ASSUME cache'.ents[h].path.relpath = Root PROVE Complete(h, 1)'
  <2>1. at[t] \in {"scandir", "rooted"}
    BY <1>1, <1>2, <1>3, <1>7, InCall
  <2>2. at[t] = "rooted" /\ at'[t] = "rooted"
    BY <1>1, <1>3, <2>1 DEF Serving, CallOf, mount_vars
  <2>3. dir_id'[t].id = h /\ pc'[t] = "idle"
    BY <1>1, <1>2, <1>7
       DEF InsertDone, Unlock, RememberDir, Invariant, TypeOK
  <2> QED BY <2>2, <2>3 DEF Complete, Filling
<1> QED BY <1>5, <1>6, <1>7 DEF OneVersion, OnDisk

\* A readdir that is done leaves a complete directory.
LEMMA DoneDir ==
  ASSUME Base, Base', NEW t \in Threads, Building(t),
         EnumerateDone(t) \/ NothingToEnumerate(t),
         NEW h, h = dir_id[t].id, h \in Live(cache), OneVersion(h)
  PROVE  OneVersion(h)'
<1> DEFINE a == cache.ents[h].path.archivepath
<1>1. Invariant /\ HandlerInv /\ Serving(t)
  BY DEF Base, ServingInv
<1>2. UNCHANGED <<vars, disk>> /\ cache' = cache /\ pc[t] = "idle"
      /\ at[t] \in {"enumerating", "rooted"}
  BY DEF EnumerateDone, NothingToEnumerate, Answer, Running, vars
<1>3. /\ cache.ents[h].path = RootPath(dir_id[t].archivepath)
      /\ dir_id[t].archivepath = Archive(t) /\ Archive(t) \in Archives
      /\ a = Archive(t)
  BY <1>1, <1>2 DEF Building, Serving, Filling, RootPath, HandlerInv
<1>4. \E v \in 1 .. OnDisk(a) :
        /\ ChainOf(disk, cache, h, v)
        /\ Perfect => Len(cache.ents[h].dir) = Len(disk[a][v].members)
  <2>1. CASE EnumerateDone(t)
    <3>1. /\ at[t] = "enumerating"
          /\ position[t] > Len(Enumerated(t)) \/ ReadErrors
      BY <2>1 DEF EnumerateDone, Running
    <3>2. handle[t] \in 1 .. OnDisk(a)
      BY <1>1, <1>3, <3>1, HandleOnDisk DEF HandlerInv
    <3>3. /\ ChainOf(disk, cache, h, handle[t])
          /\ ~AllocFails => Len(cache.ents[h].dir) = position[t] - 1
          /\ position[t] <= Len(Enumerated(t)) + 1
      BY <1>1, <3>1 DEF Building, Serving
    <3>4. Enumerated(t) = disk[a][handle[t]].members
      BY <1>3 DEF Enumerated, Members
    <3>5. Len(Enumerated(t)) \in Nat /\ position[t] \in Nat
      <4>1. Enumerated(t) \in Seq(Names)
        BY <1>1, <1>3, <3>2, MembersCacheable DEF HandlerInv, Enumerated
      <4> QED BY <1>1, <4>1, LenProperties DEF HandlerInv, HandlerTypes
    <3>6. ASSUME Perfect
          PROVE  Len(cache.ents[h].dir) = Len(Enumerated(t))
      <4>1. ~AllocFails /\ ~ReadErrors
        BY <3>6 DEF Perfect
      <4> QED BY <3>1, <3>3, <3>5, <4>1
    <3> QED BY <3>2, <3>3, <3>4, <3>6
  <2>2. CASE NothingToEnumerate(t)
    <3>1. at[t] = "rooted" /\ ~CanEnumerate(t)
      BY <2>2 DEF NothingToEnumerate, Running
    <3>2. cache.ents[h].dir = <<>>
      BY <1>2, <3>1 DEF Building
    <3>3. PICK v \in 1 .. OnDisk(a) : Members(a, v) = <<>>
      <4>1. CASE handle[t] = NoHandle
        <5>1. \E v \in request[t].since .. OnDisk(a) : Members(a, v) = <<>>
          BY <1>1, <1>3, <3>1, <4>1 DEF Serving
        <5>2. request[t].since \in Nat \ {0}
          BY <1>1, <3>1 DEF Serving
        <5>3. OnDisk(a) \in Nat
          BY <1>1, <1>3 DEF HandlerInv, DiskInv
        <5>4. request[t].since .. OnDisk(a) \subseteq 1 .. OnDisk(a)
          BY <5>2, <5>3
        <5> QED BY <5>1, <5>4
      <4>2. CASE handle[t] # NoHandle
        <5>1. Source(t) \in 1 .. OnDisk(a)
          BY <1>1, <1>3, <4>2, SourceOnDisk
        <5>2. ~IsArchive(a, Source(t))
          BY <1>3, <3>1, <4>2 DEF CanEnumerate
        <5>3. disk[a][Source(t)] \in Version
          BY <1>1, <1>3, <5>1 DEF HandlerInv, DiskInv, OnDisk
        <5>4. Members(a, Source(t)) = <<>>
          BY <5>2, <5>3 DEF Version, IsArchive, Members
        <5> QED BY <5>1, <5>4
      <4> QED BY <4>1, <4>2
    <3>4. Len(cache.ents[h].dir) = 0 /\ Len(disk[a][v].members) = 0
      BY <3>2, <3>3 DEF Members
    <3>5. ChainOf(disk, cache, h, v)
      <4>1. 1 .. Len(cache.ents[h].dir) = {}
        BY <3>4
      <4> QED BY <4>1 DEF ChainOf
    <3> QED BY <3>3, <3>4, <3>5
  <2> QED BY <2>1, <2>2
<1>5. PICK v \in 1 .. OnDisk(a) :
        /\ ChainOf(disk, cache, h, v)
        /\ Perfect => Len(cache.ents[h].dir) = Len(disk[a][v].members)
  BY <1>4
<1>6. v \in 1 .. Len(disk'[cache'.ents[h].path.archivepath])
      /\ ChainOf(disk', cache', h, v) /\ (Perfect => Complete(h, v)')
  BY <1>2, <1>5 DEF Complete, OnDisk
<1> QED BY <1>6 DEF OneVersion, OnDisk

\* Every directory stays one version's.
LEMMA DirsStay ==
  ASSUME Base, Base', Grows(disk, disk'), ListingsInv,
         NEW t \in Threads, StepOf(t), NEW h \in Live(cache')
  PROVE  OneVersion(h)'
<1>1. /\ Invariant /\ Invariant' /\ HandlerInv /\ HandlerInv' /\ Functions
      /\ Building(t)
      /\ Live(cache) \subseteq 1 .. cache.next_id - 1 /\ cache.next_id \in Nat
  BY DEF Base, ServingInv, ListingsInv, Invariant, CacheInv, CacheTypeOK
<1>2. Changed
  BY <1>1, StepChanges DEF Changed
<1>3. CASE h \notin Live(cache)
  <2>1. ~Shrunk(cache, cache')
    BY <1>3 DEF Shrunk
  <2>2. InsertDone(t) /\ UNCHANGED mount_vars
        /\ Inserted(cache, cache', call[t].path, call[t].archive_id,
                    call[t].entry)
    BY <1>1, <2>1, StepChanges
  <2>3. h = cache.next_id
    BY <1>3, <2>2 DEF Inserted
  <2> QED BY <2>2, <2>3, NewDir
<1>4. CASE h \in Live(cache) /\ cache'.ents[h].dir # cache.ents[h].dir
  <2>1. ~Shrunk(cache, cache')
    BY <1>4 DEF Shrunk
  <2>2. InsertDone(t) /\ UNCHANGED mount_vars
        /\ Inserted(cache, cache', call[t].path, call[t].archive_id,
                    call[t].entry)
    BY <1>1, <2>1, StepChanges
  <2>3. at[t] = "member" /\ h = dir_id[t].id
    BY <1>4, <2>2, ChainOwner
  <2> QED BY <1>1, <1>4, <2>2, <2>3, GrownDir
<1>5. CASE h \in Live(cache) /\ cache'.ents[h].dir = cache.ents[h].dir
  <2>1. OneVersion(h)
    BY <1>5 DEF ListingsInv
  <2>2. CASE h = dir_id[t].id /\ (EnumerateDone(t) \/ NothingToEnumerate(t))
    BY <1>1, <1>5, <2>1, <2>2, DoneDir
  <2>3. CASE ~(h = dir_id[t].id /\ (EnumerateDone(t) \/ NothingToEnumerate(t)))
    <3>1. ASSUME NEW u \in Threads, Filling(u), dir_id[u].id = h
          PROVE  Filling(u)' /\ dir_id'[u].id = h
      <4>1. CASE u = t
        BY <2>3, <3>1, <4>1, FillingGoesOn
      <4>2. CASE u # t
        <5>1. Same(u)
          BY <1>1, <4>2, OthersSame
        <5> QED BY <3>1, <5>1 DEF Same, Filling
      <4> QED BY <4>1, <4>2
    <3> QED BY <1>1, <1>2, <1>5, <2>1, <3>1, DirStays
  <2> QED BY <2>2, <2>3
<1> QED BY <1>3, <1>4, <1>5

\* How many members of its directory a thread has cached.
Cached(t) ==
  IF at[t] = "member" /\ pc[t] = "idle" THEN position[t] ELSE position[t] - 1

\* A thread that does not add to its directory has it as it was.
LEMMA BuildingKept ==
  ASSUME Base, Base', Grows(disk, disk'), Changed, NEW u \in Threads,
         Building(u), dir_id'[u] = dir_id[u],
         dir_id[u].id \in Live(cache') =>
           /\ dir_id[u].id \in Live(cache)
           /\ cache'.ents[dir_id[u].id].dir = cache.ents[dir_id[u].id].dir,
         at'[u] = "rooted" /\ pc'[u] = "idle" =>
           at[u] = "rooted" /\ pc[u] = "idle",
         at'[u] \in {"enumerating", "member"} =>
           /\ at[u] \in {"enumerating", "member"}
           /\ handle'[u] = handle[u] /\ Cached(u)' = Cached(u)
  PROVE  Building(u)'
<1> DEFINE h == dir_id[u].id
<1>1. /\ Invariant /\ Invariant' /\ HandlerInv /\ HandlerInv' /\ Serving(u)
      /\ cache.next_id \in Nat /\ h \in Nat
  BY DEF Base, ServingInv, Invariant, TypeOK, CacheInv, CacheTypeOK
<1>2. cache'.next_id >= cache.next_id
  BY <1>1 DEF Changed, Shrunk, Inserted
<1>3. h < cache'.next_id
  <2>1. cache'.next_id \in Nat /\ h < cache.next_id
    BY <1>1 DEF Building, Invariant, CacheInv, CacheTypeOK
  <2> QED BY <1>1, <1>2, <2>1
<1>4. ASSUME h \in Live(cache')
      PROVE  /\ cache'.ents[h].path = RootPath(dir_id[u].archivepath)
             /\ at'[u] = "rooted" /\ pc'[u] = "idle" =>
                  cache'.ents[h].dir = <<>>
             /\ at'[u] \in {"enumerating", "member"} =>
                  /\ ChainOf(disk', cache', h, handle[u])
                  /\ ~AllocFails => Len(cache'.ents[h].dir) = Cached(u)
  <2>1. h \in Live(cache) /\ cache'.ents[h].dir = cache.ents[h].dir
    BY <1>4
  <2>2. cache'.ents[h].path = cache.ents[h].path
    <3>1. h # cache.next_id
      BY <1>1 DEF Building
    <3> QED BY <1>4, <2>1, <3>1 DEF Changed, Shrunk, Inserted
  <2>3. ASSUME at'[u] \in {"enumerating", "member"}
        PROVE  /\ ChainOf(disk', cache', h, handle[u])
               /\ ~AllocFails => Len(cache'.ents[h].dir) = Cached(u)
    <3>1. /\ at[u] \in {"enumerating", "member"}
          /\ ChainOf(disk, cache, h, handle[u])
          /\ ~AllocFails => Len(cache.ents[h].dir) = Cached(u)
      BY <2>1, <2>3 DEF Building, Cached
    <3>2. /\ handle[u] \in 1 .. OnDisk(Archive(u))
          /\ dir_id[u].archivepath = Archive(u)
      BY <1>1, <3>1, HandleOnDisk DEF HandlerInv, Serving, Filling
    <3>3. cache.ents[h].path.archivepath = Archive(u)
      BY <2>1, <3>2 DEF Building, RootPath
    <3>4. PICK v : v = handle[u]
      OBVIOUS
    <3>5. ChainOf(disk', cache', h, v)
      <4>1. v \in 1 .. OnDisk(cache.ents[h].path.archivepath)
            /\ ChainOf(disk, cache, h, v)
        BY <3>1, <3>2, <3>3, <3>4
      <4> QED BY <1>1, <1>4, <2>1, <4>1, ChainKept DEF Changed
    <3> QED BY <2>1, <3>1, <3>4, <3>5
  <2>4. /\ cache.ents[h].path = RootPath(dir_id[u].archivepath)
        /\ at[u] = "rooted" /\ pc[u] = "idle" => cache.ents[h].dir = <<>>
    BY <2>1 DEF Building
  <2> QED BY <2>1, <2>2, <2>3, <2>4
<1> QED BY <1>3, <1>4 DEF Building, Cached

\* What a thread's call of the cache does to the directory that it builds.
LEMMA CallBuilds ==
  ASSUME Base, Base', Grows(disk, disk'), ListingsInv, NEW t \in Threads,
         StepOf(t), TakeLock(t) \/ (Critical(t) /\ UNCHANGED mount_vars)
  PROVE  Building(t)'
<1> DEFINE h == dir_id[t].id
<1>1. /\ Invariant /\ Invariant' /\ HandlerInv /\ HandlerInv' /\ Functions
      /\ Building(t) /\ Serving(t)
      /\ Live(cache) \subseteq 1 .. cache.next_id - 1 /\ cache.next_id \in Nat
      /\ Live(cache') \subseteq 1 .. cache'.next_id - 1
  BY DEF Base, ServingInv, ListingsInv, Invariant, CacheInv, CacheTypeOK
<1>2. Changed
  BY <1>1, StepChanges DEF Changed
<1>3. CallGoesOn(t) \/ CallReturns(t)
  BY <1>1, CallSteps
<1>4. at' = at /\ handle' = handle /\ position' = position /\ pc[t] # "idle"
      /\ disk' = disk
  BY <1>3 DEF CallGoesOn, CallReturns, mount_vars
<1>5. CASE CallGoesOn(t)
  <2>1. ~InsertDone(t)
    BY <1>1, <1>5 DEF CallGoesOn, InsertDone, Unlock, Invariant, TypeOK
  <2>2. Shrunk(cache, cache')
    BY <1>1, <2>1, StepChanges
  <2>3. pc'[t] # "idle" /\ dir_id'[t] = dir_id[t]
    BY <1>5 DEF CallGoesOn
  <2>4. Cached(t)' = Cached(t)
    BY <1>4, <2>3 DEF Cached
  <2>5. h \in Live(cache') =>
          h \in Live(cache) /\ cache'.ents[h].dir = cache.ents[h].dir
    BY <2>2 DEF Shrunk
  <2> QED BY <1>1, <1>2, <1>4, <2>3, <2>4, <2>5, BuildingKept
<1>6. CASE CallReturns(t) /\ InsertDone(t)
  <2>1. /\ UNCHANGED mount_vars
        /\ Inserted(cache, cache', call[t].path, call[t].archive_id,
                    call[t].entry)
    BY <1>1, <1>6, StepChanges
  <2>2. call[t].op = "insert" /\ CallOf(t)
    BY <1>1, <1>4, <1>6 DEF InsertDone, InBody, Serving
  <2>3. at[t] \in {"cached", "rooted", "member"} /\ pc'[t] = "idle"
    BY <1>6, <2>2 DEF CallOf, CallReturns
  <2>4. CASE at[t] = "rooted"
    <3>1. call[t].path = RootPath(Archive(t))
      BY <2>2, <2>4 DEF CallOf
    <3>2. dir_id'[t] = [archivepath |-> Archive(t), id |-> cache.next_id]
      BY <1>1, <1>6, <3>1
         DEF InsertDone, RememberDir, RootPath, Invariant, TypeOK
    <3>3. PICK id, a : id = cache.next_id /\ a = Archive(t)
      OBVIOUS
    <3>4. dir_id'[t].id = id /\ dir_id'[t].archivepath = a
      BY <3>2, <3>3
    <3>5. /\ cache'.ents[id].path = RootPath(a)
          /\ cache'.ents[id].dir = <<>>
          /\ id < cache'.next_id
      BY <1>1, <2>1, <3>1, <3>3 DEF Inserted
    <3>6. at'[t] = "rooted"
      BY <1>4, <2>4
    <3> QED BY <3>4, <3>5, <3>6 DEF Building
  <2>5. CASE at[t] = "cached"
    <3>1. dir_id'[t] = dir_id[t]
      BY <1>6, <2>5 DEF CallReturns
    <3>2. h \in Live(cache') =>
            h \in Live(cache) /\ cache'.ents[h].dir = cache.ents[h].dir
      <4>1. h # cache.next_id
        BY <1>1 DEF Building, Invariant, TypeOK
      <4>2. h \in Live(cache') => h \in Live(cache)
        BY <2>1, <4>1 DEF Inserted
      <4> QED BY <1>6, <2>1, <2>5, <4>2, ChainOwner
    <3> QED BY <1>1, <1>2, <1>4, <2>5, <3>1, <3>2, BuildingKept
  <2>6. CASE at[t] = "member"
    <3>1. dir_id'[t] = dir_id[t]
      BY <1>6, <2>6 DEF CallReturns
    <3>2. PICK v, id : v = handle[t] /\ id = dir_id[t].id
      OBVIOUS
    <3>3. id < cache.next_id /\ id \in Nat
      BY <1>1, <3>2 DEF Building, Invariant, TypeOK
    <3>4. id < cache'.next_id
      BY <1>1, <2>1, <3>3 DEF Inserted
    <3>5. ASSUME id \in Live(cache')
          PROVE  /\ cache'.ents[id].path = RootPath(dir_id[t].archivepath)
                 /\ ChainOf(disk', cache', id, v)
                 /\ ~AllocFails => Len(cache'.ents[id].dir) = position[t]
      <4>1. id \in Live(cache)
        BY <1>1, <2>1, <3>3, <3>5 DEF Inserted
      <4>2. /\ cache'.ents[id].path = cache.ents[id].path
            /\ ChainOf(disk', cache', id, handle[t])
            /\ ~AllocFails => Len(cache'.ents[id].dir) = position[t]
        BY <1>1, <1>6, <2>1, <2>6, <3>2, <3>5, <4>1, MemberChained
      <4>3. cache.ents[id].path = RootPath(dir_id[t].archivepath)
        BY <1>1, <3>2, <4>1 DEF Building
      <4> QED BY <3>2, <4>2, <4>3
    <3>6. at'[t] = "member" /\ handle'[t] = v /\ dir_id'[t].id = id
      BY <1>4, <2>6, <3>1, <3>2
    <3> QED BY <1>4, <2>3, <3>1, <3>4, <3>5, <3>6 DEF Building
  <2> QED BY <2>3, <2>4, <2>5, <2>6
<1>7. CASE CallReturns(t) /\ ~InsertDone(t)
  <2>1. Shrunk(cache, cache')
    BY <1>1, <1>7, StepChanges
  <2>2. CASE at[t] = "rooted"
    <3>1. InsertNoMemory(t)
      <4>1. CallOf(t)
        BY <1>1, <1>4 DEF Serving
      <4>2. call[t].op = "insert"
        BY <2>2, <4>1 DEF CallOf
      <4>3. pc[t] # "scanning"
        BY <1>1, <4>2 DEF Invariant, CallInv
      <4>4. ~GetHit(t) /\ ~Miss(t) /\ ~ScanEnd(t)
        BY <4>2, <4>3 DEF GetHit, Miss, ScanEnd, InBody
      <4> QED BY <1>1, <1>7, <4>4, CallSteps DEF CallGoesOn, CallReturns
    <3>2. call[t].path = RootPath(Archive(t))
      BY <1>1, <1>4, <2>2 DEF Serving, CallOf
    <3>3. dir_id'[t].id = NoId
      BY <1>1, <3>1, <3>2
         DEF InsertNoMemory, RememberDir, RootPath, Invariant, TypeOK
    <3>4. NoId \notin Live(cache') /\ NoId < cache'.next_id
      BY <1>1 DEF NoId, Invariant, CacheInv, CacheTypeOK
    <3> QED BY <3>3, <3>4 DEF Building
  <2>3. CASE at[t] # "rooted"
    <3>1. dir_id'[t] = dir_id[t]
      BY <1>7, <2>3 DEF CallReturns
    <3>2. h \in Live(cache') =>
            h \in Live(cache) /\ cache'.ents[h].dir = cache.ents[h].dir
      BY <2>1 DEF Shrunk
    <3>3. CASE at[t] = "member"
      <4>1. PICK v, id : v = handle[t] /\ id = dir_id[t].id
        OBVIOUS
      <4>2. AllocFails
        <5>1. CallOf(t)
          BY <1>1, <1>4 DEF Serving
        <5>2. call[t].op = "insert"
          BY <3>3, <5>1 DEF CallOf
        <5>3. pc[t] # "scanning"
          BY <1>1, <5>2 DEF Invariant, CallInv
        <5>4. ~GetHit(t) /\ ~Miss(t) /\ ~ScanEnd(t)
          BY <5>2, <5>3 DEF GetHit, Miss, ScanEnd, InBody
        <5>5. InsertNoMemory(t)
          BY <1>1, <1>7, <5>4, CallSteps DEF CallGoesOn, CallReturns
        <5> QED BY <5>5 DEF InsertNoMemory
      <4>3. id < cache'.next_id
        BY <1>1, <2>1, <4>1 DEF Building, Shrunk, Invariant, TypeOK
      <4>4. ASSUME id \in Live(cache')
            PROVE  /\ cache'.ents[id].path = RootPath(dir_id[t].archivepath)
                   /\ ChainOf(disk', cache', id, v)
        <5>1. id \in Live(cache) /\ cache'.ents[id] = cache.ents[id]
          BY <2>1, <4>4 DEF Shrunk
        <5>2. /\ cache.ents[id].path = RootPath(dir_id[t].archivepath)
              /\ ChainOf(disk, cache, id, v)
          BY <1>1, <3>3, <4>1, <5>1 DEF Building
        <5>3. /\ v \in 1 .. OnDisk(Archive(t))
              /\ dir_id[t].archivepath = Archive(t)
          BY <1>1, <3>3, <4>1, HandleOnDisk DEF HandlerInv, Serving, Filling
        <5>4. v \in 1 .. OnDisk(cache.ents[id].path.archivepath)
          BY <5>2, <5>3 DEF RootPath
        <5> QED BY <1>1, <2>1, <4>4, <5>1, <5>2, <5>4, ChainKept
      <4>5. at'[t] = "member" /\ handle'[t] = v /\ dir_id'[t].id = id
        BY <1>4, <3>1, <3>3, <4>1
      <4> QED BY <3>1, <4>2, <4>3, <4>4, <4>5 DEF Building
    <3>4. CASE at[t] # "member"
      <4>1. at[t] # "enumerating"
        BY <1>1, <1>4 DEF Serving, CallOf
      <4> QED BY <1>1, <1>2, <1>4, <2>3, <3>1, <3>2, <3>4, <4>1, BuildingKept
    <3> QED BY <3>3, <3>4
  <2> QED BY <2>2, <2>3
<1> QED BY <1>3, <1>5, <1>6, <1>7

\* What the handlers themselves do to it.
LEMMA HandlerBuilds ==
  ASSUME Base, Base', Grows(disk, disk'), ListingsInv, NEW t \in Threads,
         StepOf(t), ~TakeLock(t), ~(Critical(t) /\ UNCHANGED mount_vars)
  PROVE  Building(t)'
<1> DEFINE h == dir_id[t].id
<1>1. /\ Invariant /\ HandlerInv /\ OneOfEach /\ Building(t) /\ Serving(t)
  BY EachThread DEF Base, ServingInv, ListingsInv
<1>2. ASSUME cache' = cache, dir_id' = dir_id,
             at'[t] = "rooted" /\ pc'[t] = "idle" =>
               at[t] = "rooted" /\ pc[t] = "idle",
             at'[t] \in {"enumerating", "member"} =>
               /\ at[t] \in {"enumerating", "member"}
               /\ handle'[t] = handle[t] /\ Cached(t)' = Cached(t)
      PROVE  Building(t)'
  <2>1. Changed
    BY <1>2 DEF Changed, Shrunk
  <2> QED BY <1>1, <1>2, <2>1, BuildingKept
<1>3. CASE Enumerate(t)
  <2>1. /\ at[t] = "rooted" /\ pc[t] = "idle" /\ at'[t] = "enumerating"
        /\ position'[t] = 1 /\ UNCHANGED vars
    BY <1>1, <1>3 DEF Enumerate, Running, Goto, OneOfEach
  <2>2. cache' = cache /\ dir_id' = dir_id
    BY <2>1 DEF vars
  <2>3. /\ h < cache.next_id
        /\ h \in Live(cache) =>
             /\ cache.ents[h].path = RootPath(dir_id[t].archivepath)
             /\ cache.ents[h].dir = <<>>
    BY <1>1, <2>1 DEF Building
  <2>4. ASSUME h \in Live(cache) PROVE ChainOf(disk, cache, h, handle[t])'
    <3>1. PICK id : id = h
      OBVIOUS
    <3>2. cache'.ents[id].dir = <<>> /\ dir_id'[t].id = id
      BY <2>2, <2>3, <2>4, <3>1
    <3>3. ChainOf(disk', cache', id, handle'[t])
      BY <3>2 DEF ChainOf
    <3> QED BY <3>2, <3>3
  <2>5. Len(<<>>) = 0 /\ position'[t] - 1 = 0
    BY <2>1
  <2> QED BY <2>1, <2>2, <2>3, <2>4, <2>5 DEF Building
<1>4. CASE FillMember(t)
  <2>1. /\ at[t] = "member" /\ pc[t] = "idle" /\ at'[t] = "enumerating"
        /\ position'[t] = position[t] + 1 /\ handle' = handle
        /\ UNCHANGED vars /\ position[t] \in Nat
    BY <1>1, <1>4 DEF FillMember, Running, Goto, OneOfEach, HandlerInv,
       HandlerTypes
  <2>2. Cached(t)' = Cached(t)
    BY <2>1 DEF Cached
  <2> QED BY <1>2, <2>1, <2>2 DEF vars
<1>5. ASSUME NEW op, NEW path, NEW archive_id, NEW entry, NEW now,
             Begin(t, op, path, archive_id, entry, now)
      PROVE  cache' = cache /\ dir_id' = dir_id /\ pc'[t] = "waiting"
  BY <1>1, <1>5, BeginSets
<1>6. CASE CacheMember(t)
  <2>1. cache' = cache /\ dir_id' = dir_id /\ pc'[t] = "waiting"
    BY <1>5, <1>6 DEF CacheMember, BeginInsertMember, BeginInsert
  <2>2. /\ at[t] = "enumerating" /\ at'[t] = "member"
        /\ UNCHANGED <<handle, position>>
    BY <1>1, <1>6 DEF CacheMember, Running, Goto, OneOfEach
  <2>3. Cached(t)' = Cached(t)
    BY <2>1, <2>2 DEF Cached
  <2> QED BY <1>2, <2>1, <2>2, <2>3
<1>7. CASE Request(t) \/ EntryOpen(t) \/ CacheRoot(t)
  <2>1. cache' = cache /\ dir_id' = dir_id /\ pc'[t] = "waiting"
    BY <1>5, <1>7 DEF Request, Getattr, Readdir, BeginGet, BeginScandir,
       EntryOpen, CacheRoot, BeginInsertAttr, BeginInsertRoot, BeginInsert
  <2>2. at'[t] \in {"get", "scandir", "cached", "rooted"}
    BY <1>1, <1>7 DEF Request, Getattr, Readdir, Accept, EntryOpen, CacheRoot,
       Goto, OneOfEach
  <2> QED BY <1>2, <2>1, <2>2
<1>8. CASE NullArchive(t)
  <2>1. UNCHANGED <<vars, at, handle, position>>
    BY <1>8 DEF NullArchive
  <2>2. Cached(t)' = Cached(t)
    BY <2>1 DEF Cached, vars
  <2> QED BY <1>2, <1>8, <2>1, <2>2 DEF NullArchive, Running, vars
<1>9. CASE \/ GetattrHit(t) \/ EntryMissing(t) \/ GetattrCached(t)
           \/ NothingToEnumerate(t) \/ EnumerateDone(t) \/ ReaddirHit(t)
           \/ GetattrMiss(t) \/ ReaddirMiss(t)
  <2>1. UNCHANGED vars /\ at'[t] \in {"idle", "entry_open", "opened"}
    BY <1>1, <1>9 DEF GetattrHit, EntryMissing, GetattrCached, GetattrMiss,
       NothingToEnumerate, EnumerateDone, ReaddirHit, ReaddirMiss, Open,
       Answer, Goto, OneOfEach
  <2> QED BY <1>2, <2>1 DEF vars
<1> QED BY <1>3, <1>4, <1>6, <1>7, <1>8, <1>9 DEF StepOf, Serve

\* A thread that caches a Root entry gets an id of its own.
LEMMA IdsStayDifferent ==
  ASSUME Base, ListingsInv, NEW t \in Threads, StepOf(t)
  PROVE  IdsDiffer'
<1>1. /\ Invariant /\ HandlerInv /\ Functions /\ OneOfEach /\ IdsDiffer
      /\ \A u \in Threads : Building(u) /\ dir_id[u].id \in Nat
      /\ cache.next_id \in Nat
  BY EachThread
     DEF Base, ServingInv, ListingsInv, Invariant, TypeOK, CacheInv, CacheTypeOK
<1>2. dir_id'[t] = dir_id[t] \/ dir_id'[t].id \in {cache.next_id, NoId}
  <2>1. CASE Critical(t)
    <3>1. CASE InsertDone(t) \/ InsertNoMemory(t)
      BY <1>1, <3>1 DEF InsertDone, InsertNoMemory, RememberDir, OneOfEach
    <3>2. CASE ~(InsertDone(t) \/ InsertNoMemory(t))
      BY <2>1, <3>2 DEF Critical, ExpungeOne, GetHit, Miss, ScanBegin,
         ScanMember, ScanEnd
    <3> QED BY <3>1, <3>2
  <2>2. CASE TakeLock(t)
    BY <2>2 DEF TakeLock, Acquire
  <2>3. CASE Request(t)
    BY <2>3 DEF Request, Getattr, Readdir, BeginGet, BeginScandir, Begin
  <2>4. CASE EntryOpen(t) \/ CacheRoot(t) \/ CacheMember(t)
    BY <2>4 DEF EntryOpen, CacheRoot, CacheMember, BeginInsertAttr,
       BeginInsertRoot, BeginInsertMember, BeginInsert, Begin
  <2>5. CASE UNCHANGED vars
    BY <2>5 DEF vars
  <2> QED BY <2>1, <2>2, <2>3, <2>4, <2>5 DEF StepOf, Serve, GetattrHit,
          GetattrMiss, NullArchive, EntryMissing, GetattrCached, ReaddirHit,
          ReaddirMiss, Open, Enumerate, NothingToEnumerate, FillMember,
          EnumerateDone
<1>3. \A u \in Threads \ {t} : dir_id'[u] = dir_id[u]
  BY <1>1, OthersSame DEF Same
<1>4. \A u \in Threads : dir_id[u].id < cache.next_id
  BY <1>1 DEF Building
<1>5. \A u \in Threads \ {t} : dir_id'[u].id = dir_id'[t].id =>
        dir_id'[t].id = NoId
  BY <1>1, <1>2, <1>3, <1>4 DEF IdsDiffer
<1> QED BY <1>1, <1>3, <1>5 DEF IdsDiffer

\* The names of a version that stays.
LEMMA NamesStay ==
  ASSUME HandlerInv, HandlerInv', Grows(disk, disk'), NEW q,
         q.archivepath \in Archives, NEW names, NamesOf(disk, q, names)
  PROVE  NamesOf(disk', q, names)
<1> DEFINE a == q.archivepath
           There(d, v) == {n \in Range(d[a][v].members) : Parent[n] = q.relpath}
<1>1. PICK v \in 1 .. Len(disk[a]) :
        /\ names \subseteq There(disk, v)
        /\ Perfect /\ OneReader => There(disk, v) \subseteq names
  BY DEF NamesOf
<1>2. v \in 1 .. Len(disk'[a]) /\ disk'[a][v] = disk[a][v]
  BY VersionStays DEF HandlerInv, OnDisk
<1>3. There(disk', v) = There(disk, v)
  BY <1>2
<1>4. /\ names \subseteq There(disk', v)
      /\ Perfect /\ OneReader => There(disk', v) \subseteq names
  BY <1>1, <1>3
<1> QED BY <1>2, <1>4 DEF NamesOf

\* What other threads have gathered and answered.
LEMMA SameGathered ==
  ASSUME Base, Base', Grows(disk, disk'), NEW u \in Threads, Same(u),
         Gathered(u), ListedWell(u)
  PROVE  Gathered(u)' /\ ListedWell(u)'
<1>1. HandlerInv /\ HandlerInv' /\ Serving(u)
  BY DEF Base, ServingInv
<1>2. PICK a : a = Archive(u) /\ Archive(u)' = a
  BY DEF Same, Archive
<1>3. at[u] # "idle" => a \in Archives
  BY <1>1, <1>2 DEF HandlerInv
<1>4. ASSUME at[u] # "idle", NEW v \in 1 .. OnDisk(a)
      PROVE  v \in 1 .. Len(disk'[a]) /\ disk'[a][v] = disk[a][v]
  BY <1>1, <1>3, <1>4, VersionStays DEF HandlerInv, OnDisk
<1>5. ASSUME at[u] \in {"enumerating", "member"}
      PROVE  /\ filled'[u] \subseteq Children(a, handle[u], request[u].relpath)'
             /\ \A k \in 1 .. position'[u] - 1 :
                  Parent[Enumerated(u)'[k]] = request'[u].relpath =>
                    Enumerated(u)'[k] \in filled'[u]
  <2>1. handle[u] \in 1 .. OnDisk(a)
    BY <1>1, <1>2, <1>5, HandleOnDisk DEF HandlerInv
  <2>2. disk'[a][handle[u]] = disk[a][handle[u]]
    BY <1>4, <1>5, <2>1
  <2>3. /\ Members(a, handle[u])' = Members(a, handle[u])
        /\ Enumerated(u)' = Enumerated(u)
    BY <1>2, <2>2 DEF Members, Enumerated, Same
  <2>4. Children(a, handle[u], request[u].relpath)'
          = Children(a, handle[u], request[u].relpath)
    BY <2>3 DEF Children, Same
  <2> QED BY <1>2, <1>5, <2>3, <2>4 DEF Gathered, Same
<1>6. ASSUME at[u] = "scandir", pc[u] = "idle", reply[u].error = 0
      PROVE  \E v \in 1 .. Len(disk'[a]) :
               /\ ListedNames(u) \subseteq Range(disk'[a][v].members)
               /\ Perfect /\ OneReader =>
                    Range(disk'[a][v].members) \subseteq ListedNames(u)
  <2>1. PICK v \in 1 .. OnDisk(a) :
          /\ ListedNames(u) \subseteq Range(Members(a, v))
          /\ Perfect /\ OneReader => Range(Members(a, v)) \subseteq ListedNames(u)
    BY <1>2, <1>6 DEF Gathered
  <2>2. v \in 1 .. Len(disk'[a]) /\ disk'[a][v] = disk[a][v]
    BY <1>4, <1>6
  <2> QED BY <2>1, <2>2 DEF Members
<1>7. ListedNames(u)' = ListedNames(u)
  BY DEF Same, ListedNames
<1>8. Gathered(u)'
  <2>1. /\ at'[u] = at[u] /\ pc'[u] = pc[u] /\ filled'[u] = filled[u]
        /\ reply'[u] = reply[u] /\ handle'[u] = handle[u]
    BY DEF Same
  <2>2. at'[u] \notin {"enumerating", "member"} => filled'[u] = {}
    BY <2>1 DEF Gathered
  <2>3. at'[u] = "scandir" /\ pc'[u] = "idle" /\ reply'[u].error = 0 =>
          \E v \in 1 .. OnDisk(Archive(u))' :
            /\ ListedNames(u)' \subseteq Range(disk'[a][v].members)
            /\ Perfect /\ OneReader =>
                 Range(disk'[a][v].members) \subseteq ListedNames(u)'
    BY <1>2, <1>6, <1>7, <2>1 DEF OnDisk
  <2> QED BY <1>2, <1>5, <2>1, <2>2, <2>3
          DEF Gathered, Children, Members
<1>9. ListedWell(u)'
  <2>1. answer'[u] = answer[u]
    BY DEF Same
  <2> QED BY <1>1, <2>1, NamesStay DEF ListedWell
<1> QED BY <1>8, <1>9

\* A scan that ends has handed out what is cached, and with one reader and
\* enough memory that is all of a version.
LEMMA ScanGathers ==
  ASSUME Base, ScanInv, ListingsInv, NEW t \in Threads, ScanEnd(t),
         at[t] = "scandir"
  PROVE  \E v \in 1 .. OnDisk(Archive(t)) :
           /\ ListedNames(t) \subseteq Range(Members(Archive(t), v))
           /\ Perfect /\ OneReader =>
                Range(Members(Archive(t), v)) \subseteq ListedNames(t)
<1> DEFINE h == Find(cache, call[t].path)
           dir == cache.ents[h].dir
           a == Archive(t)
<1>1. /\ Invariant /\ HandlerInv /\ Serving(t)
      /\ \A u \in Threads : Serving(u)
  BY DEF Base, ServingInv
<1>2. /\ pc[t] = "scanning" /\ cursor[t] > Len(dir)
  BY DEF ScanEnd, ScannedDir
<1>3. call[t].path = RootPath(a) /\ t \in Readers /\ a \in Archives
  BY <1>1, <1>2 DEF Serving, CallOf, HandlerInv
<1>4. h \in Live(cache) /\ cache.ents[h].path = RootPath(a)
  <2>1. h # NoId
    BY <1>1, <1>2 DEF Invariant, CallInv
  <2> QED BY <1>1, <1>3, <2>1, FindFinds DEF Invariant, CacheInv
<1>5. Len(dir) \in Nat /\ cursor[t] \in Nat
  <2>1. cache.ents[h] \in EntryRecords
    BY <1>1, <1>4 DEF Invariant, CacheInv, CacheTypeOK
  <2>2. dir \in Seq(Nat)
    BY <2>1 DEF EntryRecords
  <2> QED BY <1>1, <2>2, LenProperties DEF Invariant, TypeOK
<1>6. /\ Len(served[t]) = Len(dir)
      /\ \A i \in 1 .. Len(dir) : served[t][i] = cache.ents[dir[i]]
  BY <1>2, <1>5 DEF ScanInv, ScanPrefix, ScannedDir
<1>7. PICK v \in 1 .. OnDisk(a) :
        ChainOf(disk, cache, h, v) /\ (Perfect => Complete(h, v))
  BY <1>4 DEF ListingsInv, OneVersion, RootPath
<1>8. Members(a, v) \in Seq(Names)
  BY <1>1, <1>3, MembersCacheable DEF HandlerInv
<1>9. DOMAIN Members(a, v) = 1 .. Len(Members(a, v))
  BY <1>8
<1>10. ASSUME NEW i \in 1 .. Len(dir)
       PROVE  \E k \in 1 .. Len(Members(a, v)) :
                /\ cache.ents[dir[i]].path.relpath = Members(a, v)[k]
                /\ ~AllocFails => k = i
  <2>1. cache.ents[h].path.archivepath = a
    BY <1>4 DEF RootPath
  <2> QED BY <1>7, <2>1 DEF ChainOf, IsNth, Members
<1>11. ASSUME NEW n \in ListedNames(t) PROVE n \in Range(Members(a, v))
  <2>1. PICK i \in 1 .. Len(served[t]) : n = served[t][i].path.relpath
    BY <1>11 DEF ListedNames
  <2>2. i \in 1 .. Len(dir) /\ n = cache.ents[dir[i]].path.relpath
    BY <1>6, <2>1
  <2>3. PICK k \in 1 .. Len(Members(a, v)) : n = Members(a, v)[k]
    BY <1>10, <2>2
  <2> QED BY <1>9, <2>3 DEF Range
<1>12. ASSUME Perfect, OneReader
       PROVE  Range(Members(a, v)) \subseteq ListedNames(t)
  <2>1. ~\E u \in Threads : Filling(u)
    <3>1. SUFFICES ASSUME NEW u \in Threads, Filling(u) PROVE FALSE
      OBVIOUS
    <3>2. u \in Readers
      BY <1>1, <3>1 DEF Serving, Filling
    <3>3. u = t
      BY <1>3, <1>12, <3>2 DEF OneReader
    <3> QED BY <3>1, <3>3 DEF Filling
  <2>2. Len(dir) = Len(Members(a, v))
    BY <1>4, <1>7, <1>12, <2>1 DEF Complete, RootPath, Members
  <2>3. ASSUME NEW i \in 1 .. Len(dir)
        PROVE  served[t][i].path.relpath = Members(a, v)[i]
    BY <1>6, <1>10, <1>12 DEF Perfect
  <2> QED BY <1>6, <1>9, <2>2, <2>3 DEF ListedNames, Range
<1> QED BY <1>11, <1>12

\* A thread's call of the cache ends, with a listing if it was a scan.
LEMMA CallGathers ==
  ASSUME Base, Base', ScanInv, ListingsInv, NEW t \in Threads,
         TakeLock(t) \/ (Critical(t) /\ UNCHANGED mount_vars)
  PROVE  Gathered(t)' /\ ListedWell(t)'
<1>1. /\ Invariant /\ HandlerInv /\ Serving(t) /\ Gathered(t) /\ ListedWell(t)
  BY DEF Base, ServingInv, ListingsInv
<1>2. \/ CallGoesOn(t)
      \/ CallReturns(t)
            /\ (\/ InsertDone(t) \/ InsertNoMemory(t) \/ GetHit(t)
                \/ Miss(t) \/ ScanEnd(t))
  BY <1>1, CallSteps
<1>3. pc[t] # "idle" /\ UNCHANGED mount_vars
  BY <1>2 DEF CallGoesOn, CallReturns
<1>4. ListedWell(t)'
  BY <1>1, <1>3 DEF ListedWell, NamesOf, mount_vars
<1>5. ASSUME at[t] = "scandir", pc'[t] = "idle", reply'[t].error = 0
      PROVE  served' = served /\ ScanEnd(t)
  <2>1. CallReturns(t)
    BY <1>2, <1>5 DEF CallGoesOn
  <2>2. call[t].op = "scandir"
    BY <1>1, <1>3, <1>5 DEF Serving, CallOf
  <2>3. ~InsertDone(t) /\ ~InsertNoMemory(t) /\ ~GetHit(t)
    BY <2>2 DEF InsertDone, InsertNoMemory, GetHit, InBody
  <2>4. ~Miss(t)
    BY <1>1, <1>5 DEF Miss, Unlock, Invariant, TypeOK
  <2>5. ~CallGoesOn(t)
    BY <1>5 DEF CallGoesOn
  <2>6. ScanEnd(t)
    BY <1>2, <2>3, <2>4, <2>5
  <2> QED BY <2>6 DEF ScanEnd
<1>6. ASSUME at[t] = "scandir", pc'[t] = "idle", reply'[t].error = 0
      PROVE  \E v \in 1 .. OnDisk(Archive(t))' :
               /\ ListedNames(t)' \subseteq Range(Members(Archive(t), v)')
               /\ Perfect /\ OneReader =>
                    Range(Members(Archive(t), v)') \subseteq ListedNames(t)'
  <2>1. \E v \in 1 .. OnDisk(Archive(t)) :
          /\ ListedNames(t) \subseteq Range(Members(Archive(t), v))
          /\ Perfect /\ OneReader =>
               Range(Members(Archive(t), v)) \subseteq ListedNames(t)
    BY <1>5, <1>6, ScanGathers
  <2>2. ListedNames(t)' = ListedNames(t)
    BY <1>5, <1>6 DEF ListedNames
  <2>3. OnDisk(Archive(t))' = OnDisk(Archive(t))
        /\ \A v : Members(Archive(t), v)' = Members(Archive(t), v)
    BY <1>3 DEF OnDisk, Archive, Members, mount_vars
  <2> QED BY <2>1, <2>2, <2>3
<1>7. Gathered(t)'
  <2>1. /\ at' = at /\ filled' = filled /\ handle' = handle
        /\ position' = position /\ request' = request
        /\ Enumerated(t)' = Enumerated(t)
        /\ Children(Archive(t), handle[t], request[t].relpath)'
             = Children(Archive(t), handle[t], request[t].relpath)
    BY <1>3 DEF mount_vars, Enumerated, Children, Members, Archive
  <2>2. /\ at[t] \notin {"enumerating", "member"} => filled[t] = {}
        /\ at[t] \in {"enumerating", "member"} =>
             /\ filled[t] \subseteq
                  Children(Archive(t), handle[t], request[t].relpath)
             /\ \A k \in 1 .. position[t] - 1 :
                  Parent[Enumerated(t)[k]] = request[t].relpath =>
                    Enumerated(t)[k] \in filled[t]
    BY <1>1 DEF Gathered
  <2> QED BY <1>6, <2>1, <2>2 DEF Gathered
<1> QED BY <1>4, <1>7

\* A handler answers: a readdir with the names of a version.
LEMMA AnswerGathers ==
  ASSUME Base, NEW t \in Threads, NEW error, NEW entry, NEW names,
         Answer(t, error, entry, names), UNCHANGED vars,
         request[t].op = "readdir" =>
           Archive(t) \in Archives /\ NamesOf(disk, request[t], names)
  PROVE  Gathered(t)' /\ ListedWell(t)'
<1>1. OneOfEach
  BY EachThread DEF Base, ServingInv
<1>2. /\ at'[t] = "idle" /\ filled'[t] = {} /\ disk' = disk
      /\ answer'[t] = [request |-> request[t], error |-> error,
                       entry |-> entry, names |-> names]
  BY <1>1 DEF OneOfEach, Answer, Goto
<1>3. Gathered(t)'
  BY <1>2 DEF Gathered
<1>4. ListedWell(t)'
  BY <1>2 DEF ListedWell, NamesOf, Archive
<1> QED BY <1>3, <1>4

\* The names that a readdir answers with.
LEMMA ReaddirAnswers ==
  ASSUME Base, ListingsInv, NEW t \in Threads,
         ReaddirHit(t) \/ NothingToEnumerate(t) \/ EnumerateDone(t)
  PROVE  Gathered(t)' /\ ListedWell(t)'
<1>1. /\ Invariant /\ HandlerInv /\ Serving(t) /\ Gathered(t)
  BY DEF Base, ServingInv, ListingsInv
<1>2. /\ pc[t] = "idle" /\ UNCHANGED vars
      /\ at[t] \in {"scandir", "rooted", "enumerating"}
  BY DEF ReaddirHit, NothingToEnumerate, EnumerateDone, Running
<1>3. PICK a : a = Archive(t)
  OBVIOUS
<1>4. a \in Archives /\ request[t].archivepath = a
  BY <1>1, <1>2, <1>3 DEF HandlerInv, Archive
<1>5. PICK dir : dir = request[t].relpath
  OBVIOUS
<1>6. ASSUME NEW names, NEW v \in 1 .. OnDisk(a),
             names \subseteq {n \in Range(disk[a][v].members) : Parent[n] = dir},
             Perfect /\ OneReader =>
               {n \in Range(disk[a][v].members) : Parent[n] = dir} \subseteq names
      PROVE  NamesOf(disk, request[t], names)
  BY <1>4, <1>5, <1>6 DEF NamesOf, OnDisk
<1>7. CASE ReaddirHit(t)
  <2>1. at[t] = "scandir" /\ reply[t].error = 0
    BY <1>7 DEF ReaddirHit, Running
  <2>2. PICK v \in 1 .. OnDisk(a) :
          /\ ListedNames(t) \subseteq Range(Members(a, v))
          /\ Perfect /\ OneReader => Range(Members(a, v)) \subseteq ListedNames(t)
    BY <1>1, <1>2, <1>3, <2>1 DEF Gathered
  <2>3. PICK names : names = Directly(ListedNames(t), dir)
    OBVIOUS
  <2>4. NamesOf(disk, request[t], names)
    BY <1>6, <2>2, <2>3 DEF Directly, Members
  <2>5. Answer(t, 0, NoMetadata, names)
    BY <1>5, <1>7, <2>3 DEF ReaddirHit, ListedNames
  <2> QED BY <1>2, <1>3, <1>4, <2>4, <2>5, AnswerGathers
<1>8. CASE NothingToEnumerate(t)
  <2>1. at[t] = "rooted" /\ ~CanEnumerate(t)
    BY <1>8 DEF NothingToEnumerate, Running
  <2>2. PICK v \in 1 .. OnDisk(a) : Members(a, v) = <<>>
    <3>1. CASE handle[t] = NoHandle
      BY <1>1, <1>3, <2>1, <3>1 DEF Serving
    <3>2. CASE handle[t] # NoHandle
      <4>1. Source(t) \in 1 .. OnDisk(a)
        BY <1>1, <1>3, <3>2, SourceOnDisk
      <4>2. ~IsArchive(a, Source(t))
        BY <1>3, <2>1, <3>2 DEF CanEnumerate
      <4>3. disk[a][Source(t)] \in Version
        BY <1>1, <1>4, <4>1 DEF HandlerInv, DiskInv, OnDisk
      <4>4. Members(a, Source(t)) = <<>>
        BY <4>2, <4>3 DEF Version, IsArchive, Members
      <4> QED BY <4>1, <4>4
    <3> QED BY <3>1, <3>2
  <2>3. Range(disk[a][v].members) = {}
    BY <2>2 DEF Members, Range
  <2>4. NamesOf(disk, request[t], {})
    BY <1>6, <2>3
  <2>5. Answer(t, 0, NoMetadata, {})
    BY <1>8 DEF NothingToEnumerate
  <2> QED BY <1>2, <1>3, <1>4, <2>4, <2>5, AnswerGathers
<1>9. CASE EnumerateDone(t)
  <2>1. /\ at[t] = "enumerating" /\ Answer(t, 0, NoMetadata, filled[t])
        /\ position[t] > Len(Enumerated(t)) \/ ReadErrors
    BY <1>9 DEF EnumerateDone, Running
  <2>2. PICK v : v = handle[t]
    OBVIOUS
  <2>3. v \in 1 .. OnDisk(a)
    BY <1>1, <1>3, <2>1, <2>2, HandleOnDisk DEF HandlerInv
  <2>4. PICK members : members = Members(a, v)
    OBVIOUS
  <2>5. members \in Seq(Names) /\ members = Enumerated(t)
        /\ members = disk[a][v].members
    BY <1>1, <1>3, <1>4, <2>2, <2>3, <2>4, MembersCacheable
       DEF HandlerInv, Enumerated, Members
  <2>6. /\ filled[t] \subseteq {n \in Range(members) : Parent[n] = dir}
        /\ \A k \in 1 .. position[t] - 1 :
             Parent[members[k]] = dir => members[k] \in filled[t]
    BY <1>1, <1>3, <1>5, <2>1, <2>2, <2>4, <2>5 DEF Gathered, Children
  <2>7. ASSUME Perfect, NEW n \in Range(members), Parent[n] = dir
        PROVE  n \in filled[t]
    <3>1. position[t] > Len(members) /\ position[t] \in Nat
      BY <1>1, <2>1, <2>5, <2>7 DEF Perfect, HandlerInv, HandlerTypes
    <3>2. PICK k \in 1 .. Len(members) : n = members[k]
      BY <2>5, <2>7 DEF Range
    <3>3. k \in 1 .. position[t] - 1
      BY <2>5, <3>1, <3>2, LenProperties
    <3> QED BY <2>6, <2>7, <3>2, <3>3
  <2>8. NamesOf(disk, request[t], filled[t])
    BY <1>6, <2>3, <2>5, <2>6, <2>7
  <2> QED BY <1>2, <1>3, <1>4, <2>1, <2>8, AnswerGathers
<1> QED BY <1>7, <1>8, <1>9

\* A readdir takes in the next member.
LEMMA FillGathers ==
  ASSUME Base, ListingsInv, NEW t \in Threads, FillMember(t)
  PROVE  Gathered(t)' /\ ListedWell(t)'
<1>1. /\ Invariant /\ HandlerInv /\ Serving(t) /\ OneOfEach
      /\ Gathered(t) /\ ListedWell(t)
  BY EachThread DEF Base, ServingInv, ListingsInv
<1>2. PICK a, v, k, dir : /\ a = Archive(t) /\ v = handle[t]
                          /\ k = position[t] /\ dir = request[t].relpath
  OBVIOUS
<1>3. PICK members : members = Members(a, v)
  OBVIOUS
<1>4. /\ at[t] = "member" /\ at'[t] = "enumerating" /\ position'[t] = k + 1
      /\ UNCHANGED <<disk, request, handle, answer>>
      /\ filled'[t] = filled[t] \cup Directly({Enumerated(t)[k]}, dir)
  BY <1>1, <1>2 DEF FillMember, Running, Goto, OneOfEach
<1>5. members = Enumerated(t) /\ k \in 1 .. Len(members) /\ k \in Nat
      /\ members \in Seq(Names)
  <2>1. v \in 1 .. OnDisk(a) /\ a \in Archives
    BY <1>1, <1>2, <1>4, HandleOnDisk DEF HandlerInv
  <2>2. members \in Seq(Names)
    BY <1>1, <1>3, <2>1, MembersCacheable DEF HandlerInv
  <2>3. members = Enumerated(t)
    BY <1>2, <1>3 DEF Enumerated
  <2>4. k <= Len(members) /\ k >= 1 /\ k \in Nat
    BY <1>1, <1>2, <1>4, <2>3 DEF Serving, HandlerInv, HandlerTypes
  <2> QED BY <2>2, <2>3, <2>4, LenProperties
<1>6. /\ filled[t] \subseteq {n \in Range(members) : Parent[n] = dir}
      /\ \A j \in 1 .. k - 1 :
           Parent[members[j]] = dir => members[j] \in filled[t]
  BY <1>1, <1>2, <1>3, <1>4, <1>5 DEF Gathered, Children
<1>7. members[k] \in Range(members)
  BY <1>5 DEF Range
<1>8. filled'[t] = filled[t] \cup {n \in {members[k]} : Parent[n] = dir}
  BY <1>4, <1>5 DEF Directly
<1>9. /\ Enumerated(t)' = members
      /\ Children(Archive(t), handle[t], request[t].relpath)'
           = {n \in Range(members) : Parent[n] = dir}
  BY <1>2, <1>3, <1>4, <1>5 DEF Enumerated, Children, Members, Archive
<1>10. filled'[t] \subseteq {n \in Range(members) : Parent[n] = dir}
  BY <1>6, <1>7, <1>8
<1>11. ASSUME NEW j \in 1 .. (k + 1) - 1, Parent[members[j]] = dir
       PROVE  members[j] \in filled'[t]
  <2>1. j \in 1 .. k - 1 \/ j = k
    BY <1>5
  <2> QED BY <1>6, <1>8, <1>11, <2>1
<1>12. request'[t].relpath = dir
  BY <1>2, <1>4
<1>13. Gathered(t)'
  BY <1>4, <1>9, <1>10, <1>11, <1>12 DEF Gathered
<1>14. ListedWell(t)'
  BY <1>1, <1>4 DEF ListedWell, NamesOf
<1> QED BY <1>13, <1>14

\* The handlers' own steps.
LEMMA HandlerGathers ==
  ASSUME Base, Base', Grows(disk, disk'), ListingsInv, NEW t \in Threads,
         StepOf(t), ~TakeLock(t), ~(Critical(t) /\ UNCHANGED mount_vars)
  PROVE  Gathered(t)' /\ ListedWell(t)'
<1>1. /\ Invariant /\ HandlerInv /\ Serving(t) /\ OneOfEach
      /\ Gathered(t) /\ ListedWell(t)
  BY EachThread DEF Base, ServingInv, ListingsInv
<1>2. ASSUME filled' = filled, UNCHANGED <<disk, answer>>,
             at[t] \notin {"enumerating", "member"},
             at'[t] \notin {"enumerating", "member"},
             at'[t] # "scandir" \/ pc'[t] # "idle"
      PROVE  Gathered(t)' /\ ListedWell(t)'
  BY <1>1, <1>2 DEF Gathered, ListedWell, NamesOf
<1>3. ASSUME NEW op, NEW path, NEW archive_id, NEW entry, NEW now,
             Begin(t, op, path, archive_id, entry, now)
      PROVE  pc'[t] = "waiting"
  BY <1>1, <1>3, BeginSets
<1>4. CASE Request(t)
  <2>1. pc'[t] = "waiting"
    BY <1>3, <1>4 DEF Request, Getattr, Readdir, BeginGet, BeginScandir
  <2>2. /\ at[t] = "idle" /\ at'[t] \in {"get", "scandir"}
        /\ filled' = filled /\ disk' = disk /\ answer'[t] = NoAnswer
    BY <1>1, <1>4 DEF Request, Getattr, Readdir, Accept, Running, Goto,
       OneOfEach
  <2>3. Gathered(t)'
    BY <1>1, <2>1, <2>2 DEF Gathered
  <2>4. ListedWell(t)'
    BY <2>2 DEF ListedWell, NoAnswer, NoRequest
  <2> QED BY <2>3, <2>4
<1>5. CASE GetattrHit(t) \/ EntryMissing(t) \/ GetattrCached(t)
  <2>1. PICK error, entry, names : Answer(t, error, entry, names)
    BY <1>5 DEF GetattrHit, EntryMissing, GetattrCached
  <2>2. UNCHANGED vars /\ at[t] \in {"get", "entry_open", "cached"}
    BY <1>5 DEF GetattrHit, EntryMissing, GetattrCached, Running
  <2>3. request[t].op = "getattr"
    BY <1>1, <2>2 DEF Serving
  <2>4. request[t].op # "readdir"
    BY <2>3
  <2> QED BY <2>1, <2>2, <2>4, AnswerGathers
<1>6. CASE EntryOpen(t) \/ CacheRoot(t)
  <2>1. pc'[t] = "waiting"
    BY <1>3, <1>6 DEF EntryOpen, CacheRoot, BeginInsertAttr, BeginInsertRoot,
       BeginInsert
  <2>2. /\ at[t] \in {"entry_open", "opened"} /\ at'[t] \in {"cached", "rooted"}
        /\ UNCHANGED <<filled, disk, answer>>
    BY <1>1, <1>6 DEF EntryOpen, CacheRoot, Running, Goto, OneOfEach
  <2> QED BY <1>2, <2>1, <2>2
<1>7. CASE GetattrMiss(t) \/ ReaddirMiss(t)
  <2>1. /\ at[t] \in {"get", "scandir"} /\ at'[t] \in {"entry_open", "opened"}
        /\ UNCHANGED <<filled, disk, answer>>
    BY <1>1, <1>7 DEF GetattrMiss, ReaddirMiss, Open, Running, Goto, OneOfEach
  <2> QED BY <1>2, <2>1
<1>8. CASE NullArchive(t)
  <2>1. Same(t)
    BY <1>8 DEF NullArchive, vars, Same
  <2> QED BY <1>1, <2>1, SameGathered
<1>9. CASE Enumerate(t)
  <2>1. /\ at[t] = "rooted" /\ at'[t] = "enumerating" /\ position'[t] = 1
        /\ UNCHANGED <<filled, disk, answer>>
    BY <1>1, <1>9 DEF Enumerate, Running, Goto, OneOfEach
  <2>2. filled'[t] = {}
    BY <1>1, <2>1 DEF Gathered
  <2>3. 1 .. position'[t] - 1 = {}
    BY <2>1
  <2>4. Gathered(t)'
    BY <2>1, <2>2, <2>3 DEF Gathered
  <2>5. ListedWell(t)'
    BY <1>1, <2>1 DEF ListedWell, NamesOf
  <2> QED BY <2>4, <2>5
<1>10. CASE CacheMember(t)
  <2>1. /\ at[t] = "enumerating" /\ at'[t] = "member"
        /\ UNCHANGED <<filled, disk, answer, request, handle, position>>
    BY <1>1, <1>10 DEF CacheMember, Running, Goto, OneOfEach
  <2>2. /\ Enumerated(t)' = Enumerated(t)
        /\ Children(Archive(t), handle[t], request[t].relpath)'
             = Children(Archive(t), handle[t], request[t].relpath)
    BY <2>1 DEF Enumerated, Children, Members, Archive
  <2>3. /\ filled[t] \subseteq
             Children(Archive(t), handle[t], request[t].relpath)
        /\ \A k \in 1 .. position[t] - 1 :
             Parent[Enumerated(t)[k]] = request[t].relpath =>
               Enumerated(t)[k] \in filled[t]
    BY <1>1, <2>1 DEF Gathered
  <2>4. Gathered(t)'
    BY <2>1, <2>2, <2>3 DEF Gathered
  <2>5. ListedWell(t)'
    BY <1>1, <2>1 DEF ListedWell, NamesOf
  <2> QED BY <2>4, <2>5
<1> QED BY <1>4, <1>5, <1>6, <1>7, <1>8, <1>9, <1>10, FillGathers,
           ReaddirAnswers DEF StepOf, Serve

\* Every step.
LEMMA ListingsStay ==
  ASSUME Base, Base', ScanInv, ListingsInv, [MountNext]_all_vars
  PROVE  ListingsInv'
<1>1. /\ Invariant /\ Invariant' /\ HandlerInv /\ HandlerInv' /\ Functions
      /\ Grows(disk, disk') /\ IdsDiffer
      /\ \A u \in Threads : Building(u) /\ Gathered(u) /\ ListedWell(u)
      /\ \A h \in Live(cache) : OneVersion(h)
  BY StepGrows DEF Base, ServingInv, ListingsInv
<1>2. ASSUME Changed, NEW u \in Threads, Same(u),
             dir_id[u].id \in Live(cache') =>
               /\ dir_id[u].id \in Live(cache)
               /\ cache'.ents[dir_id[u].id].dir = cache.ents[dir_id[u].id].dir
      PROVE  Building(u)'
  <2>1. Cached(u)' = Cached(u)
    BY <1>2 DEF Cached, Same
  <2>2. /\ dir_id'[u] = dir_id[u] /\ at'[u] = at[u] /\ pc'[u] = pc[u]
        /\ handle'[u] = handle[u]
    BY <1>2 DEF Same
  <2> QED BY <1>1, <1>2, <2>1, <2>2, BuildingKept
<1>3. CASE cache' = cache /\ \A u \in Threads : Same(u)
  <2>1. Changed
    BY <1>3 DEF Changed, Shrunk
  <2>2. ASSUME NEW h \in Live(cache') PROVE OneVersion(h)'
    <3>1. \A u \in Threads : Filling(u) /\ dir_id[u].id = h =>
            Filling(u)' /\ dir_id'[u].id = h
      BY <1>3 DEF Same, Filling
    <3> QED BY <1>1, <1>3, <2>1, <2>2, <3>1, DirStays
  <2>3. IdsDiffer'
    BY <1>1, <1>3 DEF IdsDiffer, Same
  <2>4. ASSUME NEW u \in Threads
        PROVE  Building(u)' /\ Gathered(u)' /\ ListedWell(u)'
    BY <1>1, <1>2, <1>3, <2>1, SameGathered
  <2> QED BY <2>2, <2>3, <2>4 DEF ListingsInv
<1>4. ASSUME NEW t \in Threads, StepOf(t) PROVE ListingsInv'
  <2>1. Changed
    BY <1>1, <1>4, StepChanges DEF Changed
  <2>2. Building(t)' /\ Gathered(t)' /\ ListedWell(t)'
    <3>1. CASE TakeLock(t) \/ (Critical(t) /\ UNCHANGED mount_vars)
      BY <1>1, <1>4, <3>1, CallBuilds, CallGathers
    <3>2. CASE ~(TakeLock(t) \/ (Critical(t) /\ UNCHANGED mount_vars))
      BY <1>1, <1>4, <3>2, HandlerBuilds, HandlerGathers
    <3> QED BY <3>1, <3>2
  <2>3. ASSUME NEW u \in Threads, u # t
        PROVE  Building(u)' /\ Gathered(u)' /\ ListedWell(u)'
    <3>1. Same(u)
      BY <1>1, <1>4, <2>3, OthersSame
    <3>2. PICK h : h = dir_id[u].id
      OBVIOUS
    <3>3. h < cache.next_id
      BY <1>1, <3>2 DEF Building
    <3>4. h \in Live(cache') =>
            h \in Live(cache) /\ cache'.ents[h].dir = cache.ents[h].dir
      BY <1>1, <1>4, <2>3, <3>2, <3>3, OthersChain
    <3> QED BY <1>1, <1>2, <2>1, <3>1, <3>2, <3>4, SameGathered
  <2>4. \A u \in Threads : Building(u)' /\ Gathered(u)' /\ ListedWell(u)'
    BY <2>2, <2>3
  <2>5. \A h \in Live(cache') : OneVersion(h)'
    BY <1>1, <1>4, DirsStay
  <2>6. IdsDiffer'
    BY <1>4, IdsStayDifferent
  <2> QED BY <2>4, <2>5, <2>6 DEF ListingsInv
<1> QED BY <1>3, <1>4, WhoSteps

\* Nothing is cached or listed when the file system is mounted.
LEMMA ListingsInit == MountInit => ListingsInv
<1> SUFFICES ASSUME MountInit PROVE ListingsInv
  OBVIOUS
<1>1. Live(cache) = {} /\ cache.next_id = 1
  BY DEF MountInit, Init, EmptyCache, Live
<1>2. ASSUME NEW t \in Threads
      PROVE  Building(t) /\ Gathered(t) /\ ListedWell(t)
  BY <1>1 DEF MountInit, Init, Building, Gathered, ListedWell, NoAnswer,
     NoRequest, NoId
<1>3. IdsDiffer
  BY DEF MountInit, Init, IdsDiffer
<1> QED BY <1>1, <1>2, <1>3 DEF ListingsInv

\* In every run.
LEMMA ListingsHold == MountSpec => []ListingsInv
<1>1. MountInit => ListingsInv
  BY ListingsInit
<1>2. /\ Base /\ Base' /\ ScanInv /\ ListingsInv /\ [MountNext]_all_vars
         => ListingsInv'
  BY ListingsStay
<1>3. MountSpec => []ScanInv
  BY MountImplementsCache, ScanInvHolds, PTL
<1> QED BY <1>1, <1>2, <1>3, BaseHolds, PTL DEF MountSpec

-----------------------------------------------------------------------------
(* What the runs check of listings, for every value of the constants.      *)

(***************************************************************************)
(* As long as memory does not run out, the chain that peepfs_cache_insert  *)
(* keeps for a directory is the beginning of one enumeration of one        *)
(* version, in its order and without gaps, however readdirs of the same    *)
(* archive, evictions and replacements of the file overlap.                *)
(***************************************************************************)
THEOREM DirIsPrefixHolds ==
  ASSUME AllocFails = FALSE PROVE MountSpec => []DirIsPrefix
<1>1. Base /\ ListingsInv => DirIsPrefix
  <2> SUFFICES ASSUME Base, ListingsInv, NEW h \in Live(cache)
               PROVE  LET a == cache.ents[h].path.archivepath
                          dir == cache.ents[h].dir
                      IN  \E v \in 1 .. OnDisk(a) :
                            /\ Len(dir) <= Len(Members(a, v))
                            /\ \A i \in 1 .. Len(dir) :
                                 /\ cache.ents[dir[i]].entry = Meta(v, i)
                                 /\ cache.ents[dir[i]].path.relpath
                                      = Members(a, v)[i]
    BY DEF DirIsPrefix
  <2> DEFINE a == cache.ents[h].path.archivepath
             dir == cache.ents[h].dir
  <2>1. PICK v \in 1 .. OnDisk(a) : ChainOf(disk, cache, h, v)
    BY DEF ListingsInv, OneVersion
  <2>2. ASSUME NEW i \in 1 .. Len(dir)
        PROVE  /\ i \in 1 .. Len(Members(a, v))
               /\ cache.ents[dir[i]].entry = Meta(v, i)
               /\ cache.ents[dir[i]].path.relpath = Members(a, v)[i]
    BY <2>1 DEF ChainOf, IsNth, Members
  <2>3. cache.ents[h] \in EntryRecords /\ a \in Archives
    BY DEF Base, Invariant, CacheInv, CacheTypeOK, EntryRecords, Paths
  <2>4. Len(dir) \in Nat /\ Len(Members(a, v)) \in Nat
    <3>1. dir \in Seq(Nat)
      BY <2>3 DEF EntryRecords
    <3>2. Members(a, v) \in Seq(Names)
      BY <2>3, MembersCacheable DEF Base, HandlerInv
    <3> QED BY <3>1, <3>2, LenProperties
  <2>5. Len(dir) <= Len(Members(a, v))
    <3>1. CASE Len(dir) = 0
      BY <2>4, <3>1
    <3>2. CASE Len(dir) # 0
      <4>1. Len(dir) \in 1 .. Len(dir)
        BY <2>4, <3>2
      <4>2. Len(dir) \in 1 .. Len(Members(a, v))
        BY <2>2, <4>1
      <4> QED BY <4>2
    <3> QED BY <3>1, <3>2
  <2> QED BY <2>2, <2>5
<1> QED BY <1>1, BaseHolds, ListingsHold, PTL

(***************************************************************************)
(* A directory listing, served from the cache or while the archive is      *)
(* read, names only what was in that directory in one version of the       *)
(* archive file: also when memory runs out, reading fails, and several     *)
(* readdirs of the same archive run at once.                               *)
(***************************************************************************)
THEOREM ListingOfOneVersionHolds == MountSpec => []ListingOfOneVersion
<1>1. ListingsInv => ListingOfOneVersion
  BY DEF ListingsInv, ListedWell, NamesOf, ListingOfOneVersion, Answered,
     Children, Members, OnDisk
<1> QED BY <1>1, ListingsHold, PTL

(***************************************************************************)
(* If only one thread serves readdir, memory does not run out and archives *)
(* can be read, a directory listing is all of the directory, whatever the  *)
(* getattr calls of other threads, evictions, expiries and replacements of *)
(* the archive file do meanwhile.                                          *)
(***************************************************************************)
THEOREM ListingCompleteHolds ==
  ASSUME AllocFails = FALSE, ReadErrors = FALSE, OneReader
  PROVE  MountSpec => []ListingComplete
<1>1. ListingsInv => ListingComplete
  <2>1. Perfect
    BY DEF Perfect
  <2> QED BY <2>1 DEF ListingsInv, ListedWell, NamesOf, ListingComplete,
             Answered, Children, Members, OnDisk
<1> QED BY <1>1, ListingsHold, PTL

MountedOrNot == mounted \in BOOLEAN

\* Only a NULL archive that is followed ends the mount.
LEMMA HandlersStayMounted ==
  ASSUME NEW t \in Threads, Request(t) \/ TakeLock(t) \/ Serve(t)
  PROVE  mounted' = mounted \/ NullArchive(t)
<1>1. CASE Request(t) \/ TakeLock(t)
  BY <1>1 DEF Request, Getattr, Readdir, Accept, TakeLock, mount_vars
<1>2. CASE Critical(t) /\ UNCHANGED mount_vars
  BY <1>2 DEF mount_vars
<1>3. CASE \/ GetattrHit(t) \/ EntryMissing(t) \/ GetattrCached(t)
           \/ ReaddirHit(t) \/ NothingToEnumerate(t) \/ EnumerateDone(t)
  BY <1>3 DEF GetattrHit, EntryMissing, GetattrCached, ReaddirHit,
     NothingToEnumerate, EnumerateDone, Answer
<1>4. CASE GetattrMiss(t) \/ ReaddirMiss(t) \/ EntryOpen(t)
  BY <1>4 DEF GetattrMiss, ReaddirMiss, Open, EntryOpen
<1>5. CASE CacheRoot(t) \/ Enumerate(t) \/ CacheMember(t) \/ FillMember(t)
  BY <1>5 DEF CacheRoot, Enumerate, CacheMember, FillMember
<1> QED BY <1>1, <1>2, <1>3, <1>4, <1>5 DEF Serve

(***************************************************************************)
(* The handlers' variables have their types: what a handler found is a     *)
(* member's attributes, and what it filled in is names.                    *)
(***************************************************************************)
THEOREM MountTyped == MountSpec => []MountTypeOK
<1>1. MountInit => MountedOrNot
  BY DEF MountInit, MountedOrNot
<1>2. MountedOrNot /\ [MountNext]_all_vars => MountedOrNot'
  <2>1. [MountNext]_all_vars =>
          mounted' = mounted \/ \E t \in Threads : NullArchive(t)
    BY HandlersStayMounted DEF MountNext, all_vars, mount_vars, Rewrite
  <2>2. (\E t \in Threads : NullArchive(t)) => mounted' = FALSE
    BY DEF NullArchive
  <2>3. mounted' = mounted \/ mounted' = FALSE => (MountedOrNot => MountedOrNot')
    BY Zenon DEF MountedOrNot
  <2> QED BY <2>1, <2>2, <2>3
<1>3. Base /\ AttributesInv /\ ListingsInv /\ MountedOrNot => MountTypeOK
  <2> SUFFICES ASSUME Base, AttributesInv, ListingsInv, MountedOrNot
               PROVE  MountTypeOK
    OBVIOUS
  <2>1. /\ Invariant /\ HandlerInv /\ Functions
        /\ \A t \in Threads : Gathered(t) /\ Attributed(t)
    BY DEF Base, ServingInv, ListingsInv, AttributesInv
  <2>2. ASSUME NEW a \in Archives PROVE disk[a] # <<>>
    <3>1. Len(disk[a]) >= 1
      BY <2>1 DEF HandlerInv, DiskInv, OnDisk
    <3> QED BY <3>1
  <2>3. handle \in [Threads -> Nat \cup {NoHandle}]
    <3>1. handle \in [Threads -> Int]
      BY <2>1 DEF HandlerInv, HandlerTypes
    <3>2. ASSUME NEW t \in Threads PROVE handle[t] \in Nat \cup {NoHandle}
      BY <2>1 DEF HandlerInv
    <3> QED BY <3>1, <3>2
  <2>4. ASSUME NEW t \in Threads PROVE filled[t] \in SUBSET Names
    <3>1. CASE at[t] \in {"enumerating", "member"}
      <4>1. /\ handle[t] \in 1 .. OnDisk(Archive(t))
            /\ Archive(t) \in Archives
        BY <2>1, <3>1, HandleOnDisk DEF HandlerInv
      <4>2. Members(Archive(t), handle[t]) \in Seq(Names)
        BY <2>1, <4>1, MembersCacheable DEF HandlerInv
      <4>3. Range(Members(Archive(t), handle[t])) \subseteq Names
        BY <4>2 DEF Range
      <4> QED BY <2>1, <3>1, <4>3 DEF Gathered, Children
    <3>2. CASE at[t] \notin {"enumerating", "member"}
      BY <2>1, <3>2 DEF Gathered
    <3> QED BY <3>1, <3>2
  <2>5. filled \in [Threads -> SUBSET Names]
    BY <2>1, <2>4 DEF Functions
  <2>6. found \in [Threads -> Metadata \cup {NoMetadata}]
    BY <2>1 DEF Functions, Attributed, FoundAbout
  <2> QED BY <2>1, <2>2, <2>3, <2>5, <2>6
          DEF MountTypeOK, Invariant, HandlerInv, HandlerTypes, DiskInv,
              MountedOrNot
<1> QED BY <1>1, <1>2, <1>3, BaseHolds, AttributesHold, ListingsHold, PTL
        DEF MountSpec

(***************************************************************************)
(* Behind the handlers, too, the cache is a store whose calls each happen  *)
(* at one moment, and no handler waits longer for its mutex than the       *)
(* holders' calls may take.                                                *)
(***************************************************************************)
THEOREM MountUsesStore == MountSpec => StoreSpec /\ MutexHeldBriefly
BY MountImplementsCache, CacheImplementsStore, MutexIsHeldBriefly, PTL

-----------------------------------------------------------------------------
(* How far a handler is from its answer.                                   *)

\* What is left of the handler's parts and of its enumeration are numbers.
LEMMA LeftNumbers ==
  ASSUME Base, NEW t \in Threads, at[t] # "idle"
  PROVE  /\ PartsLeft(t) \in 1 .. 4 /\ MembersLeft(t) \in Nat
         /\ at[t] \in {"enumerating", "member"} =>
              /\ Len(Enumerated(t)) \in Nat /\ position[t] \in Nat
              /\ position[t] <= Len(Enumerated(t)) + 1
         /\ at[t] = "member" => position[t] <= Len(Enumerated(t))
<1>1. /\ Invariant /\ HandlerInv /\ Serving(t)
      /\ at[t] \in Labels /\ position[t] \in Nat
  BY DEF Base, ServingInv, HandlerInv, HandlerTypes, Labels
<1>2. PartsLeft(t) \in 1 .. 4
  BY <1>1 DEF PartsLeft, Labels
<1>3. ASSUME at[t] \in {"enumerating", "member"}
      PROVE  /\ Len(Enumerated(t)) \in Nat
             /\ position[t] <= Len(Enumerated(t)) + 1
             /\ at[t] = "member" => position[t] <= Len(Enumerated(t))
  <2>1. handle[t] \notin {NoHandle, ByName}
    BY <1>1, <1>3 DEF HandlerInv
  <2>2. Archive(t) \in Archives /\ handle[t] \in 1 .. OnDisk(Archive(t))
    BY <1>1, <2>1, HandleOnDisk
  <2>3. Enumerated(t) \in Seq(Names)
    BY <1>1, <2>2, MembersCacheable DEF HandlerInv, Enumerated
  <2>4. Len(Enumerated(t)) \in Nat
    BY <2>3
  <2> QED BY <1>1, <1>3, <2>4 DEF Serving
<1>4. MembersLeft(t) \in Nat
  BY <1>1, <1>3 DEF MembersLeft
<1> QED BY <1>1, <1>2, <1>3, <1>4

\* Whoever steps: a handler that stays in its place has as much to do.
LEMMA PlaceStays ==
  ASSUME HandlerInv, HandlerInv', Grows(disk, disk'), NEW t \in Threads,
         at'[t] = at[t], request'[t] = request[t], handle'[t] = handle[t],
         position'[t] = position[t]
  PROVE  PartsLeft(t)' = PartsLeft(t) /\ MembersLeft(t)' = MembersLeft(t)
<1>1. Archive(t)' = Archive(t)
  BY DEF Archive
<1>2. at[t] \in {"enumerating", "member"} => Enumerated(t)' = Enumerated(t)
  <2> SUFFICES ASSUME at[t] \in {"enumerating", "member"}
               PROVE  Enumerated(t)' = Enumerated(t)
    OBVIOUS
  <2>1. handle[t] \notin {NoHandle, ByName}
    BY DEF HandlerInv
  <2>2. Archive(t) \in Archives /\ handle[t] \in 1 .. OnDisk(Archive(t))
    BY <2>1, HandleOnDisk
  <2>3. disk'[Archive(t)][handle[t]] = disk[Archive(t)][handle[t]]
    BY <2>2, VersionStays DEF HandlerInv
  <2> QED BY <1>1, <2>3 DEF Enumerated, Members
<1>3. PartsLeft(t)' = PartsLeft(t)
  BY DEF PartsLeft
<1>4. MembersLeft(t)' = MembersLeft(t)
  BY <1>2 DEF MembersLeft
<1> QED BY <1>3, <1>4

\* The steps of a cache call bring its return closer.
LEMMA CallAdvances ==
  ASSUME Base, ScanInv, HandlerInv', NEW t \in Threads, at[t] # "idle",
         TakeLock(t) \/ (Critical(t) /\ UNCHANGED mount_vars)
  PROVE  GetsCloser(t)
<1>1. Invariant /\ HandlerInv /\ UNCHANGED mount_vars
  BY DEF Base, TakeLock
<1>2. /\ pc \in [Threads -> {"idle", "waiting", "locked", "scanning"}]
      /\ cache.num_entries \in Nat /\ MaxEntries \in Nat
      /\ cache.num_entries <= MaxEntries
  BY <1>1, CacheAssumption
  DEF Invariant, Bounded, CacheInv, CacheTypeOK, TypeOK
<1>3. PartsLeft(t)' = PartsLeft(t) /\ MembersLeft(t)' = MembersLeft(t)
  BY <1>1 DEF mount_vars, PartsLeft, MembersLeft, Enumerated, Members, Archive
<1>4. CASE TakeLock(t)
  <2>1. pc[t] = "waiting" /\ pc'[t] = "locked" /\ cache' = cache
    BY <1>2, <1>4 DEF TakeLock, Acquire
  <2>2. CallLeft(t) = 2 * MaxEntries + 3
    BY <2>1 DEF CallLeft
  <2>3. CallLeft(t)' = 2 * cache.num_entries + 2
    BY <2>1 DEF CallLeft, StepsLeft
  <2> QED BY <1>2, <1>3, <2>2, <2>3 DEF GetsCloser
<1>5. CASE Critical(t)
  <2>1. pc[t] \in {"locked", "scanning"} /\ lock = t
    BY <1>1, <1>5, CriticalHolds DEF Critical, ExpungeOne, InsertDone,
       InsertNoMemory, GetHit, Miss, ScanBegin, ScanMember, ScanEnd, InBody
  <2>2. CallLeft(t) = StepsLeft(t) /\ StepsLeft(t) \in 1 .. 2 * MaxEntries + 2
    BY <1>1, <2>1, StepsBounded DEF CallLeft
  <2>3. CASE lock' = t
    <3>1. StepsLeft(t)' \in 1 .. StepsLeft(t) - 1
      BY <1>1, <1>5, <2>3, CriticalGetsCloser
    <3>2. pc'[t] \in {"locked", "scanning"}
      <4>1. lock' # NoThread
        BY <2>3, CacheAssumption
      <4> QED BY <1>2, <1>5, <2>1, <4>1 DEF Critical, ExpungeOne, InsertDone,
                 InsertNoMemory, GetHit, Miss, ScanBegin, ScanMember, ScanEnd,
                 InBody, Unlock
    <3>3. CallLeft(t)' = StepsLeft(t)'
      BY <3>2 DEF CallLeft
    <3> QED BY <1>2, <1>3, <2>2, <3>1, <3>3 DEF GetsCloser
  <2>4. CASE lock' # t
    <3>1. pc'[t] = "idle"
      BY <1>2, <1>5, <2>1, <2>4 DEF Critical, ExpungeOne, InsertDone,
         InsertNoMemory, GetHit, Miss, ScanBegin, ScanMember, ScanEnd, InBody,
         Unlock
    <3>2. CallLeft(t)' = 0
      BY <3>1 DEF CallLeft
    <3> QED BY <1>2, <1>3, <2>2, <3>2 DEF GetsCloser
  <2> QED BY <2>3, <2>4
<1> QED BY <1>4, <1>5

\* So do the handler's own steps, between two calls.
LEMMA HandlerAdvances ==
  ASSUME Base, Base', NEW t \in Threads, at[t] # "idle", Serve(t),
         ~(Critical(t) /\ UNCHANGED mount_vars)
  PROVE  GetsCloser(t) \/ ~mounted'
<1>1. /\ OneOfEach /\ at[t] \in Labels
      /\ PartsLeft(t) \in 1 .. 4 /\ MembersLeft(t) \in Nat
  BY EachThread, LeftNumbers
  DEF Base, ServingInv, HandlerInv, HandlerTypes, Labels
<1>2. ASSUME NEW error, NEW entry, NEW names, Answer(t, error, entry, names)
      PROVE  GetsCloser(t)
  <2>1. at'[t] = "idle"
    BY <1>1, <1>2 DEF Answer, Goto, OneOfEach
  <2>2. PartsLeft(t)' = 0
    BY <2>1 DEF PartsLeft
  <2> QED BY <1>1, <2>2 DEF GetsCloser
<1>3. CASE \/ GetattrHit(t) \/ EntryMissing(t) \/ GetattrCached(t)
           \/ ReaddirHit(t) \/ NothingToEnumerate(t) \/ EnumerateDone(t)
  BY <1>2, <1>3 DEF GetattrHit, EntryMissing, GetattrCached, ReaddirHit,
     NothingToEnumerate, EnumerateDone
<1>4. CASE \/ GetattrMiss(t) \/ EntryOpen(t) \/ ReaddirMiss(t) \/ CacheRoot(t)
           \/ Enumerate(t)
  <2>1. \/ at[t] = "get" /\ at'[t] = "entry_open"
        \/ at[t] = "entry_open" /\ at'[t] = "cached"
        \/ at[t] = "scandir" /\ at'[t] = "opened"
        \/ at[t] = "opened" /\ at'[t] = "rooted"
        \/ at[t] = "rooted" /\ at'[t] = "enumerating"
    BY <1>1, <1>4 DEF GetattrMiss, EntryOpen, ReaddirMiss, CacheRoot,
       Enumerate, Running, Open, Goto, OneOfEach
  <2>2. PartsLeft(t)' \in 0 .. PartsLeft(t) - 1
    BY <2>1 DEF PartsLeft
  <2> QED BY <2>2 DEF GetsCloser
<1>5. CASE CacheMember(t)
  <2>1. /\ at[t] = "enumerating" /\ at'[t] = "member"
        /\ position' = position /\ handle' = handle /\ request' = request
        /\ disk' = disk /\ position[t] <= Len(Enumerated(t))
    BY <1>1, <1>5 DEF CacheMember, Running, Goto, OneOfEach
  <2>2. Enumerated(t)' = Enumerated(t)
    BY <2>1 DEF Enumerated, Members, Archive
  <2>3. Len(Enumerated(t)) \in Nat /\ position[t] \in Nat
    BY <2>1, LeftNumbers
  <2>4. PartsLeft(t) = 1 /\ PartsLeft(t)' = 1
    BY <2>1 DEF PartsLeft
  <2>5. MembersLeft(t)' \in 0 .. MembersLeft(t) - 1
    BY <2>1, <2>2, <2>3 DEF MembersLeft
  <2> QED BY <2>4, <2>5 DEF GetsCloser
<1>6. CASE FillMember(t)
  <2>1. /\ at[t] = "member" /\ at'[t] = "enumerating"
        /\ position'[t] = position[t] + 1 /\ handle' = handle
        /\ request' = request /\ disk' = disk
    BY <1>1, <1>6 DEF FillMember, Running, Goto, OneOfEach
  <2>2. Enumerated(t)' = Enumerated(t)
    BY <2>1 DEF Enumerated, Members, Archive
  <2>3. /\ Len(Enumerated(t)) \in Nat /\ position[t] \in Nat
        /\ position[t] <= Len(Enumerated(t))
    BY <2>1, LeftNumbers
  <2>4. PartsLeft(t) = 1 /\ PartsLeft(t)' = 1
    BY <2>1 DEF PartsLeft
  <2>5. MembersLeft(t)' \in 0 .. MembersLeft(t) - 1
    <3>1. MembersLeft(t) = 2 * (Len(Enumerated(t)) + 1 - position[t])
      BY <2>1 DEF MembersLeft
    <3>2. MembersLeft(t)'
            = 2 * (Len(Enumerated(t)) + 1 - (position[t] + 1)) + 1
      BY <2>1, <2>2 DEF MembersLeft
    <3>3. \A n, p \in Nat :
            p <= n => 2 * (n + 1 - (p + 1)) + 1 \in 0 .. 2 * (n + 1 - p) - 1
      OBVIOUS
    <3> QED BY <2>3, <3>1, <3>2, <3>3
  <2> QED BY <2>4, <2>5 DEF GetsCloser
<1>7. CASE NullArchive(t)
  BY <1>7 DEF NullArchive
<1> QED BY <1>3, <1>4, <1>5, <1>6, <1>7 DEF Serve

\* A step of another thread, or none, leaves a call where it is.
LEMMA OthersLeaveCall ==
  ASSUME Base, [MountNext]_all_vars, NEW t \in Threads, Same(t),
         ~(Serve(t) \/ TakeLock(t) \/ Request(t))
  PROVE  CallLeft(t)' = CallLeft(t)
<1>1. pc'[t] = pc[t] /\ call'[t] = call[t]
  BY DEF Same
<1>2. CASE pc[t] \in {"idle", "waiting"}
  BY <1>1, <1>2 DEF CallLeft
<1>3. CASE pc[t] \in {"locked", "scanning"}
  <2>1. lock = t /\ t # NoThread /\ TypeOK
    BY <1>3, CacheAssumption DEF Base, Invariant, LockInv
  <2>2. ASSUME cache' = cache, cursor'[t] = cursor[t]
        PROVE  CallLeft(t)' = CallLeft(t)
    BY <1>1, <2>2 DEF CallLeft, StepsLeft, ScannedDir
  <2>3. CASE UNCHANGED vars \/ Tick
    BY <2>2, <2>3 DEF vars, Tick
  <2>4. ASSUME NEW u \in Threads, NEW op, NEW path, NEW id, NEW entry, NEW now,
               Begin(u, op, path, id, entry, now)
        PROVE  CallLeft(t)' = CallLeft(t)
    BY <2>2, <2>4 DEF Begin
  <2>5. ASSUME NEW u \in Threads \ {t}, StepOf(u)
        PROVE  CallLeft(t)' = CallLeft(t)
    <3>1. ~Critical(u) /\ ~TakeLock(u)
      BY <2>1, <2>5, CriticalHolds DEF TakeLock, Acquire, Base
    <3>2. CASE Request(u)
      BY <2>4, <3>2 DEF Request, Getattr, Readdir, BeginGet, BeginScandir
    <3>3. CASE EntryOpen(u) \/ CacheRoot(u) \/ CacheMember(u)
      BY <2>4, <3>3 DEF EntryOpen, CacheRoot, CacheMember, BeginInsertAttr,
         BeginInsertRoot, BeginInsertMember, BeginInsert
    <3>4. CASE UNCHANGED vars
      BY <2>3, <3>4
    <3>5. \/ Request(u) \/ EntryOpen(u) \/ CacheRoot(u) \/ CacheMember(u)
          \/ UNCHANGED vars
      BY <2>5, <3>1 DEF StepOf, Serve, GetattrHit, GetattrMiss, NullArchive,
         EntryMissing, GetattrCached, ReaddirHit, ReaddirMiss, Enumerate,
         NothingToEnumerate, FillMember, EnumerateDone, Open
    <3> QED BY <3>2, <3>3, <3>4, <3>5
  <2>6. \/ UNCHANGED vars \/ Tick \/ \E u \in Threads \ {t} : StepOf(u)
    BY DEF MountNext, all_vars, Rewrite, StepOf
  <2> QED BY <2>3, <2>5, <2>6
<1> QED BY <1>2, <1>3 DEF Base, Invariant, TypeOK

(***************************************************************************)
(* For archives of any length and any number of threads: each step of a    *)
(* handler (peepfs.c:330-352, 544-561) brings its answer closer, and       *)
(* nobody else's step, nor the clock, nor a replaced archive moves it      *)
(* back.  So a thread that is scheduled, and gets the mutex, answers.      *)
(***************************************************************************)
THEOREM RequestsAdvance == MountSpec => RequestAdvances
<1>1. Base /\ Base' /\ ScanInv /\ [MountNext]_all_vars =>
        [HandlersMove]_all_vars
  <2> SUFFICES ASSUME Base, Base', ScanInv, [MountNext]_all_vars,
                      NEW t \in Threads, at[t] # "idle"
               PROVE  IF Serve(t) \/ TakeLock(t)
                        THEN GetsCloser(t) \/ ~mounted' ELSE StaysAsClose(t)
    BY DEF HandlersMove
  <2>1. ~Request(t)
    BY DEF Request, Getattr, Readdir, Accept, Running
  <2>2. CASE Serve(t) \/ TakeLock(t)
    BY <2>2, CallAdvances, HandlerAdvances DEF Base
  <2>3. CASE ~(Serve(t) \/ TakeLock(t))
    <3>1. Same(t)
      <4>1. \A u \in Threads : StepOf(u) => u # t
        BY <2>1, <2>3 DEF StepOf
      <4> QED BY <4>1, WhoSteps, OthersSame DEF Base, ServingInv
    <3>2. CallLeft(t)' = CallLeft(t)
      BY <2>1, <2>3, <3>1, OthersLeaveCall
    <3>3. PartsLeft(t)' = PartsLeft(t) /\ MembersLeft(t)' = MembersLeft(t)
      BY <3>1, StepGrows, PlaceStays DEF Same, Base
    <3> QED BY <2>3, <3>2, <3>3 DEF StaysAsClose
  <2> QED BY <2>2, <2>3
<1>2. MountSpec => []ScanInv
  BY MountImplementsCache, ScanInvHolds, PTL
<1> QED BY <1>1, <1>2, BaseHolds, PTL DEF MountSpec, RequestAdvances

-----------------------------------------------------------------------------
(* What it takes for the two findings about archive files not to happen.   *)

\* The directories above each member are members themselves, as tar and zip
\* put them in.
WithDirectories ==
  \A c \in Contents : \A n \in Range(c) : Above[n] \subseteq Range(c)

(***************************************************************************)
(* README.md:9-11, "as though the archive had been extracted", holds of    *)
(* archives that have a member for every directory: what is missing in     *)
(* listings is only what peepfs_readdir_callback never sees (432).         *)
(***************************************************************************)
THEOREM ListsAsExtracted ==
  ASSUME AllocFails = FALSE, ReadErrors = FALSE, OneReader, WithDirectories
  PROVE  MountSpec => []ListingAsExtracted
<1>1. ASSUME NEW a \in Archives, NEW v \in 1 .. OnDisk(a), DiskInv
      PROVE  UNION {Above[m] : m \in Range(Members(a, v))}
               \subseteq Range(Members(a, v))
  <2>1. disk[a][v] \in Version
    BY <1>1 DEF DiskInv, OnDisk
  <2>2. Members(a, v) \in Contents \/ Members(a, v) = <<>>
    BY <2>1 DEF Version, Members
  <2>3. CASE Members(a, v) \in Contents
    BY <2>3 DEF WithDirectories
  <2>4. CASE Members(a, v) = <<>>
    BY <2>4 DEF Range
  <2> QED BY <2>2, <2>3, <2>4
<1>2. ListingsInv /\ DiskInv => ListingAsExtracted
  <2> SUFFICES ASSUME ListingsInv, DiskInv, NEW t \in Threads,
                      Answered(t, "readdir")
               PROVE  LET q == answer[t].request
                      IN  \E v \in 1 .. OnDisk(q.archivepath) :
                            LET members == Range(Members(q.archivepath, v))
                            IN  answer[t].names =
                                  {n \in members \cup
                                           UNION {Above[m] : m \in members} :
                                     Parent[n] = q.relpath}
    BY DEF ListingAsExtracted
  <2> DEFINE q == answer[t].request
  <2>1. q.archivepath \in Archives /\ NamesOf(disk, q, answer[t].names)
    BY DEF ListingsInv, ListedWell, Answered
  <2>2. PICK v \in 1 .. OnDisk(q.archivepath) :
          answer[t].names = {n \in Range(Members(q.archivepath, v)) :
                               Parent[n] = q.relpath}
    BY <2>1 DEF NamesOf, Perfect, Members, OnDisk
  <2> DEFINE members == Range(Members(q.archivepath, v))
  <2>3. members \cup UNION {Above[m] : m \in members} = members
    BY <1>1, <2>1
  <2> QED BY <2>2, <2>3
<1> QED BY <1>2, BaseHolds, ListingsHold, PTL DEF Base, HandlerInv

\* Every archive file can be opened as what its name says.
AllOpen == \A a \in Archives : Opened(a) # NoHandle

\* No look-up is about to follow a NULL archive.
HandleThere ==
  mounted /\ \A t \in Threads : at[t] = "entry_open" => handle[t] # NoHandle

\* The handle of a look-up is the one that peepfs_archive_open has given.
LEMMA HandleStaysThere ==
  Base /\ AllOpen /\ HandleThere /\ [MountNext]_all_vars => HandleThere'
<1> SUFFICES ASSUME Base, AllOpen, HandleThere, [MountNext]_all_vars
             PROVE  HandleThere'
  OBVIOUS
<1>1. ASSUME NEW t \in Threads, NullArchive(t) PROVE FALSE
  BY <1>1 DEF NullArchive, Running, HandleThere
<1>2. mounted' = mounted
  BY <1>1, HandlersStayMounted DEF MountNext, all_vars, mount_vars, Rewrite
<1>3. OneOfEach
  BY EachThread DEF Base, ServingInv
<1>4. ASSUME NEW t \in Threads, StepOf(t), at'[t] = "entry_open"
      PROVE  handle'[t] # NoHandle
  <2>1. CASE GetattrMiss(t)
    <3>1. Archive(t) \in Archives
      BY <2>1 DEF GetattrMiss, Running, Base, HandlerInv
    <3>2. handle'[t] = Opened(Archive(t))
      BY <1>3, <2>1 DEF GetattrMiss, Open, OneOfEach
    <3> QED BY <3>1, <3>2 DEF AllOpen
  <2>2. CASE UNCHANGED mount_vars
    BY <1>4, <2>2 DEF HandleThere, mount_vars
  <2>3. CASE ~GetattrMiss(t) /\ ~UNCHANGED mount_vars
    BY <1>1, <1>3, <1>4, <2>3 DEF StepOf, Request, Getattr, Readdir, Accept,
       TakeLock, Serve, GetattrHit, EntryOpen, EntryMissing, GetattrCached,
       ReaddirHit, ReaddirMiss, Open, CacheRoot, Enumerate,
       NothingToEnumerate, CacheMember, FillMember, EnumerateDone, Answer,
       Goto, OneOfEach
  <2> QED BY <2>1, <2>2, <2>3
<1>5. ASSUME NEW u \in Threads, at'[u] = "entry_open"
      PROVE  handle'[u] # NoHandle
  <2>1. CASE Same(u)
    BY <1>5, <2>1 DEF Same, HandleThere
  <2>2. CASE \E t \in Threads : StepOf(t)
    <3>1. PICK t \in Threads : StepOf(t)
      BY <2>2
    <3> QED BY <1>4, <1>5, <2>1, <3>1, OthersSame DEF Base, ServingInv
  <2> QED BY <2>1, <2>2, WhoSteps
<1> QED BY <1>2, <1>5 DEF HandleThere

(***************************************************************************)
(* README.md:13-14: as long as every archive file can be opened as what    *)
(* its name says, whatever else it is replaced by, nothing that getattr    *)
(* and readdir do is the end of the mount (peepfs.c:338-340).              *)
(***************************************************************************)
THEOREM StaysMountedOverArchives == MountSpec /\ []AllOpen => []StaysMounted
<1>1. MountInit => HandleThere
  BY DEF MountInit, HandleThere
<1>2. Base /\ AllOpen /\ HandleThere /\ [MountNext]_all_vars => HandleThere'
  BY HandleStaysThere
<1>3. HandleThere => StaysMounted
  BY DEF HandleThere, StaysMounted
<1> QED BY <1>1, <1>2, <1>3, BaseHolds, PTL DEF MountSpec

-----------------------------------------------------------------------------
(* How long what is answered may be of a file that has been replaced.      *)

\* The attributes are those of the file on disk, or are no longer handed out
\* one grace period after the archive has settled.
Recent(a, e, born) == e.version = OnDisk(a) \/ born <= unsettled[a]

UnsettledInv ==
  /\ unsettled = [a \in Archives |-> unsettled[a]]
  /\ \A a \in Archives :
       /\ unsettled[a] \in Int /\ unsettled[a] <= clock
       /\ Behind(a) => unsettled[a] = clock

CacheRecent ==
  \A x \in Live(cache) : cache.ents[x].path.relpath # Root =>
    Recent(cache.ents[x].path.archivepath, cache.ents[x].entry,
           cache.ents[x].born)

\* A cached directory without members is still being filled, or is that of the
\* file on disk, or is no longer handed out by then.
RootRecent(h) ==
  LET a == cache.ents[h].path.archivepath
  IN  /\ Unhindered
      /\ cache.ents[h].path.relpath = Root
      /\ cache.ents[h].dir = <<>>
      => \/ \E t \in Threads : Filling(t) /\ dir_id[t].id = h
         \/ Members(a, OnDisk(a)) = <<>>
         \/ cache.ents[h].born <= unsettled[a]

ServedRecent(t) ==
  \A i \in 1 .. Len(served[t]) :
    /\ served[t][i].born <= clock
    /\ served[t][i].path.relpath # Root =>
         Recent(served[t][i].path.archivepath, served[t][i].entry,
                served[t][i].born)
    /\ at[t] = "scandir" => /\ served[t][i].path.relpath # Root
                            /\ served[t][i].path.archivepath = Archive(t)

\* A walk has handed out the whole directory of the file on disk, unless it was
\* attended to before the archive had settled for a grace period.
AllListed(t) ==
  \/ Range(Members(Archive(t), OnDisk(Archive(t)))) \subseteq ListedNames(t)
  \/ locked_at[t] <= unsettled[Archive(t)] + Grace

ScanRecent(t) ==
  Unhindered /\ at[t] = "scandir" /\ pc[t] = "idle" /\ reply[t].error = 0 =>
    AllListed(t)

FoundRecent(t) == at[t] = "cached" => found[t].version >= request[t].since

AnswerRecent(t) ==
  /\ at[t] # "idle" => answer[t] = NoAnswer
  /\ answer[t].request.op # "none" =>
       /\ answer[t].request.archivepath \in Archives
       /\ Settled(t) => OfFileOnDisk(t)

RecentInv ==
  /\ UnsettledInv
  /\ CacheRecent
  /\ \A h \in Live(cache) : RootRecent(h)
  /\ \A t \in Threads : /\ ServedRecent(t) /\ ScanRecent(t)
                         /\ FoundRecent(t) /\ AnswerRecent(t)

\* The history only records: what PeepMount does, this does.
LEMMA FreshIsMount == FreshSpec => MountSpec
<1>1. FreshInit => MountInit
  BY DEF FreshInit
<1>2. [FreshNext]_fresh_vars => [MountNext]_all_vars
  BY DEF FreshNext, fresh_vars
<1> QED BY <1>1, <1>2, PTL DEF FreshSpec, MountSpec

\* The clock does not step back.
LEMMA ClockRuns ==
  ASSUME Invariant, HandlerInv, [MountNext]_all_vars
  PROVE  clock \in Nat /\ clock' \in Nat /\ clock <= clock'
<1>1. clock \in Nat
  BY DEF Invariant, TypeOK
<1>2. [Next]_vars
  BY MountStep
<1>3. clock' \in {clock, clock + 1}
  <2>1. CASE Tick \/ UNCHANGED vars
    BY <2>1 DEF Tick, vars
  <2>2. ASSUME NEW t \in Threads, BeginCall(t) PROVE clock' = clock
    BY <2>2 DEF BeginCall, BeginInsertRoot, BeginInsertMember, BeginInsertAttr,
       BeginInsert, BeginGet, BeginScandir, Begin
  <2>3. ASSUME NEW t \in Threads, CacheStep(t) PROVE clock' = clock
    BY <2>3 DEF CacheStep, Acquire, Critical, ExpungeOne, InsertDone,
       InsertNoMemory, GetHit, Miss, ScanBegin, ScanMember, ScanEnd, Unlock
  <2> QED BY <1>2, <2>1, <2>2, <2>3 DEF Next
<1> QED BY <1>1, <1>3

\* The history goes on.
LEMMA UnsettledGrows ==
  ASSUME Invariant, HandlerInv, UnsettledInv, [FreshNext]_fresh_vars
  PROVE  /\ UnsettledInv'
         /\ \A a \in Archives :
              /\ unsettled[a] <= unsettled'[a]
              /\ disk'[a] # disk[a] => unsettled'[a] = clock'
<1>1. clock \in Nat /\ clock' \in Nat /\ clock <= clock'
  BY ClockRuns DEF FreshNext, fresh_vars
<1>2. CASE UNCHANGED fresh_vars
  <2>1. UNCHANGED <<unsettled, clock, disk, at, request>>
    BY <1>2 DEF fresh_vars, all_vars, vars, mount_vars
  <2>2. \A a \in Archives : Behind(a)' = Behind(a)
    BY <2>1 DEF Behind, Archive, OnDisk
  <2> QED BY <2>1, <2>2 DEF UnsettledInv
<1>3. CASE FreshNext
  <2>1. /\ unsettled' = [a \in Archives |-> unsettled'[a]]
        /\ \A a \in Archives :
             unsettled'[a] = IF disk'[a] # disk[a] \/ Behind(a)'
                             THEN clock' ELSE unsettled[a]
    BY <1>3 DEF FreshNext
  <2>2. \A a \in Archives : unsettled[a] \in Int /\ unsettled[a] <= clock
    BY DEF UnsettledInv
  <2>3. \A a \in Archives :
          /\ unsettled'[a] \in Int /\ unsettled'[a] <= clock'
          /\ unsettled[a] <= unsettled'[a]
          /\ disk'[a] # disk[a] => unsettled'[a] = clock'
          /\ Behind(a)' => unsettled'[a] = clock'
    BY <1>1, <2>1, <2>2
  <2> QED BY <2>1, <2>3 DEF UnsettledInv
<1> QED BY <1>2, <1>3

\* What a step knows about time.
Passing ==
  /\ Base /\ Base' /\ AttributesInv /\ AttributesInv'
  /\ ListingsInv /\ ScanInv /\ RecentInv /\ UnsettledInv'
  /\ Grows(disk, disk')
  /\ clock \in Nat /\ clock' \in Nat /\ clock <= clock'
  /\ \A a \in Archives :
       /\ unsettled[a] <= unsettled'[a]
       /\ disk'[a] # disk[a] => unsettled'[a] = clock'

\* What is recent stays so, or ages from now on.
LEMMA RecentStays ==
  ASSUME Passing, NEW a \in Archives, NEW e, NEW born \in Int,
         born <= clock, Recent(a, e, born)
  PROVE  Recent(a, e, born)'
<1>1. /\ unsettled[a] \in Int /\ unsettled'[a] \in Int
      /\ clock \in Nat /\ clock' \in Nat /\ clock <= clock'
      /\ unsettled[a] <= unsettled'[a]
      /\ disk'[a] # disk[a] => unsettled'[a] = clock'
  BY DEF Passing, RecentInv, UnsettledInv
<1>2. disk'[a] = disk[a] => OnDisk(a)' = OnDisk(a)
  BY DEF OnDisk
<1> QED BY <1>1, <1>2 DEF Recent

\* Who is settled attends to a request that is not from before.
LEMMA SettledIsNow ==
  ASSUME Base, UnsettledInv, NEW t \in Threads, at[t] # "idle",
         locked_at[t] > unsettled[Archive(t)] + Grace
  PROVE  request[t].since = OnDisk(Archive(t))
<1>1. /\ Archive(t) \in Archives /\ OnDisk(Archive(t)) \in Nat
      /\ request[t].since \in 1 .. OnDisk(Archive(t))
  BY DEF Base, HandlerInv, DiskInv, ServingInv, Serving
<1>2. /\ locked_at[t] \in Nat /\ clock \in Nat /\ locked_at[t] <= clock
      /\ unsettled[Archive(t)] \in Int /\ Grace \in Nat
  BY <1>1, CacheAssumption DEF Base, Invariant, TypeOK, TimeInv, UnsettledInv
<1>3. ~Behind(Archive(t))
  BY <1>1, <1>2 DEF UnsettledInv
<1> QED BY <1>1, <1>3 DEF Behind

\* An answer stays what it was, however much later.
LEMMA AnswerStaysRecent ==
  ASSUME Passing, NEW u \in Threads, AnswerRecent(u),
         at'[u] = at[u], answer'[u] = answer[u], locked_at'[u] = locked_at[u]
  PROVE  AnswerRecent(u)'
<1> DEFINE a == answer[u].request.archivepath
<1> SUFFICES ASSUME answer[u].request.op # "none", Settled(u)'
             PROVE  a \in Archives /\ OfFileOnDisk(u)'
  BY DEF AnswerRecent
<1>1. a \in Archives
  BY DEF AnswerRecent
<1>2. /\ unsettled[a] \in Int /\ unsettled'[a] \in Int
      /\ clock \in Nat /\ clock' \in Nat /\ clock <= clock'
      /\ unsettled[a] <= unsettled'[a]
      /\ disk'[a] # disk[a] => unsettled'[a] = clock'
      /\ locked_at[u] \in Nat /\ locked_at[u] <= clock /\ Grace \in Nat
  BY <1>1, CacheAssumption
     DEF Passing, RecentInv, UnsettledInv, Base, Invariant, TypeOK, TimeInv
<1>3. locked_at[u] > unsettled'[a] + Grace
  BY DEF Settled
<1>4. disk'[a] = disk[a] /\ locked_at[u] > unsettled[a] + Grace
  BY <1>2, <1>3
<1>5. OfFileOnDisk(u)
  BY <1>4 DEF AnswerRecent, Settled
<1>6. /\ OnDisk(a)' = OnDisk(a)
      /\ Members(a, OnDisk(a))' = Members(a, OnDisk(a))
      /\ \A op : Answered(u, op)' = Answered(u, op)
      /\ \A dir : Children(a, OnDisk(a), dir)' = Children(a, OnDisk(a), dir)
  BY <1>4 DEF OnDisk, Members, Answered, Children
<1> QED BY <1>1, <1>5, <1>6 DEF OfFileOnDisk

\* What a walk has handed out stays what it is.
LEMMA ListedStays ==
  ASSUME Passing, NEW t \in Threads, Archive(t) \in Archives, AllListed(t),
         Archive(t)' = Archive(t), served'[t] = served[t],
         locked_at'[t] = locked_at[t]
  PROVE  AllListed(t)'
<1> DEFINE a == Archive(t)
<1>1. /\ unsettled[a] \in Int /\ unsettled'[a] \in Int
      /\ clock \in Nat /\ clock' \in Nat /\ clock <= clock'
      /\ unsettled[a] <= unsettled'[a]
      /\ disk'[a] # disk[a] => unsettled'[a] = clock'
      /\ locked_at[t] \in Nat /\ locked_at[t] <= clock /\ Grace \in Nat
  BY CacheAssumption
     DEF Passing, RecentInv, UnsettledInv, Base, Invariant, TypeOK, TimeInv
<1>2. CASE locked_at[t] <= unsettled'[a] + Grace
  BY <1>2 DEF AllListed
<1>3. CASE locked_at[t] > unsettled'[a] + Grace
  <2>1. disk'[a] = disk[a] /\ locked_at[t] > unsettled[a] + Grace
    BY <1>1, <1>3
  <2>2. ~(locked_at[t] <= unsettled[a] + Grace)
    BY <1>1, <2>1
  <2>3. Range(Members(a, OnDisk(a))) \subseteq ListedNames(t)
    BY <2>2 DEF AllListed
  <2>4. /\ Members(Archive(t), OnDisk(Archive(t)))' = Members(a, OnDisk(a))
        /\ ListedNames(t)' = ListedNames(t)
    BY <2>1 DEF Members, OnDisk, ListedNames
  <2> QED BY <2>3, <2>4 DEF AllListed
<1> QED BY <1>1, <1>2, <1>3

\* What a thread puts in is of the file on disk, or the thread is behind.
LEMMA InsertsRecent ==
  ASSUME Passing, NEW t \in Threads, Serving(t), FoundRecent(t),
         InBody(t, "insert"), call[t].path.relpath # Root
  PROVE  Recent(call[t].path.archivepath, call[t].entry, locked_at[t])
<1> DEFINE a == Archive(t)
<1>1. /\ Invariant /\ HandlerInv /\ UnsettledInv /\ Attributed(t)
      /\ pc[t] = "locked" /\ call[t].op = "insert"
  BY DEF Passing, Base, RecentInv, AttributesInv, InBody
<1>2. CallOf(t) /\ at[t] # "idle" /\ a \in Archives
  BY <1>1 DEF Serving, CallOf, HandlerInv
<1>3. at[t] \in {"cached", "member"}
  BY <1>1, <1>2 DEF CallOf, RootPath
<1>4. /\ call[t].path.archivepath = a
      /\ call[t].entry.version >= request[t].since
  <2>1. CASE at[t] = "cached"
    BY <1>2, <2>1 DEF CallOf, MemberPath, FoundRecent
  <2>2. CASE at[t] = "member"
    <3>1. handle[t] \notin {NoHandle, ByName}
      BY <1>1, <2>2 DEF HandlerInv
    <3>2. handle[t] >= request[t].since /\ dir_id[t].archivepath = a
      BY <2>2, <3>1 DEF Serving, Filling
    <3> QED BY <1>2, <2>2, <3>2 DEF CallOf, Meta
  <2> QED BY <1>3, <2>1, <2>2
<1>5. call[t].entry.version \in 1 .. OnDisk(a)
  <2>1. About(disk, call[t].path, call[t].entry)
    BY <1>1 DEF Attributed, CallAbout
  <2> QED BY <1>4, <2>1 DEF About, IsNth, Meta, OnDisk
<1>6. request[t].since \in 1 .. OnDisk(a) /\ OnDisk(a) \in Nat
  BY <1>1, <1>2 DEF Serving, HandlerInv, DiskInv
<1>7. CASE request[t].since = OnDisk(a)
  BY <1>4, <1>5, <1>6, <1>7 DEF Recent
<1>8. CASE request[t].since < OnDisk(a)
  <2>1. Behind(a)
    BY <1>2, <1>8 DEF Behind
  <2>2. unsettled[a] = clock /\ locked_at[t] <= clock
    BY <1>1, <1>2, <2>1 DEF UnsettledInv, Invariant, TimeInv
  <2> QED BY <1>4, <2>2 DEF Recent
<1> QED BY <1>6, <1>7, <1>8

\* What is in the cache.
LEMMA CacheStaysRecent ==
  ASSUME Passing, [MountNext]_all_vars
  PROVE  CacheRecent'
<1>1. /\ Invariant /\ HandlerInv /\ CacheRecent
      /\ \A t \in Threads : Serving(t) /\ FoundRecent(t)
  BY DEF Passing, Base, ServingInv, RecentInv
<1> SUFFICES ASSUME NEW x \in Live(cache'),
                    cache'.ents[x].path.relpath # Root,
                    NEW a, a = cache'.ents[x].path.archivepath,
                    NEW e, e = cache'.ents[x].entry,
                    NEW born, born = cache'.ents[x].born
             PROVE  Recent(a, e, born)'
  BY DEF CacheRecent, Recent, Live
<1>2. ASSUME x \in Live(cache), a = cache.ents[x].path.archivepath,
             e = cache.ents[x].entry, born = cache.ents[x].born,
             cache.ents[x].path.relpath # Root
      PROVE  Recent(a, e, born)'
  <2>1. a \in Archives /\ born \in Int
    BY <1>1, <1>2 DEF Invariant, CacheInv, CacheTypeOK, EntryRecords, Paths
  <2>2. born <= clock /\ Recent(a, e, born)
    BY <1>1, <1>2 DEF Invariant, TimeInv, BornBy, CacheRecent
  <2> QED BY <2>1, <2>2, RecentStays
<1>3. CASE Shrunk(cache, cache')
  BY <1>2, <1>3 DEF Shrunk
<1>4. ASSUME NEW t \in Threads, StepOf(t), ~Shrunk(cache, cache')
      PROVE  Recent(a, e, born)'
  <2>1. /\ InsertDone(t)
        /\ Inserted(cache, cache', call[t].path, call[t].archive_id,
                    call[t].entry)
    BY <1>1, <1>4, StepChanges
  <2>2. CASE x # cache.next_id
    BY <1>2, <2>1, <2>2 DEF Inserted
  <2>3. CASE x = cache.next_id
    <3>1. born = locked_at[t]
      BY <1>1, <2>1, <2>3, CriticalChanges DEF Critical, Shrunk, Inserted
    <3>2. /\ a = call[t].path.archivepath /\ e = call[t].entry
          /\ call[t].path.relpath # Root
      BY <2>1, <2>3 DEF Inserted
    <3>3. InBody(t, "insert")
      BY <2>1 DEF InsertDone
    <3>4. Recent(a, e, born)
      BY <1>1, <3>1, <3>2, <3>3, InsertsRecent
    <3>5. a \in Archives /\ born \in Int /\ born <= clock
      BY <1>1, <3>1, <3>2, <3>3
         DEF Invariant, TypeOK, TimeInv, CallInv, InBody, Paths
    <3> QED BY <3>4, <3>5, RecentStays
  <2> QED BY <2>2, <2>3
<1>5. CASE cache' = cache
  BY <1>5, <1>3 DEF Shrunk
<1> QED BY <1>3, <1>4, <1>5, WhoSteps

\* Nothing to enumerate, for a request that is not from before: the file on
\* disk has no members.
LEMMA NoneToEnumerate ==
  ASSUME HandlerInv, NEW t \in Threads, Serving(t), at[t] = "rooted",
         ~CanEnumerate(t), Archive(t) \in Archives,
         request[t].since = OnDisk(Archive(t))
  PROVE  Members(Archive(t), OnDisk(Archive(t))) = <<>>
<1> DEFINE a == Archive(t)
<1>1. OnDisk(a) \in Nat /\ OnDisk(a) \in 1 .. OnDisk(a)
  BY DEF Serving, HandlerInv, DiskInv
<1>2. CASE handle[t] = NoHandle
  <2>1. PICK v \in request[t].since .. OnDisk(a) : Members(a, v) = <<>>
    BY <1>2 DEF Serving
  <2>2. v = OnDisk(a)
    BY <1>1, <2>1
  <2> QED BY <2>1, <2>2
<1>3. CASE handle[t] # NoHandle
  <2>1. ~IsArchive(a, Source(t))
    BY <1>3 DEF CanEnumerate
  <2>2. handle[t] = ByName
    BY <1>3, <2>1 DEF Serving, Source
  <2>3. ~IsArchive(a, OnDisk(a))
    BY <2>1, <2>2 DEF Source
  <2>4. disk[a][OnDisk(a)] \in Version
    <3>1. disk[a] \in Seq(Version)
      BY DEF HandlerInv, DiskInv
    <3> QED BY <1>1, <3>1 DEF OnDisk
  <2> QED BY <2>3, <2>4 DEF Version, IsArchive, Members
<1> QED BY <1>2, <1>3

\* A directory that stays without members, whoever fills it goes on.
LEMMA RootStays ==
  ASSUME Passing, NEW h \in Live(cache), RootRecent(h),
         cache'.ents[h].path = cache.ents[h].path,
         cache'.ents[h].born = cache.ents[h].born,
         cache'.ents[h].dir = cache.ents[h].dir,
         \A u \in Threads : Filling(u) /\ dir_id[u].id = h =>
           Filling(u)' /\ dir_id'[u].id = h
  PROVE  RootRecent(h)'
<1> DEFINE a == cache.ents[h].path.archivepath
<1>1. a \in Archives /\ cache.ents[h].born \in Int
  BY DEF Passing, Base, Invariant, CacheInv, CacheTypeOK, EntryRecords, Paths
<1>2. /\ unsettled[a] \in Int /\ unsettled'[a] \in Int
      /\ clock \in Nat /\ clock' \in Nat /\ clock <= clock'
      /\ unsettled[a] <= unsettled'[a]
      /\ disk'[a] # disk[a] => unsettled'[a] = clock'
      /\ cache.ents[h].born <= clock
  BY <1>1 DEF Passing, RecentInv, UnsettledInv, Base, Invariant, TimeInv, BornBy
<1>3. disk'[a] = disk[a] =>
        Members(a, OnDisk(a))' = Members(a, OnDisk(a))
  BY DEF Members, OnDisk
<1>4. cache.ents[h].born <= unsettled[a] => cache.ents[h].born <= unsettled'[a]
  BY <1>1, <1>2
<1>5. disk'[a] # disk[a] => cache.ents[h].born <= unsettled'[a]
  BY <1>1, <1>2
<1> SUFFICES ASSUME Unhindered, cache.ents[h].path.relpath = Root,
                    cache.ents[h].dir = <<>>
             PROVE  \/ \E u \in Threads : Filling(u)' /\ dir_id'[u].id = h
                    \/ Members(a, OnDisk(a))' = <<>>
                    \/ cache.ents[h].born <= unsettled'[a]
  BY DEF RootRecent
<1> QED BY <1>3, <1>4, <1>5 DEF RootRecent

\* A readdir that is done leaves a directory without members only where it
\* found none, in the file on disk or in one from before.
LEMMA RootDone ==
  ASSUME Passing, NEW t \in Threads, Building(t),
         EnumerateDone(t) \/ NothingToEnumerate(t),
         NEW h, h = dir_id[t].id, h \in Live(cache)
  PROVE  RootRecent(h)'
<1> DEFINE a == cache.ents[h].path.archivepath
<1>1. Invariant /\ HandlerInv /\ Serving(t) /\ UnsettledInv
  BY DEF Passing, Base, ServingInv, RecentInv
<1>2. UNCHANGED <<vars, disk>> /\ cache' = cache /\ pc[t] = "idle"
      /\ at[t] \in {"enumerating", "rooted"}
  BY DEF EnumerateDone, NothingToEnumerate, Answer, Running, vars
<1>3. /\ a = Archive(t) /\ Archive(t) \in Archives
  BY <1>1, <1>2 DEF Building, Serving, Filling, RootPath, HandlerInv
<1>4. /\ request[t].since \in 1 .. OnDisk(a) /\ OnDisk(a) \in Nat
  BY <1>1, <1>2, <1>3 DEF Serving, HandlerInv, DiskInv
<1>5. ASSUME request[t].since < OnDisk(a)
      PROVE  cache.ents[h].born <= unsettled[a]
  <2>1. Behind(a)
    BY <1>2, <1>3, <1>5 DEF Behind
  <2>2. unsettled[a] = clock
    BY <1>1, <1>3, <2>1 DEF UnsettledInv
  <2> QED BY <1>1, <2>2 DEF Invariant, TimeInv, BornBy
<1>6. ASSUME Unhindered, cache.ents[h].dir = <<>>, request[t].since = OnDisk(a)
      PROVE  Members(a, OnDisk(a)) = <<>>
  <2>1. CASE EnumerateDone(t)
    <3>1. /\ at[t] = "enumerating" /\ ~AllocFails
          /\ position[t] > Len(Enumerated(t))
      BY <1>6, <2>1 DEF EnumerateDone, Running, Unhindered
    <3>2. handle[t] \notin {NoHandle, ByName}
      BY <1>1, <3>1 DEF HandlerInv
    <3>3. handle[t] \in 1 .. OnDisk(a) /\ handle[t] >= request[t].since
      BY <1>1, <1>3, <3>2, HandleOnDisk DEF Serving
    <3>4. Enumerated(t) = Members(a, OnDisk(a))
      BY <1>3, <1>4, <1>6, <3>3 DEF Enumerated
    <3>5. Enumerated(t) \in Seq(Names)
      BY <1>1, <1>3, <3>3, MembersCacheable DEF HandlerInv, Enumerated
    <3>6. Len(cache.ents[h].dir) = position[t] - 1
      BY <3>1 DEF Building
    <3>7. Len(cache.ents[h].dir) = 0
      BY <1>6
    <3>8. position[t] \in Nat /\ Len(Enumerated(t)) \in Nat
      BY <1>1, <3>5, LenProperties DEF HandlerInv, HandlerTypes
    <3>9. Len(Enumerated(t)) = 0
      BY <3>1, <3>6, <3>7, <3>8
    <3> QED BY <3>4, <3>5, <3>9, EmptySeq
  <2>2. CASE NothingToEnumerate(t)
    <3>1. at[t] = "rooted" /\ ~CanEnumerate(t)
      BY <2>2 DEF NothingToEnumerate, Running
    <3> QED BY <1>1, <1>3, <1>6, <3>1, NoneToEnumerate
  <2> QED BY <2>1, <2>2
<1>7. /\ Members(a, OnDisk(a))' = Members(a, OnDisk(a))
      /\ unsettled[a] <= unsettled'[a]
      /\ unsettled[a] \in Int /\ unsettled'[a] \in Int
      /\ cache.ents[h].born \in Int
  <2>1. cache.ents[h].born \in Int
    BY <1>1 DEF Invariant, CacheInv, CacheTypeOK, EntryRecords
  <2>2. Members(a, OnDisk(a))' = Members(a, OnDisk(a))
    BY <1>2 DEF Members, OnDisk
  <2>3. /\ unsettled[a] <= unsettled'[a]
        /\ unsettled[a] \in Int /\ unsettled'[a] \in Int
    BY <1>1, <1>3 DEF Passing, UnsettledInv
  <2> QED BY <2>1, <2>2, <2>3
<1>8. CASE request[t].since < OnDisk(a)
  <2>1. cache.ents[h].born <= unsettled[a]
    BY <1>5, <1>8
  <2>2. cache.ents[h].born <= unsettled'[a]
    BY <1>7, <2>1
  <2> QED BY <1>2, <2>2 DEF RootRecent
<1>9. CASE request[t].since = OnDisk(a)
  BY <1>2, <1>6, <1>7, <1>9 DEF RootRecent
<1> QED BY <1>4, <1>8, <1>9

\* A new Root entry is its thread's to fill.
LEMMA RootComes ==
  ASSUME Passing, NEW t \in Threads, InsertDone(t), UNCHANGED mount_vars,
         Inserted(cache, cache', call[t].path, call[t].archive_id,
                  call[t].entry),
         NEW h, h = cache.next_id
  PROVE  RootRecent(h)'
<1>1. Invariant /\ Serving(t)
  BY DEF Passing, Base, ServingInv
<1>2. cache'.ents[h].path = call[t].path
  BY DEF Inserted
<1>3. call[t].op = "insert" /\ pc[t] = "locked"
  BY DEF InsertDone, InBody
<1>4. ASSUME cache'.ents[h].path.relpath = Root
      PROVE  Filling(t)' /\ dir_id'[t].id = h
  <2>1. at[t] \in {"scandir", "rooted"}
    BY <1>1, <1>2, <1>3, <1>4, InCall DEF Passing, Base
  <2>2. at[t] = "rooted" /\ at'[t] = "rooted"
    BY <1>1, <1>3, <2>1 DEF Serving, CallOf, mount_vars
  <2>3. dir_id'[t].id = h /\ pc'[t] = "idle"
    BY <1>1, <1>2, <1>4
       DEF InsertDone, Unlock, RememberDir, Invariant, TypeOK
  <2> QED BY <2>2, <2>3 DEF Filling
<1> QED BY <1>4 DEF RootRecent

\* Every directory.
LEMMA RootsStayRecent ==
  ASSUME Passing, [MountNext]_all_vars, NEW h \in Live(cache')
  PROVE  RootRecent(h)'
<1>1. /\ Invariant /\ HandlerInv /\ Functions
      /\ \A x \in Live(cache) : RootRecent(x)
      /\ Live(cache) \subseteq 1 .. cache.next_id - 1 /\ cache.next_id \in Nat
      /\ \A x \in Live(cache) : cache.ents[x].dir \in Seq(Nat)
      /\ \A t \in Threads : Building(t)
  BY DEF Passing, Base, ServingInv, ListingsInv, RecentInv, Invariant,
         CacheInv, CacheTypeOK, EntryRecords
<1>2. CASE cache' = cache /\ \A u \in Threads : Same(u)
  <2>1. \A u \in Threads : Filling(u) /\ dir_id[u].id = h =>
          Filling(u)' /\ dir_id'[u].id = h
    BY <1>2 DEF Same, Filling
  <2> QED BY <1>1, <1>2, <2>1, RootStays
<1>3. ASSUME NEW t \in Threads, StepOf(t) PROVE RootRecent(h)'
  <2>1. CASE h \notin Live(cache)
    <3>1. ~Shrunk(cache, cache')
      BY <2>1 DEF Shrunk
    <3>2. InsertDone(t) /\ UNCHANGED mount_vars
          /\ Inserted(cache, cache', call[t].path, call[t].archive_id,
                      call[t].entry)
      BY <1>1, <1>3, <3>1, StepChanges
    <3>3. h = cache.next_id
      BY <2>1, <3>2 DEF Inserted
    <3> QED BY <3>2, <3>3, RootComes
  <2>2. CASE h \in Live(cache) /\ cache'.ents[h].dir # cache.ents[h].dir
    <3>1. ~Shrunk(cache, cache')
      BY <2>2 DEF Shrunk
    <3>2. Inserted(cache, cache', call[t].path, call[t].archive_id,
                   call[t].entry)
      BY <1>1, <1>3, <3>1, StepChanges
    <3>3. h # cache.next_id
      BY <1>1, <2>2
    <3>4. cache'.ents[h].dir = Append(cache.ents[h].dir, cache.next_id)
      BY <2>2, <3>2, <3>3 DEF Inserted, ChainAfter
    <3>5. cache'.ents[h].dir # <<>>
      <4>1. Len(cache'.ents[h].dir) = Len(cache.ents[h].dir) + 1
            /\ Len(cache.ents[h].dir) \in Nat
        BY <1>1, <2>2, <3>4, AppendProperties
      <4>2. Len(cache'.ents[h].dir) # 0
        BY <4>1
      <4> QED BY <4>2
    <3> QED BY <3>5 DEF RootRecent
  <2>3. CASE h \in Live(cache) /\ cache'.ents[h].dir = cache.ents[h].dir
    <3>1. /\ cache'.ents[h].path = cache.ents[h].path
          /\ cache'.ents[h].born = cache.ents[h].born
      <4>1. CASE Shrunk(cache, cache')
        BY <4>1 DEF Shrunk
      <4>2. CASE Inserted(cache, cache', call[t].path, call[t].archive_id,
                          call[t].entry)
        <5>1. h # cache.next_id
          BY <1>1, <2>3
        <5> QED BY <4>2, <5>1 DEF Inserted
      <4> QED BY <1>1, <1>3, <4>1, <4>2, StepChanges
    <3>2. CASE h = dir_id[t].id /\ (EnumerateDone(t) \/ NothingToEnumerate(t))
      BY <1>1, <2>3, <3>2, RootDone
    <3>3. CASE ~(h = dir_id[t].id /\ (EnumerateDone(t) \/ NothingToEnumerate(t)))
      <4>1. ASSUME NEW u \in Threads, Filling(u), dir_id[u].id = h
            PROVE  Filling(u)' /\ dir_id'[u].id = h
        <5>1. CASE u = t
          BY <1>3, <3>3, <4>1, <5>1, FillingGoesOn DEF Passing
        <5>2. CASE u # t
          <6>1. Same(u)
            BY <1>1, <1>3, <5>2, OthersSame
          <6> QED BY <4>1, <6>1 DEF Same, Filling
        <5> QED BY <5>1, <5>2
      <4> QED BY <1>1, <2>3, <3>1, <4>1, RootStays
    <3> QED BY <3>2, <3>3
  <2> QED BY <2>1, <2>2, <2>3
<1> QED BY <1>2, <1>3, WhoSteps

\* What was handed out, while nothing more is.
LEMMA ServedStaysRecent ==
  ASSUME Passing, NEW t \in Threads, ServedRecent(t), served'[t] = served[t],
         at'[t] = "scandir" => at[t] = "scandir" /\ Archive(t)' = Archive(t)
  PROVE  ServedRecent(t)'
<1>1. /\ Invariant /\ clock \in Nat /\ clock' \in Nat /\ clock <= clock'
  BY DEF Passing, Base
<1> SUFFICES ASSUME NEW i \in 1 .. Len(served[t])
             PROVE  /\ served[t][i].born <= clock'
                    /\ served[t][i].path.relpath # Root =>
                         Recent(served[t][i].path.archivepath,
                                served[t][i].entry, served[t][i].born)'
                    /\ at'[t] = "scandir" =>
                         /\ served[t][i].path.relpath # Root
                         /\ served[t][i].path.archivepath = Archive(t)'
  BY DEF ServedRecent, Recent
<1>2. served[t][i] \in EntryRecords
  <2>1. served[t] \in Seq(EntryRecords)
    BY <1>1 DEF Invariant, TypeOK
  <2> QED BY <2>1
<1>3. PICK a, e, born : /\ a = served[t][i].path.archivepath
                        /\ e = served[t][i].entry /\ born = served[t][i].born
  OBVIOUS
<1>4. a \in Archives /\ born \in Int /\ born <= clock
  BY <1>2, <1>3 DEF EntryRecords, Paths, ServedRecent
<1>5. served[t][i].path.relpath # Root => Recent(a, e, born)'
  BY <1>3, <1>4, RecentStays DEF ServedRecent
<1>6. served[t][i].path.relpath # Root =>
        Recent(served[t][i].path.archivepath, served[t][i].entry,
               served[t][i].born)'
  BY <1>3, <1>5 DEF Recent
<1> QED BY <1>1, <1>3, <1>4, <1>6 DEF ServedRecent

\* What a thread is handed out in a cache call.
LEMMA CallServesRecent ==
  ASSUME Passing, NEW t \in Threads, ServedRecent(t), Serving(t),
         TakeLock(t) \/ (Critical(t) /\ UNCHANGED mount_vars)
  PROVE  ServedRecent(t)'
<1>1. /\ Invariant /\ HandlerInv /\ CacheRecent /\ UNCHANGED mount_vars
      /\ clock \in Nat /\ clock' \in Nat /\ clock <= clock'
  BY DEF Passing, Base, RecentInv, TakeLock
<1>2. Archive(t)' = Archive(t) /\ at' = at
  BY <1>1 DEF Archive, mount_vars
<1> DEFINE Good(r) ==
      /\ r.born <= clock'
      /\ r.path.relpath # Root =>
           \/ r.entry.version = Len(disk'[r.path.archivepath])
           \/ r.born <= unsettled'[r.path.archivepath]
<1>3. ASSUME NEW x \in Live(cache), NEW rec, rec = cache.ents[x]
      PROVE  Good(rec)
  <2>1. PICK a, e, born : /\ a = rec.path.archivepath
                          /\ e = rec.entry /\ born = rec.born
    OBVIOUS
  <2>2. a \in Archives /\ born \in Int /\ born <= clock
    BY <1>1, <1>3, <2>1
       DEF Invariant, CacheInv, CacheTypeOK, EntryRecords, Paths, TimeInv, BornBy
  <2>3. rec.path.relpath # Root => Recent(a, e, born)'
    BY <1>1, <1>3, <2>1, <2>2, RecentStays DEF CacheRecent
  <2> QED BY <1>1, <2>1, <2>2, <2>3 DEF Recent, OnDisk
<1>4. ASSUME \A i \in 1 .. Len(served'[t]) :
               /\ Good(served'[t][i])
               /\ at[t] = "scandir" =>
                    /\ served'[t][i].path.relpath # Root
                    /\ served'[t][i].path.archivepath = Archive(t)
      PROVE  ServedRecent(t)'
  BY <1>2, <1>4 DEF ServedRecent, Recent, OnDisk
<1> HIDE DEF Good
<1>5. CASE ScanMember(t)
  <2> DEFINE h == Find(cache, call[t].path)
             x == ScannedDir(t)[cursor[t]]
             rec == cache.ents[x]
  <2>1. /\ x \in Live(cache)
        /\ served'[t] = Append(served[t], rec)
        /\ served[t] \in Seq(EntryRecords)
    BY <1>1, <1>5, ScannedLive
  <2>2. /\ pc[t] = "scanning" /\ cursor[t] <= Len(ScannedDir(t))
        /\ call[t].op = "scandir" /\ h # NoId /\ cursor[t] \in Nat \ {0}
    BY <1>1, <1>5 DEF ScanMember, Invariant, CallInv, TypeOK
  <2>3. call[t].path = RootPath(Archive(t))
    BY <2>2 DEF Serving, CallOf
  <2>4. h \in Live(cache) /\ cache.ents[h].path = RootPath(Archive(t))
    BY <1>1, <2>2, <2>3, FindFinds DEF Invariant, CacheInv
  <2>5. cursor[t] \in 1 .. Len(cache.ents[h].dir) /\ x = cache.ents[h].dir[cursor[t]]
    <3>1. Len(cache.ents[h].dir) \in Nat
      BY <1>1, <2>4, ElementOfSeq
         DEF Invariant, CacheInv, CacheTypeOK, EntryRecords
    <3> QED BY <2>2, <3>1 DEF ScannedDir
  <2>6. /\ rec.archive_id = h
        /\ rec.path.archivepath = Archive(t)
    <3>1. /\ cache.ents[cache.ents[h].dir[cursor[t]]].archive_id = h
          /\ cache.ents[cache.ents[h].dir[cursor[t]]].path.archivepath
               = cache.ents[h].path.archivepath
      BY <1>1, <2>4, <2>5 DEF Invariant, CacheInv, ChainsSound
    <3>2. cache.ents[h].path.archivepath = Archive(t)
      BY <2>4 DEF RootPath
    <3> QED BY <2>5, <3>1, <3>2
  <2>7. rec.path.relpath # Root
    BY <1>1, <2>1, <2>2, <2>6 DEF Invariant, CacheInv, RootsOnTop
  <2> HIDE DEF rec, x
  <2>8. /\ Len(served'[t]) = Len(served[t]) + 1
        /\ served'[t][Len(served[t]) + 1] = rec
        /\ \A k \in 1 .. Len(served[t]) : served'[t][k] = served[t][k]
        /\ Len(served[t]) \in Nat
    BY <2>1, AppendProperties
  <2>9. Good(rec)
    BY <1>3, <2>1 DEF rec
  <2>10. ASSUME NEW i \in 1 .. Len(served[t])
        PROVE  /\ Good(served[t][i])
               /\ at[t] = "scandir" =>
                    /\ served[t][i].path.relpath # Root
                    /\ served[t][i].path.archivepath = Archive(t)
    <3>1. served[t][i] \in EntryRecords
      BY <2>1
    <3>2. PICK a, e, born : /\ a = served[t][i].path.archivepath
                            /\ e = served[t][i].entry
                            /\ born = served[t][i].born
      OBVIOUS
    <3>3. a \in Archives /\ born \in Int /\ born <= clock
      BY <3>1, <3>2 DEF EntryRecords, Paths, ServedRecent
    <3>4. served[t][i].path.relpath # Root => Recent(a, e, born)'
      BY <3>2, <3>3, RecentStays DEF ServedRecent
    <3>5. Good(served[t][i])
      BY <1>1, <3>2, <3>3, <3>4 DEF Good, Recent, OnDisk
    <3> QED BY <3>5 DEF ServedRecent
  <2>11. \A i \in 1 .. Len(served'[t]) :
           i = Len(served[t]) + 1 \/ i \in 1 .. Len(served[t])
    BY <2>8
  <2> QED BY <1>4, <2>6, <2>7, <2>8, <2>10, <2>11, <2>9
<1>6. CASE GetHit(t)
  <2>1. PICK x : /\ x = Find(cache, call[t].path) /\ x # NoId
                 /\ served'[t] = <<cache.ents[x]>>
    BY <1>1, <1>6 DEF GetHit, Invariant, TypeOK
  <2>2. x \in Live(cache)
    BY <1>1, <2>1, FindFinds DEF Invariant, CacheInv
  <2>3. at[t] # "scandir"
    BY <1>6 DEF GetHit, InBody, Serving, CallOf
  <2>4. Good(cache.ents[x])
    BY <1>3, <2>2
  <2> QED BY <1>4, <2>1, <2>3, <2>4
<1>7. CASE ~ScanMember(t) /\ ~GetHit(t)
  <2>1. served' = served
    BY <1>7 DEF TakeLock, Acquire, Critical, ExpungeOne, ScanBegin, InsertDone,
       InsertNoMemory, Miss, ScanEnd
  <2> QED BY <1>2, <2>1, ServedStaysRecent
<1> QED BY <1>5, <1>6, <1>7

\* A walk that ends has handed out the whole directory: if it has members,
\* because they tell which version it is of.
LEMMA ScanListsAll ==
  ASSUME Passing, NEW t \in Threads, ScanEnd(t), at[t] = "scandir", Unhindered
  PROVE  AllListed(t)
<1> DEFINE h == Find(cache, call[t].path)
           dir == cache.ents[h].dir
           a == Archive(t)
           born == cache.ents[h].born
<1>1. /\ Invariant /\ HandlerInv /\ CacheRecent /\ UnsettledInv
      /\ \A u \in Threads : Serving(u)
  BY DEF Passing, Base, ServingInv, RecentInv
<1>2. /\ pc[t] = "scanning" /\ cursor[t] > Len(dir)
  BY DEF ScanEnd, ScannedDir
<1>3. call[t].path = RootPath(a) /\ t \in Readers /\ a \in Archives
  BY <1>1, <1>2 DEF Serving, CallOf, HandlerInv
<1>4. /\ h # NoId /\ h \in Live(cache) /\ cache.ents[h].path = RootPath(a)
      /\ cache.ents[h].path.archivepath = a
      /\ cache.ents[h].path.relpath = Root
  <2>1. h # NoId
    BY <1>1, <1>2 DEF Invariant, CallInv
  <2> QED BY <1>1, <1>3, <2>1, FindFinds DEF Invariant, CacheInv, RootPath
<1>5. dir \in Seq(Nat) /\ Len(dir) \in Nat /\ cursor[t] \in Nat
  <2>1. cache.ents[h] \in EntryRecords
    BY <1>1, <1>4 DEF Invariant, CacheInv, CacheTypeOK
  <2>2. dir \in Seq(Nat)
    BY <2>1 DEF EntryRecords
  <2> QED BY <1>1, <2>2, LenProperties DEF Invariant, TypeOK
<1>6. /\ Len(served[t]) = Len(dir)
      /\ \A i \in 1 .. Len(dir) : served[t][i] = cache.ents[dir[i]]
  BY <1>2, <1>5 DEF Passing, ScanInv, ScanPrefix, ScannedDir
<1>7. ~\E u \in Threads : Filling(u)
  <2>1. SUFFICES ASSUME NEW u \in Threads, Filling(u) PROVE FALSE
    OBVIOUS
  <2>2. u \in Readers
    BY <1>1, <2>1 DEF Serving, Filling
  <2>3. u = t
    BY <1>3, <2>2 DEF Unhindered
  <2> QED BY <2>1, <2>3 DEF Filling
<1>8. ~HeadExpired(t)
  BY <1>1, <1>2 DEF Invariant, ServedInv
<1>9. ASSUME NEW x \in Live(cache), cache.ents[x].born <= unsettled[a]
      PROVE  locked_at[t] <= unsettled[a] + Grace
  <2>1. cache.ents[x].born + Grace >= locked_at[t]
    BY <1>1, <1>8, AllFresh
  <2>2. /\ cache.ents[x].born \in Int /\ unsettled[a] \in Int
        /\ Grace \in Nat /\ locked_at[t] \in Nat
    BY <1>1, <1>3, CacheAssumption
       DEF Invariant, TypeOK, CacheInv, CacheTypeOK, EntryRecords, UnsettledInv
  <2> QED BY <1>9, <2>1, <2>2
<1>10. CASE dir = <<>>
  <2>1. RootRecent(h)
    BY <1>4 DEF Passing, RecentInv
  <2>2. Members(a, OnDisk(a)) = <<>> \/ born <= unsettled[a]
    BY <1>4, <1>7, <1>10, <2>1 DEF RootRecent
  <2>3. CASE Members(a, OnDisk(a)) = <<>>
    <3>1. Range(Members(a, OnDisk(a))) = {}
      BY <2>3 DEF Range
    <3> QED BY <3>1 DEF AllListed
  <2>4. CASE born <= unsettled[a]
    BY <1>4, <1>9, <2>4 DEF AllListed
  <2> QED BY <2>2, <2>3, <2>4
<1> HIDE DEF h
<1>11. CASE dir # <<>>
  <2>1. PICK v \in 1 .. OnDisk(a) :
          ChainOf(disk, cache, h, v) /\ Complete(h, v)
    BY <1>4 DEF Passing, ListingsInv, OneVersion, Unhindered, Perfect
  <2>2. Len(dir) = Len(disk[a][v].members)
    BY <1>4, <1>7, <2>1 DEF Complete
  <2>3. ASSUME NEW i \in 1 .. Len(dir)
        PROVE  /\ cache.ents[dir[i]].entry.version = v
               /\ cache.ents[dir[i]].path.relpath = disk[a][v].members[i]
    <3>1. ~AllocFails
      BY DEF Unhindered
    <3>2. LET x == cache.ents[cache.ents[h].dir[i]]
          IN  /\ x.entry.version = v
              /\ x.path.relpath
                   = disk[cache.ents[h].path.archivepath][v].members[i]
      BY <2>1, <3>1, ChainTells
    <3> QED BY <1>4, <3>2
  <2>4. 1 \in 1 .. Len(dir)
    BY <1>5, <1>11, EmptySeq
  <2> DEFINE x == dir[1]
  <2>5. /\ x \in Live(cache) /\ cache.ents[x].archive_id = h
        /\ cache.ents[x].path.archivepath = a
    BY <1>1, <1>4, <2>4 DEF Invariant, CacheInv, ChainsSound
  <2>6. cache.ents[x].path.relpath # Root
    BY <1>1, <1>4, <2>5 DEF Invariant, CacheInv, RootsOnTop
  <2>7. v = OnDisk(a) \/ cache.ents[x].born <= unsettled[a]
    BY <1>1, <2>3, <2>4, <2>5, <2>6 DEF CacheRecent, Recent
  <2>8. CASE v = OnDisk(a)
    <3>1. Members(a, v) \in Seq(Names)
      BY <1>1, <1>3, <2>1, MembersCacheable DEF HandlerInv
    <3>2. ASSUME NEW n \in Range(Members(a, v)) PROVE n \in ListedNames(t)
      <4>1. PICK i \in 1 .. Len(Members(a, v)) : n = Members(a, v)[i]
        BY <3>1 DEF Range
      <4>2. i \in 1 .. Len(dir) /\ Members(a, v) = disk[a][v].members
        BY <2>2 DEF Members
      <4>3. served[t][i].path.relpath = n
        BY <1>6, <2>3, <4>1, <4>2
      <4> QED BY <1>6, <4>2, <4>3 DEF ListedNames
    <3> QED BY <2>8, <3>2 DEF AllListed
  <2>9. CASE cache.ents[x].born <= unsettled[a]
    BY <1>9, <2>5, <2>9 DEF AllListed
  <2> QED BY <2>7, <2>8, <2>9
<1> QED BY <1>10, <1>11

\* What a thread's cache call makes of a walk.
LEMMA CallScansRecent ==
  ASSUME Passing, NEW t \in Threads, Serving(t),
         TakeLock(t) \/ (Critical(t) /\ UNCHANGED mount_vars)
  PROVE  ScanRecent(t)'
<1>1. /\ Invariant /\ HandlerInv /\ UNCHANGED mount_vars
  BY DEF Passing, Base, TakeLock
<1>2. at' = at /\ Archive(t)' = Archive(t)
  BY <1>1 DEF Archive, mount_vars
<1> SUFFICES ASSUME Unhindered, at[t] = "scandir", pc'[t] = "idle",
                    reply'[t].error = 0
             PROVE  AllListed(t)'
  BY <1>2 DEF ScanRecent
<1>3. ScanEnd(t)
  <2>1. \/ CallGoesOn(t)
        \/ CallReturns(t)
              /\ (\/ InsertDone(t) \/ InsertNoMemory(t) \/ GetHit(t)
                  \/ Miss(t) \/ ScanEnd(t))
    BY <1>1, CallSteps
  <2>2. ~CallGoesOn(t)
    BY DEF CallGoesOn
  <2>3. call[t].op = "scandir"
    BY <2>1, <2>2 DEF CallReturns, Serving, CallOf
  <2>4. ~InsertDone(t) /\ ~InsertNoMemory(t) /\ ~GetHit(t)
    BY <2>3 DEF InsertDone, InsertNoMemory, GetHit, InBody
  <2>5. ~Miss(t)
    BY <1>1 DEF Miss, Unlock, Invariant, TypeOK
  <2> QED BY <2>1, <2>2, <2>4, <2>5
<1>4. AllListed(t)
  BY <1>3, ScanListsAll
<1>5. served' = served /\ locked_at' = locked_at
  BY <1>3 DEF ScanEnd, Unlock
<1>6. Archive(t) \in Archives
  BY <1>1 DEF HandlerInv
<1> QED BY <1>2, <1>4, <1>5, <1>6, ListedStays

\* An answer that is about to be given, of a thread that is settled.
LEMMA AnswersRecent ==
  ASSUME Passing, NEW t \in Threads, Serving(t), pc[t] = "idle",
         at[t] # "idle", UNCHANGED <<vars, disk>>,
         NEW error, NEW entry, NEW names, Answer(t, error, entry, names),
         locked_at[t] > unsettled[Archive(t)] + Grace =>
           /\ at[t] \in {"get", "cached"} /\ error = 0 =>
                entry.version = OnDisk(Archive(t))
           /\ request[t].op = "readdir" =>
                LET listing == Children(Archive(t), OnDisk(Archive(t)),
                                        request[t].relpath)
                IN  /\ names \subseteq listing
                    /\ Unhindered => listing \subseteq names,
         request[t].op = "getattr" => at[t] \in {"get", "cached"} \/ error # 0
  PROVE  AnswerRecent(t)'
<1>0. PICK a : a = Archive(t)
  OBVIOUS
<1>1. /\ Base /\ Base' /\ OneOfEach /\ Invariant /\ HandlerInv
      /\ AnsweredWell(t)' /\ UnsettledInv /\ UnsettledInv'
      /\ a \in Archives
  BY <1>0, EachThread DEF Passing, Base, ServingInv, AttributesInv, RecentInv,
                    HandlerInv
<1>2. /\ answer'[t] = [request |-> request[t], error |-> error,
                       entry |-> entry, names |-> names]
      /\ at'[t] = "idle"
  BY <1>1 DEF OneOfEach, Answer, Goto
<1> SUFFICES ASSUME request[t].op # "none", Settled(t)'
             PROVE  OfFileOnDisk(t)'
  BY <1>0, <1>1, <1>2 DEF AnswerRecent, Archive
<1>3. locked_at[t] > unsettled[a] + Grace
  <2>1. locked_at[t] > unsettled'[a] + Grace
    BY <1>0, <1>2 DEF Settled, vars, Archive
  <2>2. /\ unsettled[a] \in Int /\ unsettled'[a] \in Int
        /\ unsettled[a] <= unsettled'[a] /\ Grace \in Nat
        /\ locked_at[t] \in Nat
    BY <1>1, CacheAssumption DEF Passing, UnsettledInv, Invariant, TypeOK
  <2> QED BY <2>1, <2>2
<1>4. request[t].since = OnDisk(a)
  BY <1>0, <1>1, <1>3, SettledIsNow
<1>5. /\ answer'[t].request.archivepath = a /\ Len(disk'[a]) = OnDisk(a)
      /\ disk'[a][Len(disk'[a])].members = Members(a, OnDisk(a))
  BY <1>0, <1>2 DEF OnDisk, Members, Archive
<1>6. Answered(t, "getattr")' => answer'[t].entry.version = OnDisk(a)
  BY <1>0, <1>2, <1>3 DEF Answered
<1>7. ASSUME request[t].op = "getattr", error = ENOENT, ~ReadErrors
      PROVE  request[t].relpath \notin Range(Members(a, OnDisk(a)))
  <2>1. PICK v \in request[t].since .. Len(disk[a]) :
          request[t].relpath \notin Range(disk[a][v].members)
    BY <1>0, <1>1, <1>2, <1>7 DEF AnsweredWell, ENOENT, Archive
  <2>2. v = OnDisk(a)
    BY <1>1, <1>4, <2>1 DEF OnDisk, HandlerInv, DiskInv
  <2> QED BY <2>1, <2>2 DEF Members
<1>8. request[t].op = "readdir" =>
        /\ names \subseteq Children(a, OnDisk(a), request[t].relpath)
        /\ Unhindered => names = Children(a, OnDisk(a), request[t].relpath)
  BY <1>0, <1>3
<1>9. \A dir : Children(a, OnDisk(a), dir)' = Children(a, OnDisk(a), dir)
  BY <1>5 DEF Children, OnDisk, Members
<1>10. OnDisk(a)' = OnDisk(a) /\ Members(a, OnDisk(a))' = Members(a, OnDisk(a))
  BY <1>5 DEF OnDisk, Members
<1> QED BY <1>2, <1>5, <1>6, <1>7, <1>8, <1>9, <1>10 DEF OfFileOnDisk, Answered

\* What readdir answers from the cache.
LEMMA HitRecent ==
  ASSUME Passing, NEW t \in Threads, Serving(t), ServedRecent(t),
         Gathered(t), at[t] \in {"get", "scandir"}, pc[t] = "idle",
         reply[t].error = 0,
         locked_at[t] > unsettled[Archive(t)] + Grace,
         NEW i \in 1 .. Len(served[t]),
         served[t][i].path.relpath # Root,
         served[t][i].path.archivepath = Archive(t)
  PROVE  /\ served[t][i].entry.version = OnDisk(Archive(t))
         /\ served[t][i].path.relpath
              \in Range(Members(Archive(t), OnDisk(Archive(t))))
<1> DEFINE a == Archive(t)
<1>1. /\ Invariant /\ HandlerInv /\ Attributed(t) /\ UnsettledInv
  BY DEF Passing, Base, AttributesInv, RecentInv
<1>2. served[t][i].born + Grace >= locked_at[t]
  BY <1>1 DEF Invariant, ServedInv, ServedInGrace
<1>3. /\ a \in Archives /\ unsettled[a] \in Int /\ Grace \in Nat
      /\ locked_at[t] \in Nat /\ served[t][i].born \in Int
  <2>1. served[t][i] \in EntryRecords
    <3>1. served[t] \in Seq(EntryRecords)
      BY <1>1 DEF Invariant, TypeOK
    <3> QED BY <3>1
  <2> QED BY <1>1, <2>1, CacheAssumption
          DEF HandlerInv, UnsettledInv, Invariant, TypeOK, EntryRecords
<1>4. served[t][i].entry.version = OnDisk(a)
  <2>1. \/ served[t][i].entry.version = OnDisk(a)
        \/ served[t][i].born <= unsettled[a]
    BY DEF ServedRecent, Recent
  <2>2. locked_at[t] > unsettled[a] + Grace
    OBVIOUS
  <2> QED BY <1>2, <1>3, <2>1, <2>2
<1>5. About(disk, served[t][i].path, served[t][i].entry)
  BY <1>1 DEF Attributed, ServedAbout
<1>6. PICK v \in 1 .. Len(disk[a]) : \E k \in 1 .. Len(disk[a][v].members) :
        IsNth(disk, a, v, k, served[t][i].entry, served[t][i].path.relpath)
  BY <1>5 DEF About
<1>7. PICK k \in 1 .. Len(disk[a][v].members) :
        /\ disk[a][v].members[k] = served[t][i].path.relpath
        /\ served[t][i].entry.version = v
  BY <1>6 DEF IsNth, Meta
<1>8. v = OnDisk(a) /\ Members(a, v) = disk[a][v].members
  BY <1>4, <1>7 DEF Members
<1>9. Members(a, v) \in Seq(Names)
  BY <1>1, <1>3, <1>8, MembersCacheable DEF HandlerInv, OnDisk
<1> QED BY <1>4, <1>7, <1>8, <1>9 DEF Range

\* The handlers' answers.
LEMMA HandlersAnswerRecent ==
  ASSUME Passing, NEW t \in Threads, Serving(t), ServedRecent(t),
         ScanRecent(t), FoundRecent(t), Gathered(t),
         \/ GetattrHit(t) \/ EntryMissing(t) \/ GetattrCached(t)
         \/ ReaddirHit(t) \/ NothingToEnumerate(t) \/ EnumerateDone(t)
  PROVE  AnswerRecent(t)'
<1> DEFINE a == Archive(t)
           settled == locked_at[t] > unsettled[a] + Grace
           listing == Children(a, OnDisk(a), request[t].relpath)
<1>1. /\ Invariant /\ HandlerInv /\ Base /\ UnsettledInv /\ Attributed(t)
      /\ pc[t] = "idle" /\ at[t] # "idle" /\ UNCHANGED <<vars, disk>>
      /\ at[t] \in {"get", "entry_open", "cached", "scandir", "rooted",
                    "enumerating"}
  BY DEF Passing, Base, RecentInv, AttributesInv, GetattrHit, EntryMissing,
     GetattrCached, ReaddirHit, NothingToEnumerate, EnumerateDone, Running,
     Answer
<1>2. /\ a \in Archives /\ OnDisk(a) \in Nat
      /\ settled => request[t].since = OnDisk(a)
  BY <1>1, SettledIsNow DEF HandlerInv, DiskInv
<1> HIDE DEF settled
<1>3. CASE GetattrHit(t)
  <2> DEFINE entry == served[t][1].entry
  <2>1. /\ at[t] = "get" /\ reply[t].error = 0 /\ Answer(t, 0, entry, {})
    BY <1>3 DEF GetattrHit, Running
  <2>2. request[t].op = "getattr" /\ request[t].relpath \in Names
    BY <2>1 DEF Serving
  <2>3. Len(served[t]) = 1 /\ served[t][1].path = MemberPath(t)
    BY <1>1, <2>1 DEF Attributed, HitAbout
  <2>4. /\ served[t][1].path.relpath # Root
        /\ served[t][1].path.archivepath = a
    BY <2>2, <2>3, CacheAssumption DEF MemberPath
  <2>5. settled => entry.version = OnDisk(a)
    BY <1>1, <2>1, <2>3, <2>4, HitRecent DEF settled
  <2> HIDE DEF entry
  <2> QED BY <1>1, <2>1, <2>2, <2>5, AnswersRecent DEF settled
<1>4. CASE GetattrCached(t)
  <2>1. at[t] = "cached" /\ Answer(t, 0, found[t], {})
    BY <1>4 DEF GetattrCached, Running
  <2>2. request[t].op = "getattr"
    BY <2>1 DEF Serving
  <2>3. found[t].version \in 1 .. OnDisk(a)
    <3>1. About(disk, MemberPath(t), found[t])
      BY <1>1, <2>1 DEF Attributed, FoundAbout
    <3> QED BY <3>1 DEF About, IsNth, Meta, OnDisk, MemberPath
  <2>4. settled => found[t].version = OnDisk(a)
    BY <1>2, <2>1, <2>3 DEF FoundRecent
  <2> QED BY <1>1, <2>1, <2>2, <2>4, AnswersRecent DEF settled
<1>5. CASE EntryMissing(t)
  <2>1. at[t] = "entry_open" /\ Answer(t, ENOENT, NoMetadata, {})
    BY <1>5 DEF EntryMissing, Running
  <2>2. request[t].op = "getattr" /\ ENOENT # 0
    BY <2>1 DEF Serving, ENOENT
  <2> QED BY <1>1, <2>1, <2>2, AnswersRecent
<1>6. ASSUME NEW names, Answer(t, 0, NoMetadata, names),
             at[t] \in {"scandir", "rooted", "enumerating"},
             settled => /\ names \subseteq listing
                        /\ Unhindered => listing \subseteq names
      PROVE  AnswerRecent(t)'
  <2>1. request[t].op = "readdir"
    BY <1>6 DEF Serving
  <2> QED BY <1>1, <1>6, <2>1, AnswersRecent DEF settled
<1>7. CASE ReaddirHit(t)
  <2>1. /\ at[t] = "scandir" /\ reply[t].error = 0
        /\ Answer(t, 0, NoMetadata,
                  Directly(ListedNames(t), request[t].relpath))
    BY <1>7 DEF ReaddirHit, Running, ListedNames
  <2>2. ASSUME settled
        PROVE  ListedNames(t) \subseteq Range(Members(a, OnDisk(a)))
    BY <1>1, <2>1, <2>2, HitRecent DEF ListedNames, ServedRecent, settled
  <2>3. ASSUME settled, Unhindered
        PROVE  Range(Members(a, OnDisk(a))) \subseteq ListedNames(t)
    <3>1. AllListed(t)
      BY <1>1, <2>1, <2>3 DEF ScanRecent
    <3>2. ~(locked_at[t] <= unsettled[a] + Grace)
      <4>1. /\ locked_at[t] \in Nat /\ unsettled[a] \in Int /\ Grace \in Nat
        BY <1>1, <1>2, CacheAssumption DEF Invariant, TypeOK, UnsettledInv
      <4> QED BY <2>3, <4>1 DEF settled
    <3> QED BY <3>1, <3>2 DEF AllListed
  <2>4. PICK names : names = Directly(ListedNames(t), request[t].relpath)
    OBVIOUS
  <2>5. settled => /\ names \subseteq listing
                   /\ Unhindered => listing \subseteq names
    BY <2>2, <2>3, <2>4 DEF Directly, Children
  <2> QED BY <1>6, <2>1, <2>4, <2>5
<1>8. CASE NothingToEnumerate(t)
  <2>1. at[t] = "rooted" /\ ~CanEnumerate(t) /\ Answer(t, 0, NoMetadata, {})
    BY <1>8 DEF NothingToEnumerate, Running
  <2>2. settled => listing = {}
    <3>1. SUFFICES ASSUME settled PROVE listing = {}
      OBVIOUS
    <3>2. Members(a, OnDisk(a)) = <<>>
      BY <1>1, <1>2, <2>1, <3>1, NoneToEnumerate
    <3>3. Range(Members(a, OnDisk(a))) = {}
      BY <3>2 DEF Range
    <3> QED BY <3>3 DEF Children
  <2> HIDE DEF listing
  <2> QED BY <1>6, <2>1, <2>2
<1>9. CASE EnumerateDone(t)
  <2>1. at[t] = "enumerating" /\ Answer(t, 0, NoMetadata, filled[t])
    BY <1>9 DEF EnumerateDone, Running
  <2>2. filled[t] \subseteq Children(a, handle[t], request[t].relpath)
    BY <2>1 DEF Gathered
  <2>3. handle[t] \notin {NoHandle, ByName}
    BY <1>1, <2>1 DEF HandlerInv
  <2>4. handle[t] \in 1 .. OnDisk(a) /\ handle[t] >= request[t].since
    BY <1>1, <2>3, HandleOnDisk DEF Serving
  <2>5. settled => handle[t] = OnDisk(a)
    BY <1>2, <2>4
  <2>6. PICK members : members = Members(a, OnDisk(a))
    OBVIOUS
  <2>7. ASSUME settled, Unhindered, NEW n \in listing PROVE n \in filled[t]
    <3>1. members \in Seq(Names) /\ members = Enumerated(t)
      BY <1>1, <1>2, <2>4, <2>5, <2>6, <2>7, MembersCacheable
         DEF HandlerInv, Enumerated
    <3>2. position[t] > Len(members) /\ position[t] \in Nat
      BY <1>1, <1>9, <2>7, <3>1
         DEF EnumerateDone, Unhindered, HandlerInv, HandlerTypes
    <3>3. n \in Range(members) /\ Parent[n] = request[t].relpath
      BY <2>6, <2>7 DEF Children
    <3>4. PICK k \in 1 .. Len(members) : n = members[k]
      BY <3>1, <3>3 DEF Range
    <3>5. k \in 1 .. position[t] - 1
      BY <3>1, <3>2, <3>4, LenProperties
    <3> QED BY <2>1, <3>1, <3>3, <3>4, <3>5 DEF Gathered
  <2>8. settled => /\ filled[t] \subseteq listing
                   /\ Unhindered => listing \subseteq filled[t]
    BY <2>2, <2>5, <2>7
  <2> QED BY <1>6, <2>1, <2>8
<1> QED BY <1>3, <1>4, <1>5, <1>7, <1>8, <1>9

\* Every step of a thread.
LEMMA StepRecent ==
  ASSUME Passing, NEW t \in Threads, StepOf(t)
  PROVE  /\ ServedRecent(t)' /\ ScanRecent(t)'
         /\ FoundRecent(t)' /\ AnswerRecent(t)'
<1>1. /\ Invariant /\ HandlerInv /\ HandlerInv' /\ OneOfEach /\ Serving(t)
      /\ ServedRecent(t) /\ ScanRecent(t) /\ FoundRecent(t) /\ AnswerRecent(t)
      /\ Gathered(t)
  BY EachThread DEF Passing, Base, ServingInv, RecentInv, ListingsInv
<1>2. CASE TakeLock(t) \/ (Critical(t) /\ UNCHANGED mount_vars)
  <2>1. UNCHANGED mount_vars /\ pc[t] # "idle"
    <3>1. CASE TakeLock(t)
      BY <3>1 DEF TakeLock, Acquire
    <3>2. CASE Critical(t) /\ UNCHANGED mount_vars
      BY <3>2 DEF Critical, ExpungeOne, InsertDone, InsertNoMemory, GetHit,
         Miss, ScanBegin, ScanMember, ScanEnd, InBody
    <3> QED BY <1>2, <3>1, <3>2
  <2>2. at[t] # "idle"
    BY <1>1, <2>1 DEF Serving, CallOf
  <2>3. AnswerRecent(t)' /\ FoundRecent(t)'
    BY <1>1, <2>1, <2>2
       DEF AnswerRecent, FoundRecent, mount_vars, NoAnswer, NoRequest
  <2> QED BY <1>1, <1>2, <2>3, CallServesRecent, CallScansRecent
<1>3. ASSUME served'[t] = <<>> PROVE ServedRecent(t)'
  BY <1>3 DEF ServedRecent
<1>4. ASSUME at[t] # "idle", answer'[t] = answer[t] PROVE AnswerRecent(t)'
  BY <1>1, <1>4 DEF AnswerRecent, NoAnswer, NoRequest
<1>11. ASSUME at'[t] # "scandir" PROVE ScanRecent(t)'
  BY <1>11 DEF ScanRecent
<1>5. CASE Request(t)
  <2>1. PICK op, path :
          /\ op \in {"get", "scandir"}
          /\ Begin(t, op, path, NoId, NoMetadata, 0)
    <3>1. CASE \E a \in Archives, name \in Asked \cap Names : Getattr(t, a, name)
      BY <3>1 DEF Getattr, BeginGet
    <3>2. CASE \E a \in Archives, dir \in Asked : Readdir(t, a, dir)
      BY <3>2 DEF Readdir, BeginScandir
    <3> QED BY <1>5, <3>1, <3>2 DEF Request
  <2>2. served'[t] = <<>> /\ pc'[t] # "idle"
    BY <1>1, <2>1, BeginSets
  <2>3. answer'[t] = NoAnswer /\ at'[t] \in {"get", "scandir"}
    BY <1>1, <1>5 DEF Request, Getattr, Readdir, Accept, Goto, OneOfEach
  <2> QED BY <1>3, <2>2, <2>3
          DEF ScanRecent, AnswerRecent, FoundRecent, NoAnswer, NoRequest
<1>6. CASE EntryOpen(t)
  <2> DEFINE v == Source(t)
  <2>1. PICK i \in 1 .. Len(Members(Archive(t), v)) :
          /\ found' = [found EXCEPT ![t] = Meta(v, i)]
          /\ BeginInsertAttr(t, Archive(t), request[t].relpath, Meta(v, i))
    BY <1>6 DEF EntryOpen
  <2>2. /\ handle[t] # NoHandle /\ at[t] = "entry_open" /\ at'[t] = "cached"
        /\ UNCHANGED <<request, answer>>
    BY <1>1, <1>6 DEF EntryOpen, Running, Goto, OneOfEach
  <2>3. v >= request[t].since
    <3>1. /\ Archive(t) \in Archives /\ v \in 1 .. OnDisk(Archive(t))
          /\ request[t].since \in 1 .. OnDisk(Archive(t))
          /\ OnDisk(Archive(t)) \in Nat
      BY <1>1, <2>2, SourceOnDisk DEF Serving, HandlerInv, DiskInv
    <3> QED BY <1>1, <2>2, <3>1 DEF Source, Serving
  <2>4. found'[t] = Meta(v, i)
    BY <1>1, <2>1 DEF OneOfEach
  <2>5. found'[t].version = v
    BY <2>4 DEF Meta
  <2>6. served'[t] = <<>>
    BY <1>1, <2>1, BeginSets DEF BeginInsertAttr, BeginInsert
  <2> QED BY <1>3, <1>4, <1>11, <2>2, <2>3, <2>5, <2>6 DEF FoundRecent
<1>7. CASE CacheRoot(t) \/ CacheMember(t)
  <2>1. /\ at[t] # "idle" /\ at'[t] \in {"rooted", "member"}
        /\ UNCHANGED answer
    BY <1>1, <1>7 DEF CacheRoot, CacheMember, Goto, OneOfEach, Running
  <2>2. served'[t] = <<>>
    BY <1>1, <1>7, BeginSets DEF CacheRoot, CacheMember, BeginInsertRoot,
       BeginInsertMember, BeginInsert
  <2> QED BY <1>3, <1>4, <1>11, <2>1, <2>2 DEF FoundRecent
<1>8. CASE \/ GetattrHit(t) \/ EntryMissing(t) \/ GetattrCached(t)
           \/ ReaddirHit(t) \/ NothingToEnumerate(t) \/ EnumerateDone(t)
  <2>1. at'[t] = "idle" /\ served' = served
    BY <1>1, <1>8 DEF GetattrHit, EntryMissing, GetattrCached, ReaddirHit,
       NothingToEnumerate, EnumerateDone, Answer, Goto, OneOfEach, vars
  <2>2. AnswerRecent(t)'
    BY <1>1, <1>8, HandlersAnswerRecent
  <2> QED BY <1>1, <1>11, <2>1, <2>2, ServedStaysRecent DEF FoundRecent
<1>9. CASE NullArchive(t)
  <2>1. /\ at[t] = "entry_open"
        /\ UNCHANGED <<at, answer, found, request, served>>
    BY <1>9 DEF NullArchive, Running, vars
  <2>2. ServedRecent(t)'
    BY <1>1, <2>1, ServedStaysRecent DEF Archive
  <2> QED BY <1>1, <1>4, <1>11, <2>1, <2>2 DEF FoundRecent
<1>10. CASE GetattrMiss(t) \/ ReaddirMiss(t) \/ Enumerate(t) \/ FillMember(t)
  <2>1. /\ at[t] # "idle" /\ at'[t] \in {"entry_open", "opened", "enumerating"}
        /\ UNCHANGED <<answer, served>>
    BY <1>1, <1>10 DEF GetattrMiss, ReaddirMiss, Open, Enumerate, FillMember,
       Goto, OneOfEach, Running, vars
  <2>2. ServedRecent(t)'
    BY <1>1, <2>1, ServedStaysRecent
  <2> QED BY <1>4, <1>11, <2>1, <2>2 DEF FoundRecent
<1> QED BY <1>2, <1>5, <1>6, <1>7, <1>8, <1>9, <1>10 DEF StepOf, Serve

\* Another thread's part.
LEMMA OthersRecent ==
  ASSUME Passing, NEW u \in Threads, Same(u), locked_at'[u] = locked_at[u]
  PROVE  /\ ServedRecent(u)' /\ ScanRecent(u)'
         /\ FoundRecent(u)' /\ AnswerRecent(u)'
<1>1. /\ ServedRecent(u) /\ ScanRecent(u) /\ FoundRecent(u) /\ AnswerRecent(u)
      /\ HandlerInv
  BY DEF Passing, RecentInv, Base
<1>2. Archive(u)' = Archive(u)
  BY DEF Same, Archive
<1>3. ScanRecent(u)'
  <2> SUFFICES ASSUME Unhindered, at[u] = "scandir", pc[u] = "idle",
                      reply[u].error = 0
               PROVE  AllListed(u)'
    BY DEF ScanRecent, Same
  <2>1. AllListed(u) /\ Archive(u) \in Archives
    BY <1>1 DEF ScanRecent, HandlerInv
  <2> QED BY <1>2, <2>1, ListedStays DEF Same
<1> QED BY <1>1, <1>2, <1>3, ServedStaysRecent, AnswerStaysRecent
        DEF Same, FoundRecent

\* Each call has a time of its own.
LEMMA OthersLockedAt ==
  ASSUME Invariant, [MountNext]_all_vars
  PROVE  \/ \E t \in Threads :
              /\ StepOf(t)
              /\ \A u \in Threads \ {t} : locked_at'[u] = locked_at[u]
         \/ \A u \in Threads : Same(u) /\ locked_at'[u] = locked_at[u]
<1>1. DOMAIN locked_at = Threads
  BY DEF Invariant, TypeOK
<1>2. ASSUME NEW t \in Threads, StepOf(t), NEW u \in Threads \ {t}
      PROVE  locked_at'[u] = locked_at[u]
  <2>1. CASE TakeLock(t)
    BY <1>1, <2>1 DEF TakeLock, Acquire
  <2>2. CASE Critical(t) /\ UNCHANGED mount_vars
    BY <2>2 DEF Critical, ExpungeOne, InsertDone, InsertNoMemory, GetHit, Miss,
       ScanBegin, ScanMember, ScanEnd, Unlock
  <2>3. CASE Request(t) \/ EntryOpen(t) \/ CacheRoot(t) \/ CacheMember(t)
    BY <1>1, <2>3 DEF Request, Getattr, Readdir, EntryOpen, CacheRoot,
       CacheMember, BeginGet, BeginScandir, BeginInsertAttr, BeginInsertRoot,
       BeginInsertMember, BeginInsert, Begin
  <2>4. CASE UNCHANGED vars
    BY <2>4 DEF vars
  <2> QED BY <1>2, <2>1, <2>2, <2>3, <2>4 DEF StepOf, Serve, GetattrHit,
          GetattrMiss, NullArchive, EntryMissing, GetattrCached, ReaddirHit,
          ReaddirMiss, Open, Enumerate, NothingToEnumerate, FillMember,
          EnumerateDone
<1>3. CASE \/ UNCHANGED all_vars
           \/ Tick /\ UNCHANGED mount_vars
           \/ \E a \in Archives : Rewrite(a)
  <2>1. locked_at' = locked_at
    BY <1>3 DEF all_vars, vars, Tick, Rewrite
  <2>2. \A u \in Threads : Same(u)
    BY <1>3 DEF all_vars, mount_vars, vars, Tick, Rewrite, Same
  <2> QED BY <2>1, <2>2
<1>4. CASE \E t \in Threads : StepOf(t)
  BY <1>2, <1>4
<1> QED BY <1>3, <1>4 DEF MountNext, StepOf

\* Every step.
LEMMA RecentInvStays ==
  ASSUME Base, Base', AttributesInv, AttributesInv', ListingsInv, ScanInv,
         RecentInv, [FreshNext]_fresh_vars
  PROVE  RecentInv'
<1>1. [MountNext]_all_vars
  BY DEF FreshNext, fresh_vars
<1>2. /\ Invariant /\ HandlerInv /\ Functions /\ UnsettledInv
  BY DEF Base, ServingInv, RecentInv
<1>3. Passing
  BY <1>1, <1>2, StepGrows, ClockRuns, UnsettledGrows DEF Passing
<1>4. CacheRecent' /\ UnsettledInv' /\ \A h \in Live(cache') : RootRecent(h)'
  BY <1>1, <1>3, CacheStaysRecent, RootsStayRecent DEF Passing
<1>5. ASSUME NEW u \in Threads
      PROVE  /\ ServedRecent(u)' /\ ScanRecent(u)'
             /\ FoundRecent(u)' /\ AnswerRecent(u)'
  <2>1. CASE Same(u) /\ locked_at'[u] = locked_at[u]
    BY <1>3, <2>1, OthersRecent
  <2>2. ASSUME NEW t \in Threads, StepOf(t),
               \A w \in Threads \ {t} : locked_at'[w] = locked_at[w]
        PROVE  /\ ServedRecent(u)' /\ ScanRecent(u)'
               /\ FoundRecent(u)' /\ AnswerRecent(u)'
    <3>1. CASE u = t
      BY <1>3, <2>2, <3>1, StepRecent
    <3>2. CASE u # t
      BY <1>2, <2>1, <2>2, <3>2, OthersSame
    <3> QED BY <3>1, <3>2
  <2> QED BY <1>1, <1>2, <2>1, <2>2, OthersLockedAt
<1>6. (\A h \in Live(cache) : RootRecent(h))'
  BY <1>4
<1> QED BY <1>4, <1>5, <1>6 DEF RecentInv

\* Nothing is cached or answered when the file system is mounted.
LEMMA RecentInvInit == FreshInit => RecentInv
<1> SUFFICES ASSUME FreshInit PROVE RecentInv
  OBVIOUS
<1>1. /\ Live(cache) = {} /\ clock = 0
      /\ \A t \in Threads : /\ at[t] = "idle" /\ answer[t] = NoAnswer
                            /\ served[t] = <<>>
  BY DEF FreshInit, MountInit, Init, EmptyCache, Live
<1>2. UnsettledInv
  BY <1>1, CacheAssumption DEF FreshInit, UnsettledInv, Never, Behind
<1>3. CacheRecent
  BY <1>1 DEF CacheRecent
<1>4. \A t \in Threads : /\ ServedRecent(t) /\ ScanRecent(t)
                         /\ FoundRecent(t) /\ AnswerRecent(t)
  BY <1>1 DEF ServedRecent, ScanRecent, FoundRecent, AnswerRecent, NoAnswer,
     NoRequest
<1> QED BY <1>1, <1>2, <1>3, <1>4 DEF RecentInv

(***************************************************************************)
(* However the handlers, the clock and the programs that replace archives  *)
(* interleave: one grace period after the last request from before a       *)
(* replacement was answered, getattr and readdir answer of nothing but the *)
(* file on disk.                                                           *)
(***************************************************************************)
THEOREM StaysUpToDate == FreshSpec => []UpToDate
<1>1. FreshInit => RecentInv
  BY RecentInvInit
<1>2. Base /\ Base' /\ AttributesInv /\ AttributesInv' /\ ListingsInv
        /\ ScanInv /\ RecentInv /\ [FreshNext]_fresh_vars => RecentInv'
  BY RecentInvStays
<1>3. RecentInv => UpToDate
  BY DEF RecentInv, AnswerRecent, UpToDate
<1>4. MountSpec => []ScanInv
  BY MountImplementsCache, ScanInvHolds, PTL
<1> QED BY <1>1, <1>2, <1>3, <1>4, FreshIsMount, BaseHolds, AttributesHold,
           ListingsHold, PTL DEF FreshSpec
=============================================================================
