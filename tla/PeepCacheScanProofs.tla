------------------------- MODULE PeepCacheScanProofs -------------------------
(***************************************************************************)
(* What every call does to the entries and chains of the cache, that a     *)
(* directory scan hands out the members of one enumeration, each once,     *)
(* that the cache implements MetadataStore, and that no call keeps the     *)
(* mutex for longer than the cache is large.                               *)
(***************************************************************************)
EXTENDS PeepCacheProofs

-----------------------------------------------------------------------------
(* The two ways in which a call changes entries.                           *)

\* Entries may go; those that stay are as they were.
Shrunk(c, d) ==
  /\ Live(d) \subseteq Live(c)
  /\ \A x \in Live(d) : d.ents[x] = c.ents[x]
  /\ d.next_id \in {c.next_id, c.next_id + 1}

\* The new entry goes on the chain of the Root entry that it names, if that is
\* still there.
ChainAfter(c, x, path, archive_id) ==
  IF x = archive_id /\ c.ents[x].path = RootPath(path.archivepath)
  THEN Append(c.ents[x].dir, c.next_id) ELSE c.ents[x].dir

\* Also a new entry comes in, under the next id.
Inserted(c, d, path, archive_id, entry) ==
  /\ d.next_id = c.next_id + 1
  /\ c.next_id \in Live(d)
  /\ Live(d) \subseteq Live(c) \cup {c.next_id}
  /\ d.ents[c.next_id].path = path
  /\ d.ents[c.next_id].archive_id = archive_id
  /\ d.ents[c.next_id].entry = entry
  /\ d.ents[c.next_id].dir = <<>>
  /\ \A x \in Live(d) \ {c.next_id} :
       /\ d.ents[x].path = c.ents[x].path
       /\ d.ents[x].archive_id = c.ents[x].archive_id
       /\ d.ents[x].entry = c.ents[x].entry
       /\ d.ents[x].born = c.ents[x].born
       /\ d.ents[x].dir = ChainAfter(c, x, path, archive_id)

\* peepfs_cache_insert puts in what it is given.
LEMMA InsertInserts ==
  ASSUME NEW c, CacheInv(c), c.num_entries <= MaxEntries,
         NEW path \in Paths,
         NEW archive_id \in Nat, path.relpath = Root => archive_id = NoId,
         NEW entry \in Metadata \cup {NoMetadata},
         NEW born \in Int, BornBy(c, born),
         NEW expire \in Int, expire <= born + Grace
  PROVE  LET d == Insert(c, path, archive_id, entry, expire, born)
         IN  /\ Inserted(c, d, path, archive_id, entry)
             /\ d.ents[c.next_id].born = born
<1> DEFINE room == MakeRoom(c, path)
           id == c.next_id
           added == Add(room, id, path, archive_id, entry, expire, born)
           rec == [path |-> path, archive_id |-> archive_id,
                   expire |-> expire, born |-> born, entry |-> entry,
                   dir |-> <<>>]
           ae == Find(added, RootPath(path.archivepath))
           d == Insert(c, path, archive_id, entry, expire, born)
<1>1. id \in Nat \ {0} /\ Live(c) \subseteq 1 .. id - 1
  BY DEF CacheInv, CacheTypeOK
<1>2. /\ CacheInv(room)
      /\ room.num_entries < MaxEntries
      /\ room.next_id = id + 1
      /\ Live(room) \subseteq Live(c)
      /\ \A x \in Live(room) : room.ents[x] = c.ents[x] /\ c.ents[x].path # path
  BY MakeRoomKeeps
<1>3. d = Chain(added, id, path.archivepath, archive_id)
  BY DEF Insert
<1> HIDE DEF room, id, d
<1>4. id \in 1 .. room.next_id - 1 /\ id \notin Live(room)
  BY <1>1, <1>2
<1>5. BornBy(room, born) /\ \A x \in Live(room) : room.ents[x].path # path
  BY <1>2 DEF BornBy
<1>6. /\ CacheInv(added)
      /\ Live(added) = Live(room) \cup {id}
      /\ \A x \in Live(room) : added.ents[x] = room.ents[x]
      /\ added.next_id = room.next_id
  BY <1>2, <1>4, <1>5, AddKeeps
<1>7. added.ents[id] = rec
  <2>1. added.ents = [x \in Live(room) \cup {id} |->
                        IF x = id THEN rec ELSE room.ents[x]]
    BY <1>2 DEF CacheInv, CacheTypeOK, Add
  <2> QED BY <2>1
<1>8. /\ rec.path = path /\ rec.archive_id = archive_id
      /\ rec.entry = entry /\ rec.dir = <<>> /\ rec.born = born
  OBVIOUS
<1> HIDE DEF added, rec
<1>9. CASE ~(archive_id # NoId /\ ae = archive_id)
  <2>1. d = added
    BY <1>3, <1>9 DEF Chain
  <2>2. ASSUME NEW x \in Live(room), x = archive_id,
               c.ents[x].path = RootPath(path.archivepath)
        PROVE  FALSE
    <3>1. x \in Live(added) /\ added.ents[x].path = RootPath(path.archivepath)
      BY <1>2, <1>6, <2>2
    <3>2. CacheTypeOK(added) /\ UniquePaths(added)
      BY <1>6 DEF CacheInv
    <3>3. ae \in Live(added) /\ added.ents[ae].path = RootPath(path.archivepath)
      BY <3>1, <3>2, FindFinds
    <3>4. ae = x /\ x # NoId
      BY <1>1, <1>2, <3>1, <3>2, <3>3 DEF UniquePaths, NoId
    <3> QED BY <1>9, <2>2, <3>4
  <2>3. \A x \in Live(room) :
          ChainAfter(c, x, path, archive_id) = c.ents[x].dir
    BY <2>2 DEF ChainAfter
  <2>4. Inserted(c, d, path, archive_id, entry)
    BY <1>2, <1>4, <1>6, <1>7, <1>8, <2>1, <2>3 DEF Inserted, id
  <2> QED BY <1>7, <1>8, <2>1, <2>4 DEF d, id
<1>10. CASE archive_id # NoId /\ ae = archive_id
  <2> DEFINE b == Touch(added, ae)
  <2>1. ae \in Live(added) /\ added.ents[ae].path = RootPath(path.archivepath)
    BY <1>6, <1>10, FindFinds DEF CacheInv
  <2>2. path.relpath # Root
    BY <1>10
  <2>3. ae # id
    BY <1>7, <1>8, <2>1, <2>2 DEF RootPath
  <2>4. d = [b EXCEPT !.ents[ae].dir = Append(@, id)]
    BY <1>3, <1>10 DEF Chain
  <2>5. ae \in Live(room) /\ ae \in Live(c)
        /\ c.ents[ae].path = RootPath(path.archivepath)
        /\ added.ents[ae] = c.ents[ae]
    BY <1>2, <1>6, <2>1, <2>3
  <2> HIDE DEF ae
  <2>6. CacheInv(b) /\ b.ents = added.ents /\ b.next_id = added.next_id
    BY <1>6, <2>1, TouchKeeps
  <2> HIDE DEF b
  <2>7. /\ d.ents = [added.ents EXCEPT ![ae].dir = Append(@, id)]
        /\ d.next_id = added.next_id
    BY <2>4, <2>6 DEF CacheInv, CacheTypeOK
  <2>8. added.ents \in [Live(added) -> EntryRecords]
    BY <1>6 DEF CacheInv, CacheTypeOK
  <2>9. /\ Live(d) = Live(added)
        /\ d.ents[ae] = [added.ents[ae] EXCEPT !.dir = Append(@, id)]
        /\ \A x \in Live(added) \ {ae} : d.ents[x] = added.ents[x]
    BY <2>1, <2>7, <2>8 DEF Live
  <2>10. added.ents[ae] \in EntryRecords
    BY <2>1, <2>8
  <2>11. /\ d.ents[ae].path = c.ents[ae].path
         /\ d.ents[ae].archive_id = c.ents[ae].archive_id
         /\ d.ents[ae].entry = c.ents[ae].entry
         /\ d.ents[ae].born = c.ents[ae].born
         /\ d.ents[ae].dir = Append(c.ents[ae].dir, id)
    BY <2>5, <2>9, <2>10 DEF EntryRecords
  <2>12. ChainAfter(c, ae, path, archive_id) = Append(c.ents[ae].dir, id)
    BY <1>10, <2>5 DEF ChainAfter, id
  <2>13. \A x \in Live(room) \ {ae} :
           ChainAfter(c, x, path, archive_id) = c.ents[x].dir
    BY <1>10 DEF ChainAfter
  <2>14. \A x \in Live(room) :
           /\ d.ents[x].path = c.ents[x].path
           /\ d.ents[x].archive_id = c.ents[x].archive_id
           /\ d.ents[x].entry = c.ents[x].entry
           /\ d.ents[x].born = c.ents[x].born
           /\ d.ents[x].dir = ChainAfter(c, x, path, archive_id)
    <3> TAKE x \in Live(room)
    <3>1. CASE x = ae
      BY <2>11, <2>12, <3>1
    <3>2. CASE x # ae
      <4>1. d.ents[x] = c.ents[x]
        BY <1>2, <1>6, <2>9, <3>2
      <4>2. ChainAfter(c, x, path, archive_id) = c.ents[x].dir
        BY <2>13, <3>2
      <4> QED BY <4>1, <4>2
    <3> QED BY <3>1, <3>2
  <2>15. d.ents[id] = rec
    BY <1>6, <1>7, <2>3, <2>9
  <2>16. Inserted(c, d, path, archive_id, entry)
    BY <1>2, <1>6, <1>8, <2>7, <2>9, <2>14, <2>15 DEF Inserted, id
  <2> QED BY <1>8, <2>15, <2>16 DEF d, id
<1> QED BY <1>9, <1>10

\* Every step under the mutex shrinks the cache, except an insert that is done.
LEMMA CriticalChanges ==
  ASSUME Invariant, NEW t \in Threads, Critical(t)
  PROVE  \/ /\ InsertDone(t)
            /\ Inserted(cache, cache', call[t].path, call[t].archive_id,
                        call[t].entry)
            /\ cache'.ents[cache.next_id].born = locked_at[t]
         \/ ~InsertDone(t) /\ Shrunk(cache, cache')
<1>1. /\ CacheInv(cache) /\ cache.num_entries <= MaxEntries
      /\ cache.num_entries \in Nat
      /\ cache.next_id \in Nat
  BY DEF Invariant, Bounded, CacheInv, CacheTypeOK
<1>2. CASE InsertDone(t)
  <2>1. pc[t] = "locked" /\ call[t].op = "insert"
        /\ cache' = Insert(cache, call[t].path, call[t].archive_id,
                           call[t].entry, call[t].now + Grace, locked_at[t])
    BY <1>2 DEF InsertDone, InBody
  <2>2. lock = t /\ BornBy(cache, locked_at[t]) /\ call[t].now <= locked_at[t]
    BY <2>1 DEF Invariant, LockInv, TimeInv
  <2>3. /\ call[t] \in CallType /\ locked_at[t] \in Nat
        /\ call[t].path \in Paths
        /\ call[t].path.relpath = Root => call[t].archive_id = NoId
    BY <2>1 DEF Invariant, TypeOK, CallInv
  <2>4. /\ call[t].archive_id \in Nat /\ call[t].now \in Nat
        /\ call[t].entry \in Metadata \cup {NoMetadata}
    BY <2>3 DEF CallType
  <2>5. /\ call[t].now + Grace \in Int
        /\ call[t].now + Grace <= locked_at[t] + Grace
    BY <2>2, <2>3, <2>4, CacheAssumption
  <2>6. LET d == Insert(cache, call[t].path, call[t].archive_id,
                        call[t].entry, call[t].now + Grace, locked_at[t])
        IN  /\ Inserted(cache, d, call[t].path, call[t].archive_id,
                        call[t].entry)
            /\ d.ents[cache.next_id].born = locked_at[t]
    BY <1>1, <2>2, <2>3, <2>4, <2>5, InsertInserts
  <2> QED BY <1>2, <2>1, <2>6
<1>3. CASE ~InsertDone(t)
  <2> SUFFICES Shrunk(cache, cache')
    BY <1>3
  <2>1. ASSUME NEW e \in Live(cache), cache' = Touch(cache, e)
        PROVE  Shrunk(cache, cache')
    <3>1. cache'.ents = cache.ents /\ cache'.next_id = cache.next_id
      BY <1>1, <2>1, TouchKeeps
    <3> QED BY <3>1 DEF Shrunk, Live
  <2>2. CASE ExpungeOne(t)
    <3>1. cache.expire # <<>> /\ cache' = Delete(cache, Head(cache.expire))
      BY <2>2 DEF ExpungeOne, HeadExpired
    <3>2. Head(cache.expire) \in Live(cache)
      <4>1. cache.expire \in Seq(Live(cache))
        BY <1>1 DEF CacheInv, Listed, IsListOf
      <4> QED BY <3>1, <4>1, HeadTailProperties
    <3> QED BY <1>1, <3>1, <3>2, DeleteKeeps DEF Shrunk
  <2>3. CASE InsertNoMemory(t)
    <3>1. cache' = MakeRoom(cache, call[t].path)
      BY <2>3 DEF InsertNoMemory
    <3> QED BY <1>1, <3>1, MakeRoomKeeps DEF Shrunk
  <2>4. CASE GetHit(t)
    <3>1. PICK e : /\ e = Find(cache, call[t].path) /\ e # NoId
                   /\ cache' = Touch(cache, e)
      BY <2>4 DEF GetHit
    <3>2. e \in Live(cache)
      BY <1>1, <3>1, FindFinds DEF CacheInv
    <3> QED BY <2>1, <3>1, <3>2
  <2>5. CASE Miss(t) \/ ScanBegin(t)
    <3>1. cache' = cache
      BY <2>5 DEF Miss, ScanBegin
    <3> QED BY <3>1 DEF Shrunk
  <2>6. CASE ScanMember(t)
    <3> DEFINE h == Find(cache, call[t].path)
    <3>1. /\ pc[t] = "scanning" /\ cursor[t] <= Len(ScannedDir(t))
          /\ cache' = Touch(cache, ScannedDir(t)[cursor[t]])
      BY <2>6 DEF ScanMember
    <3>2. h # NoId /\ cursor[t] >= 1 /\ cursor[t] \in Nat
      BY <3>1 DEF Invariant, CallInv, TypeOK
    <3>3. h \in Live(cache)
      BY <1>1, <3>2, FindFinds DEF CacheInv
    <3>4. Len(cache.ents[h].dir) \in Nat
      BY <1>1, <3>3, ElementOfSeq DEF CacheInv, CacheTypeOK, EntryRecords
    <3>5. cursor[t] \in 1 .. Len(cache.ents[h].dir)
      BY <3>1, <3>2, <3>4 DEF ScannedDir
    <3>6. cache.ents[h].dir[cursor[t]] \in Live(cache)
      BY <1>1, <3>3, <3>5 DEF CacheInv, ChainsSound
    <3> QED BY <2>1, <3>1, <3>6 DEF ScannedDir
  <2>7. CASE ScanEnd(t)
    <3>1. /\ pc[t] = "scanning"
          /\ cache' = Touch(cache, Find(cache, call[t].path))
      BY <2>7 DEF ScanEnd
    <3>2. Find(cache, call[t].path) # NoId
      BY <3>1 DEF Invariant, CallInv
    <3>3. Find(cache, call[t].path) \in Live(cache)
      BY <1>1, <3>2, FindFinds DEF CacheInv
    <3> QED BY <2>1, <3>1, <3>3
  <2> QED BY <1>3, <2>2, <2>3, <2>4, <2>5, <2>6, <2>7 DEF Critical
<1> QED BY <1>2, <1>3

-----------------------------------------------------------------------------
(* Scans.                                                                  *)

\* A chain has no entry twice.
ChainsDistinct(c) ==
  \A h \in Live(c) : \A i, j \in 1 .. Len(c.ents[h].dir) :
    c.ents[h].dir[i] = c.ents[h].dir[j] => i = j

\* A scan has handed out the chain up to its cursor.
ScanPrefix ==
  \A t \in Threads : pc[t] = "scanning" =>
    /\ Len(served[t]) = cursor[t] - 1
    /\ cursor[t] - 1 <= Len(ScannedDir(t))
    /\ \A i \in 1 .. cursor[t] - 1 :
         served[t][i] = cache.ents[ScannedDir(t)[i]]

ScanInv == ChainsDistinct(cache) /\ ScanPrefix /\ ScanServesOneDir

\* No chain gets an entry a second time: a new entry is on none yet.
LEMMA ChainsStayDistinct ==
  ASSUME Invariant, ChainsDistinct(cache), NEW t \in Threads, Critical(t)
  PROVE  ChainsDistinct(cache)'
<1>1. /\ \A h \in Live(cache) : cache.ents[h].dir \in Seq(Nat)
      /\ Live(cache) \subseteq 1 .. cache.next_id - 1
      /\ cache.next_id \in Nat
  BY DEF Invariant, CacheInv, CacheTypeOK, EntryRecords
<1>2. CASE Shrunk(cache, cache')
  BY <1>2 DEF Shrunk, ChainsDistinct
<1>3. ASSUME NEW path, NEW archive_id, NEW entry,
             Inserted(cache, cache', path, archive_id, entry)
      PROVE  ChainsDistinct(cache)'
  <2> DEFINE id == cache.next_id
  <2>1. ASSUME NEW h \in Live(cache')
        PROVE  \A i, j \in 1 .. Len(cache'.ents[h].dir) :
                 cache'.ents[h].dir[i] = cache'.ents[h].dir[j] => i = j
    <3>1. CASE h = id
      BY <1>3, <3>1 DEF Inserted
    <3>2. CASE h # id /\ cache'.ents[h].dir = cache.ents[h].dir
      BY <1>3, <3>2 DEF Inserted, ChainsDistinct
    <3>3. CASE h # id /\ cache'.ents[h].dir = Append(cache.ents[h].dir, id)
      <4> DEFINE dir == cache.ents[h].dir
      <4>1. h \in Live(cache) /\ dir \in Seq(Nat) /\ id \in Nat
        BY <1>1, <1>3, <3>3 DEF Inserted
      <4>2. \A i \in 1 .. Len(dir) : dir[i] \in Live(cache) /\ dir[i] # id
        BY <1>1, <4>1 DEF Invariant, CacheInv, ChainsSound
      <4>3. \A i, j \in 1 .. Len(dir) : dir[i] = dir[j] => i = j
        BY <4>1 DEF ChainsDistinct
      <4> HIDE DEF dir
      <4>4. /\ Len(Append(dir, id)) = Len(dir) + 1
            /\ Append(dir, id)[Len(dir) + 1] = id
            /\ \A i \in 1 .. Len(dir) : Append(dir, id)[i] = dir[i]
            /\ Len(dir) \in Nat
        BY <4>1, AppendProperties
      <4>5. cache'.ents[h].dir = Append(dir, id)
        BY <3>3 DEF dir
      <4> QED BY <4>2, <4>3, <4>4, <4>5
    <3> QED BY <1>3, <3>1, <3>2, <3>3 DEF Inserted, ChainAfter
  <2> QED BY <2>1 DEF ChainsDistinct
<1> QED BY <1>2, <1>3, CriticalChanges

\* What a scan has handed out after its next member, or before its first.
LEMMA ScanReaches ==
  ASSUME Invariant, ScanInv, NEW t \in Threads, ScanBegin(t) \/ ScanMember(t)
  PROVE  /\ Len(served'[t]) = cursor'[t] - 1
         /\ cursor'[t] - 1 <= Len(ScannedDir(t))
         /\ \A i \in 1 .. cursor'[t] - 1 :
              served'[t][i] = cache.ents[ScannedDir(t)[i]]
<1>1. /\ pc[t] \in {"locked", "scanning"}
      /\ Find(cache, call[t].path) # NoId
      /\ served[t] \in Seq(EntryRecords) /\ cursor[t] \in Nat
  BY DEF ScanBegin, ScanMember, InBody, Invariant, CallInv, TypeOK
<1>2. /\ Find(cache, call[t].path) \in Live(cache)
      /\ ScannedDir(t) \in Seq(Nat)
  BY <1>1, FindFinds
  DEF Invariant, CacheInv, CacheTypeOK, EntryRecords, ScannedDir
<1>3. CASE ScanBegin(t)
  <2>1. pc[t] = "locked" /\ served'[t] = served[t] /\ cursor'[t] = 1
    BY <1>3 DEF ScanBegin, InBody, Invariant, TypeOK
  <2>2. served[t] = <<>>
    BY <2>1 DEF Invariant, ServedInv
  <2> QED BY <1>2, <2>1, <2>2, EmptySeq
<1>4. CASE ScanMember(t)
  <2> DEFINE e == ScannedDir(t)[cursor[t]]
             rec == cache.ents[e]
             s == served[t]
             n == cursor[t]
  <2>1. /\ pc[t] = "scanning" /\ n <= Len(ScannedDir(t))
        /\ served'[t] = Append(s, rec)
        /\ cursor'[t] = n + 1
    BY <1>4 DEF ScanMember, Invariant, TypeOK
  <2>2. /\ Len(s) = n - 1
        /\ \A i \in 1 .. n - 1 : s[i] = cache.ents[ScannedDir(t)[i]]
        /\ n >= 1
    BY <2>1 DEF ScanInv, ScanPrefix, Invariant, CallInv
  <2>3. e \in Live(cache)
    <3>1. n \in 1 .. Len(ScannedDir(t))
      BY <1>1, <1>2, <2>1, <2>2
    <3> QED BY <1>2, <3>1 DEF Invariant, CacheInv, ChainsSound, ScannedDir
  <2>4. rec \in EntryRecords
    BY <2>3 DEF Invariant, CacheInv, CacheTypeOK
  <2> HIDE DEF rec
  <2>5. /\ Len(Append(s, rec)) = Len(s) + 1
        /\ Append(s, rec)[Len(s) + 1] = rec
        /\ \A i \in 1 .. Len(s) : Append(s, rec)[i] = s[i]
    BY <1>1, <2>4, AppendProperties
  <2>6. Len(s) + 1 = n /\ n \in Nat
    BY <1>1, <2>2
  <2>7. ASSUME NEW i \in 1 .. n
        PROVE  Append(s, rec)[i] = cache.ents[ScannedDir(t)[i]]
    <3>1. CASE i = n
      BY <2>5, <2>6, <3>1 DEF rec
    <3>2. CASE i # n
      <4>1. i \in 1 .. n - 1
        BY <1>1, <3>2
      <4> QED BY <2>2, <2>5, <4>1
    <3> QED BY <3>1, <3>2
  <2> QED BY <1>1, <2>1, <2>2, <2>5, <2>6, <2>7
<1> QED BY <1>3, <1>4

\* Part of a chain is of one directory.
LEMMA PrefixOfOneDir ==
  ASSUME Invariant, ChainsDistinct(cache), NEW h \in Live(cache), NEW s,
         Len(s) <= Len(cache.ents[h].dir), Len(s) \in Nat,
         \A i \in 1 .. Len(s) : s[i] = cache.ents[cache.ents[h].dir[i]]
  PROVE  \A i, j \in 1 .. Len(s) :
           i # j => /\ s[i].archive_id = s[j].archive_id
                    /\ s[i].archive_id # NoId
                    /\ s[i].path # s[j].path
<1> DEFINE dir == cache.ents[h].dir
<1>1. h # NoId /\ Len(dir) \in Nat
  <2>1. h # NoId /\ dir \in Seq(Nat)
    BY DEF Invariant, CacheInv, CacheTypeOK, EntryRecords, NoId
  <2>2. Len(dir) \in Nat
    BY <2>1
  <2> QED BY <2>1, <2>2
<1>2. ASSUME NEW i \in 1 .. Len(s)
      PROVE  /\ i \in 1 .. Len(dir) /\ dir[i] \in Live(cache)
             /\ cache.ents[dir[i]].archive_id = h
             /\ s[i] = cache.ents[dir[i]]
  <2>1. i \in 1 .. Len(dir)
    <3>1. Len(s) <= Len(dir)
      OBVIOUS
    <3> HIDE DEF dir
    <3> QED BY <1>1, <3>1
  <2> QED BY <2>1 DEF Invariant, CacheInv, ChainsSound
<1>3. ASSUME NEW i \in 1 .. Len(s), NEW j \in 1 .. Len(s), i # j
      PROVE  s[i].path # s[j].path
  <2>1. dir[i] # dir[j]
    BY <1>2, <1>3 DEF ChainsDistinct
  <2> QED BY <1>2, <2>1 DEF Invariant, CacheInv, UniquePaths
<1> QED BY <1>1, <1>2, <1>3

\* The steps under the mutex.
LEMMA CriticalKeepsScan ==
  ASSUME Invariant, ScanInv, NEW t \in Threads, Critical(t)
  PROVE  ScanInv'
<1>1. ChainsDistinct(cache)'
  BY ChainsStayDistinct DEF ScanInv
<1>2. pc[t] \in {"locked", "scanning"}
  BY DEF Critical, ExpungeOne, InsertDone, InsertNoMemory, GetHit, Miss,
         ScanBegin, ScanMember, ScanEnd, InBody
<1>3. /\ pc \in [Threads -> {"idle", "waiting", "locked", "scanning"}]
      /\ served \in [Threads -> Seq(EntryRecords)]
      /\ cursor \in [Threads -> Nat]
  BY DEF Invariant, TypeOK
<1>4. \A u \in Threads \ {t} : pc'[u] # "scanning" /\ served'[u] = served[u]
  <2>1. \A u \in Threads \ {t} : pc[u] # "scanning"
    BY <1>2 DEF Invariant, LockInv
  <2> QED BY <1>3, <2>1
      DEF Critical, ExpungeOne, InsertDone, InsertNoMemory, GetHit, Miss,
          ScanBegin, ScanMember, ScanEnd, Unlock
<1>5. CASE ScanBegin(t) \/ ScanMember(t)
  <2> DEFINE h == Find(cache, call[t].path)
  <2>1. /\ Len(served'[t]) = cursor'[t] - 1
        /\ cursor'[t] - 1 <= Len(ScannedDir(t))
        /\ \A i \in 1 .. cursor'[t] - 1 :
             served'[t][i] = cache.ents[ScannedDir(t)[i]]
    BY <1>5, ScanReaches
  <2>2. h # NoId
    BY <1>5 DEF ScanBegin, ScanMember, Invariant, CallInv
  <2>3. h \in Live(cache)
    BY <2>2, FindFinds DEF Invariant, CacheInv
  <2>4. cursor'[t] - 1 \in Nat
    BY <1>3, <1>5 DEF ScanBegin, ScanMember, Invariant, CallInv
  <2>5. \A i, j \in 1 .. Len(served'[t]) :
          i # j => /\ served'[t][i].archive_id = served'[t][j].archive_id
                   /\ served'[t][i].archive_id # NoId
                   /\ served'[t][i].path # served'[t][j].path
    <3> DEFINE s == served'[t]
    <3>1. /\ Len(s) <= Len(cache.ents[h].dir) /\ Len(s) \in Nat
          /\ \A i \in 1 .. Len(s) : s[i] = cache.ents[cache.ents[h].dir[i]]
      BY <2>1, <2>4 DEF ScannedDir
    <3> HIDE DEF s, h
    <3>2. \A i, j \in 1 .. Len(s) :
            i # j => /\ s[i].archive_id = s[j].archive_id
                     /\ s[i].archive_id # NoId
                     /\ s[i].path # s[j].path
      BY <2>3, <3>1, PrefixOfOneDir DEF ScanInv
    <3> QED BY <3>2 DEF s
  <2>6. ScanServesOneDir'
    BY <1>4, <2>5 DEF ScanInv, ScanServesOneDir
  <2>7. cache'.ents = cache.ents
    <3>1. CASE ScanBegin(t)
      BY <3>1 DEF ScanBegin
    <3>2. CASE ScanMember(t)
      <4> DEFINE e == ScannedDir(t)[cursor[t]]
      <4>1. cache' = Touch(cache, e) /\ cursor[t] <= Len(ScannedDir(t))
            /\ cursor[t] >= 1
        BY <3>2 DEF ScanMember, Invariant, CallInv
      <4>2. ScannedDir(t) \in Seq(Nat)
        BY <2>3 DEF Invariant, CacheInv, CacheTypeOK, EntryRecords, ScannedDir
      <4>3. cursor[t] \in 1 .. Len(ScannedDir(t))
        BY <1>3, <4>1, <4>2
      <4>4. e \in Live(cache)
        BY <2>3, <4>3 DEF Invariant, CacheInv, ChainsSound, ScannedDir
      <4> QED BY <4>1, <4>4, TouchKeeps DEF Invariant
    <3> QED BY <1>5, <3>1, <3>2
  <2>8. Find(cache', call'[t].path) = h
    <3>1. call' = call
      BY <1>5 DEF ScanBegin, ScanMember
    <3> QED BY <2>7, <3>1 DEF Find, Live
  <2>9. ScannedDir(t)' = ScannedDir(t)
    BY <2>7, <2>8 DEF ScannedDir
  <2>10. ScanPrefix'
    BY <1>4, <2>1, <2>7, <2>9 DEF ScanPrefix
  <2> QED BY <1>1, <2>6, <2>10 DEF ScanInv
<1>6. CASE ~(ScanBegin(t) \/ ScanMember(t))
  <2>1. /\ pc'[t] # "scanning"
        /\ served'[t] = served[t] \/ Len(served'[t]) = 1
    <3>1. CASE GetHit(t)
      BY <1>3, <3>1 DEF GetHit, Unlock
    <3>2. CASE ExpungeOne(t)
      BY <3>2 DEF ExpungeOne
    <3>3. CASE \/ InsertDone(t) \/ InsertNoMemory(t) \/ Miss(t) \/ ScanEnd(t)
      BY <1>3, <3>3 DEF InsertDone, InsertNoMemory, Miss, ScanEnd, Unlock
    <3> QED BY <1>6, <3>1, <3>2, <3>3 DEF Critical
  <2>2. ScanServesOneDir'
    BY <1>4, <2>1 DEF ScanInv, ScanServesOneDir
  <2>3. ScanPrefix'
    BY <1>4, <2>1 DEF ScanPrefix
  <2> QED BY <1>1, <2>2, <2>3 DEF ScanInv
<1> QED BY <1>5, <1>6

\* A call begins: it has handed out nothing.
LEMMA BeginKeepsScan ==
  ASSUME Invariant, ScanInv, NEW t \in Threads, NEW op, NEW path,
         NEW archive_id, NEW entry, NEW now,
         Begin(t, op, path, archive_id, entry, now)
  PROVE  ScanInv'
<1>1. /\ pc[t] = "idle" /\ pc' = [pc EXCEPT ![t] = "waiting"]
      /\ served' = [served EXCEPT ![t] = <<>>]
      /\ cache' = cache /\ cursor' = cursor
      /\ \A u \in Threads \ {t} : call'[u] = call[u]
  BY DEF Begin, Invariant, TypeOK
<1>2. ChainsDistinct(cache)'
  BY <1>1 DEF ScanInv
<1>3. /\ pc'[t] = "waiting" /\ served'[t] = <<>> /\ Len(served'[t]) = 0
      /\ \A u \in Threads \ {t} : pc'[u] = pc[u] /\ served'[u] = served[u]
  BY <1>1, EmptySeq DEF Invariant, TypeOK
<1>4. ScanServesOneDir'
  BY <1>3 DEF ScanInv, ScanServesOneDir
<1>5. ScanPrefix'
  <2>1. ASSUME NEW u \in Threads, pc'[u] = "scanning"
        PROVE  /\ pc[u] = "scanning" /\ served'[u] = served[u]
               /\ cursor'[u] = cursor[u]
               /\ ScannedDir(u)' = ScannedDir(u)
    BY <1>1, <1>3, <2>1 DEF ScannedDir
  <2> QED BY <1>1, <2>1 DEF ScanInv, ScanPrefix
<1> QED BY <1>2, <1>4, <1>5 DEF ScanInv

\* Every step.
LEMMA NextKeepsScan == Invariant /\ ScanInv /\ [Next]_vars => ScanInv'
<1> SUFFICES ASSUME Invariant, ScanInv, [Next]_vars PROVE ScanInv'
  OBVIOUS
<1>1. CASE UNCHANGED vars
  BY <1>1 DEF vars, ScanInv, ChainsDistinct, ScanPrefix, ScanServesOneDir,
              ScannedDir
<1>2. CASE Tick
  BY <1>2 DEF Tick, ScanInv, ChainsDistinct, ScanPrefix, ScanServesOneDir,
              ScannedDir
<1>3. ASSUME NEW t \in Threads, BeginCall(t) PROVE ScanInv'
  <2>1. PICK op, path, archive_id, entry, now :
          Begin(t, op, path, archive_id, entry, now)
    BY <1>3 DEF BeginCall, BeginInsertRoot, BeginInsertMember, BeginInsertAttr,
                BeginInsert, BeginGet, BeginScandir
  <2> QED BY <2>1, BeginKeepsScan
<1>4. ASSUME NEW t \in Threads, Acquire(t) PROVE ScanInv'
  <2>1. /\ UNCHANGED <<cache, call, cursor, served>>
        /\ \A u \in Threads : pc'[u] = "scanning" => pc[u] = "scanning"
    BY <1>4 DEF Acquire, Invariant, TypeOK
  <2>2. ScanPrefix' /\ ScanServesOneDir'
    BY <2>1 DEF ScanInv, ScanPrefix, ScanServesOneDir, ScannedDir
  <2> QED BY <2>1, <2>2 DEF ScanInv, ChainsDistinct
<1>5. ASSUME NEW t \in Threads, Critical(t) PROVE ScanInv'
  BY <1>5, CriticalKeepsScan
<1> QED BY <1>1, <1>2, <1>3, <1>4, <1>5 DEF Next, CacheStep

\* An empty cache, and nothing handed out.
LEMMA InitScan == Init => ScanInv
<1>1. Live(EmptyCache) = {}
  BY DEF EmptyCache, Live
<1> QED BY <1>1, EmptySeq
    DEF Init, ScanInv, ChainsDistinct, ScanPrefix, ScanServesOneDir

\* In every run.
LEMMA ScanInvHolds == Spec => []ScanInv
<1>1. Init => ScanInv
  BY InitScan
<1>2. Invariant /\ ScanInv /\ [Next]_vars => ScanInv'
  BY NextKeepsScan
<1> QED BY <1>1, <1>2, InvariantHolds, PTL DEF Spec

(***************************************************************************)
(* A directory scan (peepfs_cache_scandir) hands out members of one        *)
(* enumeration only, and each path once, for any number of readdirs that   *)
(* cache the same archive at the same time.                                *)
(***************************************************************************)
THEOREM ScansServeOneDirectory == Spec => []ScanServesOneDir
<1>1. ScanInv => ScanServesOneDir
  BY DEF ScanInv
<1> QED BY <1>1, ScanInvHolds, PTL

-----------------------------------------------------------------------------
(* The cache implements MetadataStore.                                     *)

\* The store begins empty.
LEMMA StoreInit == Init => Store!Init
<1> SUFFICES ASSUME Init PROVE Store!Init
  OBVIOUS
<1>1. cache = EmptyCache /\ cache.ents = <<>> /\ cache.next_id = 1
  BY DEF Init, EmptyCache
<1>2. Live(cache) = {}
  BY <1>1 DEF Live
<1>3. StoreOf(cache) = [id \in {} |-> {}]
  BY <1>2 DEF StoreOf
<1>4. StoreTold = [t \in Threads |-> Store!NoAnswer]
  <2>1. Copies(<<>>) = <<>>
    BY DEF Copies
  <2> QED BY <2>1 DEF Init, StoreTold, NoReply, Store!NoAnswer, Store!Answer,
                      NoId, Store!NoId
<1>5. StoreAsked = [t \in Threads |-> Store!NoQuestion]
  BY DEF Init, StoreAsked, NoCall, Store!NoQuestion, NoId, Store!NoId, RootPath,
         Store!RootPath
<1>6. StoreStage = [t \in Threads |-> "idle"]
  BY DEF Init, StoreStage
<1> QED BY <1>1, <1>3, <1>4, <1>5, <1>6 DEF Store!Init, Init

\* A call begins.
LEMMA BeginAsks ==
  ASSUME Invariant, NEW t \in Threads, NEW op, NEW path, NEW archive_id,
         NEW entry, NEW now, Begin(t, op, path, archive_id, entry, now),
         [op |-> op, path |-> path, dir |-> archive_id, entry |-> entry]
           \in Store!Questions,
         path.relpath = Root => archive_id = NoId
  PROVE  Store!Ask(t)
<1> DEFINE question ==
             [op |-> op, path |-> path, dir |-> archive_id, entry |-> entry]
<1>1. /\ pc[t] = "idle" /\ pc' = [pc EXCEPT ![t] = "waiting"]
      /\ call' = [call EXCEPT ![t] =
                    [op |-> op, path |-> path, archive_id |-> archive_id,
                     entry |-> entry, now |-> now]]
      /\ served' = [served EXCEPT ![t] = <<>>]
      /\ locked_at' = [locked_at EXCEPT ![t] = 0]
      /\ reply' = [reply EXCEPT ![t] = NoReply]
      /\ UNCHANGED <<cache, clock>>
  BY DEF Begin
<1>2. TypeOK
  BY DEF Invariant
<1>3. /\ StoreStage[t] = "idle"
      /\ StoreStage' = [StoreStage EXCEPT ![t] = "asked"]
  BY <1>1, <1>2 DEF StoreStage, TypeOK
<1>4. StoreAsked' = [StoreAsked EXCEPT ![t] = question]
  BY <1>1, <1>2 DEF StoreAsked, TypeOK
<1>5. StoreTold' = [StoreTold EXCEPT ![t] = Store!NoAnswer]
  BY <1>1, <1>2 DEF StoreTold, TypeOK, NoReply, Store!NoAnswer, Store!Answer,
                    NoId, Store!NoId
<1>6. StoreAsked'[t] = question
  BY <1>4 DEF StoreAsked
<1>7. StoreOf(cache)' = StoreOf(cache) /\ cache.next_id' = cache.next_id
  BY <1>1
<1>8. /\ question \in Store!Questions
      /\ question.path.relpath = Root => question.dir = Store!NoId
  BY DEF NoId, Store!NoId
<1> HIDE DEF question
<1>9. /\ StoreAsked' = [StoreAsked EXCEPT ![t] = StoreAsked'[t]]
      /\ StoreAsked'[t] \in Store!Questions
      /\ StoreAsked'[t].path.relpath = Root => StoreAsked'[t].dir = Store!NoId
  BY <1>4, <1>6, <1>8
<1> QED BY <1>1, <1>3, <1>5, <1>7, <1>9 DEF Store!Ask

\* Every call that a thread may begin is a question of the store's.
LEMMA CallsAsk ==
  ASSUME Invariant, NEW t \in Threads, BeginCall(t)
  PROVE  Store!Ask(t)
<1> USE DEF Store!Questions, Store!Paths, Paths, RootPath, NoId, Store!NoId
<1>1. Root \notin Names /\ clock \in Nat
      /\ \A u \in Threads : dir_id[u].id \in Nat
  BY CacheAssumption DEF Invariant, TypeOK
<1>2. ASSUME NEW a \in Archives, BeginInsertRoot(t, a) PROVE Store!Ask(t)
  BY <1>2, BeginAsks DEF BeginInsertRoot, BeginInsert
<1>3. ASSUME NEW a \in Archives, BeginScandir(t, a) PROVE Store!Ask(t)
  BY <1>3, BeginAsks DEF BeginScandir
<1>4. ASSUME NEW name \in Names, NEW m \in Metadata,
             BeginInsertMember(t, name, m)
      PROVE  Store!Ask(t)
  BY <1>1, <1>4, BeginAsks DEF BeginInsertMember, BeginInsert
<1>5. ASSUME NEW a \in Archives, NEW name \in Names, NEW m \in Metadata,
             BeginInsertAttr(t, a, name, m)
      PROVE  Store!Ask(t)
  BY <1>1, <1>5, BeginAsks DEF BeginInsertAttr, BeginInsert
<1>6. ASSUME NEW a \in Archives, NEW name \in Names, BeginGet(t, a, name)
      PROVE  Store!Ask(t)
  BY <1>1, <1>6, BeginAsks DEF BeginGet
<1> QED BY <1>2, <1>3, <1>4, <1>5, <1>6 DEF BeginCall

\* pthread_mutex_lock returns: from here on the call sees the store.
LEMMA AcquireAttends ==
  ASSUME Invariant, NEW t \in Threads, Acquire(t)
  PROVE  Store!Attend(t)
<1>1. TypeOK
  BY DEF Invariant
<1>2. /\ StoreStage[t] = "asked"
      /\ StoreStage' = [StoreStage EXCEPT ![t] = "attended"]
  BY <1>1 DEF Acquire, StoreStage, TypeOK
<1>3. StoreAsked' = StoreAsked
  BY DEF Acquire, StoreAsked
<1>4. StoreTold' = StoreTold
  BY <1>1 DEF Acquire, StoreTold, TypeOK
<1>5. StoreOf(cache)' = StoreOf(cache) /\ cache.next_id' = cache.next_id
  BY DEF Acquire
<1> QED BY <1>2, <1>3, <1>4, <1>5 DEF Acquire, Store!Attend

\* Nothing a caller sees happens while a call goes on.
LEMMA CallWorks ==
  ASSUME Invariant, NEW t \in Threads, pc[t] \in {"locked", "scanning"},
         pc' = pc \/ pc' = [pc EXCEPT ![t] = "scanning"],
         UNCHANGED <<call, reply>>,
         \A u \in Threads \ {t} : served'[u] = served[u]
  PROVE  /\ StoreStage[t] = "attended"
         /\ StoreStage' = StoreStage
         /\ StoreAsked' = StoreAsked
         /\ StoreTold' = StoreTold
<1>1. TypeOK
  BY DEF Invariant
<1>2. \A u \in Threads :
        /\ pc'[u] = "idle" <=> pc[u] = "idle"
        /\ pc'[u] = "waiting" <=> pc[u] = "waiting"
  BY <1>1 DEF TypeOK
<1>3. StoreStage[t] = "attended" /\ StoreStage' = StoreStage
  BY <1>2 DEF StoreStage
<1>4. StoreTold' = StoreTold
  <2>1. \A u \in Threads : pc[u] = "idle" => served'[u] = served[u]
    OBVIOUS
  <2> QED BY <1>2, <2>1 DEF StoreTold
<1> QED BY <1>3, <1>4 DEF StoreAsked

\* A call returns: the caller gets what was served.
LEMMA UnlockReplies ==
  ASSUME Invariant, NEW t \in Threads, NEW op, NEW error, NEW id,
         pc[t] \in {"locked", "scanning"}, call[t].op = op,
         Unlock(t, error, id),
         \A u \in Threads \ {t} : served'[u] = served[u]
  PROVE  /\ Store!Reply(t, op)
         /\ StoreTold' = [StoreTold EXCEPT ![t] =
                            Store!Answer(error, id, Copies(served'[t]))]
<1>1. TypeOK
  BY DEF Invariant
<1>2. /\ pc' = [pc EXCEPT ![t] = "idle"]
      /\ reply' = [reply EXCEPT ![t] = [error |-> error, id |-> id]]
      /\ call' = [call EXCEPT ![t] = NoCall]
      /\ UNCHANGED <<clock, locked_at>>
  BY DEF Unlock
<1>3. /\ StoreStage[t] = "attended"
      /\ StoreStage' = [StoreStage EXCEPT ![t] = "idle"]
  BY <1>1, <1>2 DEF StoreStage, TypeOK
<1>4. /\ StoreAsked[t].op = op
      /\ StoreAsked' = [StoreAsked EXCEPT ![t] = Store!NoQuestion]
  BY <1>1, <1>2 DEF StoreAsked, TypeOK, NoCall, Store!NoQuestion, NoId,
                    Store!NoId, RootPath, Store!RootPath
<1>5. StoreTold' = [StoreTold EXCEPT ![t] =
                     Store!Answer(error, id, Copies(served'[t]))]
  BY <1>1, <1>2 DEF StoreTold, TypeOK, Store!Answer
<1> QED BY <1>2, <1>3, <1>4, <1>5 DEF Store!Reply

\* The chains of a sound cache, as the store sees them.
LEMMA MembersOf ==
  ASSUME NEW c, CacheInv(c), NEW id \in Live(c)
  PROVE  /\ StoreOf(c)[id].members = c.ents[id].dir
         /\ DOMAIN c.ents[id].dir = 1 .. Len(c.ents[id].dir)
         /\ \A i \in DOMAIN c.ents[id].dir : c.ents[id].dir[i] \in Live(c)
<1>1. c.ents[id].dir \in Seq(Nat)
  BY DEF CacheInv, CacheTypeOK, EntryRecords
<1>2. DOMAIN c.ents[id].dir = 1 .. Len(c.ents[id].dir)
  BY <1>1, LenProperties
<1>3. \A i \in 1 .. Len(c.ents[id].dir) : c.ents[id].dir[i] \in Live(c)
  BY DEF CacheInv, ChainsSound
<1> QED BY <1>2, <1>3 DEF StoreOf

\* What is deleted takes its directory along: the rest is closed.
LEMMA ShrunkIsKept ==
  ASSUME CacheInv(cache), CacheInv(cache'), Shrunk(cache, cache')
  PROVE  /\ Live(cache') \in SUBSET DOMAIN StoreOf(cache)
         /\ Store!Keep(Live(cache'))
<1>1. /\ Live(cache') \subseteq Live(cache)
      /\ \A x \in Live(cache') : cache'.ents[x] = cache.ents[x]
  BY DEF Shrunk
<1>2. DOMAIN StoreOf(cache) = Live(cache)
  BY DEF StoreOf
<1>3. StoreOf(cache)' = [id \in Live(cache') |-> StoreOf(cache)[id]]
  BY <1>1 DEF StoreOf
<1>4. ASSUME NEW id \in Live(cache'),
             NEW i \in DOMAIN StoreOf(cache)[id].members
      PROVE  StoreOf(cache)[id].members[i] \in Live(cache')
  <2>1. StoreOf(cache)[id].members = cache'.ents[id].dir
    BY <1>1, MembersOf
  <2> QED BY <1>4, <2>1, MembersOf
<1>5. Store!Closed(Live(cache'))
  BY <1>4 DEF Store!Closed
<1> QED BY <1>1, <1>2, <1>3, <1>5 DEF Store!Keep

\* An insert that is done: the new record, and what it joins.
LEMMA InsertPuts ==
  ASSUME Invariant, CacheInv(cache'), NEW t \in Threads, InsertDone(t),
         Inserted(cache, cache', call[t].path, call[t].archive_id,
                  call[t].entry),
         cache'.ents[cache.next_id].born = locked_at[t]
  PROVE  Store!Put(t)
<1> DEFINE new == cache.next_id
           kept == Live(cache') \ {new}
           rec == [path |-> StoreAsked[t].path, dir |-> StoreAsked[t].dir,
                   entry |-> StoreAsked[t].entry, born |-> locked_at[t],
                   members |-> <<>>]
<1>1. /\ TypeOK /\ CacheInv(cache) /\ new \in Nat
      /\ Live(cache) \subseteq 1 .. new - 1
  BY DEF Invariant, CacheInv, CacheTypeOK
<1>2. /\ pc[t] = "locked" /\ call[t].op = "insert"
      /\ served' = served /\ Unlock(t, 0, new)
  BY DEF InsertDone, InBody
<1>3. served'[t] = <<>>
  BY <1>2 DEF Invariant, ServedInv
<1>4. Copies(served'[t]) = <<>>
  BY <1>3 DEF Copies
<1>5. /\ Store!Reply(t, "insert")
      /\ StoreTold' = [StoreTold EXCEPT ![t] = Store!Answer(0, new, <<>>)]
  BY <1>2, <1>4, UnlockReplies
<1>6. StoreAsked[t] = [op |-> "insert", path |-> call[t].path,
                       dir |-> call[t].archive_id, entry |-> call[t].entry]
  BY <1>2 DEF StoreAsked
<1>7. kept \subseteq Live(cache) /\ new \in Live(cache') /\ new \notin Live(cache)
  BY <1>1 DEF Inserted
<1>8. Live(cache)' = kept \cup {new}
  BY <1>7
<1>9. StoreOf(cache)'[new] = rec
  BY <1>6, <1>7 DEF StoreOf, Inserted
<1>10. ASSUME NEW x \in kept PROVE StoreOf(cache)'[x] = Store!Joined(x, t)
  <2> DEFINE old == StoreOf(cache)[x]
  <2>1. /\ old = [path |-> cache.ents[x].path, dir |-> cache.ents[x].archive_id,
                  entry |-> cache.ents[x].entry, born |-> cache.ents[x].born,
                  members |-> cache.ents[x].dir]
        /\ StoreOf(cache)'[x] =
             [path |-> cache.ents[x].path, dir |-> cache.ents[x].archive_id,
              entry |-> cache.ents[x].entry, born |-> cache.ents[x].born,
              members |-> ChainAfter(cache, x, call[t].path,
                                     call[t].archive_id)]
    BY <1>7 DEF StoreOf, Inserted
  <2>2. /\ StoreAsked[t].dir = call[t].archive_id
        /\ Store!RootPath(StoreAsked[t].path.archivepath)
             = RootPath(call[t].path.archivepath)
    BY <1>6 DEF RootPath, Store!RootPath
  <2>3. CASE x = call[t].archive_id
             /\ cache.ents[x].path = RootPath(call[t].path.archivepath)
    <3>1. Store!Joined(x, t)
            = [[path |-> cache.ents[x].path, dir |-> cache.ents[x].archive_id,
                entry |-> cache.ents[x].entry, born |-> cache.ents[x].born,
                members |-> cache.ents[x].dir]
                  EXCEPT !.members = Append(@, new)]
      BY <2>1, <2>2, <2>3 DEF Store!Joined
    <3>2. ChainAfter(cache, x, call[t].path, call[t].archive_id)
            = Append(cache.ents[x].dir, new)
      BY <2>3 DEF ChainAfter
    <3>3. ASSUME NEW path, NEW dir, NEW entry, NEW born, NEW members, NEW id
          PROVE  [[path |-> path, dir |-> dir, entry |-> entry, born |-> born,
                   members |-> members] EXCEPT !.members = Append(@, id)]
                   = [path |-> path, dir |-> dir, entry |-> entry,
                      born |-> born, members |-> Append(members, id)]
      OBVIOUS
    <3>4. Store!Joined(x, t)
            = [path |-> cache.ents[x].path, dir |-> cache.ents[x].archive_id,
               entry |-> cache.ents[x].entry, born |-> cache.ents[x].born,
               members |-> Append(cache.ents[x].dir, new)]
      BY <3>1, <3>3
    <3> QED BY <2>1, <3>2, <3>4
  <2>4. CASE ~(x = call[t].archive_id
               /\ cache.ents[x].path = RootPath(call[t].path.archivepath))
    <3>1. Store!Joined(x, t) = old
      BY <2>1, <2>2, <2>4 DEF Store!Joined
    <3>2. ChainAfter(cache, x, call[t].path, call[t].archive_id)
            = cache.ents[x].dir
      BY <2>4 DEF ChainAfter
    <3> QED BY <2>1, <3>1, <3>2
  <2> QED BY <2>3, <2>4
<1>11. StoreOf(cache)' = [x \in kept \cup {new} |->
                           IF x = new THEN rec ELSE Store!Joined(x, t)]
  <2>1. StoreOf(cache)' = [x \in kept \cup {new} |-> StoreOf(cache)'[x]]
    BY <1>8 DEF StoreOf
  <2> HIDE DEF kept, rec, new
  <2> QED BY <1>9, <1>10, <2>1
<1>12. ASSUME NEW x \in kept, x \in Store!Under(t) PROVE FALSE
  <2>1. cache'.ents[x].path = call[t].path /\ cache'.ents[new].path = call[t].path
    BY <1>6, <1>7, <1>12 DEF Store!Under, StoreOf, Inserted
  <2> QED BY <1>7, <1>12, <2>1 DEF CacheInv, UniquePaths
<1>13. ASSUME NEW x \in kept, NEW i \in DOMAIN StoreOf(cache)[x].members
       PROVE  StoreOf(cache)[x].members[i] \in kept
  <2> DEFINE dir == cache.ents[x].dir
  <2>1. /\ StoreOf(cache)[x].members = dir
        /\ i \in 1 .. Len(dir) /\ dir[i] \in Live(cache)
    BY <1>1, <1>7, <1>13, MembersOf
  <2>2. cache'.ents[x].dir \in {dir, Append(dir, new)}
    BY DEF Inserted, ChainAfter
  <2>3. cache'.ents[x].dir[i] = dir[i] /\ i \in 1 .. Len(cache'.ents[x].dir)
    <3>1. CASE cache'.ents[x].dir = dir
      BY <2>1, <3>1
    <3>2. CASE cache'.ents[x].dir = Append(dir, new)
      <4> HIDE DEF dir, new
      <4>1. dir \in Seq(Nat) /\ new \in Nat
        BY <1>1, <1>7, MembersOf DEF dir, CacheInv, CacheTypeOK, EntryRecords
      <4> QED BY <2>1, <3>2, <4>1, AppendProperties
    <3> QED BY <2>2, <3>1, <3>2
  <2>4. dir[i] \in Live(cache')
    BY <2>3 DEF CacheInv, ChainsSound
  <2> QED BY <1>7, <2>1, <2>4
<1>14. Store!Closed(kept)
  BY <1>13 DEF Store!Closed
<1>15. kept \in SUBSET (DOMAIN StoreOf(cache) \ Store!Under(t))
  BY <1>7, <1>12 DEF StoreOf
<1>16. cache.next_id' = new + 1
  BY DEF Inserted
<1> HIDE DEF kept, new, rec
<1> QED BY <1>5, <1>11, <1>14, <1>15, <1>16 DEF Store!Put, new, rec

\* What the store finds under the path of a call is what the hash finds.
LEMMA FoundUnder ==
  ASSUME Invariant, NEW t \in Threads
  PROVE  Store!Under(t) = IF Find(cache, call[t].path) = NoId THEN {}
                          ELSE {Find(cache, call[t].path)}
<1> DEFINE e == Find(cache, call[t].path)
<1>1. Store!Under(t) = {id \in Live(cache) :
                          cache.ents[id].path = call[t].path}
  BY DEF Store!Under, StoreOf, StoreAsked
<1>2. CacheTypeOK(cache) /\ UniquePaths(cache)
  BY DEF Invariant, CacheInv
<1>3. CASE e = NoId
  BY <1>1, <1>2, <1>3, FindFinds
<1>4. CASE e # NoId
  <2>1. e \in Live(cache) /\ cache.ents[e].path = call[t].path
    BY <1>2, <1>4, FindFinds
  <2>2. \A id \in Live(cache) : cache.ents[id].path = call[t].path => id = e
    BY <1>2, <2>1 DEF UniquePaths
  <2> HIDE DEF e
  <2>3. Store!Under(t) = {e}
    BY <1>1, <2>1, <2>2
  <2> QED BY <1>4, <2>3 DEF e
<1> QED BY <1>3, <1>4

\* A copy of one entry is what the store shows of the record.
LEMMA CopyOfEntry ==
  ASSUME NEW e \in Live(cache)
  PROVE  Store!Copy(e) = [path |-> cache.ents[e].path,
                          dir |-> cache.ents[e].archive_id,
                          entry |-> cache.ents[e].entry]
BY DEF Store!Copy, StoreOf

\* peepfs_cache_get finds an entry.
LEMMA HitGets ==
  ASSUME Invariant, NEW t \in Threads, GetHit(t)
  PROVE  Store!Get(t)
<1> DEFINE e == Find(cache, call[t].path)
<1>1. /\ pc[t] = "locked" /\ ~HeadExpired(t) /\ call[t].op = "get"
      /\ e # NoId
      /\ served' = [served EXCEPT ![t] = <<cache.ents[e]>>]
      /\ cache' = Touch(cache, e)
      /\ Unlock(t, 0, NoId)
  BY DEF GetHit, InBody
<1>2. CacheInv(cache) /\ e \in Live(cache) /\ TypeOK
  BY <1>1, FindFinds DEF Invariant, CacheInv
<1>3. cache'.ents = cache.ents /\ cache'.next_id = cache.next_id
  BY <1>1, <1>2, TouchKeeps
<1>4. StoreOf(cache)' = StoreOf(cache)
  BY <1>3 DEF StoreOf, Live
<1>5. served'[t] = <<cache.ents[e]>>
      /\ \A u \in Threads \ {t} : served'[u] = served[u]
  BY <1>1, <1>2 DEF TypeOK
<1>6. /\ Store!Reply(t, "get")
      /\ StoreTold' = [StoreTold EXCEPT ![t] =
                         Store!Answer(0, NoId, Copies(served'[t]))]
  BY <1>1, <1>5, UnlockReplies
<1>7. Copies(served'[t]) = <<Store!Copy(e)>>
  BY <1>2, <1>5, CopyOfEntry DEF Copies
<1>8. e \in Store!Under(t)
  BY <1>1, FoundUnder
<1>9. Store!Fresh(t, e)
  <2>1. cache.ents[e].born + Grace >= locked_at[t]
    BY <1>1, <1>2, AllFresh
  <2> QED BY <1>2, <2>1 DEF Store!Fresh, StoreOf
<1> HIDE DEF e
<1> QED BY <1>3, <1>4, <1>6, <1>7, <1>8, <1>9
        DEF Store!Get, NoId, Store!NoId

\* peepfs_cache_scandir has reached the end of the chain.
LEMMA EndScans ==
  ASSUME Invariant, ScanInv, NEW t \in Threads, ScanEnd(t)
  PROVE  Store!Scan(t)
<1> DEFINE e == Find(cache, call[t].path)
           dir == cache.ents[e].dir
<1>1. /\ pc[t] = "scanning" /\ cursor[t] > Len(ScannedDir(t))
      /\ cache' = Touch(cache, e) /\ served' = served
      /\ Unlock(t, 0, NoId)
  BY DEF ScanEnd
<1>2. /\ call[t].op = "scandir" /\ e # NoId /\ ~HeadExpired(t)
      /\ cursor[t] \in Nat /\ CacheInv(cache)
  BY <1>1 DEF Invariant, CallInv, ServedInv, TypeOK
<1>3. e \in Live(cache)
  BY <1>2, FindFinds DEF CacheInv
<1>4. cache'.ents = cache.ents /\ cache'.next_id = cache.next_id
  BY <1>1, <1>2, <1>3, TouchKeeps
<1>5. StoreOf(cache)' = StoreOf(cache)
  BY <1>4 DEF StoreOf, Live
<1>6. /\ Store!Reply(t, "scandir")
      /\ StoreTold' = [StoreTold EXCEPT ![t] =
                         Store!Answer(0, NoId, Copies(served'[t]))]
  BY <1>1, <1>2, UnlockReplies
<1>7. /\ StoreOf(cache)[e].members = dir
      /\ DOMAIN dir = 1 .. Len(dir)
      /\ \A i \in DOMAIN dir : dir[i] \in Live(cache)
      /\ Len(dir) \in Nat
  <2>1. dir \in Seq(Nat)
    BY <1>2, <1>3 DEF CacheInv, CacheTypeOK, EntryRecords
  <2>2. Len(dir) \in Nat
    BY <2>1
  <2> QED BY <1>2, <1>3, <2>2, MembersOf
<1>8. /\ Len(served[t]) = Len(dir)
      /\ \A i \in 1 .. Len(dir) : served[t][i] = cache.ents[dir[i]]
  <2>1. /\ Len(served[t]) = cursor[t] - 1
        /\ cursor[t] - 1 <= Len(dir)
        /\ \A i \in 1 .. cursor[t] - 1 : served[t][i] = cache.ents[dir[i]]
    BY <1>1 DEF ScanInv, ScanPrefix, ScannedDir
  <2>2. cursor[t] > Len(dir)
    BY <1>1 DEF ScannedDir
  <2>3. cursor[t] - 1 = Len(dir)
    <3>1. Len(dir) \in Nat /\ cursor[t] \in Nat
      BY <1>2, <1>7
    <3> HIDE DEF dir
    <3> QED BY <2>1, <2>2, <3>1
  <2> QED BY <2>1, <2>3
<1>9. \A i \in DOMAIN dir :
        Store!Copy(dir[i]) = [path |-> served[t][i].path,
                              dir |-> served[t][i].archive_id,
                              entry |-> served[t][i].entry]
  BY <1>7, <1>8, CopyOfEntry
<1>10. Copies(served'[t]) = [i \in DOMAIN dir |-> Store!Copy(dir[i])]
  BY <1>1, <1>7, <1>8, <1>9 DEF Copies
<1>11. e \in Store!Under(t)
  BY <1>2, FoundUnder
<1>12. \A x \in Live(cache) : Store!Fresh(t, x)
  <2>1. \A x \in Live(cache) : cache.ents[x].born + Grace >= locked_at[t]
    BY <1>2, AllFresh
  <2> QED BY <2>1 DEF Store!Fresh, StoreOf
<1> HIDE DEF e, dir
<1> QED BY <1>3, <1>4, <1>5, <1>6, <1>7, <1>10, <1>11, <1>12
        DEF Store!Scan, NoId, Store!NoId

\* Neither finds anything.
LEMMA MissMisses ==
  ASSUME Invariant, NEW t \in Threads, Miss(t)
  PROVE  Store!Missed(t)
<1>1. PICK op \in {"get", "scandir"} : InBody(t, op)
  BY DEF Miss
<1>2. /\ pc[t] = "locked" /\ call[t].op = op
      /\ Find(cache, call[t].path) = NoId
      /\ Unlock(t, -1, NoId) /\ cache' = cache /\ served' = served
  BY <1>1 DEF Miss, InBody
<1>3. Copies(served'[t]) = <<>>
  <2>1. served'[t] = <<>>
    BY <1>2 DEF Invariant, ServedInv
  <2> QED BY <2>1 DEF Copies
<1>4. /\ Store!Reply(t, op)
      /\ StoreTold' = [StoreTold EXCEPT ![t] = Store!Answer(-1, NoId, <<>>)]
  BY <1>2, <1>3, UnlockReplies
<1>5. Store!Under(t) = {}
  BY <1>2, FoundUnder
<1>6. StoreOf(cache)' = StoreOf(cache) /\ cache.next_id' = cache.next_id
  BY <1>2
<1> QED BY <1>1, <1>4, <1>5, <1>6 DEF Store!Missed, NoId, Store!NoId

\* calloc fails: the old record is gone, and room was made.
LEMMA NoMemoryFails ==
  ASSUME Invariant, CacheInv(cache'), NEW t \in Threads, InsertNoMemory(t)
  PROVE  Store!PutFails(t)
<1>1. /\ AllocFails /\ pc[t] = "locked" /\ call[t].op = "insert"
      /\ cache' = MakeRoom(cache, call[t].path)
      /\ Unlock(t, 0, NoId) /\ served' = served
  BY DEF InsertNoMemory, InBody
<1>2. /\ CacheInv(cache) /\ cache.num_entries <= MaxEntries
  BY DEF Invariant, Bounded
<1>3. /\ cache'.next_id = cache.next_id + 1
      /\ Live(cache') \subseteq Live(cache)
      /\ \A x \in Live(cache') : /\ cache'.ents[x] = cache.ents[x]
                                /\ cache.ents[x].path # call[t].path
  BY <1>1, <1>2, MakeRoomKeeps
<1>4. Shrunk(cache, cache')
  BY <1>3 DEF Shrunk
<1>5. Store!Keep(Live(cache'))
  BY <1>2, <1>4, ShrunkIsKept
<1>6. Live(cache') \in SUBSET (DOMAIN StoreOf(cache) \ Store!Under(t))
  BY <1>3 DEF Store!Under, StoreOf, StoreAsked
<1>7. Copies(served'[t]) = <<>>
  <2>1. served'[t] = <<>>
    BY <1>1 DEF Invariant, ServedInv
  <2> QED BY <2>1 DEF Copies
<1>8. /\ Store!Reply(t, "insert")
      /\ StoreTold' = [StoreTold EXCEPT ![t] = Store!Answer(0, NoId, <<>>)]
  BY <1>1, <1>7, UnlockReplies
<1> QED BY <1>1, <1>3, <1>5, <1>6, <1>8 DEF Store!PutFails, NoId, Store!NoId

\* One entry expires, or is evicted.
LEMMA ExpungeForgets ==
  ASSUME Invariant, CacheInv(cache'), NEW t \in Threads, ExpungeOne(t)
  PROVE  Store!Forget(t)
<1>1. /\ pc[t] = "locked" /\ cache.expire # <<>>
      /\ cache' = Delete(cache, Head(cache.expire))
      /\ UNCHANGED <<clock, pc, call, locked_at, served, reply>>
  BY DEF ExpungeOne, HeadExpired
<1>2. CacheInv(cache)
  BY DEF Invariant
<1>3. Head(cache.expire) \in Live(cache)
  <2>1. cache.expire \in Seq(Live(cache))
    BY <1>2 DEF CacheInv, Listed, IsListOf
  <2> QED BY <1>1, <2>1, HeadTailProperties
<1>4. Shrunk(cache, cache') /\ cache'.next_id = cache.next_id
  BY <1>1, <1>2, <1>3, DeleteKeeps DEF Shrunk
<1>5. /\ Live(cache') \in SUBSET DOMAIN StoreOf(cache)
      /\ Store!Keep(Live(cache'))
  BY <1>2, <1>4, ShrunkIsKept
<1>6. /\ StoreStage[t] = "attended" /\ StoreStage' = StoreStage
      /\ StoreAsked' = StoreAsked /\ StoreTold' = StoreTold
  BY <1>1, CallWorks
<1> QED BY <1>1, <1>4, <1>5, <1>6 DEF Store!Forget

\* A walk along a chain is not seen before it ends.
LEMMA WalkUnseen ==
  ASSUME Invariant, NEW t \in Threads, ScanBegin(t) \/ ScanMember(t)
  PROVE  UNCHANGED Store!vars
<1>1. /\ pc[t] \in {"locked", "scanning"}
      /\ pc' = pc \/ pc' = [pc EXCEPT ![t] = "scanning"]
      /\ UNCHANGED <<clock, call, locked_at, reply>>
      /\ \A u \in Threads \ {t} : served'[u] = served[u]
  BY DEF ScanBegin, ScanMember, InBody, Invariant, TypeOK
<1>2. /\ StoreStage' = StoreStage /\ StoreAsked' = StoreAsked
      /\ StoreTold' = StoreTold
  BY <1>1, CallWorks
<1>3. cache'.ents = cache.ents /\ cache'.next_id = cache.next_id
  <2>1. CASE ScanBegin(t)
    BY <2>1 DEF ScanBegin
  <2>2. CASE ScanMember(t)
    <3> DEFINE h == Find(cache, call[t].path)
               e == ScannedDir(t)[cursor[t]]
    <3>1. /\ pc[t] = "scanning" /\ cursor[t] <= Len(ScannedDir(t))
          /\ cache' = Touch(cache, e)
      BY <2>2 DEF ScanMember
    <3>2. /\ cursor[t] >= 1 /\ cursor[t] \in Nat /\ h # NoId
          /\ CacheInv(cache)
      BY <3>1 DEF Invariant, CallInv, TypeOK
    <3>3. h \in Live(cache)
      BY <3>2, FindFinds DEF CacheInv
    <3>4. Len(ScannedDir(t)) \in Nat
      BY <3>2, <3>3, ElementOfSeq
      DEF CacheInv, CacheTypeOK, EntryRecords, ScannedDir
    <3>5. cursor[t] \in 1 .. Len(ScannedDir(t))
      BY <3>1, <3>2, <3>4
    <3>6. e \in Live(cache)
      BY <3>2, <3>3, <3>5 DEF CacheInv, ChainsSound, ScannedDir
    <3> QED BY <3>1, <3>2, <3>6, TouchKeeps
  <2> QED BY <2>1, <2>2
<1>4. StoreOf(cache)' = StoreOf(cache)
  BY <1>3 DEF StoreOf, Live
<1> QED BY <1>1, <1>2, <1>3, <1>4 DEF Store!vars

\* Every step of the cache is a step of the store, or is not seen.
LEMMA NextImplementsStore ==
  Invariant /\ ScanInv /\ [Next]_vars => [Store!Next]_(Store!vars)
<1> SUFFICES ASSUME Invariant, ScanInv, [Next]_vars
             PROVE  Store!Next \/ UNCHANGED Store!vars
  OBVIOUS
<1>1. CASE UNCHANGED vars
  <2>1. UNCHANGED <<StoreOf(cache), StoreAsked, StoreStage, StoreTold>>
    BY <1>1 DEF vars, StoreOf, StoreAsked, StoreStage, StoreTold, Live
  <2> QED BY <1>1, <2>1 DEF vars, Store!vars
<1>2. CASE Tick
  <2>1. UNCHANGED <<StoreOf(cache), StoreAsked, StoreStage, StoreTold>>
    BY <1>2 DEF Tick, StoreOf, StoreAsked, StoreStage, StoreTold, Live
  <2> QED BY <1>2, <2>1 DEF Tick, Store!Tick, Store!Next
<1>3. ASSUME NEW t \in Threads, BeginCall(t) PROVE Store!Next
  BY <1>3, CallsAsk DEF Store!Next
<1>4. ASSUME NEW t \in Threads, Acquire(t) PROVE Store!Next
  BY <1>4, AcquireAttends DEF Store!Next
<1>5. ASSUME NEW t \in Threads, Critical(t)
      PROVE  Store!Next \/ UNCHANGED Store!vars
  <2>1. CacheInv(cache')
    BY <1>5, CriticalKeeps DEF Invariant
  <2>2. CASE InsertDone(t)
    BY <1>5, <2>1, <2>2, CriticalChanges, InsertPuts DEF Store!Next
  <2>3. CASE InsertNoMemory(t)
    BY <2>1, <2>3, NoMemoryFails DEF Store!Next
  <2>4. CASE ExpungeOne(t)
    BY <2>1, <2>4, ExpungeForgets DEF Store!Next
  <2>5. CASE GetHit(t)
    BY <2>5, HitGets DEF Store!Next
  <2>6. CASE Miss(t)
    BY <2>6, MissMisses DEF Store!Next
  <2>7. CASE ScanBegin(t) \/ ScanMember(t)
    BY <2>7, WalkUnseen
  <2>8. CASE ScanEnd(t)
    BY <2>8, EndScans DEF Store!Next
  <2> QED BY <1>5, <2>2, <2>3, <2>4, <2>5, <2>6, <2>7, <2>8 DEF Critical
<1> QED BY <1>1, <1>2, <1>3, <1>4, <1>5 DEF Next, CacheStep

(***************************************************************************)
(* The cache is a store whose calls each happen at one moment: whatever    *)
(* the threads do, for every limit and grace, a get finds the latest       *)
(* insert under its path or nothing, a scan hands out every member put so  *)
(* far in the directory that is cached, in order, and no failed insert,    *)
(* eviction or expiry leaves part of a directory behind.                   *)
(***************************************************************************)
THEOREM CacheImplementsStore == Spec => StoreSpec
<1>1. Init => Store!Init
  BY StoreInit
<1>2. Invariant /\ ScanInv /\ [Next]_vars => [Store!Next]_(Store!vars)
  BY NextImplementsStore
<1> QED BY <1>1, <1>2, InvariantHolds, ScanInvHolds, PTL
        DEF Spec, StoreSpec, Store!Spec

-----------------------------------------------------------------------------
(* How long a call keeps the mutex.                                        *)

\* A chain is of different entries that are live: it is not longer than the
\* cache is large.
LEMMA ChainShort ==
  ASSUME NEW c, CacheInv(c), ChainsDistinct(c), NEW h \in Live(c)
  PROVE  /\ Len(c.ents[h].dir) \in Nat
         /\ Len(c.ents[h].dir) <= c.num_entries
<1> DEFINE dir == c.ents[h].dir
           f == [i \in 1 .. Len(dir) |-> dir[i]]
<1>1. Len(dir) \in Nat
  BY ElementOfSeq DEF CacheInv, CacheTypeOK, EntryRecords
<1>2. \A i \in 1 .. Len(dir) : dir[i] \in Live(c)
  BY DEF CacheInv, ChainsSound
<1>3. \A i, j \in 1 .. Len(dir) : dir[i] = dir[j] => i = j
  BY DEF ChainsDistinct
<1> HIDE DEF dir
<1>4. f \in Injection(1 .. Len(dir), Live(c))
  BY <1>2, <1>3 DEF Injection, IsInjective
<1>5. IsFiniteSet(Live(c)) /\ c.num_entries = Cardinality(Live(c))
  BY DEF CacheInv, Listed
<1>6. Cardinality(1 .. Len(dir)) <= Cardinality(Live(c))
  BY <1>4, <1>5, FS_Injection
<1>7. Cardinality(1 .. Len(dir)) = Len(dir)
  <2>1. ASSUME NEW n \in Nat PROVE Cardinality(1 .. n) = n
    BY FS_Interval
  <2> QED BY <1>1, <2>1
<1> QED BY <1>1, <1>5, <1>6, <1>7 DEF dir

\* How far the holder is from unlocking.
LEMMA StepsBounded ==
  ASSUME Invariant, ScanInv, NEW t \in Threads,
         pc[t] \in {"locked", "scanning"}
  PROVE  /\ StepsLeft(t) \in 1 .. 2 * MaxEntries + 2
         /\ pc[t] = "scanning" => StepsLeft(t) <= cache.num_entries + 1
<1>1. /\ cache.num_entries \in Nat /\ MaxEntries \in Nat
      /\ cache.num_entries <= MaxEntries /\ CacheInv(cache)
      /\ cursor[t] \in Nat
  BY CacheAssumption DEF Invariant, Bounded, CacheInv, CacheTypeOK, TypeOK
<1>2. CASE pc[t] = "locked"
  BY <1>1, <1>2 DEF StepsLeft
<1>3. CASE pc[t] = "scanning"
  <2>1. /\ Find(cache, call[t].path) # NoId /\ cursor[t] >= 1
        /\ cursor[t] - 1 <= Len(ScannedDir(t))
    BY <1>3 DEF Invariant, CallInv, ScanInv, ScanPrefix
  <2>2. Find(cache, call[t].path) \in Live(cache)
    BY <1>1, <2>1, FindFinds DEF CacheInv
  <2>3. /\ Len(ScannedDir(t)) \in Nat
        /\ Len(ScannedDir(t)) <= cache.num_entries
    BY <1>1, <2>2, ChainShort DEF ScanInv, ScannedDir
  <2> QED BY <1>1, <1>3, <2>1, <2>3 DEF StepsLeft
<1> QED BY <1>2, <1>3

\* A step under the mutex that does not give it back gets closer.
LEMMA CriticalGetsCloser ==
  ASSUME Invariant, ScanInv, NEW t \in Threads, Critical(t), lock' = t
  PROVE  StepsLeft(t)' \in 1 .. StepsLeft(t) - 1
<1>1. /\ Invariant' /\ ScanInv'
      /\ pc \in [Threads -> {"idle", "waiting", "locked", "scanning"}]
      /\ t # NoThread
  BY CriticalKeeps, CriticalKeepsScan, CacheAssumption DEF Invariant, TypeOK
<1>2. /\ cache.num_entries \in Nat /\ cursor[t] \in Nat /\ cursor'[t] \in Nat
      /\ cache'.num_entries \in Nat
      /\ CacheInv(cache)
  BY <1>1 DEF Invariant, CacheInv, CacheTypeOK, TypeOK
<1>3. CASE ExpungeOne(t)
  <2>1. /\ pc[t] = "locked" /\ pc'[t] = "locked"
        /\ cache.expire # <<>>
        /\ cache' = Delete(cache, Head(cache.expire))
    BY <1>3 DEF ExpungeOne, HeadExpired
  <2>2. Head(cache.expire) \in Live(cache)
    <3>1. cache.expire \in Seq(Live(cache))
      BY <1>2 DEF CacheInv, Listed, IsListOf
    <3> QED BY <2>1, <3>1, HeadTailProperties
  <2>3. cache'.num_entries < cache.num_entries
    BY <1>2, <2>1, <2>2, DeleteKeeps
  <2> QED BY <1>2, <2>1, <2>3 DEF StepsLeft
<1>4. CASE ScanBegin(t)
  <2>1. /\ pc[t] = "locked" /\ pc'[t] = "scanning" /\ cursor'[t] = 1
        /\ cache' = cache /\ call' = call
        /\ Find(cache, call[t].path) # NoId
    BY <1>1, <1>4 DEF ScanBegin, InBody, Invariant, TypeOK
  <2>2. Find(cache, call[t].path) \in Live(cache)
    BY <1>2, <2>1, FindFinds DEF CacheInv
  <2>3. /\ Len(ScannedDir(t)) \in Nat
        /\ Len(ScannedDir(t)) <= cache.num_entries
    BY <1>2, <2>2, ChainShort DEF ScanInv, ScannedDir
  <2>4. ScannedDir(t)' = ScannedDir(t)
    BY <2>1 DEF ScannedDir
  <2> QED BY <1>2, <2>1, <2>3, <2>4 DEF StepsLeft
<1>5. CASE ScanMember(t)
  <2>1. /\ pc[t] = "scanning" /\ pc'[t] = "scanning" /\ call' = call
        /\ cursor'[t] = cursor[t] + 1
        /\ cursor[t] <= Len(ScannedDir(t))
    BY <1>1, <1>5 DEF ScanMember, Invariant, TypeOK
  <2>2. cache'.ents = cache.ents
    <3>1. PICK e : cache' = Touch(cache, e)
      BY <1>5 DEF ScanMember
    <3> QED BY <1>2, <3>1 DEF Touch, CacheInv, CacheTypeOK
  <2>3. Find(cache', call'[t].path) = Find(cache, call[t].path)
    BY <2>1, <2>2 DEF Find, Live
  <2>4. ScannedDir(t)' = ScannedDir(t)
    BY <2>2, <2>3 DEF ScannedDir
  <2>5. Find(cache, call[t].path) \in Live(cache)
    BY <1>2, <2>1, FindFinds DEF Invariant, CacheInv, CallInv
  <2>6. Len(ScannedDir(t)) \in Nat
    BY <1>2, <2>5, ChainShort DEF ScanInv, ScannedDir
  <2> QED BY <1>2, <2>1, <2>4, <2>6 DEF StepsLeft
<1>6. CASE ~(ExpungeOne(t) \/ ScanBegin(t) \/ ScanMember(t))
  BY <1>1, <1>6 DEF Critical, InsertDone, InsertNoMemory, GetHit, Miss, ScanEnd,
                    Unlock
<1> QED BY <1>3, <1>4, <1>5, <1>6

\* Where the thread of a step under the mutex stands.
LEMMA CriticalHolds ==
  ASSUME Invariant, NEW t \in Threads, Critical(t)
  PROVE  lock = t
<1>1. pc[t] \in {"locked", "scanning"}
  BY DEF Critical, ExpungeOne, InsertDone, InsertNoMemory, GetHit, Miss,
         ScanBegin, ScanMember, ScanEnd, InBody
<1> QED BY <1>1 DEF Invariant, LockInv

\* No other step moves the holder.
LEMMA OthersDoNotCount ==
  ASSUME Invariant, [Next]_vars, NEW t \in Threads, lock = t, lock' = t,
         ~Critical(t)
  PROVE  StepsLeft(t)' = StepsLeft(t)
<1>1. /\ pc[t] \in {"locked", "scanning"} /\ t # NoThread /\ TypeOK
  BY CacheAssumption DEF Invariant, LockInv
<1> SUFFICES cache' = cache /\ pc'[t] = pc[t] /\ cursor'[t] = cursor[t]
             /\ call'[t] = call[t]
  BY DEF StepsLeft, ScannedDir
<1>2. CASE UNCHANGED vars \/ Tick
  BY <1>2 DEF vars, Tick
<1>3. ASSUME NEW u \in Threads, BeginCall(u)
      PROVE  cache' = cache /\ pc'[t] = pc[t] /\ cursor'[t] = cursor[t]
             /\ call'[t] = call[t]
  <2>1. PICK op, path, id, entry, now : Begin(u, op, path, id, entry, now)
    BY <1>3 DEF BeginCall, BeginInsertRoot, BeginScandir, BeginInsertMember,
                BeginInsertAttr, BeginGet, BeginInsert
  <2> QED BY <1>1, <2>1 DEF Begin, TypeOK
<1>4. ASSUME NEW u \in Threads, Acquire(u) PROVE FALSE
  BY <1>1, <1>4 DEF Acquire
<1>5. ASSUME NEW u \in Threads, Critical(u) PROVE FALSE
  BY <1>5, CriticalHolds
<1> QED BY <1>2, <1>3, <1>4, <1>5 DEF Next, CacheStep

(***************************************************************************)
(* For every limit: a call gives the mutex back after at most twice        *)
(* max_entries and two steps (peepfs_cache.h:106-116, 226-236).  Every     *)
(* turn of its loops counts, no other thread sets it back, and a chain is  *)
(* never longer than the cache is large.                                   *)
(***************************************************************************)
THEOREM MutexIsHeldBriefly == Spec => MutexHeldBriefly
<1>1. Invariant /\ ScanInv /\ [Next]_vars => [StepsTaken]_vars
  <2> SUFFICES ASSUME Invariant, ScanInv, [Next]_vars, NEW t \in Threads,
                      lock = t, lock' = t
               PROVE  /\ StepsLeft(t) \in 1 .. 2 * MaxEntries + 2
                      /\ IF Critical(t)
                         THEN StepsLeft(t)' \in 1 .. StepsLeft(t) - 1
                         ELSE StepsLeft(t)' = StepsLeft(t)
    BY DEF StepsTaken
  <2>1. pc[t] \in {"locked", "scanning"}
    BY DEF Invariant, LockInv
  <2> QED BY <2>1, StepsBounded, CriticalGetsCloser, OthersDoNotCount
<1> QED BY <1>1, InvariantHolds, ScanInvHolds, PTL DEF Spec, MutexHeldBriefly
=============================================================================
