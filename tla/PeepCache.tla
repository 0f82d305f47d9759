------------------------------ MODULE PeepCache ------------------------------
(***************************************************************************)
(* The metadata cache of one mount (src/src/peepfs_cache.h): a hash of     *)
(* entries keyed by path, two doubly linked lists threaded through the     *)
(* same entries (least recently used order and expiry order), and for      *)
(* every cached archive directory a singly linked list of its members.     *)
(* One mutex protects all of it; FUSE calls it from many threads.          *)
(*                                                                         *)
(* An entry is named by its id: cache->next_id only grows, so an id never  *)
(* comes back, and an id outside DOMAIN cache.ents is freed memory.        *)
(* What a call does under the mutex is cut into steps (expunge one entry,  *)
(* visit one directory member, the body of the call); the lock keeps the   *)
(* other threads' calls out from the first step to the last.               *)
(***************************************************************************)
EXTENDS Integers, FiniteSets, Sequences, SequencesExt

CONSTANTS
  Threads,     \* the FUSE worker threads
  Archives,    \* paths of archive files (archivepath)
  Names,       \* normalised member names inside an archive (relpath)
  NoArchive,   \* no archive named yet
  Root,        \* stands for relpath == NULL: the archive's own entry
  Metadata,    \* values of peepfs_archive_entry_t
  NoMetadata,  \* the zeroed entry that calloc leaves (entry == NULL)
  NoThread,    \* the mutex is free
  MaxEntries,  \* cache->max_entries, option -n
  Grace,       \* cache->grace, option -g
  AllocFails,  \* whether calloc may return NULL
  MaxTime,     \* bound: the clock stops here
  MaxId        \* bound: the last entry id handed out

ASSUME CacheAssumption ==
  /\ NoThread \notin Threads
  /\ Root \notin Names
  /\ NoArchive \notin Archives
  /\ MaxEntries \in Nat \ {0}
  /\ Grace \in Nat
  /\ AllocFails \in BOOLEAN
  /\ MaxTime \in Nat
  /\ MaxId \in Nat

VARIABLES
  cache,       \* struct peepfs_cache
  clock,       \* time(NULL), in seconds; assumed not to step back
  lock,        \* cache->lock: the thread that holds it
  pc,          \* where each thread is in its cache call
  call,        \* arguments and locals of each thread's call
  locked_at,   \* the "now" of __peepfs_cache_expunge in the thread's call
  cursor,      \* position of LL_FOREACH2 in peepfs_cache_scandir
  served,      \* entries copied or passed out by the thread's latest call
  reply,       \* what the thread's latest call returned
  dir_id       \* the archive and id of the thread's latest Root insert

vars == <<cache, clock, lock, pc, call, locked_at, cursor, served, reply,
          dir_id>>

NoId == 0
Ids == 1 .. MaxId

Paths == [archivepath : Archives, relpath : Names \cup {Root}]
RootPath(a) == [archivepath |-> a, relpath |-> Root]

(***************************************************************************)
(* born is a history field, the time at which the entry went in; dir is    *)
(* the chain that starts at the entry's next_by_dir.                       *)
(***************************************************************************)
EntryRecords ==
  [path : Paths, archive_id : Nat, expire : Int, born : Int,
   entry : Metadata \cup {NoMetadata}, dir : Seq(Nat)]

EmptyCache ==
  [ents |-> <<>>, lru |-> <<>>, expire |-> <<>>, next_id |-> 1,
   num_entries |-> 0]

-----------------------------------------------------------------------------
(* The data structure: every operator maps a cache to a cache.              *)

Live(c) == DOMAIN c.ents

\* HASH_FIND_STR: the entry with this path, or NULL.
Find(c, path) ==
  LET hits == {e \in Live(c) : c.ents[e].path = path}
  IN  IF hits = {} THEN NoId ELSE CHOOSE e \in hits : TRUE

\* DL_DELETE and DL_APPEND of an element e that is on the list.
DL_DELETE(s, e) == RemoveAt(s, CHOOSE i \in 1 .. Len(s) : s[i] = e)
MoveToTail(s, e) == Append(DL_DELETE(s, e), e)

Touch(c, e) == [c EXCEPT !.lru = MoveToTail(@, e)]

\* Mutation: the entry stays on the expiry list.
UnlinkLruOnly(c, e) ==
  [c EXCEPT !.ents = [x \in Live(c) \ {e} |-> c.ents[x]],
            !.lru = DL_DELETE(@, e),
            !.num_entries = @ - 1]

Unlink(c, e) ==
  [c EXCEPT !.ents = [x \in Live(c) \ {e} |-> c.ents[x]],
            !.lru = DL_DELETE(@, e),
            !.expire = DL_DELETE(@, e),
            !.num_entries = @ - 1]

\* Mutation: the directory of a deleted member stays.
KeepOwningDir(c, e) == NoId

\* ae of __peepfs_cache_delete: the live Root entry e was chained to.
OwningDir(c, e) ==
  LET ae == Find(c, RootPath(c.ents[e].path.archivepath))
  IN  IF c.ents[e].archive_id # NoId /\ ae = c.ents[e].archive_id
      THEN ae
      ELSE NoId

(***************************************************************************)
(* A member takes its directory's Root entry with it.  The recursion stops *)
(* there, because a Root entry is never inserted with an archive_id.       *)
(***************************************************************************)
Delete(c, e) ==
  LET ae == OwningDir(c, e)
  IN  IF ae = NoId THEN Unlink(c, e) ELSE Unlink(Unlink(c, ae), e)

\* Mutation: the older entry with the same path stays.
KeepOld(c, path) == c

DeleteOld(c, path) ==
  LET e == Find(c, path) IN IF e = NoId THEN c ELSE Delete(c, e)

\* Mutation: room is made one insert too late.
EvictLate(c) ==
  IF c.num_entries > MaxEntries THEN Delete(c, Head(c.lru)) ELSE c

Evict(c) ==
  IF c.num_entries = MaxEntries THEN Delete(c, Head(c.lru)) ELSE c

Add(c, id, path, archive_id, entry, expire, born) ==
  [c EXCEPT !.ents = [x \in Live(c) \cup {id} |->
                        IF x = id
                        THEN [path |-> path, archive_id |-> archive_id,
                              expire |-> expire, born |-> born,
                              entry |-> entry, dir |-> <<>>]
                        ELSE c.ents[x]],
            !.lru = Append(@, id),
            !.expire = Append(@, id),
            !.num_entries = @ + 1]

\* Mutation: LL_PREPEND2.
ChainFirst(c, id, archivepath, archive_id) ==
  LET ae == Find(c, RootPath(archivepath))
  IN  IF archive_id # NoId /\ ae = archive_id
      THEN [Touch(c, ae) EXCEPT !.ents[ae].dir = <<id>> \o @]
      ELSE c

\* LL_APPEND2(ae, e, next_by_dir), after ae has been moved to the lru tail.
Chain(c, id, archivepath, archive_id) ==
  LET ae == Find(c, RootPath(archivepath))
  IN  IF archive_id # NoId /\ ae = archive_id
      THEN [Touch(c, ae) EXCEPT !.ents[ae].dir = Append(@, id)]
      ELSE c

\* peepfs_cache_insert up to calloc: takes an id, makes room.
MakeRoom(c, path) ==
  Evict(DeleteOld([c EXCEPT !.next_id = @ + 1], path))

\* Mutation: a member joins the directory that is cached now.
InsertAdopted(c, path, archive_id, entry, expire, born) ==
  LET room == MakeRoom(c, path)
      dir == IF archive_id = NoId THEN NoId
             ELSE Find(room, RootPath(path.archivepath))
  IN  Chain(Add(room, c.next_id, path, dir, entry, expire, born),
            c.next_id, path.archivepath, dir)

\* peepfs_cache_insert from calloc on.
Insert(c, path, archive_id, entry, expire, born) ==
  Chain(Add(MakeRoom(c, path), c.next_id, path, archive_id, entry, expire,
            born),
        c.next_id, path.archivepath, archive_id)

-----------------------------------------------------------------------------
(* A cache call of one thread.                                             *)

NoCall == [op |-> "none", path |-> RootPath(NoArchive),
           archive_id |-> NoId, entry |-> NoMetadata, now |-> 0]

NoReply == [error |-> 0, id |-> NoId]

\* Up to pthread_mutex_lock; only an insert reads the time before it.
Begin(t, op, path, archive_id, entry, now) ==
  /\ pc[t] = "idle"
  /\ pc' = [pc EXCEPT ![t] = "waiting"]
  /\ call' = [call EXCEPT ![t] =
                [op |-> op, path |-> path, archive_id |-> archive_id,
                 entry |-> entry, now |-> now]]
  /\ served' = [served EXCEPT ![t] = <<>>]
  /\ locked_at' = [locked_at EXCEPT ![t] = 0]
  /\ reply' = [reply EXCEPT ![t] = NoReply]
  /\ UNCHANGED <<cache, clock, lock, cursor, dir_id>>

\* Bound: every insert that has begun will find an id left.
IdsLeft == cache.next_id + Cardinality({u \in Threads : call[u].op = "insert"})
             \in Ids

BeginInsert(t, path, archive_id, entry) ==
  IdsLeft /\ Begin(t, "insert", path, archive_id, entry, clock)

\* peepfs_readdir announces the directory it is about to enumerate.
BeginInsertRoot(t, a) ==
  BeginInsert(t, RootPath(a), NoId, NoMetadata)

\* peepfs_readdir_callback, one member of that directory.
BeginInsertMember(t, name, entry) ==
  /\ dir_id[t].archivepath \in Archives
  /\ BeginInsert(t, [archivepath |-> dir_id[t].archivepath,
                       relpath |-> name], dir_id[t].id, entry)

\* peepfs_getattr, after a miss.
BeginInsertAttr(t, a, name, entry) ==
  BeginInsert(t, [archivepath |-> a, relpath |-> name], NoId, entry)

BeginGet(t, a, name) ==
  Begin(t, "get", [archivepath |-> a, relpath |-> name], NoId, NoMetadata, 0)

BeginScandir(t, a) ==
  Begin(t, "scandir", RootPath(a), NoId, NoMetadata, 0)

\* Mutation: nobody waits for the mutex.
AcquireAny(t) ==
  /\ pc[t] = "waiting"
  /\ lock' = t
  /\ pc' = [pc EXCEPT ![t] = "locked"]
  /\ locked_at' = [locked_at EXCEPT ![t] = clock]
  /\ UNCHANGED <<cache, clock, call, cursor, served, reply, dir_id>>

\* pthread_mutex_lock returns and __peepfs_cache_expunge reads the time.
Acquire(t) ==
  /\ pc[t] = "waiting"
  /\ lock = NoThread
  /\ lock' = t
  /\ pc' = [pc EXCEPT ![t] = "locked"]
  /\ locked_at' = [locked_at EXCEPT ![t] = clock]
  /\ UNCHANGED <<cache, clock, call, cursor, served, reply, dir_id>>

\* Mutation: the time read before the mutex was taken, if any.
HeadExpiredEarlier(t) ==
  /\ cache.expire # <<>>
  /\ cache.ents[Head(cache.expire)].expire < call[t].now

HeadExpired(t) ==
  /\ cache.expire # <<>>
  /\ cache.ents[Head(cache.expire)].expire < locked_at[t]

\* One turn of the loop of __peepfs_cache_expunge.
ExpungeOne(t) ==
  /\ pc[t] = "locked"
  /\ HeadExpired(t)
  /\ cache' = Delete(cache, Head(cache.expire))
  /\ UNCHANGED <<clock, lock, pc, call, locked_at, cursor, served, reply,
                 dir_id>>

InBody(t, op) == pc[t] = "locked" /\ ~HeadExpired(t) /\ call[t].op = op

\* pthread_mutex_unlock and return: the call's locals are gone.
Unlock(t, error, id) ==
  /\ lock' = NoThread
  /\ pc' = [pc EXCEPT ![t] = "idle"]
  /\ reply' = [reply EXCEPT ![t] = [error |-> error, id |-> id]]
  /\ call' = [call EXCEPT ![t] = NoCall]
  /\ cursor' = [cursor EXCEPT ![t] = 0]
  /\ UNCHANGED <<clock, locked_at>>

\* The caller keeps the id of a Root entry in readdir_ctx.archive_id.
RememberDir(t, id) ==
  dir_id' = IF call[t].path.relpath = Root
            THEN [dir_id EXCEPT ![t] =
                    [archivepath |-> call[t].path.archivepath, id |-> id]]
            ELSE dir_id

InsertDone(t) ==
  /\ InBody(t, "insert")
  /\ cache' = Insert(cache, call[t].path, call[t].archive_id, call[t].entry,
                     call[t].now + Grace, locked_at[t])
  /\ Unlock(t, 0, cache.next_id)
  /\ RememberDir(t, cache.next_id)
  /\ UNCHANGED served

\* calloc returned NULL: what was deleted to make room stays deleted.
InsertNoMemory(t) ==
  /\ AllocFails
  /\ InBody(t, "insert")
  /\ cache' = MakeRoom(cache, call[t].path)
  /\ Unlock(t, 0, NoId)
  /\ RememberDir(t, NoId)
  /\ UNCHANGED served

GetHit(t) ==
  /\ InBody(t, "get")
  /\ LET e == Find(cache, call[t].path)
     IN  /\ e # NoId
         /\ served' = [served EXCEPT ![t] = <<cache.ents[e]>>]
         /\ cache' = Touch(cache, e)
  /\ Unlock(t, 0, NoId)
  /\ UNCHANGED dir_id

\* Mutation: a return without pthread_mutex_unlock.
MissKeepsLock(t) ==
  /\ InBody(t, "get") \/ InBody(t, "scandir")
  /\ Find(cache, call[t].path) = NoId
  /\ pc' = [pc EXCEPT ![t] = "idle"]
  /\ reply' = [reply EXCEPT ![t] = [error |-> -1, id |-> NoId]]
  /\ call' = [call EXCEPT ![t] = NoCall]
  /\ UNCHANGED <<cache, clock, lock, locked_at, cursor, served, dir_id>>

\* peepfs_cache_get or peepfs_cache_scandir finds nothing.
Miss(t) ==
  /\ InBody(t, "get") \/ InBody(t, "scandir")
  /\ Find(cache, call[t].path) = NoId
  /\ Unlock(t, -1, NoId)
  /\ UNCHANGED <<cache, served, dir_id>>

ScanBegin(t) ==
  /\ InBody(t, "scandir")
  /\ Find(cache, call[t].path) # NoId
  /\ pc' = [pc EXCEPT ![t] = "scanning"]
  /\ cursor' = [cursor EXCEPT ![t] = 1]
  /\ UNCHANGED <<cache, clock, lock, call, locked_at, served, reply, dir_id>>

ScannedDir(t) == cache.ents[Find(cache, call[t].path)].dir

\* Mutation: LL_FOREACH2 comes back to the member it has just handed out.
ScanMemberAgain(t) ==
  /\ pc[t] = "scanning"
  /\ cursor[t] <= Len(ScannedDir(t))
  /\ LET e == ScannedDir(t)[cursor[t]]
     IN  /\ cache' = Touch(cache, e)
         /\ served' = [served EXCEPT ![t] = Append(@, cache.ents[e])]
  /\ UNCHANGED <<clock, lock, pc, call, locked_at, cursor, reply, dir_id>>

\* One turn of LL_FOREACH2: the enum callback always returns 0.
ScanMember(t) ==
  /\ pc[t] = "scanning"
  /\ cursor[t] <= Len(ScannedDir(t))
  /\ LET e == ScannedDir(t)[cursor[t]]
     IN  /\ cache' = Touch(cache, e)
         /\ served' = [served EXCEPT ![t] = Append(@, cache.ents[e])]
  /\ cursor' = [cursor EXCEPT ![t] = @ + 1]
  /\ UNCHANGED <<clock, lock, pc, call, locked_at, reply, dir_id>>

ScanEnd(t) ==
  /\ pc[t] = "scanning"
  /\ cursor[t] > Len(ScannedDir(t))
  /\ cache' = Touch(cache, Find(cache, call[t].path))
  /\ Unlock(t, 0, NoId)
  /\ UNCHANGED <<served, dir_id>>

Tick ==
  /\ clock < MaxTime
  /\ clock' = clock + 1
  /\ UNCHANGED <<cache, lock, pc, call, locked_at, cursor, served, reply,
                 dir_id>>

-----------------------------------------------------------------------------
Init ==
  /\ cache = EmptyCache
  /\ clock = 0
  /\ lock = NoThread
  /\ pc = [t \in Threads |-> "idle"]
  /\ call = [t \in Threads |-> NoCall]
  /\ locked_at = [t \in Threads |-> 0]
  /\ cursor = [t \in Threads |-> 0]
  /\ served = [t \in Threads |-> <<>>]
  /\ reply = [t \in Threads |-> NoReply]
  /\ dir_id = [t \in Threads |-> [archivepath |-> NoArchive, id |-> NoId]]

BeginCall(t) ==
  \/ \E a \in Archives : BeginInsertRoot(t, a) \/ BeginScandir(t, a)
  \/ \E name \in Names, m \in Metadata : BeginInsertMember(t, name, m)
  \/ \E a \in Archives, name \in Names, m \in Metadata :
       BeginInsertAttr(t, a, name, m)
  \/ \E a \in Archives, name \in Names : BeginGet(t, a, name)

\* The steps of a thread between pthread_mutex_lock and _unlock.
Critical(t) ==
  \/ ExpungeOne(t)
  \/ InsertDone(t)
  \/ InsertNoMemory(t)
  \/ GetHit(t)
  \/ Miss(t)
  \/ ScanBegin(t)
  \/ ScanMember(t)
  \/ ScanEnd(t)

CacheStep(t) == Acquire(t) \/ Critical(t)

Next == Tick \/ \E t \in Threads : BeginCall(t) \/ CacheStep(t)

Spec == Init /\ [][Next]_vars

-----------------------------------------------------------------------------
(* What the cache must keep true whatever calls the threads make.          *)

\* s lists every element of S once.
IsListOf(s, S) ==
  /\ s \in Seq(S)
  /\ \A e \in S : \E i \in 1 .. Len(s) : s[i] = e
  /\ \A i, j \in 1 .. Len(s) : s[i] = s[j] => i = j

CacheTypeOK(c) ==
  /\ DOMAIN c = {"ents", "lru", "expire", "next_id", "num_entries"}
  /\ c.next_id \in Nat \ {0}
  /\ c.ents \in [Live(c) -> EntryRecords]
  /\ Live(c) \subseteq 1 .. c.next_id - 1
  /\ c.lru \in Seq(Nat)
  /\ c.expire \in Seq(Nat)
  /\ c.num_entries \in Nat

CallType ==
  [op : {"none", "insert", "get", "scandir"},
   path : Paths \cup {RootPath(NoArchive)}, archive_id : Nat,
   entry : Metadata \cup {NoMetadata}, now : Nat]

\* The type invariant of the module's variables.
TypeOK ==
  /\ CacheTypeOK(cache)
  /\ clock \in Nat
  /\ lock \in Threads \cup {NoThread}
  /\ pc \in [Threads -> {"idle", "waiting", "locked", "scanning"}]
  /\ call \in [Threads -> CallType]
  /\ locked_at \in [Threads -> Nat]
  /\ cursor \in [Threads -> Nat]
  /\ served \in [Threads -> Seq(EntryRecords)]
  /\ reply \in [Threads -> [error : {0, -1}, id : Nat]]
  /\ dir_id \in
       [Threads -> [archivepath : Archives \cup {NoArchive}, id : Nat]]

Listed(c) ==
  /\ IsListOf(c.lru, Live(c))
  /\ IsListOf(c.expire, Live(c))
  /\ IsFiniteSet(Live(c))
  /\ c.num_entries = Cardinality(Live(c))

(***************************************************************************)
(* The two lists, the hash and the counter describe the same entries: an   *)
(* entry that left one structure left all of them (peepfs_cache.h:84-93),  *)
(* so the head that eviction or expiry picks is never freed memory.        *)
(***************************************************************************)
ListsAgree == Listed(cache)

(***************************************************************************)
(* The cache never holds more than max_entries, although the test for room *)
(* is an equality (peepfs_cache.h:148): one insert too many and it would   *)
(* never evict again.                                                      *)
(***************************************************************************)
Bounded == cache.num_entries <= MaxEntries

UniquePaths(c) ==
  \A e, f \in Live(c) : c.ents[e].path = c.ents[f].path => e = f

(***************************************************************************)
(* uthash does not refuse a second entry with the same key; a stale double *)
(* would be found again after the newer one is deleted.                    *)
(***************************************************************************)
OnePerPath == UniquePaths(cache)

ChainsSound(c) ==
  \A h \in Live(c) : \A i \in 1 .. Len(c.ents[h].dir) :
    LET e == c.ents[h].dir[i]
    IN  /\ e \in Live(c)
        /\ c.ents[e].archive_id = h
        /\ c.ents[e].path.archivepath = c.ents[h].path.archivepath

(***************************************************************************)
(* No member chain leads to freed memory.  Deleting a member leaves the    *)
(* chain it is on as it is (peepfs_cache.h:84-91) and relies on the Root   *)
(* entry, from which alone the chain is reached, being deleted as well.    *)
(***************************************************************************)
DirChainsSound == ChainsSound(cache)

(***************************************************************************)
(* What peepfs_cache_get and peepfs_cache_scandir hand out went into the   *)
(* cache at most "grace" seconds before the call got the lock, even when   *)
(* threads read the time and take the lock in different orders, so that    *)
(* the list by expiry is not sorted by expiry (peepfs_cache.h:127, 177).   *)
(***************************************************************************)
ServedInGrace ==
  \A t \in Threads : \A i \in 1 .. Len(served[t]) :
    served[t][i].born + Grace >= locked_at[t]

(***************************************************************************)
(* A directory scan hands out members of one enumeration of one archive:   *)
(* members that two readdirs cached for the same archive never mix.        *)
(***************************************************************************)
ScanServesOneDir ==
  \A t \in Threads : \A i, j \in 1 .. Len(served[t]) :
    i # j => /\ served[t][i].archive_id = served[t][j].archive_id
             /\ served[t][i].archive_id # NoId
             /\ served[t][i].path # served[t][j].path

ScanStable ==
  \A t \in Threads :
    pc[t] = "scanning" /\ pc'[t] = "scanning"
      => /\ Find(cache', call[t].path) # NoId
         /\ ScannedDir(t)' = ScannedDir(t)

(***************************************************************************)
(* While a thread walks a directory under the lock, the directory stays in *)
(* the cache and its chain stays as it was (the walk keeps raw pointers).  *)
(***************************************************************************)
ScanUndisturbed == [][ScanStable]_vars

\* How many steps the holder of the mutex takes at most until it unlocks.
StepsLeft(t) ==
  IF pc[t] = "scanning" THEN Len(ScannedDir(t)) + 2 - cursor[t]
                        ELSE 2 * cache.num_entries + 2

StepsTaken ==
  \A t \in Threads :
    lock = t /\ lock' = t =>
      /\ StepsLeft(t) \in 1 .. 2 * MaxEntries + 2
      /\ IF Critical(t) THEN StepsLeft(t)' \in 1 .. StepsLeft(t) - 1
                        ELSE StepsLeft(t)' = StepsLeft(t)

(***************************************************************************)
(* No thread stays under the one mutex of the mount for longer than        *)
(* max_entries allows: each turn of the loop that expires entries and of   *)
(* the walk along a chain brings the unlock closer, whatever the others    *)
(* do, and no chain is longer than the cache is large.                     *)
(***************************************************************************)
MutexHeldBriefly == [][StepsTaken]_vars

-----------------------------------------------------------------------------
(* What all of this promises to the callers: MetadataStore.                *)

\* The live entries, without what only the lists need.
StoreOf(c) ==
  [e \in Live(c) |->
     [path |-> c.ents[e].path, dir |-> c.ents[e].archive_id,
      entry |-> c.ents[e].entry, born |-> c.ents[e].born,
      members |-> c.ents[e].dir]]

StoreAsked ==
  [t \in Threads |-> [op |-> call[t].op, path |-> call[t].path,
                      dir |-> call[t].archive_id, entry |-> call[t].entry]]

StoreStage ==
  [t \in Threads |-> CASE pc[t] = "idle" -> "idle"
                       [] pc[t] = "waiting" -> "asked"
                       [] OTHER -> "attended"]

Copies(entries) ==
  [i \in 1 .. Len(entries) |->
     [path |-> entries[i].path, dir |-> entries[i].archive_id,
      entry |-> entries[i].entry]]

\* What a call has handed out counts once it has returned.
StoreTold ==
  [t \in Threads |->
     [error |-> reply[t].error, id |-> reply[t].id,
      entries |-> IF pc[t] = "idle" THEN Copies(served[t]) ELSE <<>>]]

Store == INSTANCE MetadataStore
           WITH store <- StoreOf(cache), next_id <- cache.next_id,
                asked <- StoreAsked, stage <- StoreStage,
                since <- locked_at, told <- StoreTold

(***************************************************************************)
(* Every cache call happens at one moment, although it is many steps under *)
(* a mutex, and means what its caller expects: a get finds the latest      *)
(* insert under its path or nothing, a scan hands out every member put so  *)
(* far in the directory that is cached, in order and none missing, and a   *)
(* failing insert or an eviction never leaves half a directory behind.     *)
(***************************************************************************)
StoreSpec == Store!Spec

-----------------------------------------------------------------------------
(* The inductive invariant behind the safety properties.                   *)

\* Only a Root entry heads a chain, and a Root entry is on no chain.
RootsOnTop(c) ==
  \A e \in Live(c) :
    /\ c.ents[e].path.relpath = Root => c.ents[e].archive_id = NoId
    /\ c.ents[e].dir # <<>> => c.ents[e].path.relpath = Root

\* cache->expire is sorted by the time of the insert, not by expire.
Aged(c) ==
  /\ \A i, j \in 1 .. Len(c.expire) :
       i <= j => c.ents[c.expire[i]].born <= c.ents[c.expire[j]].born
  /\ \A e \in Live(c) : c.ents[e].expire <= c.ents[e].born + Grace

BornBy(c, time) == \A e \in Live(c) : c.ents[e].born <= time

CacheInv(c) ==
  /\ CacheTypeOK(c)
  /\ Listed(c)
  /\ UniquePaths(c)
  /\ ChainsSound(c)
  /\ RootsOnTop(c)
  /\ Aged(c)

LockInv ==
  \A t \in Threads : pc[t] \in {"locked", "scanning"} <=> lock = t

CallInv ==
  \A t \in Threads :
    /\ call[t].op # "none" => call[t].path \in Paths
    /\ call[t].path.relpath = Root => call[t].archive_id = NoId
    /\ pc[t] = "scanning" => /\ call[t].op = "scandir"
                             /\ Find(cache, call[t].path) # NoId
                             /\ cursor[t] >= 1

TimeInv ==
  /\ BornBy(cache, clock)
  /\ \A t \in Threads :
       /\ call[t].now <= clock
       /\ locked_at[t] <= clock
       /\ lock = t => /\ BornBy(cache, locked_at[t])
                      /\ call[t].now <= locked_at[t]

ServedInv ==
  /\ ServedInGrace
  /\ \A t \in Threads :
       /\ pc[t] \in {"waiting", "locked"} => served[t] = <<>>
       /\ pc[t] = "scanning" => ~HeadExpired(t)

(***************************************************************************)
(* Holds initially and is kept by every step; the safety properties above  *)
(* follow from it.                                                         *)
(***************************************************************************)
Invariant ==
  /\ TypeOK
  /\ CacheInv(cache)
  /\ Bounded
  /\ LockInv
  /\ CallInv
  /\ TimeInv
  /\ ServedInv
=============================================================================
