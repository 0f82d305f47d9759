# A TLA+ verification project for peepfs

peepfs is a FUSE file system (C, about 2300 lines without its vendored headers)
over a base directory.  For every archive file in it, say `x.zip`, it shows a
directory `x.zip.peep` with the archive's contents, read on the fly through
libzip (for `.zip`) or libarchive (for the rest).  This directory holds
specifications of what the program does, translated from its source, TLC
configurations that check them, and TLAPS proofs.

Line numbers below are those of the files in `src/src/`; `PROJECT.json` maps
every definition to the lines that it models.

## 1. Inventory

### Components

| component | source | state | operations |
|---|---|---|---|
| metadata cache | `peepfs_cache.h` | a hash of entries by path; two doubly linked lists (`lru`, `expire`); per cached archive a singly linked chain of members (`next_by_dir`); `num_entries`, `next_id`; one mutex | `init`, `free`, `insert`, `get`, `scandir`, and inside them delete, evict, expunge |
| getattr and readdir in archives | `peepfs.c:283-567` | locals of the handler only | `peepfs_getattr`, `peepfs_readdir`, `peepfs_readdir_callback` |
| archive layer | `peepfs_archive.[ch]` | the kind of handle: libzip or libarchive | `open`, `enumerate`, `entry_open`, `entry_close`, `file_open`, `file_read`, `file_close`, `close` |
| libarchive reader | `peepfs_libarchive.c` | per archive the file name and a stream; per open file a stream, `index`, `offset`, sticky `error`, a mutex | the same, and `__peepfs_libarchive_open`, which opens by name and walks to a member |
| libzip reader | `peepfs_libzip.c` | per archive the `zip_t` and a mutex; per open file `zipfile`, `seekable`, `offset`, sticky `error` | the same |
| open-file lifecycle | `peepfs.c:663-800, 1121-1179` | `peepfs_cookie_t` in `fi->fh`: a descriptor, or archive and open file | `open`, `create`, `read`, `write`, `release` |
| path routing | `peepfs.c:129-218` | none: a function of the path and of the base file system | `peepfs_static_archive_path`, `peepfs_archive_ident` |
| pass-through operations | `peepfs.c:570-662, 802-1120, 1181-1297` | none | `mkdir`, `mknod`, `rmdir`, `rename`, `unlink`, `link`, `symlink`, `readlink`, `utimens`, `chmod`, `chown`, `access`, `truncate`, `statfs`, `listxattr`, `getxattr`: one system call each, behind path routing |
| mount set-up and options | `peepfs.c:220-281, 1299-1468` | the `peepfs_t` of the mount; a context per thread | `main`, `peepfs_init`, `peepfs_destroy`, `peepfs_get_ctx` |
| inode numbers | `peepfs.c:111-115` | none | `peepfs_compose_ino` |
| intrusive containers | `utlist.h`, `uthash.h` (vendored) | the pointers in the entries | `DL_APPEND`, `DL_DELETE`, `LL_APPEND`, `HASH_ADD`, `HASH_FIND`, `HASH_DELETE` |

### How they interact

libfuse calls the handlers from several threads.  A handler routes its path: to
the base file system, or to an archive file and a member name.  Inside an
archive, getattr asks the cache for the member and on a miss opens the archive,
finds the member and inserts its attributes.  readdir asks the cache to walk the
archive's directory; on a miss it opens the archive, inserts the archive's *Root*
entry (the one with no member name), enumerates the members and inserts each of
them with the Root entry's id, which puts it on the Root entry's chain.  An open
archive file holds an archive handle and a stream of its own, with a mutex that
serialises the reads on it.  The cache's mutex is taken in each cache call and
never held across two; the walk calls back into readdir with it held.

Nothing is persistent and no messages are sent: the process may crash, but there
is no recovery, and a new mount starts empty.  What happens outside the process
is that programs change, replace or remove archive files in the base file system
at any time.

### What is hard, and what makes each component correct

*Metadata cache.*  An entry is in up to four structures at once, and eviction,
expiry, replacement and the deletion of a directory each have to take it out of
all of them.  Deleting a member leaves the chain it is on untouched, and depends
on the Root entry being deleted in the same call.  An insert reads the time
before it waits for the mutex, so the expiry list is *not* sorted by expiry.  The
room check is an equality.  Correct means: the structures agree, no chain leads
to freed memory, at most one entry per path, never more than `max_entries`,
nothing older than the grace period handed out, a walked directory stays as it is.

*getattr and readdir.*  Between the cache calls of one handler nothing is held:
other readdirs of the same archive enumerate at the same time, other getattrs
insert over listed members, entries expire, the archive file changes.  Correct
means: a listing is the directory of one version of the archive, and complete;
attributes are those of the member that was asked for; a member that is there is
not reported missing; every request is answered.

*libarchive and libzip readers.*  A forward-only stream serves reads at arbitrary
offsets: skip forward, or (libarchive) open again and start over, or (libzip)
seek, and restart when the seek fails.  Three pieces of code move the file's
offset, and each of them has error exits.  Correct means: a read returns the
bytes at its own offset, of one version of the archive, and ends.

*Open-file lifecycle.*  `peepfs_open` of a member goes to the archive three times:
open the archive, look the name up, open the member by the index that was found.
libarchive opens the archive file by name each time, and again when a read goes
backwards, so the index may meet another version.  Each failure on the way frees
another part, and `release` must free what `open` and failed restarts left.
Correct means: what is open is what the cookies of open files own; an open file
reads the member of the name it was opened by; a member that is there is found.

*Path routing and pass-through.*  Whether a path leads into an archive is decided
by one `lstat` per occurrence of the suffix, and the base file system may change
between these and before the call that follows.  The path buffers belong to the
thread.  Correct means: no call is made on a path that was behind a regular file
all the while, none is refused for another thread's path, each call is the one
that was asked for, and readdir shows what getattr finds, with the same inode
numbers.  *Inode numbers*: distinct files, distinct numbers.  *Set-up*: options
within the range that the cache works for.

`PROJECT.json` lists each hazard at its line, with the properties that cover it,
or why none does.

## 2. Modules

| module | what it is |
|---|---|
| `PeepCache` | the cache: data-structure operators, the calls of each thread step by step, properties, inductive invariant |
| `MetadataStore` | abstract: what the cache promises its callers, a store of records that may forget |
| `PeepCacheProofs` | TLAPS proofs of the cache's invariant and of the safety properties |
| `PeepCacheScanProofs` | TLAPS proofs of what a walk of a cached directory hands out, of the refinement of `MetadataStore`, and that the mutex is not held for long |
| `PeepMount` | getattr and readdir in archives, extending the cache with the handlers, the archive layer and the archive files on disk |
| `PeepMountFresh` | `PeepMount` with a history variable: until when an archive's replaced file may still be answered about |
| `PeepMountProofs` | TLAPS proof that the handlers' system implements `PeepCache`'s specification |
| `PeepMountListingProofs` | TLAPS proofs of what getattr and readdir answer, how long they may be of a replaced file, that their steps bring the answer closer, and what findings 2 and 3 take |
| `BaseFiles` | external: names and inodes of the base file system, and what system calls do to them |
| `AsIs` | abstract: what a program that calls the base file system itself is promised, as a relation between request, error, and the base before and after |
| `Namespace` | path routing, the handlers that make one system call, base listings, inode numbers |
| `NamespaceProofs` | TLAPS proofs of its invariants, of `CallsAsAsked` and of `OneTree` |
| `RandomAccess` | abstract: what an open file inside an archive promises its readers |
| `LibarchiveFile` | an open file read with libarchive, shown to implement `RandomAccess` |
| `LibzipFile` | an open file read with libzip, shown to implement `RandomAccess` |
| `LibarchiveFileProofs`, `LibzipFileProofs` | TLAPS proofs of both refinements, of the readers' invariants, that their reads come closer to their end, and what finding 4 takes |
| `OpenFiles` | open, create, read and release: what a file holds, and which member it is about |
| `OpenFilesProofs` | TLAPS proofs of its safety properties |
| `MCPeepCache`, `MCPeepMount`, `MCPeepMountFresh`, `MCLibarchiveFile`, `MCOpenFiles`, `MCNamespace` | values and symmetry sets for TLC |

Definitions commented "Mutation" are plausible bugs in the operator that follows
them.  No specification uses them; each property is known to fail when one of
them takes the place of the operator (`PROJECT.json`, "mutants").

### PeepCache

State: `cache` is `struct peepfs_cache`.  `cache.ents` is the heap and the hash
in one, a function from entry ids to entries: ids come from `next_id`, which only
grows, so an id outside `DOMAIN cache.ents` is a freed entry.  `cache.lru` and
`cache.expire` are the two lists as sequences of ids.  The chain that starts at
an entry's `next_by_dir` is the entry's field `dir`.  A path is a record of
archive and member name, or of the archive and `Root` for `relpath == NULL`.
`born` is a history field: the time at which the entry went in.

`Delete`, `Evict`, `Add`, `Chain`, `MakeRoom`, `Insert`, `Touch` are the
functions of `peepfs_cache.h`, from cache to cache.  A call of thread `t` goes

    Begin...  ->  Acquire  ->  ExpungeOne*  ->  InsertDone | InsertNoMemory
                                              | GetHit | Miss
                                              | ScanBegin, ScanMember*, ScanEnd

`Begin...` is the code up to `pthread_mutex_lock`; for an insert this reads the
clock.  `Acquire` takes the mutex and reads the clock again, as
`__peepfs_cache_expunge` does first.  `ExpungeOne` is one turn of its loop,
enabled until the head has not expired, so that the body comes only after the
last.  Each of the bodies ends in `Unlock`.  Other threads' `Begin`s and the
clock come in between any two steps; the mutex keeps their `Acquire`s out.

`AllocFails` adds `calloc` returning NULL after room was made: what was deleted
stays deleted, the caller gets success and id 0, and the later members of that
directory are not chained.

### MetadataStore

What the callers of the cache may rely on, without its lists, its limit and its
mutex: a record per path; a call happens at one moment between its start and its
return, at the time `since`; what it hands out is not older than the grace period
then; a Root record is remembered only together with every member that was put
under it, in their order (`Closed`), so that a walk gives all of them or misses.
The store may `Forget` anything else in between.  `PeepCache`'s `Store` maps the
cache to it: the chain of an entry is the record's `members`, an expunged or evicted
entry is a forgotten one, and a walk happens at its last step, which is the reason
why it has to be shown that what it copied before is still what is there.

### PeepMount

Extends `PeepCache`: its steps are the cache's own (`Acquire`, `Critical`, the
`Begin...` operators as the beginning of a handler's step) together with those of
the handler.  `at[t]` is the place in the handler and `pc[t]` the place in its
cache call; the handler goes on when the call is back.

- getattr: `Getattr` (get), `GetattrHit`, or `GetattrMiss` (open the archive),
  then `EntryOpen` (first member of that name; insert), `EntryMissing` (ENOENT) or
  `NullArchive` (there is no archive: the process crashes), `GetattrCached`.
- readdir: `Readdir` (walk), `ReaddirHit`, or `ReaddirMiss` (open), `CacheRoot`
  (insert the Root entry), `Enumerate` or `NothingToEnumerate`, then per member
  `CacheMember` (insert) and `FillMember` (give the name to FUSE if it is directly
  in the directory), `EnumerateDone`.
- outside: `Rewrite` gives an archive file a new version: another archive, a
  file that is none, or nothing (removed).

A zip handle is the version it opened: a replaced file keeps its old inode while
it is open.  A libarchive handle is only the name, and each operation opens it
again (`ByName`, `Source`).  Attributes are the version and the position of the
member they were read from, which is all the properties tell apart.  `Parent`
says in which directory a member's name puts it.  What readdir gives to FUSE is a
set of names: order and repetition are not told apart.

### PeepMountFresh

Nothing in the code asks whether an archive has changed since its entries went into
the cache; that they are forgotten after the grace period is all there is.  But the
period counts from when an entry went in, and a readdir that opened the archive before
it was replaced goes on inserting what it reads from the old file, as long as it takes.
The history variable `unsettled` is, for each archive, the last time at which it was
replaced or a request from before its last replacement was still being served
(`Behind`).  `UpToDate` says that one grace period after that, getattr and readdir
answer only what is so of the file on disk, and that readdir answers exactly the
directory in it where one thread serves readdir, memory suffices and archives can be
read (`Unhindered`).  (Without `Behind` TLC shows a slow reader
that puts old entries in after the period is over.)

### BaseFiles, AsIs, Namespace

A path is a sequence of words, slashes and occurrences of the suffix; cutting the
string at an occurrence is cutting the sequence.  `BaseFiles` is a base file system
`b`: `b.at` from paths to inodes, `b.node` what each inode is, and the system calls
as operators that give the base afterwards, an errno and a length.  It is external,
as far as peepfs uses it: one level of symbolic links, no permissions.

`AsIs` is the other side of "passed through as-is".  It does not use the operators
that carry the calls out: `AsAsked` relates the base before a call, the base after
it and its error to what was asked, by what stands in a request's way (`Obstacle`,
`Missing`) and by what is different under which names afterwards (`Effect`).  A
request is about the object that its path names, be it a symbolic link, and keeps
to what it is about (`Confined`).  `CallsAsAsked` holds the handlers to both; where
the code is known to do otherwise (`Altered`), to `Confined` only.

    Begin -> TryNext* -> LeadsInside -> Refuse | GetattrInside | ReaddirInside | AccessInside
                       | LeadsToBase [-> the second path of rename, link]
                                   -> Mkdir | ... | Getxattr | Getattr
                                   -> Opendir -> FillEntry* -> Closedir

`Begin` composes the paths into the buffers of the thread's context (`ctx`), and
`TryNext` is a turn of `peepfs_static_archive_path`: the next place where `strstr`
finds the suffix (`token`), and an `lstat` of what is before it.  A step is one
system call; between two, other threads make theirs and other programs change the
base (`Other`).  A handler clears its buffers when it answers: nothing reads them
after that.  `Utimens` gives EINVAL for `UTIME_NOW` and `UTIME_OMIT`, `Xattr` takes a
length for an error and answers it with an old errno, and `RenameFile` passes over
`RENAME_NOREPLACE`, as the code does.

`always` and `ever` are history: which places in the request's paths were behind
a regular file all the time since it came, and which at some time.  One `lstat` at a
time cannot do better than refuse only what is in `ever` and pass only what is not
in `always`.  `still` is TRUE while the base has not changed since the request.

### RandomAccess, LibarchiveFile, LibzipFile

Bytes are named by version and position, so data is a run `[version, from, len]`
and the promise is that the answer to a read at `offset` is a run from `offset`,
of one version of the file, or an error.  The detailed modules keep `offset`,
`error`, the stream and the mutex; one step is a turn of the skipping loop, a
restart, a seek, or the read.  `archive_read_data` and `zip_fread` are modelled
as external: any number of bytes up to what was asked for, none only at the end,
or an error when `damaged`.  Restarting in a libarchive file opens the file by name,
hence whatever version is there, and the search for a member by index succeeds
one past the last one as well (`OpenAt`), giving a stream that cannot be read.

### OpenFiles

`cookie[f]` is the `peepfs_cookie_t` in `fi->fh` with what its pointers lead to:
a descriptor, or an archive handle, the index of the member, and a file with its
stream.  `live` counts what is allocated or open, as `calloc`, `open` and the
libraries' open functions raise it, and `free` and the close functions lower it;
the cookies do not determine it, which is what `NothingLeaks` is about.
`request[f]` is a history field: the name, and the version that was on disk when
the open began.

    OpenBase | OpenBaseFails | WriteRefused
    OpenMember -> ArchiveOpen -> EntryOpen -> FileOpen -> reads -> Release...

with a failing twin of each call, which frees what there is so far.  Reads are
only there as far as they change what the file holds (`ReadRestarts`,
`ReadRestartFails`, `ReadSkipFails`); where in the member they are is the subject
of `LibarchiveFile` and `LibzipFile`.  `Rewrite` may come between any two steps.
An archive handle is a version (libzip) or the name (`ByName`, libarchive).

A restart that fails leaves a NULL stream.  `archive_read_free` accepts it at
release; `zip_fclose` does not, and the process ends (`ReleaseNullStream`).

## 3. What the runs check

| run | instance | shows |
|---|---|---|
| `cache_structure` | 2 threads, 1 archive, 3 members, room for 3, 4 ids, entries expire with the tick of the clock, allocations may fail | `ListsAgree`, `Bounded`, `OnePerPath`, `DirChainsSound`, `ServedInGrace`, `ScanServesOneDir`, `ScanUndisturbed`, `StoreSpec` (refinement of `MetadataStore`), `MutexHeldBriefly`, and the inductive `Invariant` of the proofs, which includes `TypeOK` |
| `mount_one_reader` | 1 readdir thread, 1 getattr thread, tar of 1 or 3 members, room for 3, 6 ids, expiry, 2 versions | `ListingComplete`, `GetattrOfMember`, `NoFalseENOENT`, `UpToDate` |
| `mount_readers` | 2 threads doing either, zip, 2 versions without a common member | `DirIsPrefix`, `ListingOfOneVersion`, `RequestAdvances` |
| `mount_live` | the same threads, one small tar, expiry and damaged archives | `EveryRequestAnswered` under fairness |
| `libarchive_access` | 2 threads, 4 offsets, 2 lengths, 3 archives, 2 versions | `OffsetTracksStream`, `RandomAccessSpec` (refinement), `RefusedOnlyPoisoned` (in a sound archive, a read inside the member fails only on the sticky error, and only a read past the end sets that), `ReadGetsCloser`, `EveryReadReturns` |
| `libzip_access` | the same, stored or compressed member of 2 or 3 bytes | the same |
| `open_files` | 2 open files, 4 archives of up to 3 members, one with a name twice, a file that is none, no file; 2 versions, either library, sound or damaged | `NothingLeaks`, `NamedMember`, `NoFalseENOENT`, `TypeOK` |
| `namespace` | one thread that is asked for everything and one for what concerns the archive, other programs, 2 bases, 3 inodes, one of them wider than half a word, words of 16 numbers | `PassedOnlyOutside`, `RefusedOnlyInside`, `CallsAsAsked`, `OneTree`, `DistinctInodes`, `TypeOK` |
| `mount_partial_listing`, `mount_crash`, `mount_implicit`, `libarchive_past_end` | | the four findings, see section 6 |

`ScanUndisturbed`, `MutexHeldBriefly`, `RefusedOnlyPoisoned`, `ReadGetsCloser`,
`RequestAdvances`, `CallsAsAsked` and `OneTree` are action properties, the others
invariants unless said otherwise.

### Bounds, and why they are enough

- *Two threads.*  Every hazard of the cache is between one call that waits or
  walks and one that changes the structure under it; the mutex admits one at a
  time, and a third thread adds only another waiter.  The proofs hold for any
  number.
- *Room for 3, three members.*  A directory of two members fits, and a getattr
  for one of them, which is inserted with no directory, replaces the chained one
  and so takes the directory along.  A third member evicts: the Root entry moves to
  the lru tail with each member, so the head of the lru list is a member on a
  chain, and the eviction takes out the member and its Root, in the middle of the
  enumeration that inserts under this Root.  (With two members there are only
  three paths, and nothing would ever be evicted.)
- *Four to six ids* (`MaxId`): a directory and what replaces or evicts it; in
  `mount_live` three, one directory of one member and one insert more.  `IdsLeft` guards
  the inserts; it names the bound and no other action is limited by it.
- *Grace 0, one tick of the clock*: an insert that waits past its own expiry, and
  one that began later and overtakes it.  That nothing older than the grace period
  is handed out for other values of `Grace`, and longer clocks, is what
  `FreshWithinGrace` proves.  `mount_readers` has no expiry: it deletes what an
  eviction or replacement deletes, which that run does.
- *Two versions* of an archive: enough for every mixture of old and new.  In
  `mount_readers` they have no member in common, so that a mixture shows.
- `Asked` bounds which names requests are about; `mount_one_reader` and
  `mount_readers` ask for the archive's own directory and one member, the small
  mount runs for every name.
- *Two open files* (`open_files`): they share nothing but the counts and the
  archive file, so a second one is there to be charged for the first one's
  mistakes.  A name is first, second, third, twice and not at all in the archives, so
  that an index of one version stands for another name, or none, in the next, and
  may be past the end of a next version that has the name all the same.
- *Paths* (`MCNamespace`): a plain name, an archive, its contents, a member, and a
  suffix behind a suffix; the second base has a real directory of the name that an
  archive's contents would have, and an archive without an archive's extension.
  Three inodes leave one to make and one to rename over another, and each kind of
  call succeeds on some object, also on a link and on what it leads to.  The second
  thread and the other programs do what concerns the first thread's path: make,
  replace and remove the archive.  `HalfWord = 4` makes inode numbers words of 16
  values; inode 5 is wider than half a word and shares its lower half with inode 1,
  which is the case in which `ComposeIno` cannot keep two archives apart.
- *Offsets 0, 1, 2, 4; sizes up to 3; lengths 1, 2*: reads before, at and after
  the stream's place, at the end and beyond it, skips that take several turns,
  short reads.

`CHECK_DEADLOCK FALSE` stands in the cache and mount configurations because a
thread may stop at the bound on ids, the clock at `MaxTime`, and everything once
the process has crashed; that the code itself does not stop is `mount_live`'s
question; `open_files` stops when the process has crashed.  The two readers' runs
and `namespace` check deadlock.  Symmetry (of threads or open files, and in the cache
runs of names) is used where threads and names are interchangeable, and in no
liveness run.

### Fairness

`FairMountSpec` and the two `FairSpec`s assume weak fairness of what a thread
does once it runs, its own handler and the code under the mutex, which is what
the scheduler gives every thread; and strong fairness of taking the mutex:
a thread that waits for it is not passed over for ever although it is free again
and again.  POSIX mutexes do not promise a queue, but Linux wakes waiters and
the critical sections are short, and a FUSE worker that has answered waits for
the next request, so that no thread monopolises the mutex.  No fairness is
assumed of requests, of the clock or of who writes archive files.

## 4. What is proved

The proofs hold for all values of the constants that satisfy the modules'
assumptions (`CacheAssumption`, `MountAssumption`, `OpenAssumption`,
`FileAssumption`, `BaseAssumption`, `NamespaceAssumption`): any threads, archives,
names, paths, base file systems, cache size, grace period, lengths of archives and
widths of inode numbers, and without the bounds of the runs.

`PeepCacheProofs` proves `Spec => []Invariant` and from it
`[]TypeOK`, `[]ListsAgree`, `[]Bounded`, `[]OnePerPath`, `[]DirChainsSound`,
`[]ServedInGrace`, and `ScanUndisturbed`.

The safety properties are not inductive.  `Invariant` adds

- `RootsOnTop`: only Root entries head a chain, and no Root entry is on one.
  Without it deleting a member might take out a Root whose own Root stays; with
  it, `Delete` removes at most two entries and nothing is left chained to either.
  This is what `ChainsSound` needs: whenever a member goes, the only chain it can
  be on belongs to the Root entry that goes with it.
- `Aged` and `BornBy`: the expiry list is sorted by the time of *insertion*
  (`born`), not by `expire`, and an entry expires at the latest at
  `born + Grace`.  So once the head has not expired, nothing behind it is too old
  to be handed out: every other entry was born no earlier than the head, and the
  head's `born + Grace` is no less than its `expire`.
- `LockInv`, `CallInv`, `TimeInv`, `ServedInv`: who holds the mutex is the one
  thread under it; a Root entry is never inserted with a directory; a time that
  was read is not in the future; a thread under the lock has not been served yet.

The lemmas go bottom up: lists (`DL_DELETE`, `Append` keep "every element
once"), then `Unlink`, `Delete`, `Evict`, `Add`, `Chain` each keep `CacheInv`,
then one lemma per action, then the temporal step.

`PeepMountProofs` proves `MountSpec => Spec`: every step of the handlers is, on
the cache's variables, one of the cache's steps or a stutter.  The invariant
`HandlerInv` says that a readdir that has its Root entry in, and caches members,
remembers the id of the archive it serves, which is what `BeginInsertMember`
assumes.  So everything proved of the cache under arbitrary callers holds in the
mounted file system (`MountKeepsCacheSound`).

`OpenFilesProofs` proves `[]TypeOK`, `[]NothingLeaks`, `[]NamedMember` and
`[]NoFalseENOENT` for any finite set of open files, from `OpenInvariant`.  It adds,
for each file,

- `Shape`: which parts the cookie has at each place, without which a step that
  frees "the archive and the file" might free what is not there;
- `Handle`: a zip handle is of a version from the time of the open, a libarchive
  handle is the name;
- `Indexed` and `Streaming`: while the archive stays one version for its handle, the
  index is that of the first member of the name *in the archive that it was read
  from*, and the stream is at that index in that archive.  Each alone breaks at
  `EntryOpen` or at a restart;
- `Located`: replaced or not, the index stood for the name in a version since the
  open (`StoodFor`), and in one no later than the stream's.  With the two before it,
  it is `NamedMember`;
- `Missing`: the witness for an ENOENT, a version without the name (`Lacks`) or a
  pair of versions of which the later ends before the index (`CutOff`), stays one.
  At `FileOpenFails` it is `Located` that has the first of the pair.

A step of one file leaves the others' part alone (`OthersKeep`), and the counts
follow from how its own cookie changes (`AccountedKeeps`, by `CountStep` on
cardinalities), so that each action is one lemma about one file.

`LibarchiveFileProofs` and `LibzipFileProofs` prove `[]TypeOK`,
`[]OffsetTracksStream`, the refinement `RandomAccessSpec` and
`RefusedOnlyPoisoned` from a `FileInv` each: the stream is within the member of a
version that was on disk, and at the offset that the file keeps whenever no error
is set.  That only a read past the end sets the error of a file in a sound archive
(`PoisonedPastEnd`) is read off the steps that set it, with the stream's place from
`FileInv`.  For libzip this needs in addition that whoever is past the mutex holds it
(`LockInv`), that no read goes on once the error is set (`ErrorInv`), and that in a
sound archive only a seek past the end makes a stream fail, with the read that
sought still there to notice (`SeekInv`).

`NamespaceProofs` proves `[]TypeOK`, `[]PassedOnlyOutside`,
`[]RefusedOnlyInside`, `CallsAsAsked`, `OneTree` and `[]DistinctInodes`.  Its invariant says
that the buffers of a context hold the paths of its own thread's request, that every
occurrence of the suffix which the search has passed was not behind a regular file
at a moment since the request came (so it is not in `always`), and that the archive
of a handler that goes on inside is in `ever`.  The operators of `BaseFiles` keep
`IsBase`, one lemma each.

For `CallsAsAsked` each operator of `BaseFiles` is shown to do what `AsIs` says of
the request that it serves: which errors it gives and when, which names and nodes
differ afterwards, and, where it follows a link, that it stays `Confined`.  Together
with the buffers, which hold the thread's own request, that is the property.
`DistinctInodes` rests on the two halves of a word (`NumberHalves`): a composed
number determines the lower half of the base's inode and the member, and nothing
else, so the property says of inodes of any width which objects share a number.

For `OneTree`, `TreeInvariant` adds two facts that hold while the base stays the same:
`always` and `ever` are both what is behind a regular file now (`Untouched`), so that
the search's invariant says exactly where the path leads; and what readdir has not
read yet and what it has passed on are together the directory, each archive with its
contents (`ListedSoFar`).  `LookupContents` then shows that the name with the suffix
stands for the contents that the listing shows.

`PeepCacheScanProofs` proves `[]ScanServesOneDir`.  `ScanInv` adds that the members
of a chain have distinct paths, and that what a walk has handed out is the beginning
of the chain it walks.  Two lemmas on the way, `Shrunk` and `Inserted`, say all that
any call does to entries: some go, and at most one comes in and joins the chain of
the Root entry it names.

It then proves `Spec => StoreSpec` (`CacheImplementsStore`), one lemma per step of
the cache.  A step that deletes is a `Forget`, and `Shrunk` with `ChainsSound` gives
`Closed`; `InsertDone` is a `Put` by `Inserted`; `GetHit` is a `Get` because nothing
behind an unexpired head is too old (`Aged`); and `ScanEnd` is a `Scan` because of
`ScanInv`: what was handed out is the whole chain, and the chain is unchanged since.
`MountUsesStore` is the corollary for the mounted file system.

`PeepMountListingProofs` proves what getattr and readdir answer, in three layers,
each an invariant over the one before:

- `ServingInv`: which cache call a handler waits for at each place, and with which
  path and attributes; that the handle is of a version from the time of the request;
  that a NULL handle met a version without members, not older than the request.
- `AttributesInv`: whatever attributes are in the cache, in a call, in a handler or
  handed out are those of the member that their path names, in a version that was
  on disk.  `GetattrOfMember` follows, and `NoFalseENOENT` where archives can be
  read (`ReadErrors = FALSE`).
- `ListingsInv`: the chain of each cached directory has members of one version, in
  order and without gaps if memory does not run out, and all of them unless a
  readdir is still adding to it (`OneVersion`); no two threads add to the same
  directory (`IdsDiffer`), because ids are never used again; a readdir that adds to
  one has cached exactly the members before its position (`Building`) and filled in
  exactly those of them that are in its directory (`Gathered`).  From it follow
  `ListingOfOneVersion`; `DirIsPrefix` where memory does not run out; and
  `ListingComplete` where in addition archives can be read and one thread serves
  readdir, which finding 1 shows to be needed.

`MountTyped` is last because the types of what was found and filled in follow from
these invariants (no run checks `MountTypeOK` separately).

*How long an answer may be of a replaced file.*  `StaysUpToDate` proves `UpToDate` of
`FreshSpec`, over the three layers, from `RecentInv`: attributes in the cache, or
handed out and not answered yet, are those of the file on disk or went in no later than
`unsettled`; what getattr found is of no older version than its request; and what was
answered is so of the file on disk if it was settled when its last cache call was
attended to.  That readdir leaves nothing out takes two facts more about what is
`Unhindered`.  A cached directory with members tells by any of them which version it
is of (`OneVersion`, `Complete`); one without members does not, so `RootRecent` says
that it is being filled, or that the file on disk has none either, or that it went in
by `unsettled`.  And `AllListed` says that a walk has handed out every member of
the file on disk, unless it was attended to within the period.  An answer stays so
because a replacement sets `unsettled` to the time of the clock, which no past call
exceeds (`AnswerStaysRecent`); whoever is attended to after the period is no request
from before (`SettledIsNow`), so what it reads and puts in is of the file on disk; and
what it finds in the cache is, too, or has expired (`ServedInGrace`).

*Steps that bring the answer closer.*  `MutexIsHeldBriefly` (under the mutex each
step of its holder lowers a number that is at most `2 * MaxEntries + 2` when it is
taken, and nobody else's step raises it), `LibarchiveGetsCloser`,
`LibzipGetsCloser` (the same of a read: turns of a skip, restarts, bytes to go) and
`RequestsAdvance` (the same of a whole request: parts of the handler to come, then
members to enumerate, then steps of the cache call) are the safety half of
liveness: no thread can go round in circles.  The other half, that a thread takes
its steps, is the fairness above, and the conclusion is only model-checked
(`EveryRequestAnswered`, `EveryReadReturns`): with fairness and ENABLED it is out of
the prover's reach.

*What the findings take.*  For each finding of section 6 there is a theorem that the
documented behaviour holds once its cause is out of the way, so the finding names
the whole cause: `ListingCompleteHolds` where one thread serves readdir;
`StaysMountedOverArchives`, as long as every archive file on disk can be opened;
`ListsAsExtracted`, where archives have a member for each directory
(`WithDirectories`); `LibarchiveServesInside` and `LibzipServesInside`, as long as no
read starts past the end.  The hypotheses are met by the very instances of the
passing runs, or by the behaviours in which nobody does the offending thing.

## 5. Assumptions, and what is not modelled

- The clock does not step back (`time(NULL)` may, when it is set).
- `max_entries > 0`.  `main` also accepts `-n 0`, with which the first insert
  would delete the head of an empty list; it is in the list of hazards.
- Replacing an archive file is a rename over it.  A program that writes into the
  file in place can give libzip and libarchive any content midway; `ReadErrors`
  and `damaged` stand for the errors that come of it, not for wrong data.
- The archives' libraries are taken at their word: what they return for a member
  is the member's.
- `archive_read_data` with an error leaves a stream that only gives errors, which
  is what libarchive does after ARCHIVE_FATAL.
- A member name is an opaque value with a parent.  The normalisation of names
  (`./`, trailing slashes, cutting at NAME_MAX) and the joining of archive path
  and member into one key are not modelled.
- An archive that has two members of one name is in `open_files`, where open takes
  the first, but in no run of the mount: getattr shows the first, extraction would
  leave the last, and `GetattrOfMember` would accept either.
- `EntryOpen` takes the first member whose normalised name is the one asked for.
  libzip looks up the exact name, and only if there is none the name with a slash at
  its end (`peepfs_libzip.c:132-140`); this is another member only in an archive
  that has both, a file and a directory of one name, and no run has one.
- `peepfs_cache_free` runs after the FUSE loop has ended, single-threaded.
- The pointers of `utlist.h` and `uthash.h` are sequences and functions here.
- libfuse calls `release` once for each open file, after its last read; a file is
  not read while it is released.  `calloc` failing ends the process in
  `peepfs_open` (`peepfs_panic`); elsewhere in the readers it is not looked at, and
  not modelled.
- After a replacement libarchive serves a read backwards from the new archive, at the
  old index: the code cannot tell, and no document promises otherwise.  So the claim
  of `NamedMember` that the stream is at the member of the name is about archives that
  stay while libarchive goes by their name (`OneArchive`).  Of the others it says that
  the index stood for the name in a version since the open; whose bytes are at that
  index now is left open, there and in `RandomAccess`, where a read is of the member
  at `Index` of any version.  `NoFalseENOENT` allows ENOENT for a member that is there
  in this case only: the archive became shorter than the index (`CutOff`).  (The
  comment at `peepfs.c:59-60`, that the file is read into memory at `open()`, is out
  of date.)
- A path of the base has no suffix behind a regular file, since the base could not
  have it; links in the middle of a path are resolved by the kernel.  A link at its
  end is followed once (`Follow`), where the kernel goes on if it leads to another, or
  gives ELOOP.  Names stay short of NAME_MAX (`PeepName` is cut
  there in the code; a member's name is a whole path and may well be longer, which is
  among the hazards).  Permissions are left out, and so is `RENAME_EXCHANGE`, which is
  passed over as `RENAME_NOREPLACE` is, and overwrites.
- The attribute that `getxattr` asks for is there exactly if the object has any, and
  its value is not empty.
- The base's inode numbers are any in a word of 64 bits (`HalfWord` is 2^32), members
  are fewer than 2^32.  `compose_ino` keeps the lower half of the base's number, and
  `DistinctInodes` says what follows from it: members of two archives share a number
  exactly if the archives' numbers agree in the lower half and the members in their
  index, a composed number is that of a base object exactly if this is wide enough to
  look composed, and nothing is shared where the base's numbers fit in 32 bits.
  peepfs does not ask for `use_ino` (`peepfs.c:1343` is commented out), so that
  libfuse gives out numbers of its own.

Not modelled:

- *Set-up, options, end of the mount* (`main`, `peepfs_init`, `peepfs_destroy`,
  `peepfs_cache_free`): one thread, before the first request or after the last, and
  no state that a request changes.  Read there, without a model: `-m` is in the help
  text but not in the option string (1363), `fuse_argv` has room for 16 (1378), a base
  of `/` is looked at one byte before its start (1436), and `peepfs_cache_free` does
  not free the paths of entries.
- *The pointers of `utlist.h` and `uthash.h`*: vendored; sequences and functions
  stand for them.
- *Bytes of names*: the normalisation of member names, the test of extensions
  (196-205), and `rindex` on the archive path (`peepfs_archive.c:16`, which gives
  NULL for a path without a dot) are decided by characters, which the modules do not
  have; the hazards name them.
- *Data of base files*: `peepfs_write` and `pread` on a descriptor change no state of
  peepfs.

## 6. Findings

1. *A readdir can return part of a directory* (`mount_partial_listing`).
   `peepfs_readdir` inserts the Root entry before the members (553), so a second
   readdir hits it and lists what is cached so far.
2. *getattr below a file that is no archive crashes the mount* (`mount_crash`).
   `peepfs_archive_open` returns NULL and `peepfs_getattr` passes it on (338-340).
   The lookup of `notes.txt.peep/x` does it; so does one in an archive that is
   replaced at the wrong moment.
3. *Directories that exist only in their members' names are not listed*
   (`mount_implicit`), though `src/README.md:9-11` says "as though the archive had
   been extracted".
4. *A read past the end makes all later reads fail* (`libarchive_past_end`): the
   loop that skips takes the end of the member for an error and sets the sticky
   `file->error` (`peepfs_libarchive.c:327`, `peepfs_libzip.c:269`).

That these causes are the only ones is proved (section 4, "What the findings take").

Smaller divergences are modelled as the code has them, and left out of the
properties that they would break.  `CallsAsAsked` leaves out what `Altered` names, and
demands of it that nothing else is touched:

- `create`, `truncate`, `utimens`, `chmod`, `chown`, `access`, `statfs`, `listxattr` and
  `getxattr` of a symbolic link are about what it leads to (995, 1026, 1059; the
  kernel resolves links before it asks, unless the program asked about the link itself);
- an extended attribute that is found is answered as an error, with an old errno
  (1249, 1289);
- `UTIME_NOW` and `UTIME_OMIT` fail with EINVAL (991);
- `rename` passes over its flags and overwrites (805).

`OneTree` leaves out (`ShownAsFound`, `Reachable`) an archive behind a symbolic link,
which is listed with a contents directory that getattr then does not find, and an
object of the base behind a regular file's suffix, which is listed but not reachable.
`statfs` is not routed and gives ENOENT inside archives, which no property is about.

What holds, and is less obvious: a cache that loses a member loses its whole
directory, so that no cached listing has a gap; expiry by an unsorted list is
still never late; two enumerations of one archive never mix, however many readdirs
run at once; and one `lstat` per occurrence is enough for the guard that keeps
operations out of archives to be right at some moment of each call.

## 7. Plan

Done, in this order: the cache, its proofs, the handlers composed with it, the
proof of that composition, the two readers against one abstract promise, the
life of open files and its proofs, path routing and the pass-through operations
with their proofs, the proofs of both readers, of directory walks, and of what
getattr and readdir answer; the abstract store that the cache implements, the
measures that show that no step goes in circles, and how long an answer may be of a
file that was replaced.

What would be worth adding:

1. The pointer level of `utlist.h` below the cache's sequences.
2. `peepfs_cache_free`, as the last step of a mount whose threads are idle.
3. A module for member names with their bytes: normalisation against what
   extraction would create, and the lengths at NAME_MAX.
