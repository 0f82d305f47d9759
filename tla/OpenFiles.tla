------------------------------ MODULE OpenFiles ------------------------------
(***************************************************************************)
(* Open files (peepfs_open, create, read, write, release): what they hold  *)
(* from open to release, and which member they are about.  The cookie in   *)
(* fi->fh owns either a descriptor of a base file, or an archive handle    *)
(* and a file in it, which owns a stream.                                  *)
(*                                                                         *)
(* peepfs_open goes to the archive three times: it opens it, looks the     *)
(* member's name up, and opens the member by its index.  libarchive opens  *)
(* the archive file by name each time, libzip keeps the file it opened,    *)
(* and other programs replace the archive file in between.                 *)
(*                                                                         *)
(* How reads move the stream is in LibarchiveFile and LibzipFile; here a   *)
(* read either leaves the stream in place or opens it anew.  libfuse       *)
(* releases a file once, after its last read has returned.                 *)
(***************************************************************************)
EXTENDS Integers, FiniteSets, Sequences, SequencesExt

CONSTANTS
  Files,       \* open files: the struct fuse_file_info of each
  Names,       \* member names in the archive
  Base,        \* the path of a file in the base file system
  Contents,    \* the member sequences the archive may have
  MaxVersions  \* bound: how often the archive file is written

ASSUME OpenAssumption ==
  /\ IsFiniteSet(Files)
  /\ Base \notin Names
  /\ Contents \subseteq Seq(Names)
  /\ MaxVersions \in Nat

VARIABLES
  disk,        \* the versions of the archive file; the last is on disk
  zip,         \* whether it ends in .zip: libzip, else libarchive
  damaged,     \* whether the libraries' calls may fail
  at,          \* where each file is in its life
  request,     \* what it was opened as
  cookie,      \* its peepfs_cookie_t, with what that points to
  live,        \* how many objects of each kind are allocated or open
  answer,      \* the error of its latest open or create, 0 if none
  mounted      \* FALSE once the process has crashed

vars == <<disk, zip, damaged, at, request, cookie, live, answer, mounted>>

NoHandle == -1   \* cookie->archive is NULL
ByName == 0      \* libarchive: the file name only
NoStream == [version |-> 0, index |-> 0]   \* zipfile or arc is NULL

Version ==
  [kind : {"archive"}, members : Contents] \cup
  [kind : {"file", "gone"}, members : {<<>>}]

NoCookie == [allocated |-> FALSE, fd |-> FALSE, archive |-> NoHandle,
             index |-> 0, file |-> FALSE, stream |-> NoStream,
             error |-> FALSE]
NewCookie == [NoCookie EXCEPT !.allocated = TRUE]
NoRequest == [name |-> Base, since |-> 0]

ENOENT == 2
EACCES == 13

Now == Len(disk)
Members(v) == disk[v].members

\* The version that a call on the file's archive handle reads.
Source(f) == IF cookie[f].archive = ByName THEN Now ELSE cookie[f].archive

\* Mutation: only the first member is looked at.
MatchAtStart(f) ==
  {i \in {1} : /\ Members(Source(f)) # <<>>
               /\ Members(Source(f))[1] = request[f].name}

\* The member that entry_open finds: the first of the name, if any.
FirstMatch(f) ==
  LET hits == {i \in 1 .. Len(Members(Source(f))) :
                 Members(Source(f))[i] = request[f].name}
  IN  {i \in hits : \A j \in hits : i <= j}

\* Mutation: libzip too goes by the name of the archive file.
StreamByName(f) ==
  IF disk[Now].kind # "archive" \/ cookie[f].index > Len(Members(Now)) + 1
  THEN NoStream
  ELSE [version |-> Now, index |-> cookie[f].index]

(***************************************************************************)
(* A stream at the cookie's member.  libarchive opens the archive anew and *)
(* counts to the index, where one past the last member also succeeds.      *)
(***************************************************************************)
StreamAt(f) ==
  IF zip THEN [version |-> cookie[f].archive, index |-> cookie[f].index]
  ELSE IF disk[Now].kind # "archive" \/ cookie[f].index > Len(Members(Now)) + 1
  THEN NoStream
  ELSE [version |-> Now, index |-> cookie[f].index]

-----------------------------------------------------------------------------
Running(f, label) == mounted /\ at[f] = label

Goto(f, label) == at' = [at EXCEPT ![f] = label]

\* The handler returns an error, and fi->fh stays unset.
Refuse(f, error) ==
  /\ Goto(f, "idle")
  /\ answer' = [answer EXCEPT ![f] = error]
  /\ cookie' = [cookie EXCEPT ![f] = NoCookie]
  /\ UNCHANGED <<disk, zip, damaged, mounted>>

Named(f, name) ==
  request' = [request EXCEPT ![f] = [name |-> name, since |-> Now]]

\* peepfs_open or peepfs_create of a file in the base file system.
OpenBase(f) ==
  /\ Running(f, "idle")
  /\ Named(f, Base)
  /\ cookie' = [cookie EXCEPT ![f] = [NewCookie EXCEPT !.fd = TRUE]]
  /\ live' = [live EXCEPT !.cookies = @ + 1, !.fds = @ + 1]
  /\ answer' = [answer EXCEPT ![f] = 0]
  /\ Goto(f, "open")
  /\ UNCHANGED <<disk, zip, damaged, mounted>>

\* open(2) fails: a base file, or a path whose archive is not there.
OpenBaseFails(f, name) ==
  /\ Running(f, "idle")
  /\ name # Base => disk[Now].kind = "gone"
  /\ Named(f, name)
  /\ Refuse(f, ENOENT)
  /\ UNCHANGED live

\* peepfs_open for writing, or peepfs_create, of a path inside an archive.
WriteRefused(f, name) ==
  /\ Running(f, "idle")
  /\ disk[Now].kind # "gone"
  /\ Named(f, name)
  /\ Refuse(f, EACCES)
  /\ UNCHANGED live

\* peepfs_open for reading of a path inside an archive.
OpenMember(f, name) ==
  /\ Running(f, "idle")
  /\ disk[Now].kind # "gone"
  /\ Named(f, name)
  /\ cookie' = [cookie EXCEPT ![f] = NewCookie]
  /\ live' = [live EXCEPT !.cookies = @ + 1]
  /\ answer' = [answer EXCEPT ![f] = 0]
  /\ Goto(f, "archive_open")
  /\ UNCHANGED <<disk, zip, damaged, mounted>>

\* What peepfs_archive_open accepts: libzip no archive without members.
Opens == disk[Now].kind = "archive" /\ (zip => Members(Now) # <<>>)

ArchiveOpen(f) ==
  /\ Running(f, "archive_open")
  /\ Opens
  /\ cookie' = [cookie EXCEPT ![f].archive = IF zip THEN Now ELSE ByName]
  /\ live' = [live EXCEPT !.archives = @ + 1]
  /\ Goto(f, "entry_open")
  /\ UNCHANGED <<disk, zip, damaged, request, answer, mounted>>

ArchiveOpenFails(f) ==
  /\ Running(f, "archive_open")
  /\ ~Opens \/ damaged
  /\ live' = [live EXCEPT !.cookies = @ - 1]
  /\ Refuse(f, ENOENT)
  /\ UNCHANGED request

EntryOpen(f) ==
  /\ Running(f, "entry_open")
  /\ \E i \in FirstMatch(f) :
       cookie' = [cookie EXCEPT ![f].index = i]
  /\ Goto(f, "file_open")
  /\ UNCHANGED <<disk, zip, damaged, request, live, answer, mounted>>

\* Mutation: the archive is not closed.
EntryOpenFailsKeepsArchive(f) ==
  /\ Running(f, "entry_open")
  /\ FirstMatch(f) = {} \/ damaged
  /\ live' = [live EXCEPT !.cookies = @ - 1]
  /\ Refuse(f, ENOENT)
  /\ UNCHANGED request

EntryOpenFails(f) ==
  /\ Running(f, "entry_open")
  /\ FirstMatch(f) = {} \/ damaged
  /\ live' = [live EXCEPT !.cookies = @ - 1, !.archives = @ - 1]
  /\ Refuse(f, ENOENT)
  /\ UNCHANGED request

FileOpen(f) ==
  /\ Running(f, "file_open")
  /\ StreamAt(f) # NoStream
  /\ cookie' = [cookie EXCEPT ![f].file = TRUE, ![f].stream = StreamAt(f)]
  /\ live' = [live EXCEPT !.files = @ + 1, !.streams = @ + 1]
  /\ Goto(f, "open")
  /\ UNCHANGED <<disk, zip, damaged, request, answer, mounted>>

FileOpenFails(f) ==
  /\ Running(f, "file_open")
  /\ StreamAt(f) = NoStream \/ damaged
  /\ live' = [live EXCEPT !.cookies = @ - 1, !.archives = @ - 1]
  /\ Refuse(f, ENOENT)
  /\ UNCHANGED request

\* A read that the stream cannot serve closes it and opens another.
ReadRestarts(f) ==
  /\ Running(f, "open")
  /\ cookie[f].file /\ ~cookie[f].error
  /\ StreamAt(f) # NoStream
  /\ cookie' = [cookie EXCEPT ![f].stream = StreamAt(f)]
  /\ UNCHANGED <<disk, zip, damaged, at, request, live, answer, mounted>>

ReadRestartFails(f) ==
  /\ Running(f, "open")
  /\ cookie[f].file /\ ~cookie[f].error
  /\ StreamAt(f) = NoStream \/ damaged
  /\ cookie' = [cookie EXCEPT ![f].stream = NoStream, ![f].error = TRUE]
  /\ live' = [live EXCEPT !.streams = @ - 1]
  /\ UNCHANGED <<disk, zip, damaged, at, request, answer, mounted>>

\* A skip meets the end of the member or an error.
ReadSkipFails(f) ==
  /\ Running(f, "open")
  /\ cookie[f].file /\ ~cookie[f].error
  /\ cookie' = [cookie EXCEPT ![f].error = TRUE]
  /\ UNCHANGED <<disk, zip, damaged, at, request, live, answer, mounted>>

Freed(f) ==
  /\ Goto(f, "idle")
  /\ cookie' = [cookie EXCEPT ![f] = NoCookie]
  /\ UNCHANGED <<disk, zip, damaged, request, answer, mounted>>

ReleaseBase(f) ==
  /\ Running(f, "open")
  /\ ~cookie[f].file
  /\ live' = [live EXCEPT !.cookies = @ - 1, !.fds = @ - 1]
  /\ Freed(f)

\* Mutation: the archive handle is closed by the file and by release.
ReleaseMemberTwice(f) ==
  /\ Running(f, "open")
  /\ cookie[f].file
  /\ live' = [live EXCEPT !.cookies = @ - 1, !.archives = @ - 2,
                          !.files = @ - 1,
                          !.streams = IF cookie[f].stream = NoStream
                                      THEN @ ELSE @ - 1]
  /\ Freed(f)

\* archive_read_free accepts NULL, zip_fclose does not.
ReleaseMember(f) ==
  /\ Running(f, "open")
  /\ cookie[f].file
  /\ zip => cookie[f].stream # NoStream
  /\ live' = [live EXCEPT !.cookies = @ - 1, !.archives = @ - 1,
                          !.files = @ - 1,
                          !.streams = IF cookie[f].stream = NoStream
                                      THEN @ ELSE @ - 1]
  /\ Freed(f)

\* zip_fclose follows the NULL that a failed restart left.
ReleaseNullStream(f) ==
  /\ Running(f, "open")
  /\ cookie[f].file /\ zip /\ cookie[f].stream = NoStream
  /\ mounted' = FALSE
  /\ UNCHANGED <<disk, zip, damaged, at, request, cookie, live, answer>>

Rewrite ==
  /\ Len(disk) < MaxVersions
  /\ \E v \in Version : disk' = Append(disk, v)
  /\ UNCHANGED <<zip, damaged, at, request, cookie, live, answer, mounted>>

-----------------------------------------------------------------------------
Init ==
  /\ disk \in {<<v>> : v \in Version}
  /\ zip \in BOOLEAN
  /\ damaged \in BOOLEAN
  /\ at = [f \in Files |-> "idle"]
  /\ request = [f \in Files |-> NoRequest]
  /\ cookie = [f \in Files |-> NoCookie]
  /\ live = [cookies |-> 0, fds |-> 0, archives |-> 0, files |-> 0,
             streams |-> 0]
  /\ answer = [f \in Files |-> 0]
  /\ mounted = TRUE

Open(f) ==
  \/ OpenBase(f)
  \/ \E name \in Names \cup {Base} : OpenBaseFails(f, name)
  \/ \E name \in Names : WriteRefused(f, name) \/ OpenMember(f, name)

Opening(f) ==
  \/ ArchiveOpen(f) \/ ArchiveOpenFails(f)
  \/ EntryOpen(f) \/ EntryOpenFails(f)
  \/ FileOpen(f) \/ FileOpenFails(f)

Read(f) == ReadRestarts(f) \/ ReadRestartFails(f) \/ ReadSkipFails(f)

Release(f) == ReleaseBase(f) \/ ReleaseMember(f) \/ ReleaseNullStream(f)

Next ==
  Rewrite \/ \E f \in Files : Open(f) \/ Opening(f) \/ Read(f) \/ Release(f)

Spec == Init /\ [][Next]_vars

-----------------------------------------------------------------------------
Streams == [version : Nat, index : Nat]

TypeOK ==
  /\ disk \in Seq(Version) /\ disk # <<>>
  /\ zip \in BOOLEAN /\ damaged \in BOOLEAN /\ mounted \in BOOLEAN
  /\ at \in [Files -> {"idle", "archive_open", "entry_open", "file_open",
                       "open"}]
  /\ request \in [Files -> [name : Names \cup {Base}, since : Nat]]
  /\ cookie \in [Files ->
       [allocated : BOOLEAN, fd : BOOLEAN, archive : Nat \cup {NoHandle},
        index : Nat, file : BOOLEAN, stream : Streams, error : BOOLEAN]]
  /\ live \in [cookies : Nat, fds : Nat, archives : Nat, files : Nat,
               streams : Nat]
  /\ answer \in [Files -> {0, ENOENT, EACCES}]

\* The open files that own each kind of object.
WithCookie == {f \in Files : cookie[f].allocated}
WithFd == {f \in Files : cookie[f].fd}
WithArchive == {f \in Files : cookie[f].archive # NoHandle}
WithFile == {f \in Files : cookie[f].file}
WithStream == {f \in Files : cookie[f].stream # NoStream}

(***************************************************************************)
(* Nothing leaks and nothing is freed twice: what is allocated or open is  *)
(* what the cookies of open files, and of opens under way, point to.  The  *)
(* five ways out of peepfs_open and the two of peepfs_release each free    *)
(* another part (peepfs.c:709-731, 787-794).                               *)
(***************************************************************************)
NothingLeaks ==
  /\ live.cookies = Cardinality(WithCookie)
  /\ live.fds = Cardinality(WithFd)
  /\ live.archives = Cardinality(WithArchive)
  /\ live.files = Cardinality(WithFile)
  /\ live.streams = Cardinality(WithStream)

\* The archive kept to one version since the open began, for its handle.
OneArchive(f) == zip \/ request[f].since = Now

\* The member at index i of version v is the first of the name.
IsFirst(i, name, v) ==
  /\ i \in 1 .. Len(Members(v)) /\ Members(v)[i] = name
  /\ \A j \in 1 .. i - 1 : Members(v)[j] # name

(***************************************************************************)
(* An open file reads the member that it was opened as, also after it has  *)
(* been opened anew: for a zip archive always, for the others unless the   *)
(* archive file was replaced since the open began.  If it was, the file    *)
(* is at the index that stood for the name (peepfs.c:715, 723) in a        *)
(* version that was on disk since the open began, and no later than the    *)
(* one that is read.                                                       *)
(***************************************************************************)
NamedMember ==
  \A f \in Files :
    LET stream == cookie[f].stream
        q == request[f]
    IN  stream # NoStream =>
          /\ \E v \in q.since .. stream.version :
               IsFirst(stream.index, q.name, v)
          /\ OneArchive(f) => IsFirst(stream.index, q.name, stream.version)

\* Some version since the open began is without the name.
Lacks(f) ==
  \E v \in request[f].since .. Now :
    request[f].name \notin Range(Members(v))

\* The archive shrank, and the index of the name is past its end.
CutOff(f) ==
  /\ ~OneArchive(f)
  /\ \E u, v \in request[f].since .. Now :
       \E i \in 1 .. Len(Members(u)) :
         IsFirst(i, request[f].name, u) /\ u < v /\ i > Len(Members(v))

(***************************************************************************)
(* A member of a sound archive that was there from before the open until   *)
(* now is not refused as missing.  Only libarchive may miss it             *)
(* (peepfs_libarchive.c:60): if the archive file was replaced, after the   *)
(* look-up, by one with fewer members than the index that was found.       *)
(***************************************************************************)
NoFalseENOENT ==
  \A f \in Files :
    answer[f] = ENOENT /\ request[f].name # Base /\ ~damaged =>
      Lacks(f) \/ CutOff(f)
=============================================================================
