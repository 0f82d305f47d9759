---------------------------- MODULE OpenFilesProofs ----------------------------
(***************************************************************************)
(* For any number of open files, members and versions of the archive:      *)
(* nothing leaks, an open file reads the member it was opened as, and no   *)
(* member that is there is refused as missing.                             *)
(***************************************************************************)
EXTENDS OpenFiles, FiniteSetTheorems, SequenceTheorems,
        WellFoundedInduction, TLAPS

Cookies ==
  [allocated : BOOLEAN, fd : BOOLEAN, archive : Nat \cup {NoHandle},
   index : Nat, file : BOOLEAN, stream : Streams, error : BOOLEAN]

\* Which parts a cookie has, by the place that its file is in.
Shape(f) ==
  /\ cookie[f].allocated <=> at[f] # "idle"
  /\ cookie[f].fd => at[f] = "open"
  /\ cookie[f].file => at[f] = "open"
  /\ at[f] = "open" => (cookie[f].fd <=> ~cookie[f].file)
  /\ cookie[f].archive # NoHandle
       <=> at[f] \in {"entry_open", "file_open"} \/ cookie[f].file
  /\ cookie[f].stream # NoStream => cookie[f].file
  /\ cookie[f].file /\ ~cookie[f].error => cookie[f].stream # NoStream

\* Which version of the archive an open file holds on to.
Handle(f) ==
  /\ request[f].since <= Now
  /\ request[f].name # Base => request[f].since >= 1
  /\ at[f] # "idle" /\ ~cookie[f].fd =>
       request[f].since >= 1 /\ request[f].name \in Names
  /\ cookie[f].archive # NoHandle =>
       IF zip THEN cookie[f].archive \in request[f].since .. Now
       ELSE cookie[f].archive = ByName

\* An index was found, and the file is not released.
Found(f) == at[f] = "file_open" \/ cookie[f].file

\* The index stands for the name, in the archive that it was read from.
Indexed(f) ==
  Found(f) /\ OneArchive(f) =>
    IsFirst(cookie[f].index, request[f].name, Source(f))

\* The stream is at the index, in the same archive.
Streaming(f) ==
  cookie[f].stream # NoStream =>
    /\ cookie[f].stream.version \in request[f].since .. Now
    /\ cookie[f].stream.index = cookie[f].index
    /\ OneArchive(f) => cookie[f].stream.version = Source(f)

\* The index stood for the name in a version from since to u.
StoodFor(f, u) ==
  \E v \in request[f].since .. u :
    IsFirst(cookie[f].index, request[f].name, v)

\* The index was found in a version, and that is not newer than the stream.
Located(f) ==
  /\ Found(f) => StoodFor(f, Now)
  /\ cookie[f].stream # NoStream => StoodFor(f, cookie[f].stream.version)

Missing(f) ==
  answer[f] = ENOENT /\ request[f].name # Base /\ ~damaged =>
    Lacks(f) \/ CutOff(f)

FileInv(f) ==
  /\ Shape(f) /\ Handle(f) /\ Indexed(f) /\ Streaming(f) /\ Located(f)
  /\ Missing(f)

(***************************************************************************)
(* The inductive invariant: NothingLeaks counts what the cookies have, and *)
(* Shape says what they have.                                              *)
(***************************************************************************)
OpenInvariant ==
  /\ TypeOK
  /\ NothingLeaks
  /\ \A f \in Files : FileInv(f)

-----------------------------------------------------------------------------
(* Counting, and the first member of a name.                               *)

\* A non-empty set of naturals has a least element.
LEMMA LeastOf ==
  ASSUME NEW S \in SUBSET Nat, S # {}
  PROVE  \E m \in S : \A n \in S : m <= n
<1>1. \E R : /\ IsWellFoundedOn(R, Nat)
             /\ \A m, n \in Nat : <<n, m>> \in R <=> n < m
  <2> DEFINE R == OpToRel(<, Nat)
  <2>1. IsWellFoundedOn(R, Nat)
    BY NatLessThanWellFounded
  <2>2. \A m, n \in Nat : <<n, m>> \in R <=> n < m
    BY DEF OpToRel
  <2> HIDE DEF R
  <2> QED BY <2>1, <2>2
<1>2. PICK R : /\ IsWellFoundedOn(R, Nat)
               /\ \A m, n \in Nat : <<n, m>> \in R <=> n < m
  BY <1>1
<1>3. \E m \in S : \A n \in S : ~ (<<n, m>> \in R)
  BY <1>2, WFMin
<1>4. PICK m \in S : \A n \in S : ~ (<<n, m>> \in R)
  BY <1>3
<1>5. ASSUME NEW n \in S PROVE m <= n
  <2>1. ~ (n < m)
    BY <1>2, <1>4
  <2> QED BY <2>1
<1> QED BY <1>5

\* 1 for an owner of an object, 0 otherwise.
Bit(owns) == IF owns THEN 1 ELSE 0

\* When only f's membership may change, the count changes by f alone.
LEMMA CountStep ==
  ASSUME NEW f \in Files, NEW S \in SUBSET Files, NEW T \in SUBSET Files,
         \A g \in Files \ {f} : g \in S <=> g \in T
  PROVE  /\ Cardinality(S) \in Nat
         /\ Cardinality(T) = Cardinality(S) + Bit(f \in T) - Bit(f \in S)
<1>1. IsFiniteSet(S) /\ IsFiniteSet(S \ {f})
  BY OpenAssumption, FS_Subset
<1>2. Cardinality(S) \in Nat /\ Cardinality(S \ {f}) \in Nat
  BY <1>1, FS_CardinalityType
<1>3. Cardinality(S \ {f}) = Cardinality(S) - Bit(f \in S)
  BY <1>1, <1>2, FS_RemoveElement DEF Bit
<1>4. CASE f \in T
  <2>1. T = (S \ {f}) \cup {f}
    BY <1>4
  <2>2. Cardinality(T) = Cardinality(S \ {f}) + 1
    BY <1>1, <2>1, FS_AddElement
  <2> QED BY <1>2, <1>3, <1>4, <2>2 DEF Bit
<1>5. CASE f \notin T
  <2>1. T = S \ {f}
    BY <1>5
  <2> QED BY <1>2, <1>3, <1>5, <2>1 DEF Bit
<1> QED BY <1>2, <1>4, <1>5

\* live changes as the cookie of f does.
Accounted(f) ==
  /\ live'.cookies = live.cookies + Bit(cookie'[f].allocated)
                       - Bit(cookie[f].allocated)
  /\ live'.fds = live.fds + Bit(cookie'[f].fd) - Bit(cookie[f].fd)
  /\ live'.archives = live.archives + Bit(cookie'[f].archive # NoHandle)
                        - Bit(cookie[f].archive # NoHandle)
  /\ live'.files = live.files + Bit(cookie'[f].file) - Bit(cookie[f].file)
  /\ live'.streams = live.streams + Bit(cookie'[f].stream # NoStream)
                       - Bit(cookie[f].stream # NoStream)

\* Counts that change as the cookie of f does stay right.
LEMMA AccountedKeeps ==
  ASSUME NothingLeaks, NEW f \in Files, Accounted(f),
         \A g \in Files \ {f} : cookie'[g] = cookie[g]
  PROVE  NothingLeaks'
<1>1. live'.cookies = Cardinality(WithCookie')
  <2>1. \A g \in Files \ {f} : g \in WithCookie <=> g \in WithCookie'
    BY DEF WithCookie
  <2>2. Cardinality(WithCookie')
          = Cardinality(WithCookie) + Bit(f \in WithCookie')
             - Bit(f \in WithCookie)
    BY <2>1, CountStep DEF WithCookie
  <2>3. Bit(f \in WithCookie) = Bit(cookie[f].allocated)
    <3>1. f \in WithCookie <=> cookie[f].allocated
      BY DEF WithCookie
    <3> QED BY <3>1 DEF Bit
  <2>4. Bit(f \in WithCookie') = Bit(cookie'[f].allocated)
    <3>1. f \in WithCookie' <=> cookie'[f].allocated
      BY DEF WithCookie
    <3> QED BY <3>1 DEF Bit
  <2> QED BY <2>2, <2>3, <2>4 DEF NothingLeaks, Accounted
<1>2. live'.fds = Cardinality(WithFd')
  <2>1. \A g \in Files \ {f} : g \in WithFd <=> g \in WithFd'
    BY DEF WithFd
  <2>2. Cardinality(WithFd')
          = Cardinality(WithFd) + Bit(f \in WithFd') - Bit(f \in WithFd)
    BY <2>1, CountStep DEF WithFd
  <2>3. Bit(f \in WithFd) = Bit(cookie[f].fd)
    <3>1. f \in WithFd <=> cookie[f].fd
      BY DEF WithFd
    <3> QED BY <3>1 DEF Bit
  <2>4. Bit(f \in WithFd') = Bit(cookie'[f].fd)
    <3>1. f \in WithFd' <=> cookie'[f].fd
      BY DEF WithFd
    <3> QED BY <3>1 DEF Bit
  <2> QED BY <2>2, <2>3, <2>4 DEF NothingLeaks, Accounted
<1>3. live'.archives = Cardinality(WithArchive')
  <2>1. \A g \in Files \ {f} : g \in WithArchive <=> g \in WithArchive'
    BY DEF WithArchive
  <2>2. Cardinality(WithArchive')
          = Cardinality(WithArchive) + Bit(f \in WithArchive')
             - Bit(f \in WithArchive)
    BY <2>1, CountStep DEF WithArchive
  <2> QED BY <2>2 DEF NothingLeaks, Accounted, WithArchive
<1>4. live'.files = Cardinality(WithFile')
  <2>1. \A g \in Files \ {f} : g \in WithFile <=> g \in WithFile'
    BY DEF WithFile
  <2>2. Cardinality(WithFile')
          = Cardinality(WithFile) + Bit(f \in WithFile')
             - Bit(f \in WithFile)
    BY <2>1, CountStep DEF WithFile
  <2>3. Bit(f \in WithFile) = Bit(cookie[f].file)
    <3>1. f \in WithFile <=> cookie[f].file
      BY DEF WithFile
    <3> QED BY <3>1 DEF Bit
  <2>4. Bit(f \in WithFile') = Bit(cookie'[f].file)
    <3>1. f \in WithFile' <=> cookie'[f].file
      BY DEF WithFile
    <3> QED BY <3>1 DEF Bit
  <2> QED BY <2>2, <2>3, <2>4 DEF NothingLeaks, Accounted
<1>5. live'.streams = Cardinality(WithStream')
  <2>1. \A g \in Files \ {f} : g \in WithStream <=> g \in WithStream'
    BY DEF WithStream
  <2>2. Cardinality(WithStream')
          = Cardinality(WithStream) + Bit(f \in WithStream')
             - Bit(f \in WithStream)
    BY <2>1, CountStep DEF WithStream
  <2> QED BY <2>2 DEF NothingLeaks, Accounted, WithStream
<1> QED BY <1>1, <1>2, <1>3, <1>4, <1>5 DEF NothingLeaks

\* What an owner has is counted, so taking it away leaves a natural.
LEMMA OwnedIsCounted ==
  ASSUME NothingLeaks, NEW f \in Files
  PROVE  /\ live.cookies \in Nat /\ live.fds \in Nat
         /\ live.archives \in Nat /\ live.files \in Nat
         /\ live.streams \in Nat
         /\ cookie[f].allocated => live.cookies >= 1
         /\ cookie[f].fd => live.fds >= 1
         /\ cookie[f].archive # NoHandle => live.archives >= 1
         /\ cookie[f].file => live.files >= 1
         /\ cookie[f].stream # NoStream => live.streams >= 1
<1>1. ASSUME NEW S \in SUBSET Files
      PROVE  /\ Cardinality(S) \in Nat
             /\ f \in S => Cardinality(S) >= 1
  <2>1. Cardinality(S) \in Nat /\ IsFiniteSet(S)
    BY OpenAssumption, FS_Subset, FS_CardinalityType
  <2>2. f \in S => Cardinality(S) # 0
    BY <2>1, FS_EmptySet
  <2> QED BY <2>1, <2>2
<1>2. /\ WithCookie \subseteq Files /\ WithFd \subseteq Files
      /\ WithArchive \subseteq Files /\ WithFile \subseteq Files
      /\ WithStream \subseteq Files
  BY DEF WithCookie, WithFd, WithArchive, WithFile, WithStream
<1>3. /\ cookie[f].allocated => f \in WithCookie
      /\ cookie[f].fd => f \in WithFd
      /\ cookie[f].archive # NoHandle => f \in WithArchive
      /\ cookie[f].file => f \in WithFile
      /\ cookie[f].stream # NoStream => f \in WithStream
  BY DEF WithCookie, WithFd, WithArchive, WithFile, WithStream
<1>4. /\ Cardinality(WithCookie) \in Nat /\ Cardinality(WithFd) \in Nat
      /\ Cardinality(WithArchive) \in Nat /\ Cardinality(WithFile) \in Nat
      /\ Cardinality(WithStream) \in Nat
  BY <1>1, <1>2
<1>5. /\ cookie[f].allocated => Cardinality(WithCookie) >= 1
      /\ cookie[f].fd => Cardinality(WithFd) >= 1
      /\ cookie[f].archive # NoHandle => Cardinality(WithArchive) >= 1
      /\ cookie[f].file => Cardinality(WithFile) >= 1
      /\ cookie[f].stream # NoStream => Cardinality(WithStream) >= 1
  BY <1>1, <1>2, <1>3
<1> QED BY <1>4, <1>5 DEF NothingLeaks

-----------------------------------------------------------------------------
(* A step of one open file.                                                *)

LiveType == [cookies : Nat, fds : Nat, archives : Nat, files : Nat,
             streams : Nat]

\* Nothing happens but to f.
Only(f) ==
  /\ UNCHANGED <<disk, zip, damaged>>
  /\ \A g \in Files \ {f} : /\ at'[g] = at[g]
                            /\ request'[g] = request[g]
                            /\ cookie'[g] = cookie[g]
                            /\ answer'[g] = answer[g]

\* What is known of a file holds on while only another one moves.
LEMMA OthersKeep ==
  ASSUME NEW f \in Files, Only(f), NEW g \in Files \ {f}, FileInv(g)
  PROVE  FileInv(g)'
<1>1. /\ disk' = disk /\ zip' = zip /\ damaged' = damaged
      /\ at'[g] = at[g] /\ request'[g] = request[g]
      /\ cookie'[g] = cookie[g] /\ answer'[g] = answer[g]
  BY DEF Only
<1>2. Shape(g)'
  BY <1>1 DEF FileInv, Shape
<1>3. Handle(g)'
  BY <1>1 DEF FileInv, Handle, Now
<1>4. Source(g)' = Source(g) /\ (OneArchive(g)' <=> OneArchive(g))
  BY <1>1 DEF Source, OneArchive, Now
<1>5. Indexed(g)'
  BY <1>1, <1>4 DEF FileInv, Indexed, Found, IsFirst, Members
<1>6. Streaming(g)'
  BY <1>1, <1>4 DEF FileInv, Streaming, Now
<1>7. Located(g)'
  BY <1>1 DEF FileInv, Located, Found, StoodFor, IsFirst, Members, Now
<1>8. Missing(g)'
  BY <1>1, <1>4 DEF FileInv, Missing, Lacks, CutOff, IsFirst, Members, Now
<1> QED BY <1>2, <1>3, <1>5, <1>6, <1>7, <1>8 DEF FileInv

\* A step of f keeps the invariant if it keeps f's part of it.
LEMMA StepKeeps ==
  ASSUME OpenInvariant, NEW f \in Files, Only(f), Accounted(f), TypeOK',
         FileInv(f)'
  PROVE  OpenInvariant'
<1>1. NothingLeaks'
  BY AccountedKeeps DEF OpenInvariant, Only
<1>2. ASSUME NEW g \in Files PROVE FileInv(g)'
  <2>1. CASE g = f
    BY <2>1
  <2>2. CASE g # f
    BY <2>2, OthersKeep DEF OpenInvariant
  <2> QED BY <2>1, <2>2
<1> QED BY <1>1, <1>2 DEF OpenInvariant

\* The parts of the state that belong to one file, with their types.
LEMMA TypesOfFile ==
  ASSUME TypeOK, NEW f \in Files
  PROVE  /\ cookie[f] \in Cookies /\ cookie \in [Files -> Cookies]
         /\ request[f] \in [name : Names \cup {Base}, since : Nat]
         /\ disk \in Seq(Version) /\ Now \in Nat /\ Now >= 1
         /\ live \in LiveType
         /\ \A v \in 1 .. Now : disk[v] \in Version
         /\ NoCookie \in Cookies /\ NewCookie \in Cookies
<1>1. disk \in Seq(Version) /\ Now \in Nat /\ Now >= 1
  BY DEF TypeOK, Now
<1>2. \A v \in 1 .. Now : disk[v] \in Version
  BY <1>1, ElementOfSeq DEF Now
<1>3. NoCookie \in Cookies /\ NewCookie \in Cookies
  BY DEF NoCookie, NewCookie, Cookies, Streams, NoStream, NoHandle
<1> QED BY <1>1, <1>2, <1>3 DEF TypeOK, Cookies, LiveType

\* What a file that is not open and not being opened has: nothing.
LEMMA IdleIsEmpty ==
  ASSUME NEW f \in Files, Shape(f), at[f] = "idle"
  PROVE  /\ ~cookie[f].allocated /\ ~cookie[f].fd /\ ~cookie[f].file
         /\ cookie[f].archive = NoHandle /\ cookie[f].stream = NoStream
BY DEF Shape

\* An open or create that is refused.
LEMMA RefuseKeeps ==
  ASSUME OpenInvariant, NEW f \in Files, NEW error \in {ENOENT, EACCES},
         Refuse(f, error),
         request' \in [Files -> [name : Names \cup {Base}, since : Nat]],
         \A g \in Files \ {f} : request'[g] = request[g],
         request'[f].since \in 1 .. Now,
         live' \in LiveType, Accounted(f), Missing(f)'
  PROVE  OpenInvariant'
<1>1. TypeOK /\ cookie \in [Files -> Cookies] /\ NoCookie \in Cookies
  BY TypesOfFile DEF OpenInvariant
<1>2. /\ UNCHANGED <<disk, zip, damaged, mounted>>
      /\ at'[f] = "idle" /\ cookie'[f] = NoCookie
      /\ cookie' \in [Files -> Cookies]
  BY <1>1 DEF Refuse, Goto, TypeOK
<1>3. Only(f)
  BY <1>1 DEF Only, Refuse, Goto, TypeOK
<1>4. TypeOK'
  BY <1>1, <1>2 DEF TypeOK, Refuse, Goto, LiveType, Cookies
<1>5. /\ ~cookie'[f].allocated /\ ~cookie'[f].fd /\ ~cookie'[f].file
      /\ cookie'[f].archive = NoHandle /\ cookie'[f].stream = NoStream
  BY <1>2 DEF NoCookie
<1>6. Shape(f)'
  BY <1>2, <1>5 DEF Shape
<1>7. Handle(f)'
  BY <1>2, <1>5 DEF Handle, Now
<1>8. Indexed(f)' /\ Streaming(f)' /\ Located(f)'
  BY <1>2, <1>5 DEF Indexed, Streaming, Located, Found
<1>9. FileInv(f)'
  BY <1>6, <1>7, <1>8 DEF FileInv
<1> QED BY <1>3, <1>4, <1>9, StepKeeps

Places == {"idle", "archive_open", "entry_open", "file_open", "open"}

\* A step that leaves f with the cookie c.
LEMMA MoveKeeps ==
  ASSUME OpenInvariant, NEW f \in Files, NEW label \in Places,
         NEW c \in Cookies,
         at' = [at EXCEPT ![f] = label], cookie' = [cookie EXCEPT ![f] = c],
         UNCHANGED <<disk, zip, damaged>>, mounted' \in BOOLEAN,
         request' \in [Files -> [name : Names \cup {Base}, since : Nat]],
         answer' \in [Files -> {0, ENOENT, EACCES}],
         \A g \in Files \ {f} : request'[g] = request[g]
                                /\ answer'[g] = answer[g],
         live' \in LiveType, Accounted(f), FileInv(f)'
  PROVE  OpenInvariant'
<1>1. TypeOK /\ cookie \in [Files -> Cookies]
  BY TypesOfFile DEF OpenInvariant
<1>2. Only(f)
  BY <1>1 DEF Only, TypeOK
<1>3. cookie' \in [Files -> Cookies]
  BY <1>1
<1>4. TypeOK'
  BY <1>1, <1>3 DEF TypeOK, LiveType, Cookies, Places
<1> QED BY <1>2, <1>4, StepKeeps

\* An opened base file has a cookie and a descriptor.
LEMMA OpenBaseKeeps ==
  ASSUME OpenInvariant, NEW f \in Files, OpenBase(f)
  PROVE  OpenInvariant'
<1> DEFINE c == [NewCookie EXCEPT !.fd = TRUE]
<1>1. /\ TypeOK /\ Now \in Nat /\ NewCookie \in Cookies /\ live \in LiveType
      /\ Shape(f) /\ at[f] = "idle"
  BY TypesOfFile DEF OpenInvariant, FileInv, OpenBase, Running
<1>2. c \in Cookies
  BY <1>1 DEF Cookies
<1>3. /\ at' = [at EXCEPT ![f] = "open"] /\ cookie' = [cookie EXCEPT ![f] = c]
      /\ request' = [request EXCEPT ![f] = [name |-> Base, since |-> Now]]
      /\ answer' = [answer EXCEPT ![f] = 0]
      /\ live' = [live EXCEPT !.cookies = @ + 1, !.fds = @ + 1]
      /\ UNCHANGED <<disk, zip, damaged, mounted>>
  BY DEF OpenBase, Goto, Named
<1>4. /\ c.allocated /\ c.fd /\ ~c.file /\ c.archive = NoHandle
      /\ c.stream = NoStream
  BY DEF NewCookie, NoCookie
<1>5. /\ cookie'[f] = c /\ at'[f] = "open" /\ answer'[f] = 0
      /\ request'[f] = [name |-> Base, since |-> Now]
  BY <1>1, <1>3 DEF TypeOK
<1> HIDE DEF c
<1>6. Accounted(f)
  BY <1>1, <1>3, <1>4, <1>5, IdleIsEmpty DEF Accounted, Bit, LiveType
<1>7. Shape(f)'
  BY <1>4, <1>5 DEF Shape
<1>8. Handle(f)'
  BY <1>1, <1>3, <1>4, <1>5 DEF Handle, Now
<1>9. Indexed(f)' /\ Streaming(f)' /\ Located(f)' /\ Missing(f)'
  BY <1>4, <1>5 DEF Indexed, Streaming, Located, Found, Missing, ENOENT
<1>10. /\ live' \in LiveType /\ mounted' \in BOOLEAN
       /\ request' \in [Files -> [name : Names \cup {Base}, since : Nat]]
       /\ answer' \in [Files -> {0, ENOENT, EACCES}]
  <2>1. live' \in LiveType
    <3>1. live.cookies + 1 \in Nat /\ live.fds + 1 \in Nat
      BY <1>1 DEF LiveType
    <3> QED BY <1>1, <1>3, <3>1 DEF LiveType
  <2>2. mounted' \in BOOLEAN
    BY <1>1, <1>3 DEF TypeOK
  <2>3. request' \in [Files -> [name : Names \cup {Base}, since : Nat]]
    BY <1>1, <1>3 DEF TypeOK
  <2>4. answer' \in [Files -> {0, ENOENT, EACCES}]
    BY <1>1, <1>3 DEF TypeOK
  <2> QED BY <2>1, <2>2, <2>3, <2>4
<1>11. \A g \in Files \ {f} : request'[g] = request[g] /\ answer'[g] = answer[g]
  BY <1>1, <1>3 DEF TypeOK
<1>12. FileInv(f)'
  BY <1>7, <1>8, <1>9 DEF FileInv
<1> QED BY <1>2, <1>3, <1>6, <1>10, <1>11, <1>12, MoveKeeps DEF Places

\* A path without an archive is missing in the base file system, too.
LEMMA OpenBaseFailsKeeps ==
  ASSUME OpenInvariant, NEW f \in Files, NEW name \in Names \cup {Base},
         OpenBaseFails(f, name)
  PROVE  OpenInvariant'
<1>1. /\ TypeOK /\ Now \in Nat /\ Now >= 1 /\ live \in LiveType /\ Shape(f)
      /\ at[f] = "idle" /\ disk[Now] \in Version
  BY TypesOfFile DEF OpenInvariant, FileInv, OpenBaseFails, Running
<1>2. /\ Refuse(f, ENOENT) /\ live' = live /\ disk' = disk
      /\ cookie' = [cookie EXCEPT ![f] = NoCookie]
      /\ request' = [request EXCEPT ![f] = [name |-> name, since |-> Now]]
  BY DEF OpenBaseFails, Named, Refuse
<1>3. /\ request' \in [Files -> [name : Names \cup {Base}, since : Nat]]
      /\ \A g \in Files \ {f} : request'[g] = request[g]
      /\ request'[f] = [name |-> name, since |-> Now]
      /\ cookie'[f] = NoCookie
  BY <1>1, <1>2 DEF TypeOK
<1>4. Accounted(f)
  BY <1>1, <1>2, <1>3, IdleIsEmpty DEF Accounted, Bit, LiveType, NoCookie
<1>5. Missing(f)'
  <2>1. CASE name = Base
    BY <1>3, <2>1 DEF Missing
  <2>2. CASE name # Base
    <3>1. disk[Now].kind = "gone"
      BY <2>2 DEF OpenBaseFails
    <3>2. Members(Now)' = <<>> /\ Now' = Now
      BY <1>1, <1>2, <3>1 DEF Version, Members, Now
    <3>3. Range(Members(Now)') = {}
      BY <3>2 DEF Range
    <3>4. request'[f].name \notin Range(Members(Now)')
      BY <3>3
    <3> QED BY <1>1, <1>3, <3>2, <3>4 DEF Missing, Lacks
  <2> QED BY <2>1, <2>2
<1>6. live' \in LiveType /\ request'[f].since \in 1 .. Now
  BY <1>1, <1>2, <1>3
<1> QED BY <1>2, <1>3, <1>4, <1>5, <1>6, RefuseKeeps

\* A refused write leaves nothing behind.
LEMMA WriteRefusedKeeps ==
  ASSUME OpenInvariant, NEW f \in Files, NEW name \in Names,
         WriteRefused(f, name)
  PROVE  OpenInvariant'
<1>1. /\ TypeOK /\ Now \in Nat /\ Now >= 1 /\ live \in LiveType /\ Shape(f)
      /\ at[f] = "idle"
  BY TypesOfFile DEF OpenInvariant, FileInv, WriteRefused, Running
<1>2. /\ Refuse(f, EACCES) /\ live' = live
      /\ cookie' = [cookie EXCEPT ![f] = NoCookie]
      /\ answer' = [answer EXCEPT ![f] = EACCES]
      /\ request' = [request EXCEPT ![f] = [name |-> name, since |-> Now]]
  BY DEF WriteRefused, Named, Refuse
<1>3. /\ request' \in [Files -> [name : Names \cup {Base}, since : Nat]]
      /\ \A g \in Files \ {f} : request'[g] = request[g]
      /\ request'[f] = [name |-> name, since |-> Now]
      /\ cookie'[f] = NoCookie /\ answer'[f] = EACCES
  BY <1>1, <1>2 DEF TypeOK
<1>4. Accounted(f)
  BY <1>1, <1>2, <1>3, IdleIsEmpty DEF Accounted, Bit, LiveType, NoCookie
<1>5. Missing(f)'
  BY <1>3 DEF Missing, ENOENT, EACCES
<1>6. live' \in LiveType /\ request'[f].since \in 1 .. Now
  BY <1>1, <1>2, <1>3
<1> QED BY <1>2, <1>3, <1>4, <1>5, <1>6, RefuseKeeps

\* peepfs_open of a member first has a bare cookie.
LEMMA OpenMemberKeeps ==
  ASSUME OpenInvariant, NEW f \in Files, NEW name \in Names,
         OpenMember(f, name)
  PROVE  OpenInvariant'
<1>1. /\ TypeOK /\ Now \in Nat /\ Now >= 1 /\ NewCookie \in Cookies
      /\ live \in LiveType /\ Shape(f) /\ at[f] = "idle"
  BY TypesOfFile DEF OpenInvariant, FileInv, OpenMember, Running
<1>2. /\ at' = [at EXCEPT ![f] = "archive_open"]
      /\ cookie' = [cookie EXCEPT ![f] = NewCookie]
      /\ request' = [request EXCEPT ![f] = [name |-> name, since |-> Now]]
      /\ answer' = [answer EXCEPT ![f] = 0]
      /\ live' = [live EXCEPT !.cookies = @ + 1]
      /\ UNCHANGED <<disk, zip, damaged, mounted>>
  BY DEF OpenMember, Goto, Named
<1>3. /\ cookie'[f] = NewCookie /\ at'[f] = "archive_open" /\ answer'[f] = 0
      /\ request'[f] = [name |-> name, since |-> Now]
  BY <1>1, <1>2 DEF TypeOK
<1>4. /\ NewCookie.allocated /\ ~NewCookie.fd /\ ~NewCookie.file
      /\ NewCookie.archive = NoHandle /\ NewCookie.stream = NoStream
  BY DEF NewCookie, NoCookie
<1>5. Accounted(f)
  BY <1>1, <1>2, <1>3, <1>4, IdleIsEmpty DEF Accounted, Bit, LiveType
<1>6. Shape(f)'
  BY <1>3, <1>4 DEF Shape
<1>7. Handle(f)'
  BY <1>1, <1>2, <1>3, <1>4 DEF Handle, Now
<1>8. Indexed(f)' /\ Streaming(f)' /\ Located(f)' /\ Missing(f)'
  BY <1>3, <1>4 DEF Indexed, Streaming, Located, Found, Missing, ENOENT
<1>9. /\ live' \in LiveType /\ mounted' \in BOOLEAN
      /\ request' \in [Files -> [name : Names \cup {Base}, since : Nat]]
      /\ answer' \in [Files -> {0, ENOENT, EACCES}]
  <2>1. live' \in LiveType
    BY <1>1, <1>2 DEF LiveType
  <2>2. mounted' \in BOOLEAN
    BY <1>1, <1>2 DEF TypeOK
  <2>3. request' \in [Files -> [name : Names \cup {Base}, since : Nat]]
    BY <1>1, <1>2 DEF TypeOK
  <2>4. answer' \in [Files -> {0, ENOENT, EACCES}]
    BY <1>1, <1>2 DEF TypeOK
  <2> QED BY <2>1, <2>2, <2>3, <2>4
<1>10. \A g \in Files \ {f} : request'[g] = request[g] /\ answer'[g] = answer[g]
  BY <1>1, <1>2 DEF TypeOK
<1>11. FileInv(f)'
  BY <1>6, <1>7, <1>8 DEF FileInv
<1> QED BY <1>1, <1>2, <1>5, <1>9, <1>10, <1>11, MoveKeeps DEF Places

-----------------------------------------------------------------------------
(* The three calls of peepfs_open to the archive.                          *)

\* A step that changes only the cookie, the place and the counts.
LEMMA CookieKeeps ==
  ASSUME OpenInvariant, NEW f \in Files, NEW label \in Places,
         NEW c \in Cookies,
         at' = [at EXCEPT ![f] = label], cookie' = [cookie EXCEPT ![f] = c],
         UNCHANGED <<disk, zip, damaged, request, answer, mounted>>,
         live' \in LiveType, Accounted(f), FileInv(f)'
  PROVE  OpenInvariant'
<1>1. /\ mounted' \in BOOLEAN
      /\ request' \in [Files -> [name : Names \cup {Base}, since : Nat]]
      /\ answer' \in [Files -> {0, ENOENT, EACCES}]
  BY DEF OpenInvariant, TypeOK
<1> QED BY <1>1, MoveKeeps

\* What is known of a file whose open or read is about to go on.
LEMMA AtPlace ==
  ASSUME OpenInvariant, NEW f \in Files
  PROVE  /\ TypeOK /\ at[f] \in Places /\ cookie[f] \in Cookies
         /\ cookie \in [Files -> Cookies] /\ at \in [Files -> Places]
         /\ Now \in Nat /\ Now >= 1 /\ live \in LiveType
         /\ request[f].since \in Nat /\ disk \in Seq(Version)
         /\ Shape(f) /\ Handle(f) /\ Indexed(f) /\ Streaming(f)
         /\ Located(f) /\ Missing(f)
<1>1. TypeOK /\ FileInv(f)
  BY DEF OpenInvariant
<1>2. /\ cookie[f] \in Cookies /\ cookie \in [Files -> Cookies]
      /\ Now \in Nat /\ Now >= 1 /\ live \in LiveType
      /\ request[f] \in [name : Names \cup {Base}, since : Nat]
      /\ disk \in Seq(Version)
  BY <1>1, TypesOfFile
<1>3. at[f] \in Places /\ at \in [Files -> Places]
  BY <1>1 DEF TypeOK, Places
<1> QED BY <1>1, <1>2, <1>3 DEF FileInv

\* libzip holds on to the version that is on disk, libarchive to the name.
LEMMA ArchiveOpenKeeps ==
  ASSUME OpenInvariant, NEW f \in Files, ArchiveOpen(f)
  PROVE  OpenInvariant'
<1> DEFINE h == IF zip THEN Now ELSE ByName
           c == [cookie[f] EXCEPT !.archive = h]
<1>1. /\ TypeOK /\ cookie[f] \in Cookies /\ cookie \in [Files -> Cookies]
      /\ at \in [Files -> Places] /\ Now \in Nat /\ Now >= 1
      /\ live \in LiveType /\ request[f].since \in Nat
      /\ Shape(f) /\ Handle(f) /\ Missing(f)
  BY AtPlace
<1>2. /\ at[f] = "archive_open"
      /\ cookie' = [cookie EXCEPT ![f] = c]
      /\ live' = [live EXCEPT !.archives = @ + 1]
      /\ at' = [at EXCEPT ![f] = "entry_open"]
      /\ UNCHANGED <<disk, zip, damaged, request, answer, mounted>>
  BY <1>1 DEF ArchiveOpen, Running, Goto, Cookies
<1>3. h \in Nat /\ h # NoHandle
  BY <1>1 DEF ByName, NoHandle
<1>4. /\ c \in Cookies
      /\ c.allocated /\ ~c.fd /\ ~c.file /\ c.archive = h
      /\ c.stream = NoStream
  BY <1>1, <1>2, <1>3 DEF Cookies, Shape
<1>5. /\ cookie[f].allocated /\ ~cookie[f].fd /\ ~cookie[f].file
      /\ cookie[f].archive = NoHandle /\ cookie[f].stream = NoStream
  BY <1>1, <1>2 DEF Shape
<1>6. (zip => h = Now) /\ (~zip => h = ByName)
  OBVIOUS
<1> HIDE DEF h, c
<1>7. cookie'[f] = c /\ at'[f] = "entry_open"
  BY <1>1, <1>2
<1>8. Accounted(f)
  BY <1>1, <1>2, <1>3, <1>4, <1>5, <1>7 DEF Accounted, Bit, LiveType
<1>9. live' \in LiveType
  <2>1. live.archives + 1 \in Nat
    BY <1>1 DEF LiveType
  <2> QED BY <1>1, <1>2, <2>1 DEF LiveType
<1>10. Shape(f)'
  BY <1>3, <1>4, <1>7 DEF Shape
<1>11. Handle(f)'
  BY <1>1, <1>2, <1>4, <1>5, <1>6, <1>7 DEF Handle, Now
<1>12. Indexed(f)' /\ Streaming(f)' /\ Located(f)'
  BY <1>4, <1>7 DEF Indexed, Streaming, Located, Found
<1>13. Missing(f)'
  BY <1>1, <1>2 DEF Missing, Lacks, CutOff, OneArchive, IsFirst, Members, Now
<1>14. FileInv(f)'
  BY <1>10, <1>11, <1>12, <1>13 DEF FileInv
<1> QED BY <1>2, <1>4, <1>8, <1>9, <1>14, CookieKeeps DEF Places

\* An open that fails in the archive frees what it has so far.
LEMMA OpeningFailsKeeps ==
  ASSUME OpenInvariant, NEW f \in Files, Refuse(f, ENOENT),
         at[f] \in {"archive_open", "entry_open", "file_open"},
         UNCHANGED request,
         live' = [live EXCEPT !.cookies = @ - 1,
                              !.archives = @ - Bit(at[f] # "archive_open")],
         ~damaged => Lacks(f) \/ CutOff(f)
  PROVE  OpenInvariant'
<1>1. /\ TypeOK /\ cookie \in [Files -> Cookies] /\ live \in LiveType
      /\ request[f].since \in Nat /\ Now \in Nat /\ Shape(f) /\ Handle(f)
      /\ NothingLeaks
  BY AtPlace DEF OpenInvariant
<1>2. /\ cookie'[f] = NoCookie
      /\ disk' = disk /\ zip' = zip /\ damaged' = damaged
  BY <1>1 DEF Refuse
<1>3. /\ cookie[f].allocated /\ ~cookie[f].fd /\ ~cookie[f].file
      /\ cookie[f].stream = NoStream
      /\ cookie[f].archive # NoHandle <=> at[f] # "archive_open"
  BY <1>1 DEF Shape
<1>4. /\ live.cookies - 1 \in Nat
      /\ live.archives - Bit(at[f] # "archive_open") \in Nat
  BY <1>1, <1>3, OwnedIsCounted DEF Bit, LiveType
<1>5. live' \in LiveType
  BY <1>1, <1>4 DEF LiveType
<1>6. Accounted(f)
  <2>1. /\ ~NoCookie.allocated /\ ~NoCookie.fd /\ ~NoCookie.file
        /\ NoCookie.archive = NoHandle /\ NoCookie.stream = NoStream
    BY DEF NoCookie
  <2>2. /\ live'.cookies = live.cookies - 1 /\ live'.fds = live.fds
        /\ live'.archives = live.archives - Bit(at[f] # "archive_open")
        /\ live'.files = live.files /\ live'.streams = live.streams
    BY <1>1 DEF LiveType
  <2> QED BY <1>1, <1>2, <1>3, <2>1, <2>2 DEF Accounted, Bit, LiveType
<1>7. Missing(f)'
  BY <1>1, <1>2 DEF Missing, Lacks, CutOff, OneArchive, IsFirst, Members, Now
<1>8. /\ request' \in [Files -> [name : Names \cup {Base}, since : Nat]]
      /\ request'[f].since \in 1 .. Now
  BY <1>1, <1>3 DEF TypeOK, Handle
<1> QED BY <1>5, <1>6, <1>7, <1>8, RefuseKeeps

\* An archive that does not open has no member of any name.
LEMMA ArchiveOpenFailsKeeps ==
  ASSUME OpenInvariant, NEW f \in Files, ArchiveOpenFails(f)
  PROVE  OpenInvariant'
<1>1. /\ TypeOK /\ Now \in Nat /\ Now >= 1 /\ live \in LiveType
      /\ request[f].since \in Nat /\ Handle(f) /\ disk \in Seq(Version)
  BY AtPlace
<1>2. at[f] = "archive_open" /\ Refuse(f, ENOENT)
  BY DEF ArchiveOpenFails, Running
<1>3. live' = [live EXCEPT !.cookies = @ - 1,
                           !.archives = @ - Bit(at[f] # "archive_open")]
  <2>1. live.archives - Bit(at[f] # "archive_open") = live.archives
    BY <1>1, <1>2 DEF Bit, LiveType
  <2>2. [live EXCEPT !.cookies = @ - 1, !.archives = live.archives]
          = [live EXCEPT !.cookies = @ - 1]
    BY <1>1 DEF LiveType
  <2> QED BY <2>1, <2>2 DEF ArchiveOpenFails
<1>4. ASSUME ~damaged PROVE Lacks(f)
  <2>1. disk[Now] \in Version
    BY <1>1, TypesOfFile
  <2>2. Members(Now) = <<>>
    BY <1>4, <2>1 DEF ArchiveOpenFails, Opens, Version, Members
  <2>3. Range(Members(Now)) = {}
    BY <2>2 DEF Range
  <2>4. request[f].since <= Now
    BY <1>1 DEF Handle
  <2> QED BY <1>1, <2>3, <2>4 DEF Lacks
<1> QED BY <1>2, <1>3, <1>4, OpeningFailsKeeps DEF ArchiveOpenFails

\* The index is that of the first member of the name.
LEMMA EntryOpenKeeps ==
  ASSUME OpenInvariant, NEW f \in Files, EntryOpen(f)
  PROVE  OpenInvariant'
<1>1. PICK i \in FirstMatch(f) : cookie' = [cookie EXCEPT ![f].index = i]
  BY DEF EntryOpen
<1> DEFINE c == [cookie[f] EXCEPT !.index = i]
<1>2. /\ TypeOK /\ cookie[f] \in Cookies /\ cookie \in [Files -> Cookies]
      /\ at \in [Files -> Places] /\ Now \in Nat
      /\ live \in LiveType /\ request[f].since \in Nat
      /\ Shape(f) /\ Handle(f) /\ Missing(f)
  BY AtPlace
<1>3. /\ at[f] = "entry_open"
      /\ cookie' = [cookie EXCEPT ![f] = c]
      /\ at' = [at EXCEPT ![f] = "file_open"]
      /\ UNCHANGED <<disk, zip, damaged, request, live, answer, mounted>>
  BY <1>1, <1>2 DEF EntryOpen, Running, Goto, Cookies
<1>4. /\ i \in Nat
      /\ IsFirst(i, request[f].name, Source(f))
  BY DEF FirstMatch, IsFirst
<1>5. /\ cookie[f].allocated /\ ~cookie[f].fd /\ ~cookie[f].file
      /\ cookie[f].archive # NoHandle /\ cookie[f].stream = NoStream
  BY <1>2, <1>3 DEF Shape
<1>6. /\ c \in Cookies /\ c.allocated /\ ~c.fd /\ ~c.file
      /\ c.archive = cookie[f].archive /\ c.stream = NoStream /\ c.index = i
  BY <1>2, <1>4, <1>5 DEF Cookies
<1> HIDE DEF c
<1>7. cookie'[f] = c /\ at'[f] = "file_open"
  BY <1>2, <1>3
<1>8. Accounted(f)
  BY <1>2, <1>3, <1>5, <1>6, <1>7 DEF Accounted, Bit, LiveType
<1>9. Shape(f)'
  BY <1>5, <1>6, <1>7 DEF Shape
<1>10. Handle(f)'
  BY <1>2, <1>3, <1>5, <1>6, <1>7 DEF Handle, Now
<1>11. Source(f)' = Source(f)
  BY <1>3, <1>6, <1>7 DEF Source, Now
<1>12. Indexed(f)'
  BY <1>3, <1>4, <1>6, <1>7, <1>11 DEF Indexed, IsFirst, Members
<1>13. Streaming(f)' /\ Located(f)'
  <2>1. Source(f) \in request[f].since .. Now
    BY <1>2, <1>3, <1>5 DEF Handle, Source, ByName
  <2> QED BY <1>3, <1>4, <1>6, <1>7, <2>1
          DEF Streaming, Located, Found, StoodFor, IsFirst, Members, Now
<1>14. Missing(f)'
  BY <1>2, <1>3 DEF Missing, Lacks, CutOff, OneArchive, IsFirst, Members, Now
<1>15. FileInv(f)'
  BY <1>9, <1>10, <1>12, <1>13, <1>14 DEF FileInv
<1>16. live' \in LiveType
  BY <1>2, <1>3
<1> QED BY <1>3, <1>6, <1>8, <1>15, <1>16, CookieKeeps DEF Places

\* Without a match, the version that was searched is without the name.
LEMMA EntryOpenFailsKeeps ==
  ASSUME OpenInvariant, NEW f \in Files, EntryOpenFails(f)
  PROVE  OpenInvariant'
<1>1. /\ TypeOK /\ Now \in Nat /\ Now >= 1 /\ live \in LiveType
      /\ request[f].since \in Nat /\ Handle(f) /\ Shape(f)
  BY AtPlace
<1>2. at[f] = "entry_open" /\ Refuse(f, ENOENT)
  BY DEF EntryOpenFails, Running
<1>3. live' = [live EXCEPT !.cookies = @ - 1,
                           !.archives = @ - Bit(at[f] # "archive_open")]
  <2>1. Bit(at[f] # "archive_open") = 1
    BY <1>2 DEF Bit
  <2> QED BY <2>1 DEF EntryOpenFails
<1>4. ASSUME ~damaged PROVE Lacks(f)
  <2> DEFINE hits == {i \in 1 .. Len(Members(Source(f))) :
                        Members(Source(f))[i] = request[f].name}
  <2>1. FirstMatch(f) = {}
    BY <1>4 DEF EntryOpenFails
  <2>2. Source(f) \in request[f].since .. Now /\ Source(f) >= 1
    BY <1>1, <1>2 DEF Handle, Shape, Source, ByName
  <2>3. Members(Source(f)) \in Seq(Names)
    <3>1. disk[Source(f)] \in Version
      BY <1>1, <2>2, TypesOfFile
    <3>2. <<>> \in Seq(Names)
      OBVIOUS
    <3> QED BY <3>1, <3>2, OpenAssumption DEF Version, Members
  <2>4. hits = {}
    <3>1. SUFFICES ASSUME hits # {} PROVE FALSE
      OBVIOUS
    <3>2. hits \in SUBSET Nat
      OBVIOUS
    <3>3. PICK m \in hits : \A n \in hits : m <= n
      BY <3>1, <3>2, LeastOf
    <3>4. m \in FirstMatch(f)
      BY <3>3 DEF FirstMatch
    <3> QED BY <2>1, <3>4
  <2>5. request[f].name \notin Range(Members(Source(f)))
    <3>1. SUFFICES ASSUME request[f].name \in Range(Members(Source(f)))
                   PROVE  FALSE
      OBVIOUS
    <3>2. PICK i \in DOMAIN Members(Source(f)) :
                 Members(Source(f))[i] = request[f].name
      BY <3>1 DEF Range
    <3>3. i \in 1 .. Len(Members(Source(f)))
      BY <2>3, <3>2
    <3> QED BY <2>4, <3>2, <3>3
  <2> QED BY <2>2, <2>5 DEF Lacks
<1> QED BY <1>2, <1>3, <1>4, OpeningFailsKeeps DEF EntryOpenFails

\* A stream is at the index, in no older version than the index is from;
\* while the archive keeps to one version, in that one.
LEMMA StreamIsNamed ==
  ASSUME OpenInvariant, NEW f \in Files, Found(f), StreamAt(f) # NoStream
  PROVE  /\ StreamAt(f) \in Streams
         /\ StreamAt(f).version \in request[f].since .. Now
         /\ StreamAt(f).index = cookie[f].index
         /\ OneArchive(f) => StreamAt(f).version = Source(f)
         /\ StoodFor(f, StreamAt(f).version)
<1>1. /\ cookie[f] \in Cookies /\ Now \in Nat /\ request[f].since \in Nat
      /\ Handle(f) /\ Shape(f) /\ Indexed(f) /\ Located(f)
  BY AtPlace
<1>2. cookie[f].archive # NoHandle
  BY <1>1 DEF Shape, Found
<1>3. CASE zip
  <2>1. cookie[f].archive \in request[f].since .. Now
    BY <1>1, <1>2, <1>3 DEF Handle
  <2>2. request[f].since >= 1
    BY <1>1 DEF Handle, Shape, Found
  <2>3. Source(f) = cookie[f].archive
    BY <1>1, <2>1, <2>2 DEF Source, ByName
  <2>4. StreamAt(f) = [version |-> cookie[f].archive,
                       index |-> cookie[f].index]
    BY <1>3 DEF StreamAt
  <2>5. StoodFor(f, cookie[f].archive)
    <3>1. IsFirst(cookie[f].index, request[f].name, cookie[f].archive)
      BY <1>1, <1>3, <2>3 DEF Indexed, OneArchive
    <3> QED BY <1>1, <2>1, <3>1 DEF StoodFor
  <2> QED BY <1>1, <2>1, <2>3, <2>4, <2>5 DEF Streams, Cookies
<1>4. CASE ~zip
  <2>1. StreamAt(f) = [version |-> Now, index |-> cookie[f].index]
    BY <1>4 DEF StreamAt
  <2>2. cookie[f].archive = ByName /\ request[f].since <= Now
    BY <1>1, <1>2, <1>4 DEF Handle
  <2>3. StoodFor(f, Now)
    BY <1>1 DEF Located
  <2> QED BY <1>1, <2>1, <2>2, <2>3 DEF Streams, Source, Cookies
<1> QED BY <1>3, <1>4

\* The open is complete: the cookie has a file with a stream.
LEMMA FileOpenKeeps ==
  ASSUME OpenInvariant, NEW f \in Files, FileOpen(f)
  PROVE  OpenInvariant'
<1> DEFINE s == StreamAt(f)
           c == [cookie[f] EXCEPT !.file = TRUE, !.stream = s]
<1>1. /\ TypeOK /\ cookie[f] \in Cookies /\ cookie \in [Files -> Cookies]
      /\ at \in [Files -> Places] /\ Now \in Nat
      /\ live \in LiveType /\ request[f].since \in Nat
      /\ Shape(f) /\ Handle(f) /\ Indexed(f) /\ Located(f) /\ Missing(f)
  BY AtPlace
<1>2. /\ at[f] = "file_open" /\ s # NoStream
      /\ cookie' = [cookie EXCEPT ![f] = c]
      /\ live' = [live EXCEPT !.files = @ + 1, !.streams = @ + 1]
      /\ at' = [at EXCEPT ![f] = "open"]
      /\ UNCHANGED <<disk, zip, damaged, request, answer, mounted>>
  BY <1>1 DEF FileOpen, Running, Goto, Cookies
<1>3. /\ s \in Streams /\ s.version \in request[f].since .. Now
      /\ s.index = cookie[f].index
      /\ OneArchive(f) => s.version = Source(f)
      /\ StoodFor(f, s.version)
  BY <1>2, StreamIsNamed DEF Found
<1>4. /\ cookie[f].allocated /\ ~cookie[f].fd /\ ~cookie[f].file
      /\ cookie[f].archive # NoHandle /\ cookie[f].stream = NoStream
  BY <1>1, <1>2 DEF Shape
<1> HIDE DEF s
<1>5. /\ c \in Cookies /\ c.allocated /\ ~c.fd /\ c.file
      /\ c.archive = cookie[f].archive /\ c.stream = s
      /\ c.index = cookie[f].index
  BY <1>1, <1>3, <1>4 DEF Cookies
<1> HIDE DEF c
<1>6. cookie'[f] = c /\ at'[f] = "open"
  BY <1>1, <1>2
<1>7. /\ live' \in LiveType
      /\ live'.cookies = live.cookies /\ live'.fds = live.fds
      /\ live'.archives = live.archives /\ live'.files = live.files + 1
      /\ live'.streams = live.streams + 1
  <2>1. live.files + 1 \in Nat /\ live.streams + 1 \in Nat
    BY <1>1 DEF LiveType
  <2> QED BY <1>1, <1>2, <2>1 DEF LiveType
<1>8. Accounted(f)
  BY <1>1, <1>2, <1>4, <1>5, <1>6, <1>7 DEF Accounted, Bit, LiveType
<1>9. Shape(f)'
  BY <1>2, <1>4, <1>5, <1>6 DEF Shape
<1>10. Handle(f)'
  BY <1>1, <1>2, <1>4, <1>5, <1>6 DEF Handle, Now
<1>11. Source(f)' = Source(f) /\ (OneArchive(f)' <=> OneArchive(f))
  BY <1>2, <1>5, <1>6 DEF Source, OneArchive, Now
<1>12. Indexed(f)'
  BY <1>1, <1>2, <1>5, <1>6, <1>11 DEF Indexed, Found, IsFirst, Members
<1>13. Streaming(f)' /\ Located(f)'
  <2>1. Streaming(f)'
    BY <1>2, <1>3, <1>5, <1>6, <1>11 DEF Streaming, Now
  <2>2. \A u : StoodFor(f, u)' <=> StoodFor(f, u)
    BY <1>2, <1>5, <1>6 DEF StoodFor, IsFirst, Members
  <2>3. StoodFor(f, s.version) /\ StoodFor(f, Now) /\ Now' = Now
    BY <1>1, <1>2, <1>3 DEF Located, Found, Now
  <2>4. cookie'[f].stream = s
    BY <1>5, <1>6
  <2> QED BY <2>1, <2>2, <2>3, <2>4 DEF Located
<1>14. Missing(f)'
  BY <1>1, <1>2, <1>11 DEF Missing, Lacks, CutOff, IsFirst, Members, Now
<1>15. FileInv(f)'
  BY <1>9, <1>10, <1>12, <1>13, <1>14 DEF FileInv
<1> QED BY <1>2, <1>5, <1>7, <1>8, <1>15, CookieKeeps DEF Places

\* A member that was found is there to open, if the archive is the same.
LEMMA FileOpenFailsKeeps ==
  ASSUME OpenInvariant, NEW f \in Files, FileOpenFails(f)
  PROVE  OpenInvariant'
<1>1. /\ TypeOK /\ cookie[f] \in Cookies /\ Now \in Nat /\ Now >= 1
      /\ live \in LiveType /\ request[f].since \in Nat
      /\ Handle(f) /\ Shape(f) /\ Indexed(f) /\ Located(f)
  BY AtPlace
<1>2. at[f] = "file_open" /\ Refuse(f, ENOENT)
  BY DEF FileOpenFails, Running
<1>3. live' = [live EXCEPT !.cookies = @ - 1,
                           !.archives = @ - Bit(at[f] # "archive_open")]
  <2>1. Bit(at[f] # "archive_open") = 1
    BY <1>2 DEF Bit
  <2> QED BY <2>1 DEF FileOpenFails
<1>4. ASSUME OneArchive(f) PROVE StreamAt(f) # NoStream
  <2>1. cookie[f].archive # NoHandle /\ ~cookie[f].fd
    BY <1>1, <1>2 DEF Shape
  <2>2. CASE zip
    <3>1. cookie[f].archive >= 1
      BY <1>1, <1>2, <2>1, <2>2 DEF Handle
    <3>2. StreamAt(f).version = cookie[f].archive
      BY <2>2 DEF StreamAt
    <3>3. NoStream.version = 0
      BY DEF NoStream
    <3> QED BY <1>1, <3>1, <3>2, <3>3
  <2>3. CASE ~zip
    <3>1. Source(f) = Now
      BY <1>1, <2>1, <2>3 DEF Handle, Source
    <3>2. cookie[f].index \in 1 .. Len(Members(Now))
      BY <1>2, <1>4, <1>1, <3>1 DEF Indexed, Found, IsFirst
    <3>3. disk[Now] \in Version
      BY <1>1, TypesOfFile
    <3>4. Len(<<>>) = 0
      OBVIOUS
    <3>5. disk[Now].kind = "archive"
      BY <3>2, <3>3, <3>4 DEF Version, Members
    <3>6. Members(Now) \in Seq(Names)
      BY <3>3, <3>5, OpenAssumption DEF Version, Members
    <3>7. cookie[f].index <= Len(Members(Now)) + 1
      BY <3>2, <3>6
    <3>8. StreamAt(f) = [version |-> Now, index |-> cookie[f].index]
      BY <1>1, <2>3, <3>5, <3>2, <3>6, <3>7 DEF StreamAt, Cookies
    <3>9. StreamAt(f).version = Now /\ NoStream.version = 0
      BY <3>8 DEF NoStream
    <3> QED BY <1>1, <3>9
  <2> QED BY <2>2, <2>3
<1>5. ASSUME ~damaged PROVE Lacks(f) \/ CutOff(f)
  <2>1. ~zip /\ ~OneArchive(f) /\ request[f].since <= Now
    BY <1>1, <1>4, <1>5 DEF FileOpenFails, OneArchive, Handle
  <2>2. CASE disk[Now].kind # "archive"
    <3>1. disk[Now] \in Version
      BY <1>1, TypesOfFile
    <3>2. Range(Members(Now)) = {}
      BY <2>2, <3>1 DEF Version, Members, Range
    <3> QED BY <1>1, <2>1, <3>2 DEF Lacks
  <2>3. CASE disk[Now].kind = "archive"
    <3>1. PICK u \in request[f].since .. Now :
                 IsFirst(cookie[f].index, request[f].name, u)
      BY <1>1, <1>2 DEF Located, Found, StoodFor
    <3>2. Len(Members(Now)) \in Nat
      <4>1. disk[Now] \in Version
        BY <1>1, TypesOfFile
      <4>2. Members(Now) \in Seq(Names)
        BY <2>3, <4>1, OpenAssumption DEF Version, Members
      <4> QED BY <4>2
    <3>3. cookie[f].index \in 1 .. Len(Members(u)) /\ cookie[f].index \in Nat
      BY <3>1 DEF IsFirst
    <3>4. cookie[f].index > Len(Members(Now)) + 1
      <4>1. SUFFICES ASSUME ~(cookie[f].index > Len(Members(Now)) + 1)
                     PROVE  FALSE
        OBVIOUS
      <4>2. StreamAt(f).version = Now
        BY <2>1, <2>3, <4>1 DEF StreamAt
      <4>3. StreamAt(f) = NoStream
        BY <1>5 DEF FileOpenFails
      <4> QED BY <1>1, <4>2, <4>3 DEF NoStream
    <3>5. u < Now
      BY <1>1, <3>1, <3>2, <3>3, <3>4
    <3>6. cookie[f].index > Len(Members(Now))
      BY <3>2, <3>3, <3>4
    <3>7. Now \in request[f].since .. Now
      BY <1>1, <2>1
    <3> QED BY <2>1, <3>1, <3>3, <3>5, <3>6, <3>7 DEF CutOff
  <2> QED BY <2>2, <2>3
<1> QED BY <1>2, <1>3, <1>5, OpeningFailsKeeps DEF FileOpenFails

-----------------------------------------------------------------------------
(* Reads, releases, and other programs.                                    *)

\* A stream that replaces a stream is at the same member.
LEMMA ReadRestartsKeeps ==
  ASSUME OpenInvariant, NEW f \in Files, ReadRestarts(f)
  PROVE  OpenInvariant'
<1> DEFINE s == StreamAt(f)
           c == [cookie[f] EXCEPT !.stream = s]
<1>1. /\ TypeOK /\ cookie[f] \in Cookies /\ cookie \in [Files -> Cookies]
      /\ at \in [Files -> Places] /\ Now \in Nat
      /\ live \in LiveType /\ request[f].since \in Nat
      /\ Shape(f) /\ Handle(f) /\ Indexed(f) /\ Located(f) /\ Missing(f)
  BY AtPlace
<1>2. /\ at[f] = "open" /\ s # NoStream /\ cookie[f].file
      /\ ~cookie[f].error
      /\ cookie' = [cookie EXCEPT ![f] = c]
      /\ UNCHANGED <<disk, zip, damaged, at, request, live, answer, mounted>>
  BY <1>1 DEF ReadRestarts, Running, Cookies
<1>3. /\ s \in Streams /\ s.version \in request[f].since .. Now
      /\ s.index = cookie[f].index
      /\ OneArchive(f) => s.version = Source(f)
      /\ StoodFor(f, s.version)
  BY <1>2, StreamIsNamed DEF Found
<1>4. /\ cookie[f].allocated /\ ~cookie[f].fd
      /\ cookie[f].archive # NoHandle /\ cookie[f].stream # NoStream
  BY <1>1, <1>2 DEF Shape
<1> HIDE DEF s
<1>5. /\ c \in Cookies /\ c.allocated /\ ~c.fd /\ c.file
      /\ c.archive = cookie[f].archive /\ c.stream = s
      /\ c.index = cookie[f].index
  BY <1>1, <1>2, <1>3, <1>4 DEF Cookies
<1> HIDE DEF c
<1>6. /\ cookie'[f] = c /\ at'[f] = "open"
      /\ at' = [at EXCEPT ![f] = "open"] /\ live' \in LiveType
  BY <1>1, <1>2
<1>7. Accounted(f)
  BY <1>1, <1>2, <1>4, <1>5, <1>6 DEF Accounted, Bit, LiveType
<1>8. Shape(f)'
  BY <1>2, <1>4, <1>5, <1>6 DEF Shape
<1>9. Handle(f)'
  BY <1>1, <1>2, <1>4, <1>5, <1>6 DEF Handle, Now
<1>10. Source(f)' = Source(f) /\ (OneArchive(f)' <=> OneArchive(f))
  BY <1>2, <1>5, <1>6 DEF Source, OneArchive, Now
<1>11. Indexed(f)'
  BY <1>1, <1>2, <1>5, <1>6, <1>10 DEF Indexed, Found, IsFirst, Members
<1>12. Streaming(f)' /\ Located(f)'
  <2>1. Streaming(f)'
    BY <1>2, <1>3, <1>5, <1>6, <1>10 DEF Streaming, Now
  <2>2. \A u : StoodFor(f, u)' <=> StoodFor(f, u)
    BY <1>2, <1>5, <1>6 DEF StoodFor, IsFirst, Members
  <2>3. StoodFor(f, s.version) /\ StoodFor(f, Now) /\ Now' = Now
    BY <1>1, <1>2, <1>3 DEF Located, Found, Now
  <2>4. cookie'[f].stream = s
    BY <1>5, <1>6
  <2> QED BY <2>1, <2>2, <2>3, <2>4 DEF Located
<1>13. Missing(f)'
  BY <1>1, <1>2, <1>10 DEF Missing, Lacks, CutOff, IsFirst, Members, Now
<1>14. FileInv(f)'
  BY <1>8, <1>9, <1>11, <1>12, <1>13 DEF FileInv
<1> QED BY <1>2, <1>5, <1>6, <1>7, <1>14, CookieKeeps DEF Places

\* A failed read may take the stream, and then leaves an error behind.
LEMMA ReadFailsKeeps ==
  ASSUME OpenInvariant, NEW f \in Files, NEW kept \in BOOLEAN,
         at[f] = "open", cookie[f].file, ~cookie[f].error,
         cookie' = [cookie EXCEPT
                      ![f].stream = IF kept THEN @ ELSE NoStream,
                      ![f].error = TRUE],
         live' = [live EXCEPT !.streams = IF kept THEN @ ELSE @ - 1],
         UNCHANGED <<disk, zip, damaged, at, request, answer, mounted>>
  PROVE  OpenInvariant'
<1> DEFINE s == IF kept THEN cookie[f].stream ELSE NoStream
           c == [cookie[f] EXCEPT !.stream = s, !.error = TRUE]
<1>1. /\ TypeOK /\ cookie[f] \in Cookies /\ cookie \in [Files -> Cookies]
      /\ at \in [Files -> Places] /\ Now \in Nat
      /\ live \in LiveType /\ request[f].since \in Nat
      /\ Shape(f) /\ Handle(f) /\ Indexed(f) /\ Streaming(f)
      /\ Located(f) /\ Missing(f) /\ NothingLeaks
  BY AtPlace DEF OpenInvariant
<1>2. cookie' = [cookie EXCEPT ![f] = c]
  BY <1>1 DEF Cookies
<1>3. /\ cookie[f].allocated /\ ~cookie[f].fd
      /\ cookie[f].archive # NoHandle /\ cookie[f].stream # NoStream
  BY <1>1 DEF Shape
<1>4. s = IF kept THEN cookie[f].stream ELSE NoStream
  OBVIOUS
<1>5. s \in Streams
  BY <1>1 DEF Cookies, Streams, NoStream
<1> HIDE DEF s
<1>6. /\ c \in Cookies /\ c.allocated /\ ~c.fd /\ c.file
      /\ c.archive = cookie[f].archive /\ c.stream = s
      /\ c.index = cookie[f].index /\ c.error
  BY <1>1, <1>3, <1>5 DEF Cookies
<1> HIDE DEF c
<1>7. /\ cookie'[f] = c /\ at'[f] = "open"
      /\ at' = [at EXCEPT ![f] = "open"]
  BY <1>1, <1>2
<1>8. /\ live' \in LiveType
      /\ live'.cookies = live.cookies /\ live'.fds = live.fds
      /\ live'.archives = live.archives /\ live'.files = live.files
      /\ live'.streams = IF kept THEN live.streams ELSE live.streams - 1
  <2>1. live.streams - 1 \in Nat /\ live.streams \in Nat
    BY <1>1, <1>3, OwnedIsCounted
  <2> QED BY <1>1, <2>1 DEF LiveType
<1>9. Accounted(f)
  BY <1>1, <1>3, <1>4, <1>6, <1>7, <1>8 DEF Accounted, Bit, LiveType
<1>10. Shape(f)'
  BY <1>3, <1>6, <1>7 DEF Shape
<1>11. Handle(f)'
  BY <1>1, <1>3, <1>6, <1>7 DEF Handle, Now
<1>12. Source(f)' = Source(f) /\ (OneArchive(f)' <=> OneArchive(f))
  BY <1>6, <1>7 DEF Source, OneArchive, Now
<1>13. Indexed(f)'
  BY <1>1, <1>6, <1>7, <1>12 DEF Indexed, Found, IsFirst, Members
<1>14. Streaming(f)' /\ Located(f)'
  <2>1. Streaming(f)'
    BY <1>1, <1>4, <1>6, <1>7, <1>12 DEF Streaming, Now
  <2>2. s # NoStream => s = cookie[f].stream
    BY <1>4
  <2> QED BY <1>1, <1>3, <1>6, <1>7, <2>1, <2>2
          DEF Located, Found, StoodFor, IsFirst, Members, Now
<1>15. Missing(f)'
  BY <1>1, <1>12 DEF Missing, Lacks, CutOff, IsFirst, Members, Now
<1>16. FileInv(f)'
  BY <1>10, <1>11, <1>13, <1>14, <1>15 DEF FileInv
<1> QED BY <1>2, <1>6, <1>7, <1>8, <1>9, <1>16, CookieKeeps DEF Places

\* A restart that fails loses the stream.
LEMMA ReadRestartFailsKeeps ==
  ASSUME OpenInvariant, NEW f \in Files, ReadRestartFails(f)
  PROVE  OpenInvariant'
BY ReadFailsKeeps DEF ReadRestartFails, Running

\* A skip that fails keeps it.
LEMMA ReadSkipFailsKeeps ==
  ASSUME OpenInvariant, NEW f \in Files, ReadSkipFails(f)
  PROVE  OpenInvariant'
<1>1. /\ cookie[f] \in Cookies /\ cookie \in [Files -> Cookies]
      /\ live \in LiveType
  BY AtPlace
<1>2. live' = [live EXCEPT !.streams = @]
  BY <1>1 DEF ReadSkipFails, LiveType
<1>3. cookie' = [cookie EXCEPT ![f].stream = @, ![f].error = TRUE]
  BY <1>1 DEF ReadSkipFails, Cookies
<1> QED BY <1>2, <1>3, ReadFailsKeeps DEF ReadSkipFails, Running

\* A release frees all that the cookie has.
LEMMA FreedKeeps ==
  ASSUME OpenInvariant, NEW f \in Files, at[f] = "open", Freed(f),
         live' = [live EXCEPT !.cookies = @ - 1,
                              !.fds = @ - Bit(cookie[f].fd),
                              !.archives = @ - Bit(cookie[f].file),
                              !.files = @ - Bit(cookie[f].file),
                              !.streams = @ - Bit(cookie[f].stream # NoStream)]
  PROVE  OpenInvariant'
<1>1. /\ TypeOK /\ cookie[f] \in Cookies /\ cookie \in [Files -> Cookies]
      /\ at \in [Files -> Places] /\ Now \in Nat /\ NoCookie \in Cookies
      /\ live \in LiveType /\ request[f].since \in Nat
      /\ Shape(f) /\ Handle(f) /\ Missing(f) /\ NothingLeaks
  BY AtPlace, TypesOfFile DEF OpenInvariant
<1>2. /\ cookie' = [cookie EXCEPT ![f] = NoCookie]
      /\ at' = [at EXCEPT ![f] = "idle"]
      /\ UNCHANGED <<disk, zip, damaged, request, answer, mounted>>
  BY DEF Freed, Goto
<1>3. cookie'[f] = NoCookie /\ at'[f] = "idle"
  BY <1>1, <1>2
<1>4. /\ ~NoCookie.allocated /\ ~NoCookie.fd /\ ~NoCookie.file
      /\ NoCookie.archive = NoHandle /\ NoCookie.stream = NoStream
  BY DEF NoCookie
<1>5. /\ cookie[f].allocated
      /\ cookie[f].archive # NoHandle <=> cookie[f].file
  BY <1>1 DEF Shape
<1>6. /\ live.cookies - 1 \in Nat
      /\ live.fds - Bit(cookie[f].fd) \in Nat
      /\ live.archives - Bit(cookie[f].file) \in Nat
      /\ live.files - Bit(cookie[f].file) \in Nat
      /\ live.streams - Bit(cookie[f].stream # NoStream) \in Nat
  BY <1>1, <1>5, OwnedIsCounted DEF Bit
<1>7. /\ live' \in LiveType
      /\ live'.cookies = live.cookies - 1
      /\ live'.fds = live.fds - Bit(cookie[f].fd)
      /\ live'.archives = live.archives - Bit(cookie[f].file)
      /\ live'.files = live.files - Bit(cookie[f].file)
      /\ live'.streams = live.streams - Bit(cookie[f].stream # NoStream)
  BY <1>1, <1>6 DEF LiveType
<1>8. Accounted(f)
  <2>1. /\ live.cookies \in Nat /\ live.fds \in Nat /\ live.archives \in Nat
        /\ live.files \in Nat /\ live.streams \in Nat
    BY <1>1 DEF LiveType
  <2> QED BY <1>3, <1>4, <1>5, <1>7, <2>1 DEF Accounted, Bit
<1>9. Shape(f)'
  BY <1>3, <1>4 DEF Shape
<1>10. Handle(f)'
  BY <1>1, <1>2, <1>3, <1>4 DEF Handle, Now
<1>11. Indexed(f)' /\ Streaming(f)' /\ Located(f)'
  BY <1>3, <1>4 DEF Indexed, Streaming, Located, Found
<1>12. Missing(f)'
  BY <1>1, <1>2 DEF Missing, Lacks, CutOff, OneArchive, IsFirst, Members, Now
<1>13. FileInv(f)'
  BY <1>9, <1>10, <1>11, <1>12 DEF FileInv
<1> QED BY <1>1, <1>2, <1>7, <1>8, <1>13, CookieKeeps DEF Places

\* A base file has a descriptor and nothing of an archive.
LEMMA ReleaseBaseKeeps ==
  ASSUME OpenInvariant, NEW f \in Files, ReleaseBase(f)
  PROVE  OpenInvariant'
<1>1. /\ live \in LiveType /\ Shape(f) /\ at[f] = "open" /\ ~cookie[f].file
      /\ live' = [live EXCEPT !.cookies = @ - 1, !.fds = @ - 1] /\ Freed(f)
  BY AtPlace DEF ReleaseBase, Running
<1>2. cookie[f].fd /\ cookie[f].stream = NoStream
  BY <1>1 DEF Shape
<1>3. Bit(cookie[f].fd) = 1 /\ Bit(cookie[f].file) = 0
      /\ Bit(cookie[f].stream # NoStream) = 0
  BY <1>1, <1>2 DEF Bit
<1>4. /\ live.archives - 0 = live.archives /\ live.files - 0 = live.files
      /\ live.streams - 0 = live.streams
  BY <1>1 DEF LiveType
<1>5. [live EXCEPT !.cookies = @ - 1, !.fds = @ - 1]
        = [live EXCEPT !.cookies = @ - 1, !.fds = @ - 1,
                       !.archives = @, !.files = @, !.streams = @]
  BY <1>1 DEF LiveType
<1> QED BY <1>1, <1>3, <1>4, <1>5, FreedKeeps

\* An open member has an archive and a file, and may have a stream.
LEMMA ReleaseMemberKeeps ==
  ASSUME OpenInvariant, NEW f \in Files, ReleaseMember(f)
  PROVE  OpenInvariant'
<1>1. /\ live \in LiveType /\ Shape(f) /\ at[f] = "open" /\ cookie[f].file
      /\ Freed(f)
  BY AtPlace DEF ReleaseMember, Running
<1> DEFINE n == IF cookie[f].stream = NoStream THEN live.streams
                ELSE live.streams - 1
<1>2. live' = [live EXCEPT !.cookies = @ - 1, !.archives = @ - 1,
                           !.files = @ - 1, !.streams = n]
  BY DEF ReleaseMember
<1>3. Bit(cookie[f].fd) = 0 /\ Bit(cookie[f].file) = 1
  BY <1>1 DEF Shape, Bit
<1>4. n = live.streams - Bit(cookie[f].stream # NoStream)
  BY <1>1 DEF Bit, LiveType
<1>5. live.fds - 0 = live.fds
  BY <1>1 DEF LiveType
<1> HIDE DEF n
<1>6. live' = [live EXCEPT !.cookies = @ - 1, !.fds = @, !.archives = @ - 1,
                           !.files = @ - 1, !.streams = n]
  BY <1>1, <1>2 DEF LiveType
<1> QED BY <1>1, <1>3, <1>4, <1>5, <1>6, FreedKeeps

\* A crash ends all steps and changes nothing else.
LEMMA ReleaseNullStreamKeeps ==
  ASSUME OpenInvariant, NEW f \in Files, ReleaseNullStream(f)
  PROVE  OpenInvariant'
<1>1. /\ UNCHANGED <<disk, zip, damaged, at, request, cookie, live, answer>>
      /\ mounted' = FALSE
  BY DEF ReleaseNullStream
<1>2. TypeOK'
  BY <1>1 DEF OpenInvariant, TypeOK
<1>3. NothingLeaks'
  BY <1>1 DEF OpenInvariant, NothingLeaks, WithCookie, WithFd, WithArchive,
              WithFile, WithStream
<1>4. ASSUME NEW g \in Files PROVE FileInv(g)'
  BY <1>1 DEF OpenInvariant, FileInv, Shape, Handle, Indexed, Streaming,
              Located, Found, StoodFor, Missing, Lacks, CutOff, IsFirst,
              OneArchive, Source, Members, Now
<1> QED BY <1>2, <1>3, <1>4 DEF OpenInvariant

\* A new version takes nothing from the versions that there were.
LEMMA RewriteKeeps ==
  ASSUME OpenInvariant, Rewrite
  PROVE  OpenInvariant'
<1>1. PICK v \in Version : disk' = Append(disk, v)
  BY DEF Rewrite
<1>2. UNCHANGED <<zip, damaged, at, request, cookie, live, answer, mounted>>
  BY DEF Rewrite
<1>3. TypeOK /\ disk \in Seq(Version)
  BY DEF OpenInvariant, TypeOK
<1>4. /\ disk' \in Seq(Version) /\ disk' # <<>>
      /\ Now \in Nat /\ Now' = Now + 1
      /\ \A u \in 1 .. Now : disk'[u] = disk[u]
  BY <1>1, <1>3 DEF Now
<1>5. TypeOK'
  BY <1>2, <1>3, <1>4 DEF TypeOK
<1>6. NothingLeaks'
  BY <1>2 DEF OpenInvariant, NothingLeaks, WithCookie, WithFd, WithArchive,
              WithFile, WithStream
<1>7. ASSUME NEW f \in Files PROVE FileInv(f)'
  <2>1. /\ cookie[f] \in Cookies /\ request[f].since \in Nat
        /\ Shape(f) /\ Handle(f) /\ Indexed(f) /\ Streaming(f)
        /\ Located(f) /\ Missing(f)
    BY AtPlace
  <2>2. Shape(f)'
    BY <1>2, <2>1 DEF Shape
  <2>3. Handle(f)'
    BY <1>2, <1>4, <2>1 DEF Handle
  <2>4. OneArchive(f)' => zip /\ OneArchive(f)
    BY <1>2, <1>4, <2>1 DEF OneArchive, Handle
  <2>5. \A u \in 1 .. Now : Members(u)' = Members(u)
    BY <1>4 DEF Members
  <2>6. ASSUME Found(f)
        PROVE  /\ request[f].since >= 1 /\ cookie[f].archive # NoHandle
               /\ zip => /\ Source(f) \in 1 .. Now
                         /\ Source(f)' = Source(f)
    <3>1. /\ cookie[f].archive # NoHandle /\ at[f] # "idle" /\ ~cookie[f].fd
      BY <2>1, <2>6 DEF Shape, Found
    <3>2. request[f].since >= 1
      BY <2>1, <3>1 DEF Handle
    <3>3. ASSUME zip
          PROVE  Source(f) \in 1 .. Now /\ Source(f)' = Source(f)
      <4>1. cookie[f].archive \in 1 .. Now /\ cookie[f].archive # ByName
        BY <1>4, <2>1, <3>1, <3>2, <3>3 DEF Handle, ByName
      <4> QED BY <1>2, <4>1 DEF Source
    <3> QED BY <3>1, <3>2, <3>3
  <2>7. Indexed(f)'
    <3>1. SUFFICES ASSUME Found(f), zip, OneArchive(f)
                   PROVE  IsFirst(cookie[f].index, request[f].name, Source(f))'
      BY <1>2, <2>4 DEF Indexed, Found
    <3>2. IsFirst(cookie[f].index, request[f].name, Source(f))
      BY <2>1, <3>1 DEF Indexed
    <3>3. Source(f)' = Source(f) /\ Members(Source(f))' = Members(Source(f))
      <4>1. Source(f) \in 1 .. Now /\ Source(f)' = Source(f)
        BY <2>6, <3>1
      <4> QED BY <1>4, <4>1 DEF Members
    <3> QED BY <1>2, <3>2, <3>3 DEF IsFirst
  <2>8. Streaming(f)'
    <3>1. cookie[f].stream # NoStream => Found(f)
      BY <2>1 DEF Shape, Found
    <3> QED BY <1>2, <1>4, <2>1, <2>4, <2>6, <3>1 DEF Streaming
  <2>9. \A u \in 1 .. Now : \A i, name :
          IsFirst(i, name, u)' <=> IsFirst(i, name, u)
    BY <2>5 DEF IsFirst
  <2>10. Located(f)'
    <3>1. ASSUME NEW u \in 1 .. Now, request[f].since >= 1, StoodFor(f, u),
                 NEW w \in {u, Now + 1}
          PROVE  StoodFor(f, w)'
      <4>1. PICK o \in request[f].since .. u :
                   IsFirst(cookie[f].index, request[f].name, o)
        BY <3>1 DEF StoodFor
      <4>2. o \in 1 .. Now /\ o \in request[f].since .. w
        BY <1>4, <2>1, <3>1, <4>1
      <4>3. IsFirst(cookie[f].index, request[f].name, o)'
        BY <1>2, <4>1, <4>2, <2>9
      <4> QED BY <1>2, <4>2, <4>3 DEF StoodFor
    <3>2. Found(f) => StoodFor(f, Now)'
      <4>1. Now \in 1 .. Now
        BY <1>3, <1>4, TypesOfFile
      <4> QED BY <1>4, <2>1, <2>6, <3>1, <4>1 DEF Located
    <3>3. cookie[f].stream # NoStream => StoodFor(f, cookie[f].stream.version)'
      <4>1. SUFFICES ASSUME cookie[f].stream # NoStream
                     PROVE  StoodFor(f, cookie[f].stream.version)'
        OBVIOUS
      <4>2. Found(f)
        BY <2>1, <4>1 DEF Shape, Found
      <4>3. cookie[f].stream.version \in 1 .. Now /\ request[f].since >= 1
        BY <1>4, <2>1, <2>6, <4>1, <4>2 DEF Streaming
      <4>4. StoodFor(f, cookie[f].stream.version)
        BY <2>1, <4>1 DEF Located
      <4>5. cookie'[f].stream.version = cookie[f].stream.version
        BY <1>2
      <4> HIDE DEF StoodFor
      <4> DEFINE u == cookie[f].stream.version
      <4>6. StoodFor(f, u)'
        BY <1>2, <3>1, <4>3, <4>4
      <4> QED BY <4>5, <4>6
    <3> QED BY <1>2, <3>2, <3>3 DEF Located, Found
  <2>11. Missing(f)'
    <3>1. SUFFICES ASSUME answer[f] = ENOENT, request[f].name # Base, ~damaged
                   PROVE  Lacks(f)' \/ CutOff(f)'
      BY <1>2 DEF Missing
    <3>2. request[f].since >= 1
      BY <2>1, <3>1 DEF Handle
    <3>3. CASE Lacks(f)
      BY <1>2, <1>4, <2>1, <2>5, <3>2, <3>3 DEF Lacks
    <3>4. CASE CutOff(f)
      <4>6. PICK u, w \in request[f].since .. Now :
                 \E j \in 1 .. Len(Members(u)) :
                   IsFirst(j, request[f].name, u) /\ u < w /\ j > Len(Members(w))
        BY <3>4 DEF CutOff
      <4>1. PICK i \in 1 .. Len(Members(u)) :
                 IsFirst(i, request[f].name, u) /\ u < w /\ i > Len(Members(w))
        BY <4>6
      <4>2. u \in 1 .. Now /\ w \in 1 .. Now
        BY <1>4, <2>1, <3>2
      <4>3. /\ IsFirst(i, request[f].name, u)'
            /\ Members(u)' = Members(u) /\ Members(w)' = Members(w)
        BY <1>2, <2>5, <2>9, <4>1, <4>2
      <4>4. u \in request[f].since .. Now' /\ w \in request[f].since .. Now'
        BY <1>4, <2>1, <4>1
      <4>5. ~OneArchive(f)'
        BY <2>4, <3>4 DEF CutOff
      <4> QED BY <1>2, <4>1, <4>3, <4>4, <4>5 DEF CutOff
    <3> QED BY <2>1, <3>1, <3>3, <3>4 DEF Missing
  <2> QED BY <2>2, <2>3, <2>7, <2>8, <2>10, <2>11 DEF FileInv
<1> QED BY <1>5, <1>6, <1>7 DEF OpenInvariant

-----------------------------------------------------------------------------
(* The theorems.                                                           *)

\* Nothing is open at first.
LEMMA InitHolds == Init => OpenInvariant
<1> SUFFICES ASSUME Init PROVE OpenInvariant
  OBVIOUS
<1>1. PICK v \in Version : disk = <<v>>
  BY DEF Init
<1>2. disk \in Seq(Version) /\ disk # <<>> /\ Now = 1
  BY <1>1 DEF Now
<1>3. NoCookie \in Cookies /\ NoCookie = [allocated |-> FALSE, fd |-> FALSE,
        archive |-> NoHandle, index |-> 0, file |-> FALSE,
        stream |-> NoStream, error |-> FALSE]
  BY DEF NoCookie, Cookies, Streams, NoStream, NoHandle
<1>4. live \in LiveType
  BY DEF Init, LiveType
<1>5. TypeOK
  BY <1>2, <1>3, <1>4 DEF Init, TypeOK, Cookies, LiveType, NoRequest
<1>6. NothingLeaks
  <2>1. /\ WithCookie = {} /\ WithFd = {} /\ WithArchive = {}
        /\ WithFile = {} /\ WithStream = {}
    BY <1>3 DEF Init, WithCookie, WithFd, WithArchive, WithFile, WithStream
  <2> QED BY <2>1, FS_EmptySet DEF Init, NothingLeaks
<1>7. ASSUME NEW f \in Files PROVE FileInv(f)
  <2>1. at[f] = "idle" /\ cookie[f] = NoCookie /\ answer[f] = 0
        /\ request[f] = NoRequest
    BY DEF Init
  <2>2. Shape(f)
    BY <1>3, <2>1 DEF Shape
  <2>3. Handle(f)
    BY <1>2, <1>3, <2>1 DEF Handle, NoRequest
  <2>4. Indexed(f) /\ Streaming(f) /\ Located(f) /\ Missing(f)
    BY <1>3, <2>1 DEF Indexed, Streaming, Located, Found, Missing, ENOENT
  <2> QED BY <2>2, <2>3, <2>4 DEF FileInv
<1> QED BY <1>5, <1>6, <1>7 DEF OpenInvariant

\* Every step keeps the invariant.
LEMMA NextKeeps == OpenInvariant /\ [Next]_vars => OpenInvariant'
<1> SUFFICES ASSUME OpenInvariant, [Next]_vars PROVE OpenInvariant'
  OBVIOUS
<1>1. CASE Rewrite
  BY <1>1, RewriteKeeps
<1>2. ASSUME NEW f \in Files, Open(f) PROVE OpenInvariant'
  BY <1>2, OpenBaseKeeps, OpenBaseFailsKeeps, WriteRefusedKeeps,
     OpenMemberKeeps DEF Open
<1>3. ASSUME NEW f \in Files, Opening(f) PROVE OpenInvariant'
  BY <1>3, ArchiveOpenKeeps, ArchiveOpenFailsKeeps, EntryOpenKeeps,
     EntryOpenFailsKeeps, FileOpenKeeps, FileOpenFailsKeeps DEF Opening
<1>4. ASSUME NEW f \in Files, Read(f) PROVE OpenInvariant'
  BY <1>4, ReadRestartsKeeps, ReadRestartFailsKeeps, ReadSkipFailsKeeps
     DEF Read
<1>5. ASSUME NEW f \in Files, Release(f) PROVE OpenInvariant'
  BY <1>5, ReleaseBaseKeeps, ReleaseMemberKeeps, ReleaseNullStreamKeeps
     DEF Release
<1>6. CASE UNCHANGED vars
  <2>1. UNCHANGED <<disk, zip, damaged, at, request, cookie, live, answer,
                    mounted>>
    BY <1>6 DEF vars
  <2>2. TypeOK'
    BY <2>1 DEF OpenInvariant, TypeOK
  <2>3. NothingLeaks'
    BY <2>1 DEF OpenInvariant, NothingLeaks, WithCookie, WithFd, WithArchive,
                WithFile, WithStream
  <2>4. ASSUME NEW g \in Files PROVE FileInv(g)'
    BY <2>1 DEF OpenInvariant, FileInv, Shape, Handle, Indexed, Streaming,
                Located, Found, StoodFor, Missing, Lacks, CutOff, IsFirst,
                OneArchive, Source, Members, Now
  <2> QED BY <2>2, <2>3, <2>4 DEF OpenInvariant
<1> QED BY <1>1, <1>2, <1>3, <1>4, <1>5, <1>6 DEF Next

\* The invariant holds in every reachable state.
LEMMA InvariantHolds == Spec => []OpenInvariant
BY InitHolds, NextKeeps, PTL DEF Spec

(***************************************************************************)
(* A file that is open for reading is at the member whose name it was      *)
(* opened by.                                                              *)
(***************************************************************************)
LEMMA MemberIsNamed == OpenInvariant => NamedMember
<1> SUFFICES ASSUME OpenInvariant, NEW f \in Files,
                    cookie[f].stream # NoStream
             PROVE  /\ \E v \in request[f].since .. cookie[f].stream.version :
                         IsFirst(cookie[f].stream.index, request[f].name, v)
                    /\ OneArchive(f) =>
                         IsFirst(cookie[f].stream.index, request[f].name,
                                 cookie[f].stream.version)
  BY DEF NamedMember
<1>1. Shape(f) /\ Indexed(f) /\ Streaming(f) /\ Located(f)
  BY AtPlace
<1>2. Found(f) /\ cookie[f].stream.index = cookie[f].index
  BY <1>1 DEF Shape, Found, Streaming
<1>3. StoodFor(f, cookie[f].stream.version)
  BY <1>1 DEF Located
<1>4. ASSUME OneArchive(f)
      PROVE  IsFirst(cookie[f].index, request[f].name,
                     cookie[f].stream.version)
  BY <1>1, <1>2, <1>4 DEF Indexed, Streaming
<1> QED BY <1>2, <1>3, <1>4 DEF StoodFor

(***************************************************************************)
(* Whatever opens, reads and releases do, and however often the archive    *)
(* file is replaced, the state stays well formed.                          *)
(***************************************************************************)
THEOREM OpenFilesTyped == Spec => []TypeOK
<1>1. OpenInvariant => TypeOK
  BY DEF OpenInvariant
<1> QED BY <1>1, InvariantHolds, PTL

(***************************************************************************)
(* For any number of open files, every cookie, descriptor, archive handle, *)
(* file and stream is owned by exactly one open file: none leaks on any of *)
(* the ways out of peepfs_open, none is freed twice.                       *)
(***************************************************************************)
THEOREM OpenFilesDoNotLeak == Spec => []NothingLeaks
<1>1. OpenInvariant => NothingLeaks
  BY DEF OpenInvariant
<1> QED BY <1>1, InvariantHolds, PTL

(***************************************************************************)
(* An open file is at the first member of the name it was opened by, where *)
(* its archive handle is of one version.  However the archive file is      *)
(* replaced, it is at an index that was the name's in a version on disk    *)
(* between the open and the one that is read.                              *)
(***************************************************************************)
THEOREM OpenFilesReadTheirMember == Spec => []NamedMember
BY InvariantHolds, MemberIsNamed, PTL

(***************************************************************************)
(* A peepfs_open of a member that a sound archive has all along does not   *)
(* answer ENOENT, unless libarchive finds the archive shrunk to fewer      *)
(* members than the index it looked up.                                    *)
(***************************************************************************)
THEOREM OpenFilesFindTheirMember == Spec => []NoFalseENOENT
<1>1. OpenInvariant => NoFalseENOENT
  BY DEF OpenInvariant, FileInv, Missing, NoFalseENOENT
<1> QED BY <1>1, InvariantHolds, PTL
===============================================================================
