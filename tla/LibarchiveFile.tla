---------------------------- MODULE LibarchiveFile ----------------------------
(***************************************************************************)
(* An open file inside an archive read with libarchive                     *)
(* (src/src/peepfs_libarchive.c).  libarchive only reads forward, so the   *)
(* file keeps a stream and its offset: a read further on skips, a read     *)
(* further back opens the archive file again, by name, and starts over.    *)
(* One mutex per open file lets one read at a time do this.                *)
(***************************************************************************)
EXTENDS Integers, Sequences

CONSTANTS
  Threads,     \* FUSE worker threads with a read on this open file
  NoThread,    \* the mutex is free
  Offsets,     \* offsets that are read at
  Lengths,     \* how much is asked for
  Contents,    \* member sizes an archive file may have, in archive order
  Gone,        \* the archive file was removed or cannot be opened
  Index,       \* file->index: the member's position, from 0
  MaxVersions   \* bound: how often the archive file is written

ASSUME FileAssumption ==
  /\ NoThread \notin Threads
  /\ Offsets \subseteq Nat
  /\ Lengths \subseteq Nat
  /\ Contents \subseteq Seq(Nat)
  /\ Gone \notin Contents
  /\ Index \in Nat
  /\ MaxVersions \in Nat

VARIABLES
  disk,    \* the versions of the archive file; the last is on disk
  damaged, \* whether libarchive's calls may fail
  arc,     \* file->arc: a stream, or NoStream
  offset,  \* file->offset
  error,   \* file->error
  lock,    \* file->lock
  pc,      \* where each thread is in peepfs_libarchive_file_read
  want,    \* the offset and size each thread was asked for
  got      \* what its latest read returned

vars == <<disk, damaged, arc, offset, error, lock, pc, want, got>>

NoRead == [offset |-> 0, size |-> 0, active |-> FALSE]
NoData == [error |-> FALSE, version |-> 0, from |-> 0, len |-> 0]
Failed == [error |-> TRUE, version |-> 0, from |-> 0, len |-> 0]

(***************************************************************************)
(* A stream is positioned in one member of one version; its size is -1     *)
(* when nothing can be read from it any more.                              *)
(***************************************************************************)
NoStream == [version |-> 0, size |-> -1, pos |-> 0]

\* Mutation: the last member is never found.
OpenBeforeLast(index) ==
  LET v == Len(disk)
  IN  IF disk[v] = Gone \/ index >= Len(disk[v]) - 1 THEN NoStream
      ELSE [version |-> v, pos |-> 0, size |-> disk[v][index + 1]]

\* __peepfs_libarchive_open: one step past the last member also succeeds.
OpenAt(index) ==
  LET v == Len(disk)
  IN  IF disk[v] = Gone \/ index > Len(disk[v]) THEN NoStream
      ELSE [version |-> v, pos |-> 0,
            size |-> IF index = Len(disk[v]) THEN -1 ELSE disk[v][index + 1]]

\* archive_read_data may give n bytes of the stream when asked for len.
Gives(stream, len, n) ==
  /\ stream.size # -1
  /\ n \in 0 .. len
  /\ n <= stream.size - stream.pos
  /\ n = 0 => len = 0 \/ stream.pos >= stream.size

Least(m, n) == IF m < n THEN m ELSE n

-----------------------------------------------------------------------------
(* peepfs_libarchive_file_read.                                            *)

Ask(t) ==
  /\ pc[t] = "idle"
  /\ \E o \in Offsets, s \in Lengths :
       want' = [want EXCEPT ![t] = [offset |-> o, size |-> s, active |-> TRUE]]
  /\ got' = [got EXCEPT ![t] = NoData]
  /\ pc' = [pc EXCEPT ![t] = "waiting"]
  /\ UNCHANGED <<disk, damaged, arc, offset, error, lock>>

Acquire(t) ==
  /\ pc[t] = "waiting"
  /\ lock = NoThread
  /\ lock' = t
  /\ pc' = [pc EXCEPT ![t] = "locked"]
  /\ UNCHANGED <<disk, damaged, arc, offset, error, want, got>>

Return(t, answer) ==
  /\ lock' = NoThread
  /\ pc' = [pc EXCEPT ![t] = "idle"]
  /\ want' = [want EXCEPT ![t] = NoRead]
  /\ got' = [got EXCEPT ![t] = answer]
  /\ UNCHANGED <<disk, damaged>>

\* Mutation: a return without pthread_mutex_unlock.
PoisonedKeepsLock(t) ==
  /\ pc[t] = "locked"
  /\ error
  /\ pc' = [pc EXCEPT ![t] = "idle"]
  /\ want' = [want EXCEPT ![t] = NoRead]
  /\ got' = [got EXCEPT ![t] = Failed]
  /\ UNCHANGED <<disk, damaged, arc, offset, error, lock>>

\* An earlier read left file->error.
Poisoned(t) ==
  /\ pc[t] = "locked"
  /\ error
  /\ Return(t, Failed)
  /\ UNCHANGED <<arc, offset, error>>

Ready(t) == pc[t] = "locked" /\ ~error

\* Mutation: the offset is reset and the archive is not opened again.
RestartSameStream(t) ==
  /\ Ready(t)
  /\ offset > want[t].offset
  /\ offset' = 0
  /\ UNCHANGED <<disk, damaged, arc, error, lock, pc, want, got>>

\* The stream is past the place: start over from the file's name.
Restart(t) ==
  /\ Ready(t)
  /\ offset > want[t].offset
  /\ OpenAt(Index) # NoStream
  /\ arc' = OpenAt(Index)
  /\ offset' = 0
  /\ UNCHANGED <<disk, damaged, error, lock, pc, want, got>>

RestartFails(t) ==
  /\ Ready(t)
  /\ offset > want[t].offset
  /\ OpenAt(Index) = NoStream \/ damaged
  /\ arc' = NoStream
  /\ error' = TRUE
  /\ Return(t, Failed)
  /\ UNCHANGED offset

\* Mutation: the loop does not count what it tossed.
SkipUncounted(t) ==
  /\ Ready(t)
  /\ offset < want[t].offset
  /\ \E n \in 1 .. Least(want[t].size, want[t].offset - offset) :
       /\ Gives(arc, Least(want[t].size, want[t].offset - offset), n)
       /\ arc' = [arc EXCEPT !.pos = @ + n]
  /\ UNCHANGED <<disk, damaged, offset, error, lock, pc, want, got>>

\* One turn of the loop that reads forward and tosses data.
Skip(t) ==
  /\ Ready(t)
  /\ offset < want[t].offset
  /\ \E n \in 1 .. Least(want[t].size, want[t].offset - offset) :
       /\ Gives(arc, Least(want[t].size, want[t].offset - offset), n)
       /\ arc' = [arc EXCEPT !.pos = @ + n]
       /\ offset' = offset + n
  /\ UNCHANGED <<disk, damaged, error, lock, pc, want, got>>

\* The loop meets the end of the member, or an error.
SkipFails(t) ==
  /\ Ready(t)
  /\ offset < want[t].offset
  /\ \/ Gives(arc, Least(want[t].size, want[t].offset - offset), 0)
     \/ arc.size = -1
     \/ damaged
  /\ error' = TRUE
  /\ Return(t, Failed)
  /\ UNCHANGED <<arc, offset>>

\* Mutation: the offset moves by what was asked for.
ReadDataAsked(t) ==
  /\ Ready(t)
  /\ offset = want[t].offset
  /\ \E n \in 0 .. want[t].size :
       /\ Gives(arc, want[t].size, n)
       /\ arc' = [arc EXCEPT !.pos = @ + n]
       /\ offset' = offset + want[t].size
       /\ Return(t, IF n = 0 THEN NoData
                    ELSE [error |-> FALSE, version |-> arc.version,
                          from |-> arc.pos, len |-> n])
  /\ UNCHANGED error

ReadData(t) ==
  /\ Ready(t)
  /\ offset = want[t].offset
  /\ \E n \in 0 .. want[t].size :
       /\ Gives(arc, want[t].size, n)
       /\ arc' = [arc EXCEPT !.pos = @ + n]
       /\ offset' = offset + n
       /\ Return(t, IF n = 0 THEN NoData
                    ELSE [error |-> FALSE, version |-> arc.version,
                          from |-> arc.pos, len |-> n])
  /\ UNCHANGED error

\* Mutation: the offset moves by the -1 that was returned.
ReadFailsCounts(t) ==
  /\ Ready(t)
  /\ offset = want[t].offset
  /\ arc.size = -1 \/ damaged
  /\ arc' = [arc EXCEPT !.size = -1]
  /\ offset' = offset - 1
  /\ Return(t, Failed)
  /\ UNCHANGED error

\* The error is returned and not remembered; the stream stays unusable.
ReadFails(t) ==
  /\ Ready(t)
  /\ offset = want[t].offset
  /\ arc.size = -1 \/ damaged
  /\ arc' = [arc EXCEPT !.size = -1]
  /\ Return(t, Failed)
  /\ UNCHANGED <<offset, error>>

Rewrite ==
  /\ Len(disk) < MaxVersions
  /\ \E c \in Contents \cup {Gone} : disk' = Append(disk, c)
  /\ UNCHANGED <<damaged, arc, offset, error, lock, pc, want, got>>

-----------------------------------------------------------------------------
\* peepfs_libarchive_file_open has found the member and opened the file.
Init ==
  /\ \E c \in Contents : Index < Len(c) /\ disk = <<c>>
  /\ damaged \in BOOLEAN
  /\ arc = OpenAt(Index)
  /\ offset = 0
  /\ error = FALSE
  /\ lock = NoThread
  /\ pc = [t \in Threads |-> "idle"]
  /\ want = [t \in Threads |-> NoRead]
  /\ got = [t \in Threads |-> NoData]

Locked(t) ==
  \/ Poisoned(t)
  \/ Restart(t) \/ RestartFails(t)
  \/ Skip(t) \/ SkipFails(t)
  \/ ReadData(t) \/ ReadFails(t)

Next == Rewrite \/ \E t \in Threads : Ask(t) \/ Acquire(t) \/ Locked(t)

Spec == Init /\ [][Next]_vars

\* A read that has begun goes on, and gets the mutex in the end.
FairSpec ==
  /\ Spec
  /\ \A t \in Threads : WF_vars(Locked(t)) /\ SF_vars(Acquire(t))

-----------------------------------------------------------------------------
TypeOK ==
  /\ disk \in Seq(Contents \cup {Gone})
  /\ damaged \in BOOLEAN
  /\ arc \in [version : Nat, size : Nat \cup {-1}, pos : Nat]
  /\ offset \in Nat
  /\ error \in BOOLEAN
  /\ lock \in Threads \cup {NoThread}
  /\ pc \in [Threads -> {"idle", "waiting", "locked"}]
  /\ want \in [Threads -> [offset : Nat, size : Nat, active : BOOLEAN]]
  /\ got \in [Threads ->
                [error : BOOLEAN, version : Nat, from : Nat, len : Nat]]

(***************************************************************************)
(* file->offset is where the stream is, although libarchive is never asked *)
(* and three pieces of code move it (peepfs_libarchive.c:312, 332, 340).   *)
(***************************************************************************)
OffsetTracksStream == error \/ arc.pos = offset

(***************************************************************************)
(* The promise to readers, for the member at position Index of every       *)
(* version: a restart goes to that position (peepfs_libarchive.c:304), so  *)
(* after a replacement that may be a member of another name.               *)
(***************************************************************************)
HasMember(v) == disk[v] # Gone /\ Index < Len(disk[v])
Access == INSTANCE RandomAccess WITH
  files <- {[version |-> v, size |-> disk[v][Index + 1]] :
              v \in {u \in 1 .. Len(disk) : HasMember(u)}}

(***************************************************************************)
(* Concurrent reads at any offsets return the bytes at their own offsets,  *)
(* all of one version of the archive, or fail: also when the archive is    *)
(* replaced, when reads are short, and after errors.                       *)
(***************************************************************************)
RandomAccessSpec == Access!Spec

\* The archive has no errors and is left alone.
Sound == ~damaged /\ Len(disk) = 1

\* A read inside the member.
Servable(t) ==
  Sound /\ want[t].size > 0 /\ want[t].offset < disk[1][Index + 1]

\* A read inside the member or at its end.
Within(t) == want[t].size > 0 /\ want[t].offset <= disk[1][Index + 1]

Returns(t) == want[t].active /\ ~want[t].active'

(***************************************************************************)
(* README.md:16-17, "support random access": a read inside the member is   *)
(* not refused, whatever was read before it.                               *)
(***************************************************************************)
InRangeServed ==
  [][\A t \in Threads : Returns(t) /\ Servable(t) => ~got[t].error']_vars

(***************************************************************************)
(* A read inside the member is refused only when an earlier read left      *)
(* file->error: skips and restarts always get there.  And in a sound       *)
(* archive only a read past the member's end leaves it                     *)
(* (peepfs_libarchive.c:326): reading up to the end, over it, at it, back  *)
(* and forth does not, whatever lengths archive_read_data gives.           *)
(***************************************************************************)
RefusedOnlyPoisoned ==
  [][/\ \A t \in Threads :
          Returns(t) /\ Servable(t) /\ ~error => ~got[t].error'
     /\ Sound /\ ~error /\ error' =>
          \E t \in Threads : Returns(t) /\ ~Within(t)]_vars

\* How many steps a read takes at most until it returns.
StepsLeft(t) ==
  IF offset > want[t].offset THEN want[t].offset + 2
                             ELSE want[t].offset - offset + 1

StepsTaken ==
  \A t \in Threads :
    lock = t /\ lock' = t =>
      /\ StepsLeft(t) \in 1 .. want[t].offset + 2
      /\ IF Locked(t) THEN StepsLeft(t)' \in 1 .. StepsLeft(t) - 1
                      ELSE StepsLeft(t)' = StepsLeft(t)

(***************************************************************************)
(* A read starts over at most once and then only gets closer, however      *)
(* short the runs are that archive_read_data gives                         *)
(* (peepfs_libarchive.c:320-334), and nothing that happens to the archive  *)
(* file meanwhile sends it back.                                           *)
(***************************************************************************)
ReadGetsCloser == [][StepsTaken]_vars

\* Every read returns: the loop that skips ends, and the mutex comes back.
EveryReadReturns == \A t \in Threads : want[t].active ~> ~want[t].active
===============================================================================
