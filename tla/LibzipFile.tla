------------------------------ MODULE LibzipFile ------------------------------
(***************************************************************************)
(* An open file inside a zip archive (src/src/peepfs_libzip.c).  The zip_t *)
(* that the handle opened stays open, so every stream reads the same       *)
(* version of the archive; stored members can be seeked, compressed ones   *)
(* only read forward.  The archive handle's mutex admits one read at a     *)
(* time (each open file has an archive handle of its own).                 *)
(***************************************************************************)
EXTENDS Integers

CONSTANTS
  Threads,    \* FUSE worker threads with a read on this open file
  NoThread,   \* the mutex is free
  Offsets,    \* offsets that are read at
  Lengths,    \* how much is asked for
  Sizes       \* sizes that the member may have

ASSUME FileAssumption ==
  /\ NoThread \notin Threads
  /\ Offsets \subseteq Nat
  /\ Lengths \subseteq Nat
  /\ Sizes \subseteq Nat

VARIABLES
  size,      \* the member's size
  seekable,  \* file->seekable: the member is stored, not compressed
  damaged,   \* whether libzip's calls may fail
  zipfile,   \* file->zipfile: a stream, or NoStream
  offset,    \* file->offset
  error,     \* file->error
  lock,      \* archive->lock
  pc,        \* where each thread is in peepfs_libzip_file_read
  want,      \* the offset and size each thread was asked for
  got        \* what its latest read returned

vars ==
  <<size, seekable, damaged, zipfile, offset, error, lock, pc, want, got>>

NoRead == [offset |-> 0, size |-> 0, active |-> FALSE]
NoData == [error |-> FALSE, version |-> 0, from |-> 0, len |-> 0]
Failed == [error |-> TRUE, version |-> 0, from |-> 0, len |-> 0]

\* zip_fseek and zip_fread keep failing on a stream that has failed once.
NoStream == [open |-> FALSE, failed |-> FALSE, pos |-> 0]
NewStream == [open |-> TRUE, failed |-> FALSE, pos |-> 0]

\* zip_fread may give n bytes when asked for len.
Gives(len, n) ==
  /\ ~zipfile.failed
  /\ n \in 0 .. len
  /\ n <= size - zipfile.pos
  /\ n = 0 => len = 0 \/ zipfile.pos >= size

Least(m, n) == IF m < n THEN m ELSE n

-----------------------------------------------------------------------------
(* peepfs_libzip_file_read.                                                *)

Ask(t) ==
  /\ pc[t] = "idle"
  /\ \E o \in Offsets, s \in Lengths :
       want' = [want EXCEPT ![t] = [offset |-> o, size |-> s, active |-> TRUE]]
  /\ got' = [got EXCEPT ![t] = NoData]
  /\ pc' = [pc EXCEPT ![t] = "waiting"]
  /\ UNCHANGED <<size, seekable, damaged, zipfile, offset, error, lock>>

Acquire(t) ==
  /\ pc[t] = "waiting"
  /\ lock = NoThread
  /\ lock' = t
  /\ pc' = [pc EXCEPT ![t] = "locked"]
  /\ UNCHANGED <<size, seekable, damaged, zipfile, offset, error, want, got>>

Return(t, answer) ==
  /\ lock' = NoThread
  /\ pc' = [pc EXCEPT ![t] = "idle"]
  /\ want' = [want EXCEPT ![t] = NoRead]
  /\ got' = [got EXCEPT ![t] = answer]
  /\ UNCHANGED <<size, seekable, damaged>>

\* Mutation: a return without pthread_mutex_unlock.
PoisonedKeepsLock(t) ==
  /\ pc[t] = "locked"
  /\ error
  /\ pc' = [pc EXCEPT ![t] = "idle"]
  /\ want' = [want EXCEPT ![t] = NoRead]
  /\ got' = [got EXCEPT ![t] = Failed]
  /\ UNCHANGED <<size, seekable, damaged, zipfile, offset, error, lock>>

\* An earlier read left file->error.
Poisoned(t) ==
  /\ pc[t] = "locked"
  /\ error
  /\ Return(t, Failed)
  /\ UNCHANGED <<zipfile, offset, error>>

Ready(t) == pc[t] = "locked" /\ ~error

\* The stream is in place, or there is no seeking: go on as it is.
NoSeek(t) ==
  /\ Ready(t)
  /\ offset = want[t].offset \/ ~seekable
  /\ pc' = [pc EXCEPT ![t] = "reading"]
  /\ UNCHANGED <<size, seekable, damaged, zipfile, offset, error, lock, want,
                 got>>

Seek(t) ==
  /\ Ready(t)
  /\ offset # want[t].offset
  /\ seekable
  /\ ~zipfile.failed
  /\ want[t].offset <= size
  /\ zipfile' = [zipfile EXCEPT !.pos = want[t].offset]
  /\ offset' = want[t].offset
  /\ pc' = [pc EXCEPT ![t] = "reading"]
  /\ UNCHANGED <<size, seekable, damaged, error, lock, want, got>>

\* Mutation: the result of zip_fseek is not looked at.
SeekFailsCounts(t) ==
  /\ Ready(t)
  /\ offset # want[t].offset
  /\ seekable
  /\ zipfile.failed \/ want[t].offset > size \/ damaged
  /\ zipfile' = [zipfile EXCEPT !.failed = TRUE]
  /\ offset' = want[t].offset
  /\ pc' = [pc EXCEPT ![t] = "reading"]
  /\ UNCHANGED <<size, seekable, damaged, error, lock, want, got>>

SeekFails(t) ==
  /\ Ready(t)
  /\ offset # want[t].offset
  /\ seekable
  /\ zipfile.failed \/ want[t].offset > size \/ damaged
  /\ zipfile' = [zipfile EXCEPT !.failed = TRUE]
  /\ pc' = [pc EXCEPT ![t] = "reading"]
  /\ UNCHANGED <<size, seekable, damaged, offset, error, lock, want, got>>

\* Mutation: the offset is reset and the member is not opened again.
RestartSameStream(t) ==
  /\ pc[t] = "reading"
  /\ offset > want[t].offset
  /\ offset' = 0
  /\ UNCHANGED <<size, seekable, damaged, zipfile, error, lock, pc, want, got>>

\* The stream is past the place: start over.
Restart(t) ==
  /\ pc[t] = "reading"
  /\ offset > want[t].offset
  /\ zipfile' = NewStream
  /\ offset' = 0
  /\ UNCHANGED <<size, seekable, damaged, error, lock, pc, want, got>>

RestartFails(t) ==
  /\ pc[t] = "reading"
  /\ offset > want[t].offset
  /\ damaged
  /\ zipfile' = NoStream
  /\ error' = TRUE
  /\ Return(t, Failed)
  /\ UNCHANGED offset

\* Mutation: the loop does not count what it tossed.
SkipUncounted(t) ==
  /\ pc[t] = "reading"
  /\ offset < want[t].offset
  /\ \E n \in 1 .. Least(want[t].size, want[t].offset - offset) :
       /\ Gives(Least(want[t].size, want[t].offset - offset), n)
       /\ zipfile' = [zipfile EXCEPT !.pos = @ + n]
  /\ UNCHANGED <<size, seekable, damaged, offset, error, lock, pc, want, got>>

\* One turn of the loop that reads forward and tosses data.
Skip(t) ==
  /\ pc[t] = "reading"
  /\ offset < want[t].offset
  /\ \E n \in 1 .. Least(want[t].size, want[t].offset - offset) :
       /\ Gives(Least(want[t].size, want[t].offset - offset), n)
       /\ zipfile' = [zipfile EXCEPT !.pos = @ + n]
       /\ offset' = offset + n
  /\ UNCHANGED <<size, seekable, damaged, error, lock, pc, want, got>>

\* Mutation: fewer bytes than asked for count as an error.
SkipRefusesLess(t) ==
  /\ pc[t] = "reading"
  /\ offset < want[t].offset
  /\ LET len == Least(want[t].size, want[t].offset - offset)
     IN  \/ \E n \in 0 .. len - 1 : Gives(len, n)
         \/ zipfile.failed
         \/ damaged
  /\ error' = TRUE
  /\ Return(t, Failed)
  /\ UNCHANGED <<zipfile, offset>>

\* The loop meets the end of the member, or an error.
SkipFails(t) ==
  /\ pc[t] = "reading"
  /\ offset < want[t].offset
  /\ \/ Gives(Least(want[t].size, want[t].offset - offset), 0)
     \/ zipfile.failed
     \/ damaged
  /\ error' = TRUE
  /\ Return(t, Failed)
  /\ UNCHANGED <<zipfile, offset>>

ReadData(t) ==
  /\ pc[t] = "reading"
  /\ offset = want[t].offset
  /\ \E n \in 0 .. want[t].size :
       /\ Gives(want[t].size, n)
       /\ zipfile' = [zipfile EXCEPT !.pos = @ + n]
       /\ offset' = offset + n
       /\ Return(t, IF n = 0 THEN NoData
                    ELSE [error |-> FALSE, version |-> 1,
                          from |-> zipfile.pos, len |-> n])
  /\ UNCHANGED error

\* Mutation: the offset moves by the -1 that was returned.
ReadFailsCounts(t) ==
  /\ pc[t] = "reading"
  /\ offset = want[t].offset
  /\ zipfile.failed \/ damaged
  /\ zipfile' = [zipfile EXCEPT !.failed = TRUE]
  /\ offset' = offset - 1
  /\ Return(t, Failed)
  /\ UNCHANGED error

\* The error is returned and not remembered.
ReadFails(t) ==
  /\ pc[t] = "reading"
  /\ offset = want[t].offset
  /\ zipfile.failed \/ damaged
  /\ zipfile' = [zipfile EXCEPT !.failed = TRUE]
  /\ Return(t, Failed)
  /\ UNCHANGED <<offset, error>>

-----------------------------------------------------------------------------
\* peepfs_libzip_file_open.
Init ==
  /\ size \in Sizes
  /\ seekable \in BOOLEAN
  /\ damaged \in BOOLEAN
  /\ zipfile = NewStream
  /\ offset = 0
  /\ error = FALSE
  /\ lock = NoThread
  /\ pc = [t \in Threads |-> "idle"]
  /\ want = [t \in Threads |-> NoRead]
  /\ got = [t \in Threads |-> NoData]

Locked(t) ==
  \/ Poisoned(t)
  \/ NoSeek(t) \/ Seek(t) \/ SeekFails(t)
  \/ Restart(t) \/ RestartFails(t)
  \/ Skip(t) \/ SkipFails(t)
  \/ ReadData(t) \/ ReadFails(t)

Next == \E t \in Threads : Ask(t) \/ Acquire(t) \/ Locked(t)

Spec == Init /\ [][Next]_vars

\* A read that has begun goes on, and gets the mutex in the end.
FairSpec ==
  /\ Spec
  /\ \A t \in Threads : WF_vars(Locked(t)) /\ SF_vars(Acquire(t))

-----------------------------------------------------------------------------
TypeOK ==
  /\ size \in Sizes
  /\ seekable \in BOOLEAN
  /\ damaged \in BOOLEAN
  /\ zipfile \in [open : BOOLEAN, failed : BOOLEAN, pos : Nat]
  /\ offset \in Nat
  /\ error \in BOOLEAN
  /\ lock \in Threads \cup {NoThread}
  /\ pc \in [Threads -> {"idle", "waiting", "locked", "reading"}]
  /\ want \in [Threads -> [offset : Nat, size : Nat, active : BOOLEAN]]
  /\ got \in [Threads ->
                [error : BOOLEAN, version : Nat, from : Nat, len : Nat]]

(***************************************************************************)
(* file->offset is where the stream is, whether it was seeked, skipped,    *)
(* read or opened again (peepfs_libzip.c:238, 255, 274, 282), and no call  *)
(* reads from a stream that could not be opened again.                     *)
(***************************************************************************)
OffsetTracksStream == error \/ (zipfile.open /\ zipfile.pos = offset)

\* The promise to readers; the handle never sees another version.
Access == INSTANCE RandomAccess WITH
  files <- {[version |-> 1, size |-> size]}

(***************************************************************************)
(* Concurrent reads at any offsets, of stored and of compressed members,   *)
(* return the bytes at their own offsets, or fail.                         *)
(***************************************************************************)
RandomAccessSpec == Access!Spec

\* A read inside a sound member; a read inside the member or at its end.
Servable(t) == ~damaged /\ want[t].size > 0 /\ want[t].offset < size
Within(t) == want[t].size > 0 /\ want[t].offset <= size
Returns(t) == want[t].active /\ ~want[t].active'

(***************************************************************************)
(* A read inside a sound member is refused only when an earlier read left  *)
(* file->error: a failed seek is made good by opening the member again.    *)
(* And only a read past the member's end leaves it (peepfs_libzip.c:268):  *)
(* a failed seek alone, or a read at the end, does not.                    *)
(***************************************************************************)
RefusedOnlyPoisoned ==
  [][/\ \A t \in Threads :
          Returns(t) /\ Servable(t) /\ ~error => ~got[t].error'
     /\ ~damaged /\ ~error /\ error' =>
          \E t \in Threads : Returns(t) /\ ~Within(t)]_vars

\* How many steps a read takes at most until it returns.
StepsLeft(t) ==
  IF pc[t] = "locked" THEN want[t].offset + 3
  ELSE IF offset > want[t].offset THEN want[t].offset + 2
  ELSE want[t].offset - offset + 1

StepsTaken ==
  \A t \in Threads :
    lock = t /\ lock' = t =>
      /\ StepsLeft(t) \in 1 .. want[t].offset + 3
      /\ IF Locked(t) THEN StepsLeft(t)' \in 1 .. StepsLeft(t) - 1
                      ELSE StepsLeft(t)' = StepsLeft(t)

(***************************************************************************)
(* A read seeks once, starts over at most once and then only gets closer,  *)
(* however short the runs are that zip_fread gives, and whether the seek   *)
(* worked or not (peepfs_libzip.c:232-276).                                *)
(***************************************************************************)
ReadGetsCloser == [][StepsTaken]_vars

\* Every read returns: the loop that skips ends, and the mutex comes back.
EveryReadReturns == \A t \in Threads : want[t].active ~> ~want[t].active
===============================================================================
