--------------------------- MODULE LibzipFileProofs ---------------------------
(***************************************************************************)
(* For any threads, offsets, lengths and member sizes: an open file of a   *)
(* zip archive is always at the offset it keeps, whether its member can be *)
(* seeked or not, and implements random access.                            *)
(***************************************************************************)
EXTENDS LibzipFile, TLAPS

Reply == [error : BOOLEAN, version : Nat, from : Nat, len : Nat]
Stream == [open : BOOLEAN, failed : BOOLEAN, pos : Nat]

WantInv == \A t \in Threads : want[t].active <=> pc[t] # "idle"

\* Who is past pthread_mutex_lock has the mutex.
LockInv == \A t \in Threads : pc[t] \in {"locked", "reading"} => lock = t

(***************************************************************************)
(* In a sound archive only a seek past the end makes a stream fail, and    *)
(* the read that made it is still there to find out.                       *)
(***************************************************************************)
SeekInv ==
  ~damaged /\ ~error /\ zipfile.failed =>
    \E t \in Threads : pc[t] = "reading" /\ want[t].offset > size

\* No read goes on once the error is set.
ErrorInv == error => \A t \in Threads : pc[t] # "reading"

(***************************************************************************)
(* The inductive invariant: the stream is at the offset the file keeps,    *)
(* within the member, and a stream that has failed is not handed on.       *)
(***************************************************************************)
FileInv ==
  /\ TypeOK
  /\ OffsetTracksStream
  /\ zipfile.pos <= size
  /\ WantInv
  /\ LockInv
  /\ SeekInv
  /\ ErrorInv

-----------------------------------------------------------------------------
(* The invariant holds.                                                    *)

\* Facts about types, in the form in which they are used.
LEMMA Typed ==
  ASSUME TypeOK
  PROVE  /\ size \in Nat /\ offset \in Nat /\ zipfile \in Stream
         /\ zipfile.pos \in Nat
         /\ \A t \in Threads : want[t].offset \in Nat /\ want[t].size \in Nat
<1>1. size \in Nat
  BY FileAssumption DEF TypeOK
<1> QED
  BY <1>1 DEF TypeOK, Stream

\* Where a stream is after n bytes of it.
LEMMA MovedTo ==
  ASSUME TypeOK, NEW n \in Nat, zipfile' = [zipfile EXCEPT !.pos = n]
  PROVE  /\ zipfile' \in Stream
         /\ zipfile'.pos = n
         /\ zipfile'.open = zipfile.open
         /\ zipfile'.failed = zipfile.failed
<1>1. zipfile \in Stream
  BY Typed
<1>2. zipfile' = [open |-> zipfile.open, failed |-> zipfile.failed, pos |-> n]
  BY <1>1 DEF Stream
<1>3. zipfile.open \in BOOLEAN /\ zipfile.failed \in BOOLEAN
  BY <1>1 DEF Stream
<1> QED
  BY <1>2, <1>3 DEF Stream

LEMMA FailedStream ==
  ASSUME TypeOK, zipfile' = [zipfile EXCEPT !.failed = TRUE]
  PROVE  /\ zipfile' \in Stream
         /\ zipfile'.pos = zipfile.pos
         /\ zipfile'.open = zipfile.open
  BY DEF TypeOK, Stream

LEMMA InitInv == Init => FileInv
<1> SUFFICES ASSUME Init PROVE FileInv
  OBVIOUS
<1>1. /\ NoRead \in [offset : Nat, size : Nat, active : BOOLEAN]
      /\ NoData \in Reply
      /\ NewStream \in Stream
  BY DEF NoRead, NoData, NewStream, Reply, Stream
<1>2. TypeOK
  BY <1>1 DEF Init, TypeOK, Reply, Stream
<1>3. OffsetTracksStream /\ zipfile.pos <= size /\ SeekInv /\ ErrorInv
  BY FileAssumption DEF Init, OffsetTracksStream, NewStream, SeekInv, ErrorInv
<1>4. WantInv /\ LockInv
  BY DEF Init, WantInv, LockInv, NoRead
<1> QED
  BY <1>2, <1>3, <1>4 DEF FileInv

\* Only one thread is past the mutex.
LEMMA OneInside ==
  ASSUME FileInv, NEW t \in Threads, pc[t] \in {"locked", "reading"},
         NEW u \in Threads, pc[u] \in {"locked", "reading"}
  PROVE  t = u
  BY DEF FileInv, LockInv

\* A stream that failed in a sound archive is past the end for its reader.
LEMMA FailedPastEnd ==
  ASSUME FileInv, NEW t \in Threads, pc[t] \in {"locked", "reading"},
         ~damaged, ~error, zipfile.failed
  PROVE  pc[t] = "reading" /\ want[t].offset > size
<1>1. PICK u \in Threads : pc[u] = "reading" /\ want[u].offset > size
  BY DEF FileInv, SeekInv
<1> QED
  BY <1>1, OneInside

\* Reads that end leave the rest of the thread's state in order.
LEMMA ReturnKeeps ==
  ASSUME FileInv, NEW t \in Threads, pc[t] \in {"locked", "reading"},
         NEW a \in Reply, Return(t, a),
         zipfile' \in Stream, offset' \in Nat, error' \in BOOLEAN
  PROVE  TypeOK' /\ size' = size /\ damaged' = damaged /\ WantInv' /\ LockInv'
<1>1. NoRead \in [offset : Nat, size : Nat, active : BOOLEAN]
  BY DEF NoRead
<1>2. TypeOK'
  BY <1>1 DEF Return, FileInv, TypeOK, Reply, Stream
<1>3. WantInv'
  BY <1>1 DEF Return, FileInv, TypeOK, WantInv, NoRead
<1>4. LockInv'
  <2>1. \A u \in Threads \ {t} : pc[u] \notin {"locked", "reading"}
    BY OneInside
  <2> QED
    BY <2>1 DEF Return, FileInv, TypeOK, LockInv
<1> QED
  BY <1>2, <1>3, <1>4 DEF Return

\* A read that ends well, or with the error set, leaves no failed stream.
LEMMA ReadEnds ==
  ASSUME FileInv, NEW t \in Threads, pc[t] \in {"locked", "reading"},
         NEW a \in Reply, Return(t, a),
         zipfile' \in Stream, offset' \in Nat, error' \in BOOLEAN,
         OffsetTracksStream', zipfile'.pos <= size,
         damaged \/ error' \/ ~zipfile'.failed
  PROVE  FileInv'
<1>1. TypeOK' /\ size' = size /\ damaged' = damaged /\ WantInv' /\ LockInv'
  BY ReturnKeeps
<1>2. ErrorInv'
  <2>1. \A u \in Threads \ {t} : pc[u] \notin {"locked", "reading"}
    BY OneInside
  <2> QED
    BY <2>1 DEF Return, FileInv, TypeOK, ErrorInv
<1> QED
  BY <1>1, <1>2 DEF FileInv, SeekInv

\* A read that goes on in the loops.
LEMMA ReadGoesOn ==
  ASSUME FileInv, NEW t \in Threads,
         pc[t] \in {"locked", "reading"}, ~error,
         pc' = [pc EXCEPT ![t] = "reading"],
         UNCHANGED <<size, seekable, damaged, error, lock, want, got>>,
         zipfile' \in Stream, offset' \in Nat,
         OffsetTracksStream', zipfile'.pos <= size,
         damaged \/ ~zipfile'.failed \/ want[t].offset > size
  PROVE  FileInv'
<1>1. TypeOK' /\ WantInv' /\ LockInv'
  BY DEF FileInv, TypeOK, WantInv, LockInv, Stream
<1>2. pc'[t] = "reading"
  BY DEF FileInv, TypeOK
<1>3. SeekInv'
  BY <1>2 DEF SeekInv
<1> QED
  BY <1>1, <1>3 DEF FileInv, ErrorInv

LEMMA NextInv == FileInv /\ [Next]_vars => FileInv'
<1> SUFFICES ASSUME FileInv, [Next]_vars PROVE FileInv'
  OBVIOUS
<1>1. /\ TypeOK /\ size \in Nat /\ offset \in Nat
      /\ zipfile \in Stream /\ zipfile.pos \in Nat
      /\ \A t \in Threads : want[t].offset \in Nat /\ want[t].size \in Nat
      /\ error \in BOOLEAN
      /\ zipfile.pos <= size
      /\ error \/ (zipfile.open /\ zipfile.pos = offset)
      /\ \A t \in Threads : pc[t] = "reading" => ~error
  BY Typed DEF FileInv, TypeOK, OffsetTracksStream, ErrorInv
<1>2. Failed \in Reply /\ NoData \in Reply
  BY DEF Failed, NoData, Reply
<1>3. ASSUME NEW t \in Threads, Ask(t) PROVE FileInv'
  <2>1. PICK o \in Offsets, s \in Lengths :
          want' = [want EXCEPT ![t] =
                     [offset |-> o, size |-> s, active |-> TRUE]]
    BY <1>3 DEF Ask
  <2>2. o \in Nat /\ s \in Nat
    BY FileAssumption
  <2>3. TypeOK'
    BY <1>2, <1>3, <2>1, <2>2 DEF Ask, FileInv, TypeOK, Reply
  <2>4. WantInv' /\ LockInv'
    BY <1>3, <2>1 DEF Ask, FileInv, TypeOK, WantInv, LockInv
  <2>5. OffsetTracksStream' /\ zipfile'.pos <= size'
    BY <1>3 DEF Ask, FileInv, OffsetTracksStream
  <2>6. SeekInv'
    <3>1. \A u \in Threads : pc[u] = "reading" => u # t
      BY <1>3 DEF Ask
    <3>2. \A u \in Threads : u # t => pc'[u] = pc[u] /\ want'[u] = want[u]
      BY <1>3, <2>1 DEF Ask, FileInv, TypeOK
    <3> QED
      BY <1>3, <3>1, <3>2 DEF Ask, FileInv, SeekInv
  <2>7. ErrorInv'
    BY <1>3 DEF Ask, FileInv, TypeOK, ErrorInv
  <2> QED
    BY <2>3, <2>4, <2>5, <2>6, <2>7 DEF FileInv
<1>4. ASSUME NEW t \in Threads, Acquire(t) PROVE FileInv'
  <2>1. TypeOK' /\ WantInv'
    BY <1>4 DEF Acquire, FileInv, TypeOK, WantInv
  <2>2. \A u \in Threads : pc[u] \notin {"locked", "reading"}
    BY <1>4, FileAssumption DEF Acquire, FileInv, LockInv
  <2>3. LockInv'
    BY <1>4, <2>2 DEF Acquire, FileInv, TypeOK, LockInv
  <2>4. OffsetTracksStream' /\ zipfile'.pos <= size'
    BY <1>4 DEF Acquire, FileInv, OffsetTracksStream
  <2>5. SeekInv'
    BY <1>4, <2>2 DEF Acquire, FileInv, SeekInv
  <2>6. ErrorInv'
    BY <1>4 DEF Acquire, FileInv, TypeOK, ErrorInv
  <2> QED
    BY <2>1, <2>3, <2>4, <2>5, <2>6 DEF FileInv
<1>5. ASSUME NEW t \in Threads, Poisoned(t) PROVE FileInv'
  <2>1. /\ pc[t] = "locked" /\ error /\ Return(t, Failed)
        /\ zipfile' = zipfile /\ offset' = offset /\ error' = error
    BY <1>5 DEF Poisoned
  <2>2. OffsetTracksStream'
    BY <2>1 DEF OffsetTracksStream
  <2> QED
    BY <1>1, <1>2, <2>1, <2>2, ReadEnds
<1>6. ASSUME NEW t \in Threads, NoSeek(t) PROVE FileInv'
  <2>1. /\ pc[t] = "locked" /\ ~error
        /\ pc' = [pc EXCEPT ![t] = "reading"]
        /\ UNCHANGED <<size, seekable, damaged, zipfile, offset, error, lock,
                       want, got>>
    BY <1>6 DEF NoSeek, Ready
  <2>2. OffsetTracksStream'
    BY <1>1, <2>1 DEF OffsetTracksStream
  <2>3. damaged \/ ~zipfile.failed
    BY <2>1, FailedPastEnd
  <2> QED
    BY <1>1, <2>1, <2>2, <2>3, ReadGoesOn
<1>7. ASSUME NEW t \in Threads, Seek(t) PROVE FileInv'
  <2>1. /\ pc[t] = "locked" /\ ~error
        /\ ~zipfile.failed /\ want[t].offset <= size
        /\ zipfile' = [zipfile EXCEPT !.pos = want[t].offset]
        /\ offset' = want[t].offset
        /\ pc' = [pc EXCEPT ![t] = "reading"]
        /\ UNCHANGED <<size, seekable, damaged, error, lock, want, got>>
    BY <1>7 DEF Seek, Ready
  <2>2. /\ zipfile' \in Stream /\ zipfile'.pos = want[t].offset
        /\ zipfile'.open = zipfile.open /\ ~zipfile'.failed
    BY <1>1, <2>1, MovedTo
  <2>3. OffsetTracksStream'
    BY <1>1, <2>1, <2>2 DEF OffsetTracksStream
  <2> QED
    BY <1>1, <2>1, <2>2, <2>3, ReadGoesOn
<1>8. ASSUME NEW t \in Threads, SeekFails(t) PROVE FileInv'
  <2>1. /\ pc[t] = "locked" /\ ~error
        /\ zipfile.failed \/ want[t].offset > size \/ damaged
        /\ zipfile' = [zipfile EXCEPT !.failed = TRUE]
        /\ offset' = offset
        /\ pc' = [pc EXCEPT ![t] = "reading"]
        /\ UNCHANGED <<size, seekable, damaged, error, lock, want, got>>
    BY <1>8 DEF SeekFails, Ready
  <2>2. /\ zipfile' \in Stream /\ zipfile'.pos = zipfile.pos
        /\ zipfile'.open = zipfile.open
    BY <1>1, <2>1, FailedStream
  <2>3. OffsetTracksStream'
    BY <1>1, <2>1, <2>2 DEF OffsetTracksStream
  <2>4. damaged \/ want[t].offset > size
    BY <2>1, FailedPastEnd
  <2> QED
    BY <1>1, <2>1, <2>2, <2>3, <2>4, ReadGoesOn
<1>9. ASSUME NEW t \in Threads, Restart(t) PROVE FileInv'
  <2>1. /\ pc[t] = "reading" /\ zipfile' = NewStream /\ offset' = 0
        /\ UNCHANGED <<size, seekable, damaged, error, lock, pc, want, got>>
    BY <1>9 DEF Restart
  <2>2. pc' = [pc EXCEPT ![t] = "reading"]
    BY <2>1 DEF FileInv, TypeOK
  <2>3. /\ zipfile' \in Stream /\ zipfile'.pos = 0 /\ zipfile'.open
        /\ ~zipfile'.failed
    BY <2>1 DEF NewStream, Stream
  <2>4. OffsetTracksStream'
    BY <2>1, <2>3 DEF OffsetTracksStream
  <2>5. ~error /\ zipfile'.pos <= size /\ offset' \in Nat
    BY <1>1, <2>1, <2>3
  <2> QED
    BY <2>1, <2>2, <2>3, <2>4, <2>5, ReadGoesOn
<1>10. ASSUME NEW t \in Threads, RestartFails(t) PROVE FileInv'
  <2>1. /\ pc[t] = "reading" /\ zipfile' = NoStream /\ error' = TRUE
        /\ offset' = offset /\ Return(t, Failed)
    BY <1>10 DEF RestartFails
  <2>2. zipfile' \in Stream /\ zipfile'.pos = 0
    BY <2>1 DEF NoStream, Stream
  <2>3. OffsetTracksStream'
    BY <2>1 DEF OffsetTracksStream
  <2> QED
    BY <1>1, <1>2, <2>1, <2>2, <2>3, ReadEnds
<1>11. ASSUME NEW t \in Threads, Skip(t) PROVE FileInv'
  <2>1. PICK n \in 1 .. Least(want[t].size, want[t].offset - offset) :
          /\ Gives(Least(want[t].size, want[t].offset - offset), n)
          /\ zipfile' = [zipfile EXCEPT !.pos = @ + n]
          /\ offset' = offset + n
    BY <1>11 DEF Skip
  <2>2. /\ pc[t] = "reading"
        /\ UNCHANGED <<size, seekable, damaged, error, lock, pc, want, got>>
    BY <1>11 DEF Skip
  <2>3. pc' = [pc EXCEPT ![t] = "reading"]
    BY <2>2 DEF FileInv, TypeOK
  <2>4. Least(want[t].size, want[t].offset - offset) \in Int
    BY <1>1 DEF Least
  <2>5. /\ n \in Nat /\ ~zipfile.failed /\ zipfile.pos + n <= size
        /\ zipfile.pos + n \in Nat /\ offset + n \in Nat
    BY <1>1, <2>1, <2>4 DEF Gives
  <2>6. /\ zipfile' \in Stream /\ zipfile'.pos = zipfile.pos + n
        /\ zipfile'.open = zipfile.open /\ ~zipfile'.failed
    BY <1>1, <2>1, <2>5, MovedTo
  <2>7. OffsetTracksStream'
    BY <1>1, <2>1, <2>2, <2>6 DEF OffsetTracksStream
  <2>8. ~error /\ zipfile'.pos <= size /\ offset' \in Nat
    BY <1>1, <2>1, <2>2, <2>5, <2>6
  <2> QED
    BY <2>2, <2>3, <2>6, <2>7, <2>8, ReadGoesOn
<1>12. ASSUME NEW t \in Threads, SkipFails(t) PROVE FileInv'
  <2>1. /\ pc[t] = "reading" /\ error' = TRUE /\ Return(t, Failed)
        /\ zipfile' = zipfile /\ offset' = offset
    BY <1>12 DEF SkipFails
  <2>2. OffsetTracksStream'
    BY <2>1 DEF OffsetTracksStream
  <2> QED
    BY <1>1, <1>2, <2>1, <2>2, ReadEnds
<1>13. ASSUME NEW t \in Threads, ReadData(t) PROVE FileInv'
  <2> DEFINE answer(n) ==
        IF n = 0 THEN NoData
        ELSE [error |-> FALSE, version |-> 1, from |-> zipfile.pos, len |-> n]
  <2>1. PICK n \in 0 .. want[t].size :
          /\ Gives(want[t].size, n)
          /\ zipfile' = [zipfile EXCEPT !.pos = @ + n]
          /\ offset' = offset + n
          /\ Return(t, answer(n))
    BY <1>13 DEF ReadData
  <2>2. pc[t] = "reading" /\ error' = error
    BY <1>13 DEF ReadData
  <2>3. /\ n \in Nat /\ ~zipfile.failed /\ zipfile.pos + n <= size
        /\ zipfile.pos + n \in Nat /\ offset + n \in Nat
    BY <1>1, <2>1 DEF Gives
  <2>4. answer(n) \in Reply
    BY <1>1, <1>2, <2>3 DEF Reply
  <2>5. /\ zipfile' \in Stream /\ zipfile'.pos = zipfile.pos + n
        /\ zipfile'.open = zipfile.open /\ ~zipfile'.failed
    BY <1>1, <2>1, <2>3, MovedTo
  <2>6. OffsetTracksStream'
    BY <1>1, <2>1, <2>2, <2>5 DEF OffsetTracksStream
  <2> HIDE DEF answer
  <2> QED
    BY <1>1, <2>1, <2>2, <2>3, <2>4, <2>5, <2>6, ReadEnds
<1>14. ASSUME NEW t \in Threads, ReadFails(t) PROVE FileInv'
  <2>1. /\ pc[t] = "reading" /\ offset = want[t].offset
        /\ zipfile.failed \/ damaged
        /\ zipfile' = [zipfile EXCEPT !.failed = TRUE]
        /\ offset' = offset /\ error' = error /\ Return(t, Failed)
    BY <1>14 DEF ReadFails
  <2>2. /\ zipfile' \in Stream /\ zipfile'.pos = zipfile.pos
        /\ zipfile'.open = zipfile.open
    BY <1>1, <2>1, FailedStream
  <2>3. OffsetTracksStream'
    BY <1>1, <2>1, <2>2 DEF OffsetTracksStream
  <2>4. ASSUME ~damaged PROVE FALSE
    BY <1>1, <2>1, <2>4, FailedPastEnd
  <2> QED
    BY <1>1, <1>2, <2>1, <2>2, <2>3, <2>4, ReadEnds
<1>15. CASE UNCHANGED vars
  BY <1>15 DEF vars, FileInv, TypeOK, OffsetTracksStream, WantInv, LockInv,
               SeekInv, ErrorInv
<1> QED
  BY <1>3, <1>4, <1>5, <1>6, <1>7, <1>8, <1>9, <1>10, <1>11, <1>12, <1>13,
     <1>14, <1>15 DEF Next, Locked

LEMMA Inductive == Spec => []FileInv
<1> QED
  BY InitInv, NextInv, PTL DEF Spec

\* The file's variables keep their types.
THEOREM LibzipTyped == Spec => []TypeOK
<1>1. FileInv => TypeOK
  BY DEF FileInv
<1> QED
  BY <1>1, Inductive, PTL

\* Whether it was seeked, skipped, read or opened again, libzip's stream is
\* where the file says, and there is one unless the error is set.
THEOREM LibzipInPlace == Spec => []OffsetTracksStream
<1>1. FileInv => OffsetTracksStream
  BY DEF FileInv
<1> QED
  BY <1>1, Inductive, PTL

-----------------------------------------------------------------------------
(* Random access.                                                          *)

\* The end of a read, as RandomAccess sees it.
LEMMA ReturnAnswers ==
  ASSUME FileInv, NEW t \in Threads, pc[t] # "idle", NEW a, Return(t, a)
  PROVE  Access!Answer(t, a)
<1>1. want[t].active
  BY DEF FileInv, WantInv
<1> QED
  BY <1>1 DEF Return, Access!Answer, Access!NoRead, NoRead

LEMMA ReadDataImplements ==
  ASSUME FileInv, NEW t \in Threads, ReadData(t)
  PROVE  Access!Deliver(t) \/ Access!AtEnd(t)
<1>1. PICK n \in 0 .. want[t].size :
        /\ Gives(want[t].size, n)
        /\ Return(t, IF n = 0 THEN NoData
                     ELSE [error |-> FALSE, version |-> 1,
                           from |-> zipfile.pos, len |-> n])
  BY DEF ReadData
<1>2. pc[t] = "reading" /\ offset = want[t].offset
  BY DEF ReadData
<1>3. /\ size \in Nat /\ zipfile.pos \in Nat /\ want[t].size \in Nat
      /\ want[t].offset \in Nat /\ n \in Nat
  BY <1>1, Typed DEF FileInv
<1>4. ~error /\ zipfile.pos = want[t].offset
  BY <1>2 DEF FileInv, ErrorInv, OffsetTracksStream
<1> DEFINE file == [version |-> 1, size |-> size]
<1>5. CASE n = 0
  <2>1. Access!Answer(t, NoData)
    BY <1>1, <1>2, <1>5, ReturnAnswers
  <2>2. want[t].size = 0 \/ want[t].offset >= file.size
    BY <1>1, <1>4, <1>5 DEF Gives
  <2> QED
    BY <2>1, <2>2 DEF Access!AtEnd, Access!NoData, NoData
<1>6. CASE n # 0
  <2>1. Access!Answer(t, [error |-> FALSE, version |-> file.version,
                          from |-> want[t].offset, len |-> n])
    BY <1>1, <1>2, <1>4, <1>6, ReturnAnswers
  <2>2. n \in 1 .. want[t].size
    BY <1>1, <1>3, <1>6
  <2>3. want[t].offset + n <= file.size
    BY <1>1, <1>3, <1>4 DEF Gives
  <2> QED
    BY <2>1, <2>2, <2>3 DEF Access!Deliver
<1> QED
  BY <1>5, <1>6

LEMMA AccessInit == Init => Access!Init
<1> SUFFICES ASSUME Init PROVE Access!Init
  OBVIOUS
<1>1. [version |-> 1, size |-> size] \in Access!Members
  BY FileAssumption DEF Init, Access!Members
<1> QED
  BY <1>1 DEF Init, Access!Init, NoRead, NoData, Access!NoRead, Access!NoData

\* Every step of the file is one of random access, or changes nothing of it.
LEMMA AccessNext ==
  FileInv /\ [Next]_vars =>
    [Access!Next]_<<{[version |-> 1, size |-> size]}, want, got>>
<1> SUFFICES ASSUME FileInv, [Next]_vars
             PROVE  \/ Access!Next
                    \/ UNCHANGED <<{[version |-> 1, size |-> size]}, want, got>>
  OBVIOUS
<1>1. ASSUME NEW t \in Threads, Ask(t) PROVE Access!Next
  <2>1. ~want[t].active
    BY <1>1 DEF Ask, FileInv, WantInv
  <2>2. Access!Ask(t)
    BY <1>1, <2>1 DEF Ask, Access!Ask, Access!NoData, NoData
  <2> QED
    BY <2>2 DEF Access!Next
<1>2. ASSUME NEW t \in Threads, Acquire(t) \/ NoSeek(t) \/ Seek(t)
      PROVE  UNCHANGED <<size, want, got>>
  BY <1>2 DEF Acquire, NoSeek, Seek
<1>3. ASSUME NEW t \in Threads, SeekFails(t) \/ Restart(t) \/ Skip(t)
      PROVE  UNCHANGED <<size, want, got>>
  BY <1>3 DEF SeekFails, Restart, Skip
<1>4. ASSUME NEW t \in Threads,
             Poisoned(t) \/ RestartFails(t) \/ SkipFails(t) \/ ReadFails(t)
      PROVE  Access!Next
  <2>1. Return(t, Failed) /\ pc[t] # "idle"
    BY <1>4 DEF Poisoned, RestartFails, SkipFails, ReadFails
  <2>2. Access!Answer(t, Failed)
    BY <2>1, ReturnAnswers
  <2> QED
    BY <2>2 DEF Access!Next, Access!Fail, Access!Failed, Failed
<1>5. ASSUME NEW t \in Threads, ReadData(t) PROVE Access!Next
  BY <1>5, ReadDataImplements DEF Access!Next
<1>6. CASE UNCHANGED vars
  BY <1>6 DEF vars
<1> QED
  BY <1>1, <1>2, <1>3, <1>4, <1>5, <1>6 DEF Next, Locked

\* Seeks where they are possible, and skips and starting over where they are
\* not, implement random access, for members of any size.
THEOREM LibzipIsRandomAccess == Spec => RandomAccessSpec
<1> QED
  BY AccessInit, AccessNext, Inductive, PTL DEF Spec, RandomAccessSpec, Access!Spec

-----------------------------------------------------------------------------
(* Refusals.                                                               *)

\* A read that is not refused yet, in a sound archive, is not refused.
LEMMA NotRefused ==
  ASSUME FileInv, Next, NEW t \in Threads, Returns(t), Servable(t), ~error
  PROVE  ~got'[t].error
<1>1. want \in [Threads -> [offset : Nat, size : Nat, active : BOOLEAN]]
  BY DEF FileInv, TypeOK
<1>2. want[t].active /\ ~want'[t].active
  BY DEF Returns
<1>3. ASSUME NEW u \in Threads, Ask(u) PROVE FALSE
  BY <1>1, <1>2, <1>3 DEF Ask
<1>4. ASSUME NEW u \in Threads, Acquire(u) \/ NoSeek(u) \/ Seek(u) PROVE FALSE
  BY <1>2, <1>4 DEF Acquire, NoSeek, Seek
<1>5. ASSUME NEW u \in Threads, SeekFails(u) \/ Restart(u) \/ Skip(u)
      PROVE  FALSE
  BY <1>2, <1>5 DEF SeekFails, Restart, Skip
<1>6. ASSUME NEW u \in Threads, NEW a, Return(u, a) PROVE u = t
  BY <1>1, <1>2, <1>6 DEF Return
<1>7. ASSUME NEW u \in Threads, Poisoned(u) \/ RestartFails(u) PROVE FALSE
  BY <1>7 DEF Poisoned, RestartFails, Servable
<1>8. /\ ~damaged /\ want[t].size > 0 /\ want[t].offset < size
      /\ size \in Nat /\ offset \in Nat
      /\ want[t].offset \in Nat /\ want[t].size \in Nat
  BY Typed DEF FileInv, Servable
<1>9. ASSUME SkipFails(t) PROVE FALSE
  <2>1. pc[t] = "reading" /\ offset < want[t].offset
    BY <1>9 DEF SkipFails
  <2>2. ~zipfile.failed
    BY <1>8, <2>1, FailedPastEnd
  <2>3. Gives(Least(want[t].size, want[t].offset - offset), 0)
    BY <1>8, <1>9, <2>2 DEF SkipFails
  <2>4. zipfile.pos = offset
    BY DEF FileInv, OffsetTracksStream
  <2>5. Least(want[t].size, want[t].offset - offset) # 0
    BY <1>8, <2>1 DEF Least
  <2> QED
    BY <1>8, <2>1, <2>3, <2>4, <2>5 DEF Gives
<1>10. ASSUME ReadFails(t) PROVE FALSE
  <2>1. pc[t] = "reading" /\ zipfile.failed
    BY <1>8, <1>10 DEF ReadFails
  <2> QED
    BY <1>8, <2>1, FailedPastEnd
<1>11. ASSUME NEW u \in Threads, SkipFails(u) \/ ReadFails(u) PROVE FALSE
  <2>1. u = t
    BY <1>6, <1>11 DEF SkipFails, ReadFails
  <2> QED
    BY <1>9, <1>10, <1>11, <2>1
<1>12. ASSUME NEW u \in Threads, ReadData(u) PROVE ~got'[t].error
  <2>1. PICK n : Return(u, IF n = 0 THEN NoData
                           ELSE [error |-> FALSE, version |-> 1,
                                 from |-> zipfile.pos, len |-> n])
    BY <1>12 DEF ReadData
  <2>2. u = t
    BY <1>6, <2>1
  <2>3. got \in [Threads -> Reply]
    BY DEF FileInv, TypeOK, Reply
  <2> QED
    BY <2>1, <2>2, <2>3 DEF Return, NoData
<1> QED
  BY <1>3, <1>4, <1>5, <1>7, <1>11, <1>12 DEF Next, Locked

\* In a sound member it is a read past the end that leaves file->error: a
\* stream fails in a seek past the end only, and opens again.
LEMMA PoisonedPastEnd ==
  ASSUME FileInv, Next, ~damaged, ~error, error'
  PROVE  \E t \in Threads : Returns(t) /\ ~Within(t)
<1>1. \E t \in Threads : SkipFails(t)
  BY DEF Next, Ask, Acquire, Locked, Poisoned, NoSeek, Seek, SeekFails,
     Restart, RestartFails, Skip, ReadData, ReadFails
<1>2. PICK t \in Threads : SkipFails(t)
  BY <1>1
<1>3. /\ pc[t] = "reading" /\ offset < want[t].offset
      /\ want' = [want EXCEPT ![t] = NoRead]
  BY <1>2 DEF SkipFails, Return
<1>4. /\ want \in [Threads -> [offset : Nat, size : Nat, active : BOOLEAN]]
      /\ offset \in Nat /\ size \in Nat /\ want[t].offset \in Nat
      /\ want[t].size \in Nat /\ zipfile.pos = offset
  BY Typed DEF FileInv, TypeOK, OffsetTracksStream
<1>5. Returns(t)
  BY <1>3, <1>4 DEF Returns, NoRead, FileInv, WantInv
<1>6. ASSUME Within(t) PROVE FALSE
  <2>1. want[t].size > 0 /\ want[t].offset <= size
    BY <1>6 DEF Within
  <2>2. ~zipfile.failed
    BY <1>3, <1>4, <2>1, FailedPastEnd
  <2>3. Gives(Least(want[t].size, want[t].offset - offset), 0)
    BY <1>2, <2>2 DEF SkipFails
  <2>4. Least(want[t].size, want[t].offset - offset) # 0
    BY <1>3, <1>4, <2>1 DEF Least
  <2> QED BY <1>3, <1>4, <2>1, <2>3, <2>4 DEF Gives
<1> QED BY <1>5, <1>6

(***************************************************************************)
(* In a sound archive no read inside the member is refused unless an       *)
(* earlier one left file->error, and that one was past the member's end: a *)
(* seek that fails is made good, for members and offsets of any size.      *)
(***************************************************************************)
THEOREM LibzipServes == Spec => RefusedOnlyPoisoned
<1> DEFINE Kept ==
      /\ \A t \in Threads :
           Returns(t) /\ Servable(t) /\ ~error => ~got[t].error'
      /\ ~damaged /\ ~error /\ error' =>
           \E t \in Threads : Returns(t) /\ ~Within(t)
<1>1. FileInv /\ [Next]_vars => [Kept]_vars
  BY NotRefused, PoisonedPastEnd
<1> QED
  BY <1>1, Inductive, PTL DEF Spec, RefusedOnlyPoisoned

-----------------------------------------------------------------------------
(* How long a read takes.                                                  *)

\* The mutex is held by the one read that is past pthread_mutex_lock.
Held == \A t \in Threads : pc[t] \in {"locked", "reading"} <=> lock = t

\* Where a read stands that has the mutex.
LEMMA LockedAt ==
  ASSUME NEW t \in Threads, Locked(t)
  PROVE  /\ pc[t] \in {"locked", "reading"}
         /\ \/ UNCHANGED <<pc, lock>>
            \/ pc' = [pc EXCEPT ![t] = "reading"] /\ lock' = lock
            \/ pc' = [pc EXCEPT ![t] = "idle"] /\ lock' = NoThread
BY DEF Locked, Poisoned, NoSeek, Seek, SeekFails, Restart, RestartFails, Skip,
       SkipFails, ReadData, ReadFails, Ready, Return

\* Nobody unlocks but the holder.
LEMMA NextHeld == FileInv /\ Held /\ [Next]_vars => Held'
<1> SUFFICES ASSUME FileInv, Held, [Next]_vars PROVE Held'
  OBVIOUS
<1>1. /\ pc \in [Threads -> {"idle", "waiting", "locked", "reading"}]
      /\ NoThread \notin Threads
  BY FileAssumption DEF FileInv, TypeOK
<1>2. CASE UNCHANGED vars
  BY <1>2 DEF vars, Held
<1>3. ASSUME NEW t \in Threads, Ask(t) PROVE Held'
  BY <1>1, <1>3 DEF Ask, Held
<1>4. ASSUME NEW t \in Threads, Acquire(t) PROVE Held'
  BY <1>1, <1>4 DEF Acquire, Held
<1>5. ASSUME NEW t \in Threads, Locked(t) PROVE Held'
  BY <1>1, <1>5, LockedAt DEF Held
<1> QED BY <1>2, <1>3, <1>4, <1>5 DEF Next

\* A turn of the holder gets closer, and nobody else's step counts.
LEMMA StepsCount == FileInv /\ Held /\ [Next]_vars => StepsTaken
<1> SUFFICES ASSUME FileInv, Held, [Next]_vars,
                    NEW t \in Threads, lock = t, lock' = t
             PROVE  /\ StepsLeft(t) \in 1 .. want[t].offset + 3
                    /\ IF Locked(t) THEN StepsLeft(t)' \in 1 .. StepsLeft(t) - 1
                                    ELSE StepsLeft(t)' = StepsLeft(t)
  BY DEF StepsTaken
<1>1. /\ offset \in Nat /\ want[t].offset \in Nat /\ want[t].size \in Nat
      /\ t # NoThread /\ pc[t] \in {"locked", "reading"}
      /\ pc \in [Threads -> {"idle", "waiting", "locked", "reading"}]
      /\ want \in [Threads -> [offset : Nat, size : Nat, active : BOOLEAN]]
  BY FileAssumption DEF FileInv, TypeOK, Held
<1>2. StepsLeft(t) \in 1 .. want[t].offset + 3
  BY <1>1 DEF StepsLeft
<1>3. ASSUME Locked(t) PROVE StepsLeft(t)' \in 1 .. StepsLeft(t) - 1
  <2>1. CASE Restart(t)
    BY <1>1, <2>1 DEF Restart, StepsLeft
  <2>2. CASE Skip(t)
    <3>1. PICK n \in 1 .. Least(want[t].size, want[t].offset - offset) :
                 offset' = offset + n
      BY <2>2 DEF Skip
    <3>2. n \in Nat /\ n >= 1 /\ n <= want[t].offset - offset
      BY <1>1, <3>1 DEF Least
    <3>3. want' = want /\ pc' = pc /\ pc[t] = "reading"
      BY <2>2 DEF Skip
    <3> QED BY <1>1, <3>1, <3>2, <3>3 DEF StepsLeft
  <2>3. CASE NoSeek(t) \/ Seek(t) \/ SeekFails(t)
    <3>1. /\ pc[t] = "locked" /\ pc'[t] = "reading" /\ want' = want
          /\ offset' \in {offset, want[t].offset}
      BY <1>1, <2>3 DEF NoSeek, Seek, SeekFails, Ready
    <3> QED BY <1>1, <3>1 DEF StepsLeft
  <2>4. \/ Restart(t) \/ Skip(t)
        \/ NoSeek(t) \/ Seek(t) \/ SeekFails(t)
    BY <1>1, <1>3 DEF Locked, Poisoned, RestartFails, SkipFails, ReadData,
                      ReadFails, Return
  <2> QED BY <2>1, <2>2, <2>3, <2>4
<1>4. ASSUME ~Locked(t) PROVE StepsLeft(t)' = StepsLeft(t)
  <2>1. CASE UNCHANGED vars
    BY <2>1 DEF vars, StepsLeft
  <2>2. ASSUME NEW u \in Threads, Ask(u) PROVE StepsLeft(t)' = StepsLeft(t)
    BY <1>1, <2>2 DEF Ask, StepsLeft
  <2>3. ASSUME NEW u \in Threads, Acquire(u) PROVE FALSE
    BY <1>1, <2>3 DEF Acquire
  <2>4. ASSUME NEW u \in Threads, Locked(u) PROVE FALSE
    <3>1. u = t
      BY <2>4, LockedAt DEF Held
    <3> QED BY <1>4, <2>4, <3>1
  <2> QED BY <2>1, <2>2, <2>3, <2>4 DEF Next
<1> QED BY <1>2, <1>3, <1>4

(***************************************************************************)
(* For every offset, length and member size, a read returns after at most  *)
(* offset + 3 steps under the mutex (peepfs_libzip.c:220-284): one seek,   *)
(* that may fail, at most one fresh start, and turns that all toss data.   *)
(***************************************************************************)
THEOREM LibzipGetsCloser == Spec => ReadGetsCloser
<1>1. Init => Held
  BY FileAssumption DEF Init, Held
<1>2. FileInv /\ Held /\ [Next]_vars => Held'
  BY NextHeld
<1>3. FileInv /\ Held /\ [Next]_vars => [StepsTaken]_vars
  BY StepsCount
<1> QED BY <1>1, <1>2, <1>3, Inductive, PTL DEF Spec, ReadGetsCloser

-----------------------------------------------------------------------------
(* What refuses a read inside the member: only reads outside it, and       *)
(* errors.                                                                 *)

\* The archive is sound, and nobody reads past the member's end.
ReadsInside == ~damaged /\ \A t \in Threads : want[t].active => Within(t)

NoError == error = FALSE

\* A read inside the member is not refused, whatever was read before it.
InRangeServed ==
  [][\A t \in Threads : Returns(t) /\ Servable(t) => ~got[t].error']_vars

\* Seeks and restarts succeed, and the loop that skips never meets the end.
LEMMA InsideNoError ==
  FileInv /\ ReadsInside /\ NoError /\ [Next]_vars => NoError'
<1> SUFFICES ASSUME FileInv, ReadsInside, NoError, [Next]_vars, error'
             PROVE  FALSE
  BY NextInv DEF NoError, FileInv, TypeOK
<1>1. CASE Next
  BY <1>1, PoisonedPastEnd DEF ReadsInside, NoError, Returns
<1>2. CASE UNCHANGED vars
  BY <1>2 DEF vars, NoError
<1> QED BY <1>1, <1>2

(***************************************************************************)
(* The same of zip archives: in a sound one, a file that nobody reads past *)
(* the end of serves every read inside it.  The end met by the loop that   *)
(* skips (peepfs_libzip.c:269) is all that makes it refuse what it has.    *)
(***************************************************************************)
THEOREM LibzipServesInside == Spec /\ []ReadsInside => InRangeServed
<1> DEFINE Kept ==
      \A t \in Threads : Returns(t) /\ Servable(t) => ~got[t].error'
<1>1. Init => NoError
  BY DEF Init, NoError
<1>2. FileInv /\ ReadsInside /\ NoError /\ [Next]_vars => NoError'
  BY InsideNoError
<1>3. FileInv /\ NoError /\ [Next]_vars => [Kept]_vars
  BY NotRefused DEF NoError
<1> QED BY <1>1, <1>2, <1>3, Inductive, PTL DEF Spec, InRangeServed
===============================================================================
