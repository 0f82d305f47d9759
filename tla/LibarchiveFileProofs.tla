------------------------- MODULE LibarchiveFileProofs -------------------------
(***************************************************************************)
(* For any threads, offsets, lengths and archives: an open file of an      *)
(* archive read with libarchive is always at the offset it keeps, and      *)
(* implements random access.                                               *)
(***************************************************************************)
EXTENDS LibarchiveFile, SequenceTheorems, TLAPS

\* What a stream shows is the member of one of the versions.
StreamInv ==
  arc.size # -1 => /\ arc.version \in 1 .. Len(disk)
                   /\ HasMember(arc.version)
                   /\ arc.size = disk[arc.version][Index + 1]
                   /\ arc.pos <= arc.size

\* A stream is lost by an error or after the archive was written.
LostInv == arc.size = -1 => damaged \/ error \/ Len(disk) > 1

WantInv == \A t \in Threads : want[t].active <=> pc[t] # "idle"

(***************************************************************************)
(* The inductive invariant: the stream is in a version of the archive that *)
(* was on disk and at the offset the file keeps; without one there was an  *)
(* error or another version.                                               *)
(***************************************************************************)
FileInv ==
  /\ TypeOK
  /\ OffsetTracksStream
  /\ Len(disk) >= 1
  /\ HasMember(1)
  /\ StreamInv
  /\ LostInv
  /\ WantInv

-----------------------------------------------------------------------------
(* Streams.                                                                *)

\* A member of a version has a size.
LEMMA MemberSize ==
  ASSUME TypeOK, NEW v \in 1 .. Len(disk), HasMember(v)
  PROVE  disk[v][Index + 1] \in Nat
<1>1. disk[v] \in Contents
  BY DEF TypeOK, HasMember
<1>2. disk[v] \in Seq(Nat)
  BY <1>1, FileAssumption
<1>3. Index + 1 \in 1 .. Len(disk[v])
  BY <1>2, FileAssumption DEF HasMember
<1> QED
  BY <1>2, <1>3

\* What opening the archive gives.
LEMMA Opening ==
  ASSUME TypeOK, Len(disk) >= 1
  PROVE  LET s == OpenAt(Index)
         IN  /\ s \in [version : Nat, size : Nat \cup {-1}, pos : Nat]
             /\ s.pos = 0
             /\ s.size # -1 => /\ s.version \in 1 .. Len(disk)
                               /\ HasMember(s.version)
                               /\ s.size = disk[s.version][Index + 1]
             /\ HasMember(Len(disk)) => s.size # -1
<1> DEFINE v == Len(disk)
<1>1. v \in 1 .. Len(disk) /\ v \in Nat
  BY DEF TypeOK
<1>2. HasMember(v) => disk[v][Index + 1] \in Nat
  BY <1>1, MemberSize
<1>3. Index \in Nat /\ disk[v] \in Contents \cup {Gone}
  BY <1>1, FileAssumption DEF TypeOK
<1>4. disk[v] # Gone => Len(disk[v]) \in Nat
  BY <1>3, FileAssumption
<1>5. CASE HasMember(v)
  BY <1>1, <1>2, <1>3, <1>4, <1>5 DEF OpenAt, HasMember, NoStream
<1>6. CASE ~HasMember(v)
  BY <1>1, <1>3, <1>4, <1>6 DEF OpenAt, HasMember, NoStream
<1> QED
  BY <1>5, <1>6

LEMMA LeastIsNat ==
  ASSUME NEW m \in Nat, NEW n \in Nat
  PROVE  Least(m, n) \in Nat /\ Least(m, n) <= m /\ Least(m, n) <= n
  BY DEF Least

\* Where a stream is after n bytes of it.
LEMMA MovedOn ==
  ASSUME TypeOK, NEW n \in Nat, arc' = [arc EXCEPT !.pos = @ + n]
  PROVE  /\ arc' \in [version : Nat, size : Nat \cup {-1}, pos : Nat]
         /\ arc'.version = arc.version
         /\ arc'.size = arc.size
         /\ arc'.pos = arc.pos + n
         /\ arc.pos \in Nat /\ arc.size \in Int
         /\ offset + n \in Nat
<1>1. /\ arc \in [version : Nat, size : Nat \cup {-1}, pos : Nat]
      /\ offset \in Nat
  BY DEF TypeOK
<1>2. arc' = [version |-> arc.version, size |-> arc.size, pos |-> arc.pos + n]
  BY <1>1
<1>3. arc.pos \in Nat /\ arc.pos + n \in Nat /\ offset + n \in Nat
  BY <1>1
<1>4. arc.size \in Nat \cup {-1} /\ arc.version \in Nat
  BY <1>1
<1>5. arc.size \in Int
  BY <1>4
<1>6. arc' \in [version : Nat, size : Nat \cup {-1}, pos : Nat]
  BY <1>2, <1>3, <1>4
<1>7. arc'.version = arc.version /\ arc'.size = arc.size /\ arc'.pos = arc.pos + n
  BY <1>2
<1> QED
  BY <1>3, <1>5, <1>6, <1>7

-----------------------------------------------------------------------------
(* The invariant holds.                                                    *)

LEMMA InitInv == Init => FileInv
<1> SUFFICES ASSUME Init PROVE FileInv
  OBVIOUS
<1>1. PICK c \in Contents : Index < Len(c) /\ disk = <<c>>
  BY DEF Init
<1>2. Len(disk) = 1 /\ disk[1] = c /\ HasMember(1)
  BY <1>1, FileAssumption DEF HasMember
<1>3. disk \in Seq(Contents \cup {Gone})
  BY <1>1
<1> DEFINE s == OpenAt(Index)
<1>4. s = [version |-> 1, pos |-> 0, size |-> c[Index + 1]]
  BY <1>1, <1>2, FileAssumption DEF OpenAt, HasMember
<1>5. c[Index + 1] \in Nat
  BY <1>1, FileAssumption
<1>6. arc = [version |-> 1, pos |-> 0, size |-> c[Index + 1]]
  BY <1>4 DEF Init
<1>7. TypeOK
  <2>1. /\ NoRead \in [offset : Nat, size : Nat, active : BOOLEAN]
        /\ NoData \in [error : BOOLEAN, version : Nat, from : Nat, len : Nat]
        /\ arc \in [version : Nat, size : Nat \cup {-1}, pos : Nat]
    BY <1>5, <1>6 DEF NoRead, NoData
  <2> QED
    BY <1>3, <2>1 DEF Init, TypeOK
<1>8. OffsetTracksStream /\ StreamInv /\ LostInv
  BY <1>2, <1>5, <1>6 DEF Init, OffsetTracksStream, StreamInv, LostInv
<1>9. WantInv
  BY DEF Init, WantInv, NoRead
<1> QED
  BY <1>2, <1>7, <1>8, <1>9 DEF FileInv

\* Reads that end leave the rest of the thread's state in order.
LEMMA ReturnKeeps ==
  ASSUME FileInv, NEW t \in Threads, NEW a, Return(t, a),
         a \in [error : BOOLEAN, version : Nat, from : Nat, len : Nat]
  PROVE  /\ lock' \in Threads \cup {NoThread}
         /\ pc' \in [Threads -> {"idle", "waiting", "locked"}]
         /\ want' \in [Threads -> [offset : Nat, size : Nat, active : BOOLEAN]]
         /\ got' \in [Threads ->
                        [error : BOOLEAN, version : Nat, from : Nat, len : Nat]]
         /\ disk' = disk /\ damaged' = damaged
         /\ WantInv'
<1>1. NoRead \in [offset : Nat, size : Nat, active : BOOLEAN]
  BY DEF NoRead
<1> QED
  BY <1>1 DEF Return, FileInv, TypeOK, WantInv, NoRead

LEMMA NextInv == FileInv /\ [Next]_vars => FileInv'
<1> SUFFICES ASSUME FileInv, [Next]_vars PROVE FileInv'
  OBVIOUS
<1> USE DEF FileInv
<1>1. /\ Failed \in [error : BOOLEAN, version : Nat, from : Nat, len : Nat]
      /\ NoData \in [error : BOOLEAN, version : Nat, from : Nat, len : Nat]
  BY DEF Failed, NoData
<1>2. ASSUME Rewrite PROVE FileInv'
  <2>1. PICK c \in Contents \cup {Gone} : disk' = Append(disk, c)
    BY <1>2 DEF Rewrite
  <2>2. /\ disk' \in Seq(Contents \cup {Gone})
        /\ Len(disk') = Len(disk) + 1
        /\ \A v \in 1 .. Len(disk) : disk'[v] = disk[v]
        /\ Len(disk) \in Nat
    BY <2>1 DEF TypeOK
  <2>3. UNCHANGED <<damaged, arc, offset, error, lock, pc, want, got>>
    BY <1>2 DEF Rewrite
  <2>4. TypeOK' /\ OffsetTracksStream' /\ WantInv'
    BY <2>2, <2>3 DEF TypeOK, OffsetTracksStream, WantInv
  <2>5. HasMember(1)' /\ StreamInv' /\ LostInv'
    BY <2>2, <2>3 DEF HasMember, StreamInv, LostInv
  <2> QED
    BY <2>2, <2>4, <2>5
<1>3. ASSUME NEW t \in Threads, Ask(t) PROVE FileInv'
  <2>1. PICK o \in Offsets, s \in Lengths :
          want' = [want EXCEPT ![t] =
                     [offset |-> o, size |-> s, active |-> TRUE]]
    BY <1>3 DEF Ask
  <2>2. o \in Nat /\ s \in Nat
    BY FileAssumption
  <2>3. TypeOK'
    BY <1>1, <1>3, <2>1, <2>2 DEF Ask, TypeOK
  <2>4. WantInv'
    BY <1>3, <2>1 DEF Ask, TypeOK, WantInv
  <2>5. /\ OffsetTracksStream' /\ StreamInv' /\ LostInv'
        /\ disk' = disk
    BY <1>3 DEF Ask, OffsetTracksStream, StreamInv, LostInv, HasMember
  <2> QED
    BY <2>3, <2>4, <2>5 DEF HasMember
<1>4. ASSUME NEW t \in Threads, Acquire(t) PROVE FileInv'
  <2>1. TypeOK' /\ WantInv'
    BY <1>4 DEF Acquire, TypeOK, WantInv
  <2>2. /\ OffsetTracksStream' /\ StreamInv' /\ LostInv'
        /\ disk' = disk
    BY <1>4 DEF Acquire, OffsetTracksStream, StreamInv, LostInv, HasMember
  <2> QED
    BY <2>1, <2>2 DEF HasMember
<1>5. ASSUME NEW t \in Threads, Poisoned(t) PROVE FileInv'
  <2>1. Return(t, Failed) /\ UNCHANGED <<arc, offset, error>>
    BY <1>5 DEF Poisoned
  <2>2. TypeOK' /\ WantInv' /\ disk' = disk /\ damaged' = damaged
    BY <1>1, <2>1, ReturnKeeps DEF TypeOK
  <2> QED
    BY <2>1, <2>2 DEF OffsetTracksStream, StreamInv, LostInv, HasMember
<1>6. ASSUME NEW t \in Threads, Restart(t) PROVE FileInv'
  <2>1. /\ arc' = OpenAt(Index) /\ offset' = 0
        /\ UNCHANGED <<disk, damaged, error, lock, pc, want, got>>
    BY <1>6 DEF Restart
  <2>2. TypeOK'
    BY <2>1, Opening DEF TypeOK
  <2>3. OffsetTracksStream'
    BY <2>1, Opening DEF OffsetTracksStream
  <2>4. StreamInv'
    <3>1. ASSUME arc'.size # -1
          PROVE  /\ arc'.version \in 1 .. Len(disk)
                 /\ HasMember(arc'.version)
                 /\ arc'.size = disk[arc'.version][Index + 1]
                 /\ arc'.pos = 0
      BY <2>1, <3>1, Opening
    <3>2. arc'.size # -1 => arc'.size \in Nat
      BY <2>2 DEF TypeOK
    <3> QED
      BY <2>1, <3>1, <3>2 DEF StreamInv, HasMember
  <2>5. LostInv'
    <3>1. Len(disk) = 1 => HasMember(Len(disk))
      OBVIOUS
    <3>2. Len(disk) \in Nat
      BY DEF TypeOK
    <3> QED
      BY <2>1, <3>1, <3>2, Opening DEF LostInv
  <2> QED
    BY <2>1, <2>2, <2>3, <2>4, <2>5 DEF WantInv, HasMember
<1>7. ASSUME NEW t \in Threads, RestartFails(t) PROVE FileInv'
  <2>1. /\ arc' = NoStream /\ error' = TRUE /\ Return(t, Failed)
        /\ offset' = offset
    BY <1>7 DEF RestartFails
  <2>2. TypeOK' /\ WantInv' /\ disk' = disk
    BY <1>1, <2>1, ReturnKeeps DEF TypeOK, NoStream
  <2> QED
    BY <2>1, <2>2 DEF OffsetTracksStream, StreamInv, LostInv, HasMember, NoStream
<1>8. ASSUME NEW t \in Threads, Skip(t) PROVE FileInv'
  <2>1. PICK n \in 1 .. Least(want[t].size, want[t].offset - offset) :
          /\ Gives(arc, Least(want[t].size, want[t].offset - offset), n)
          /\ arc' = [arc EXCEPT !.pos = @ + n]
          /\ offset' = offset + n
    BY <1>8 DEF Skip
  <2>2. UNCHANGED <<disk, damaged, error, lock, pc, want, got>>
    BY <1>8 DEF Skip
  <2>3. n \in Nat /\ arc.size # -1 /\ n <= arc.size - arc.pos
    <3>1. Least(want[t].size, want[t].offset - offset) \in Int
      BY DEF TypeOK, Least
    <3> QED
      BY <2>1, <3>1 DEF Gives
  <2>4. arc' \in [version : Nat, size : Nat \cup {-1}, pos : Nat] /\ offset' \in Nat
    BY <2>1, <2>3, MovedOn DEF TypeOK
  <2>5. TypeOK' /\ OffsetTracksStream'
    BY <2>1, <2>2, <2>3, <2>4, MovedOn DEF TypeOK, OffsetTracksStream
  <2>6. StreamInv' /\ LostInv'
    BY <2>1, <2>2, <2>3, MovedOn DEF StreamInv, LostInv, HasMember
  <2> QED
    BY <2>2, <2>5, <2>6 DEF WantInv, HasMember
<1>9. ASSUME NEW t \in Threads, SkipFails(t) PROVE FileInv'
  <2>1. /\ error' = TRUE /\ Return(t, Failed) /\ UNCHANGED <<arc, offset>>
    BY <1>9 DEF SkipFails
  <2>2. TypeOK' /\ WantInv' /\ disk' = disk
    BY <1>1, <2>1, ReturnKeeps DEF TypeOK
  <2> QED
    BY <2>1, <2>2 DEF OffsetTracksStream, StreamInv, LostInv, HasMember
<1>10. ASSUME NEW t \in Threads, ReadData(t) PROVE FileInv'
  <2>1. PICK n \in 0 .. want[t].size :
          /\ Gives(arc, want[t].size, n)
          /\ arc' = [arc EXCEPT !.pos = @ + n]
          /\ offset' = offset + n
          /\ Return(t, IF n = 0 THEN NoData
                       ELSE [error |-> FALSE, version |-> arc.version,
                             from |-> arc.pos, len |-> n])
          /\ error' = error
    BY <1>10 DEF ReadData
  <2>2. n \in Nat /\ arc.size # -1 /\ n <= arc.size - arc.pos
    BY <2>1 DEF Gives, TypeOK
  <2>3. (IF n = 0 THEN NoData
         ELSE [error |-> FALSE, version |-> arc.version,
               from |-> arc.pos, len |-> n]) \in
          [error : BOOLEAN, version : Nat, from : Nat, len : Nat]
    BY <1>1, <2>2 DEF TypeOK
  <2>4. /\ lock' \in Threads \cup {NoThread}
        /\ pc' \in [Threads -> {"idle", "waiting", "locked"}]
        /\ want' \in [Threads -> [offset : Nat, size : Nat, active : BOOLEAN]]
        /\ got' \in [Threads ->
                      [error : BOOLEAN, version : Nat, from : Nat, len : Nat]]
        /\ disk' = disk /\ damaged' = damaged
        /\ WantInv'
    BY <2>1, <2>3, ReturnKeeps
  <2>5. arc' \in [version : Nat, size : Nat \cup {-1}, pos : Nat] /\ offset' \in Nat
    BY <2>1, <2>2, MovedOn DEF TypeOK
  <2>6. TypeOK' /\ OffsetTracksStream'
    BY <2>1, <2>2, <2>4, <2>5, MovedOn DEF TypeOK, OffsetTracksStream
  <2>7. /\ arc'.size = arc.size /\ arc'.version = arc.version
        /\ arc'.pos <= arc'.size
    BY <2>1, <2>2, MovedOn
  <2>8. StreamInv' /\ LostInv'
    BY <2>1, <2>2, <2>4, <2>7 DEF StreamInv, LostInv, HasMember
  <2> QED
    BY <2>4, <2>6, <2>8 DEF HasMember
<1>11. ASSUME NEW t \in Threads, ReadFails(t) PROVE FileInv'
  <2>1. /\ arc' = [arc EXCEPT !.size = -1] /\ Return(t, Failed)
        /\ UNCHANGED <<offset, error>>
        /\ arc.size = -1 \/ damaged
    BY <1>11 DEF ReadFails
  <2>2. TypeOK' /\ WantInv' /\ disk' = disk /\ damaged' = damaged
    BY <1>1, <2>1, ReturnKeeps DEF TypeOK
  <2> QED
    BY <2>1, <2>2 DEF TypeOK, OffsetTracksStream, StreamInv, LostInv, HasMember
<1>12. CASE UNCHANGED vars
  BY <1>12 DEF vars, TypeOK, OffsetTracksStream, StreamInv, LostInv, WantInv,
               HasMember
<1> QED
  BY <1>2, <1>3, <1>4, <1>5, <1>6, <1>7, <1>8, <1>9, <1>10, <1>11, <1>12
     DEF Next, Locked

LEMMA Inductive == Spec => []FileInv
<1> QED
  BY InitInv, NextInv, PTL DEF Spec

\* The file's variables keep their types.
THEOREM LibarchiveTyped == Spec => []TypeOK
<1>1. FileInv => TypeOK
  BY DEF FileInv
<1> QED
  BY <1>1, Inductive, PTL

\* Whatever was skipped, restarted or read before, the offset that the file
\* keeps is where libarchive's stream is.
THEOREM LibarchiveInPlace == Spec => []OffsetTracksStream
<1>1. FileInv => OffsetTracksStream
  BY DEF FileInv
<1> QED
  BY <1>1, Inductive, PTL

-----------------------------------------------------------------------------
(* Random access.                                                          *)

\* Where the versions of the member are kept in RandomAccess.
Files == {[version |-> v, size |-> disk[v][Index + 1]] :
            v \in {u \in 1 .. Len(disk) : HasMember(u)}}

LEMMA StreamIsFile ==
  ASSUME FileInv, arc.size # -1
  PROVE  [version |-> arc.version, size |-> arc.size] \in Files
  BY DEF FileInv, StreamInv, Files

LEMMA FilesAreMembers ==
  ASSUME FileInv PROVE Files \subseteq Access!Members
<1> SUFFICES ASSUME NEW f \in Files PROVE f \in Access!Members
  OBVIOUS
<1>1. PICK v \in {u \in 1 .. Len(disk) : HasMember(u)} :
        f = [version |-> v, size |-> disk[v][Index + 1]]
  BY DEF Files
<1>2. disk[v][Index + 1] \in Nat
  BY <1>1, MemberSize DEF FileInv
<1> QED
  BY <1>1, <1>2 DEF Access!Members

LEMMA AccessInit == Init => Access!Init
<1> SUFFICES ASSUME Init PROVE Access!Init
  OBVIOUS
<1>1. FileInv
  BY InitInv
<1>2. Len(disk) = 1
  BY DEF Init
<1>3. {u \in 1 .. Len(disk) : HasMember(u)} = {1}
  BY <1>1, <1>2 DEF FileInv
<1>4. Files = {[version |-> 1, size |-> disk[1][Index + 1]]}
  BY <1>3 DEF Files
<1>5. Files \subseteq Access!Members /\ \E file \in Files : Files = {file}
  BY <1>1, <1>4, FilesAreMembers
<1> QED
  BY <1>5 DEF Init, Files, Access!Init, NoRead, NoData, Access!NoRead,
              Access!NoData

\* The end of a read, as RandomAccess sees it.
LEMMA ReturnAnswers ==
  ASSUME FileInv, NEW t \in Threads, pc[t] = "locked", NEW a, Return(t, a)
  PROVE  Access!Answer(t, a)
<1>1. want[t].active
  BY DEF FileInv, WantInv
<1>2. Files' = Files
  BY DEF Return, Files, HasMember
<1> QED
  BY <1>1, <1>2 DEF Return, Access!Answer, Access!NoRead, NoRead, Files

LEMMA ReadDataImplements ==
  ASSUME FileInv, NEW t \in Threads, ReadData(t)
  PROVE  Access!Deliver(t) \/ Access!AtEnd(t)
<1>1. PICK n \in 0 .. want[t].size :
        /\ Gives(arc, want[t].size, n)
        /\ Return(t, IF n = 0 THEN NoData
                     ELSE [error |-> FALSE, version |-> arc.version,
                           from |-> arc.pos, len |-> n])
  BY DEF ReadData
<1>2. /\ pc[t] = "locked" /\ ~error /\ offset = want[t].offset
      /\ arc.pos = want[t].offset
      /\ arc.size # -1
  BY <1>1 DEF ReadData, Ready, FileInv, OffsetTracksStream, Gives
<1>3. /\ arc.pos \in Nat /\ arc.size \in Nat /\ want[t].size \in Nat
      /\ n \in Nat
  BY <1>1, <1>2 DEF FileInv, TypeOK
<1> DEFINE file == [version |-> arc.version, size |-> arc.size]
<1>4. file \in Files
  BY <1>2, StreamIsFile
<1>5. CASE n = 0
  <2>1. Access!Answer(t, NoData)
    BY <1>1, <1>2, <1>5, ReturnAnswers
  <2>2. want[t].size = 0 \/ want[t].offset >= arc.size
    BY <1>1, <1>2, <1>5 DEF Gives
  <2>3. want[t].size = 0 \/ \E f \in Files : want[t].offset >= f.size
    BY <1>4, <2>2
  <2> QED
    BY <2>1, <2>3 DEF Access!AtEnd, Access!NoData, NoData, Files
<1>6. CASE n # 0
  <2>1. Access!Answer(t, [error |-> FALSE, version |-> file.version,
                          from |-> want[t].offset, len |-> n])
    BY <1>1, <1>2, <1>6, ReturnAnswers
  <2>2. n \in 1 .. want[t].size
    BY <1>1, <1>3, <1>6
  <2>3. want[t].offset + n <= file.size
    BY <1>1, <1>2, <1>3 DEF Gives
  <2> QED
    BY <1>4, <2>1, <2>2, <2>3 DEF Access!Deliver, Files
<1> QED
  BY <1>5, <1>6

LEMMA RewriteImplements ==
  ASSUME FileInv, Rewrite
  PROVE  Access!Replace
<1>1. PICK c \in Contents \cup {Gone} : disk' = Append(disk, c)
  BY DEF Rewrite
<1>2. /\ Len(disk') = Len(disk) + 1
      /\ Len(disk) \in Nat
      /\ \A v \in 1 .. Len(disk) : disk'[v] = disk[v]
  BY <1>1 DEF FileInv, TypeOK
<1> DEFINE new == [version |-> Len(disk'),
                   size |-> disk'[Len(disk')][Index + 1]]
           has(u) == disk'[u] # Gone /\ Index < Len(disk'[u])
<1>3. \A u \in 1 .. Len(disk) : HasMember(u) <=> has(u)
  BY <1>2 DEF HasMember
<1>4. Files' = {[version |-> v, size |-> disk'[v][Index + 1]] :
                  v \in {u \in 1 .. Len(disk') : has(u)}}
  BY DEF Files, HasMember
<1>5. 1 .. Len(disk') = (1 .. Len(disk)) \cup {Len(disk')}
  BY <1>2
<1>6. Files = {[version |-> v, size |-> disk'[v][Index + 1]] :
                 v \in {u \in 1 .. Len(disk) : has(u)}}
  BY <1>2, <1>3 DEF Files
<1>7. UNCHANGED <<want, got>>
  BY DEF Rewrite
<1>8. Files \subseteq Access!Members
  BY FilesAreMembers
<1>9. CASE has(Len(disk'))
  <2>1. {u \in 1 .. Len(disk') : has(u)} =
          {u \in 1 .. Len(disk) : has(u)} \cup {Len(disk')}
    BY <1>5, <1>9
  <2>2. Files' = Files \cup {new}
    BY <1>4, <1>6, <2>1
  <2>3. disk'[Len(disk')] = c
    BY <1>1, <1>2 DEF FileInv, TypeOK
  <2>4. c \in Seq(Nat) /\ Index + 1 \in 1 .. Len(c)
    BY <1>9, <2>3, FileAssumption
  <2>5. new \in Access!Members
    BY <1>2, <2>3, <2>4 DEF Access!Members
  <2>6. Files' \subseteq Access!Members /\ \E f \in Files' : Files' = Files \cup {f}
    BY <1>8, <2>2, <2>5
  <2> QED
    BY <1>7, <2>6 DEF Access!Replace, Files
<1>10. CASE ~has(Len(disk'))
  <2>1. {u \in 1 .. Len(disk') : has(u)} = {u \in 1 .. Len(disk) : has(u)}
    BY <1>5, <1>10
  <2>2. Files' = Files
    BY <1>4, <1>6, <2>1
  <2>3. [version |-> 1, size |-> disk[1][Index + 1]] \in Files
    BY <1>2 DEF FileInv, Files
  <2>4. Files' \subseteq Access!Members /\ \E f \in Files' : Files' = Files \cup {f}
    BY <1>8, <2>2, <2>3
  <2> QED
    BY <1>7, <2>4 DEF Access!Replace, Files
<1> QED
  BY <1>9, <1>10

LEMMA AskImplements ==
  ASSUME FileInv, NEW t \in Threads, Ask(t)
  PROVE  Access!Ask(t)
<1>1. ~want[t].active /\ Files' = Files
  BY DEF Ask, FileInv, WantInv, Files, HasMember
<1> QED
  BY <1>1 DEF Ask, Access!Ask, Access!NoData, NoData, Files

\* Every step of the file is one of random access, or changes nothing of it.
LEMMA AccessNext ==
  FileInv /\ [Next]_vars => [Access!Next]_<<Files, want, got>>
<1> SUFFICES ASSUME FileInv, [Next]_vars
             PROVE  Access!Next \/ UNCHANGED <<Files, want, got>>
  OBVIOUS
<1>1. ASSUME Rewrite PROVE Access!Next
  BY <1>1, RewriteImplements DEF Access!Next
<1>2. ASSUME NEW t \in Threads, Ask(t) PROVE Access!Next
  BY <1>2, AskImplements DEF Access!Next
<1>3. ASSUME NEW t \in Threads, Acquire(t) \/ Restart(t) \/ Skip(t)
      PROVE  UNCHANGED <<Files, want, got>>
  BY <1>3 DEF Acquire, Restart, Skip, Files, HasMember
<1>4. ASSUME NEW t \in Threads,
             Poisoned(t) \/ RestartFails(t) \/ SkipFails(t) \/ ReadFails(t)
      PROVE  Access!Next
  <2>1. Return(t, Failed) /\ pc[t] = "locked"
    BY <1>4 DEF Poisoned, RestartFails, SkipFails, ReadFails, Ready
  <2>2. Access!Answer(t, Failed)
    BY <2>1, ReturnAnswers
  <2> QED
    BY <2>2 DEF Access!Next, Access!Fail, Access!Failed, Failed
<1>5. ASSUME NEW t \in Threads, ReadData(t) PROVE Access!Next
  BY <1>5, ReadDataImplements DEF Access!Next
<1>6. CASE UNCHANGED vars
  BY <1>6 DEF vars, Files, HasMember
<1> QED
  BY <1>1, <1>2, <1>3, <1>4, <1>5, <1>6 DEF Next, Locked

\* Reading forward, skipping and starting over implement random access, for
\* any number of threads that read, and versions of the archive.
THEOREM LibarchiveIsRandomAccess == Spec => RandomAccessSpec
<1>1. FileInv /\ [Next]_vars =>
        [Access!Next]_<<{[version |-> v, size |-> disk[v][Index + 1]] :
                           v \in {u \in 1 .. Len(disk) : HasMember(u)}},
                        want, got>>
  BY AccessNext DEF Files
<1> QED
  BY <1>1, AccessInit, Inductive, PTL DEF Spec, RandomAccessSpec, Access!Spec

-----------------------------------------------------------------------------
(* Refusals.                                                               *)

\* A read that is not refused yet, in a sound archive, is not refused.
LEMMA NotRefused ==
  ASSUME FileInv, Next, NEW t \in Threads, Returns(t), Servable(t), ~error
  PROVE  ~got'[t].error
<1>1. want \in [Threads -> [offset : Nat, size : Nat, active : BOOLEAN]]
  BY DEF FileInv, TypeOK
<1>2. want[t].active /\ ~want'[t].active
  BY DEF Returns
<1>3. ~Rewrite
  BY <1>2 DEF Rewrite
<1>4. ASSUME NEW u \in Threads, Ask(u) PROVE FALSE
  BY <1>1, <1>2, <1>4 DEF Ask
<1>5. ASSUME NEW u \in Threads, Acquire(u) \/ Restart(u) \/ Skip(u) PROVE FALSE
  BY <1>2, <1>5 DEF Acquire, Restart, Skip
<1>6. ASSUME NEW u \in Threads, NEW a, Return(u, a) PROVE u = t
  BY <1>1, <1>2, <1>6 DEF Return
<1>7. ASSUME NEW u \in Threads, Poisoned(u) PROVE FALSE
  BY <1>7 DEF Poisoned
<1>8. ~damaged /\ Len(disk) = 1 /\ want[t].size > 0
  BY DEF Servable, Sound
<1>9. arc.size # -1 /\ arc.version = 1 /\ arc.size = disk[1][Index + 1]
  BY <1>8 DEF FileInv, LostInv, StreamInv
<1>10. ASSUME NEW u \in Threads, RestartFails(u) PROVE FALSE
  BY <1>8, <1>10, Opening DEF RestartFails, NoStream, FileInv
<1>11. ASSUME SkipFails(t) PROVE FALSE
  <2>1. /\ offset < want[t].offset
        /\ Gives(arc, Least(want[t].size, want[t].offset - offset), 0)
    BY <1>8, <1>9, <1>11 DEF SkipFails
  <2>2. arc.pos = offset /\ want[t].offset < arc.size
    BY <1>9 DEF FileInv, OffsetTracksStream, Servable
  <2>3. /\ offset \in Nat /\ want[t].offset \in Nat /\ want[t].size \in Nat
        /\ arc.size \in Nat
    BY <1>9 DEF FileInv, TypeOK
  <2>4. Least(want[t].size, want[t].offset - offset) # 0
    BY <1>8, <2>1, <2>3 DEF Least
  <2> QED
    BY <2>1, <2>2, <2>3, <2>4 DEF Gives
<1>12. ASSUME NEW u \in Threads, SkipFails(u) PROVE FALSE
  <2>1. u = t
    BY <1>6, <1>12 DEF SkipFails
  <2> QED
    BY <1>11, <1>12, <2>1
<1>13. ASSUME NEW u \in Threads, ReadFails(u) PROVE FALSE
  BY <1>8, <1>9, <1>13 DEF ReadFails
<1>14. ASSUME NEW u \in Threads, ReadData(u) PROVE ~got'[t].error
  <2>1. PICK n : Return(u, IF n = 0 THEN NoData
                           ELSE [error |-> FALSE, version |-> arc.version,
                                 from |-> arc.pos, len |-> n])
    BY <1>14 DEF ReadData
  <2>2. u = t
    BY <1>6, <2>1
  <2>3. got \in [Threads ->
                  [error : BOOLEAN, version : Nat, from : Nat, len : Nat]]
    BY DEF FileInv, TypeOK
  <2> QED
    BY <2>1, <2>2, <2>3 DEF Return, NoData
<1> QED
  BY <1>3, <1>4, <1>5, <1>7, <1>10, <1>12, <1>13, <1>14 DEF Next, Locked

\* In a sound archive that stays, it is a read past the end that leaves
\* file->error: nothing else that fails can happen.
LEMMA PoisonedPastEnd ==
  ASSUME FileInv, Next, Sound, ~error, error'
  PROVE  \E t \in Threads : Returns(t) /\ ~Within(t)
<1>1. /\ ~damaged /\ Len(disk) = 1 /\ arc.size # -1
      /\ arc.size = disk[1][Index + 1] /\ arc.pos = offset
      /\ HasMember(Len(disk))
  BY DEF Sound, FileInv, LostInv, StreamInv, OffsetTracksStream
<1>2. ASSUME NEW t \in Threads, RestartFails(t) PROVE FALSE
  BY <1>1, <1>2, Opening DEF RestartFails, NoStream, FileInv
<1>3. \E t \in Threads : SkipFails(t)
  BY <1>2 DEF Next, Rewrite, Ask, Acquire, Locked, Poisoned, Restart, Skip,
     ReadData, ReadFails
<1>4. PICK t \in Threads : SkipFails(t)
  BY <1>3
<1>5. /\ pc[t] = "locked" /\ offset < want[t].offset
      /\ Gives(arc, Least(want[t].size, want[t].offset - offset), 0)
      /\ want' = [want EXCEPT ![t] = NoRead]
  BY <1>1, <1>4 DEF SkipFails, Ready, Return
<1>6. /\ want \in [Threads -> [offset : Nat, size : Nat, active : BOOLEAN]]
      /\ offset \in Nat /\ want[t].offset \in Nat /\ want[t].size \in Nat
      /\ arc.size \in Nat
  BY <1>1 DEF FileInv, TypeOK
<1>7. Returns(t)
  BY <1>5, <1>6 DEF Returns, NoRead, FileInv, WantInv
<1>8. ASSUME Within(t) PROVE FALSE
  <2>1. want[t].size > 0 /\ want[t].offset <= arc.size
    BY <1>1, <1>8 DEF Within
  <2>2. Least(want[t].size, want[t].offset - offset) # 0
    BY <1>5, <1>6, <2>1 DEF Least
  <2> QED BY <1>1, <1>5, <1>6, <2>1, <2>2 DEF Gives
<1> QED BY <1>7, <1>8

(***************************************************************************)
(* In a sound archive that stays, no read inside the member is refused     *)
(* unless an earlier one left file->error, and that one was past the       *)
(* member's end: for members, offsets and lengths of any size.             *)
(***************************************************************************)
THEOREM LibarchiveServes == Spec => RefusedOnlyPoisoned
<1> DEFINE Kept ==
      /\ \A t \in Threads :
           Returns(t) /\ Servable(t) /\ ~error => ~got[t].error'
      /\ Sound /\ ~error /\ error' =>
           \E t \in Threads : Returns(t) /\ ~Within(t)
<1>1. FileInv /\ [Next]_vars => [Kept]_vars
  BY NotRefused, PoisonedPastEnd
<1> QED
  BY <1>1, Inductive, PTL DEF Spec, RefusedOnlyPoisoned

-----------------------------------------------------------------------------
(* How long a read takes.                                                  *)

\* The mutex is held by the one read that is past pthread_mutex_lock.
Held == \A t \in Threads : pc[t] = "locked" <=> lock = t

\* Nobody unlocks but the holder.
LEMMA NextHeld == FileInv /\ Held /\ [Next]_vars => Held'
<1> SUFFICES ASSUME FileInv, Held, [Next]_vars PROVE Held'
  OBVIOUS
<1>1. /\ pc \in [Threads -> {"idle", "waiting", "locked"}]
      /\ NoThread \notin Threads
  BY FileAssumption DEF FileInv, TypeOK
<1>2. CASE UNCHANGED vars \/ Rewrite
  BY <1>2 DEF vars, Rewrite, Held
<1>3. ASSUME NEW t \in Threads, Ask(t) PROVE Held'
  BY <1>1, <1>3 DEF Ask, Held
<1>4. ASSUME NEW t \in Threads, Acquire(t) PROVE Held'
  BY <1>1, <1>4 DEF Acquire, Held
<1>5. ASSUME NEW t \in Threads, Locked(t) PROVE Held'
  <2>1. pc[t] = "locked"
    BY <1>5 DEF Locked, Poisoned, Restart, RestartFails, Skip, SkipFails,
                ReadData, ReadFails, Ready
  <2>2. \/ UNCHANGED <<pc, lock>>
        \/ pc' = [pc EXCEPT ![t] = "idle"] /\ lock' = NoThread
    BY <1>5 DEF Locked, Poisoned, Restart, RestartFails, Skip, SkipFails,
                ReadData, ReadFails, Return
  <2> QED BY <1>1, <2>1, <2>2 DEF Held
<1> QED BY <1>2, <1>3, <1>4, <1>5 DEF Next

\* A turn of the holder gets closer, and nobody else's step counts.
LEMMA StepsCount == FileInv /\ Held /\ [Next]_vars => StepsTaken
<1> SUFFICES ASSUME FileInv, Held, [Next]_vars,
                    NEW t \in Threads, lock = t, lock' = t
             PROVE  /\ StepsLeft(t) \in 1 .. want[t].offset + 2
                    /\ IF Locked(t) THEN StepsLeft(t)' \in 1 .. StepsLeft(t) - 1
                                    ELSE StepsLeft(t)' = StepsLeft(t)
  BY DEF StepsTaken
<1>1. /\ offset \in Nat /\ want[t].offset \in Nat /\ want[t].size \in Nat
      /\ want \in [Threads -> [offset : Nat, size : Nat, active : BOOLEAN]]
      /\ t # NoThread /\ pc[t] = "locked"
  BY FileAssumption DEF FileInv, TypeOK, Held
<1>2. StepsLeft(t) \in 1 .. want[t].offset + 2
  BY <1>1 DEF StepsLeft
<1>3. ASSUME Locked(t) PROVE StepsLeft(t)' \in 1 .. StepsLeft(t) - 1
  <2>1. CASE Restart(t)
    BY <1>1, <2>1 DEF Restart, StepsLeft
  <2>2. CASE Skip(t)
    <3>1. PICK n \in 1 .. Least(want[t].size, want[t].offset - offset) :
                 offset' = offset + n
      BY <2>2 DEF Skip
    <3>2. n \in Nat /\ n >= 1 /\ n <= want[t].offset - offset
      BY <1>1, <3>1 DEF Least
    <3>3. want' = want
      BY <2>2 DEF Skip
    <3> QED BY <1>1, <3>1, <3>2, <3>3 DEF StepsLeft
  <2>3. Restart(t) \/ Skip(t)
    BY <1>1, <1>3 DEF Locked, Poisoned, RestartFails, SkipFails, ReadData,
                      ReadFails, Return
  <2> QED BY <2>1, <2>2, <2>3
<1>4. ASSUME ~Locked(t) PROVE StepsLeft(t)' = StepsLeft(t)
  <2>1. CASE UNCHANGED vars \/ Rewrite
    BY <2>1 DEF vars, Rewrite, StepsLeft
  <2>2. ASSUME NEW u \in Threads, Ask(u) PROVE StepsLeft(t)' = StepsLeft(t)
    BY <1>1, <2>2 DEF Ask, StepsLeft
  <2>3. ASSUME NEW u \in Threads, Acquire(u) PROVE FALSE
    BY <1>1, <2>3 DEF Acquire
  <2>4. ASSUME NEW u \in Threads, Locked(u) PROVE FALSE
    <3>1. pc[u] = "locked"
      BY <2>4 DEF Locked, Poisoned, Restart, RestartFails, Skip, SkipFails,
                  ReadData, ReadFails, Ready
    <3>2. u = t
      BY <3>1 DEF Held
    <3> QED BY <1>4, <2>4, <3>2
  <2> QED BY <2>1, <2>2, <2>3, <2>4 DEF Next
<1> QED BY <1>2, <1>3, <1>4

(***************************************************************************)
(* For every offset and length, a read returns after at most offset + 2    *)
(* turns under the mutex (peepfs_libarchive.c:303-341): it starts over at  *)
(* most once, and no replacement of the archive file sends it back.  With  *)
(* that the loop over short reads always ends.                             *)
(***************************************************************************)
THEOREM LibarchiveGetsCloser == Spec => ReadGetsCloser
<1>1. Init => Held
  BY FileAssumption DEF Init, Held
<1>2. FileInv /\ Held /\ [Next]_vars => Held'
  BY NextHeld
<1>3. FileInv /\ Held /\ [Next]_vars => [StepsTaken]_vars
  BY StepsCount
<1> QED BY <1>1, <1>2, <1>3, Inductive, PTL DEF Spec, ReadGetsCloser

-----------------------------------------------------------------------------
(* What refuses a read inside the member: only reads outside it, errors,   *)
(* and a replaced archive.                                                 *)

\* The archive is sound and stays, and nobody reads past the member's end.
ReadsInside == Sound /\ \A t \in Threads : want[t].active => Within(t)

NoError == error = FALSE

\* Then the loop that skips never meets the end, and nothing else fails.
LEMMA InsideNoError ==
  FileInv /\ ReadsInside /\ NoError /\ [Next]_vars => NoError'
<1> SUFFICES ASSUME FileInv, ReadsInside, NoError, [Next]_vars, error'
             PROVE  FALSE
  BY NextInv DEF NoError, FileInv, TypeOK
<1>1. CASE Next
  BY <1>1, PoisonedPastEnd DEF ReadsInside, NoError, Returns
<1>2. CASE UNCHANGED vars
  BY <1>2 DEF vars, NoError
<1> QED BY <1>1, <1>2

(***************************************************************************)
(* README.md:16-17, "support random access", holds of every open file that *)
(* nobody reads past the end of, in a sound archive that stays: the end    *)
(* met by the loop that skips (peepfs_libarchive.c:327) is all that makes  *)
(* a file refuse what it has.                                              *)
(***************************************************************************)
THEOREM LibarchiveServesInside == Spec /\ []ReadsInside => InRangeServed
<1> DEFINE Kept ==
      \A t \in Threads : Returns(t) /\ Servable(t) => ~got[t].error'
<1>1. Init => NoError
  BY DEF Init, NoError
<1>2. FileInv /\ ReadsInside /\ NoError /\ [Next]_vars => NoError'
  BY InsideNoError
<1>3. FileInv /\ NoError /\ [Next]_vars => [Kept]_vars
  BY NotRefused DEF NoError
<1> QED BY <1>1, <1>2, <1>3, Inductive, PTL DEF Spec, InRangeServed
===============================================================================
