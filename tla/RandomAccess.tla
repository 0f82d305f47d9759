----------------------------- MODULE RandomAccess -----------------------------
(***************************************************************************)
(* What an open file inside an archive promises its readers (README.md:    *)
(* 16-17, "random access"): threads read at any offset, in any order and   *)
(* at the same time, and each gets bytes from its own offset on.           *)
(*                                                                         *)
(* Bytes are named by the version of the archive and their position in the *)
(* member, so data is a run of bytes: [version, from, len].  An archive    *)
(* that is replaced while the file is open adds another version; one read  *)
(* never mixes two of them.                                                *)
(***************************************************************************)
EXTENDS Integers

CONSTANTS
  Threads,   \* FUSE worker threads with a read on this open file
  Offsets,   \* offsets that are read at
  Lengths    \* how much is asked for

VARIABLES
  files,     \* the member in each version of the archive: its size
  want,      \* the read each thread is serving
  got        \* what its latest read returned

Members == [version : Nat, size : Nat]

NoRead == [offset |-> 0, size |-> 0, active |-> FALSE]
NoData == [error |-> FALSE, version |-> 0, from |-> 0, len |-> 0]
Failed == [error |-> TRUE, version |-> 0, from |-> 0, len |-> 0]

Init ==
  /\ files \subseteq Members
  /\ \E file \in files : files = {file}
  /\ want = [t \in Threads |-> NoRead]
  /\ got = [t \in Threads |-> NoData]

Ask(t) ==
  /\ ~want[t].active
  /\ \E offset \in Offsets, size \in Lengths :
       want' = [want EXCEPT ![t] =
                  [offset |-> offset, size |-> size, active |-> TRUE]]
  /\ got' = [got EXCEPT ![t] = NoData]
  /\ UNCHANGED files

Answer(t, answer) ==
  /\ want[t].active
  /\ got' = [got EXCEPT ![t] = answer]
  /\ want' = [want EXCEPT ![t] = NoRead]
  /\ UNCHANGED files

\* Some of the bytes asked for.
Deliver(t) ==
  \E file \in files, len \in 1 .. want[t].size :
    /\ want[t].offset + len <= file.size
    /\ Answer(t, [error |-> FALSE, version |-> file.version,
                  from |-> want[t].offset, len |-> len])

\* No bytes, when there are none there or none were asked for.
AtEnd(t) ==
  /\ want[t].size = 0 \/ \E file \in files : want[t].offset >= file.size
  /\ Answer(t, NoData)

Fail(t) == Answer(t, Failed)

Replace ==
  /\ files' \subseteq Members
  /\ \E file \in files' : files' = files \cup {file}
  /\ UNCHANGED <<want, got>>

Next ==
  \/ Replace
  \/ \E t \in Threads : Ask(t) \/ Deliver(t) \/ AtEnd(t) \/ Fail(t)

Spec == Init /\ [][Next]_<<files, want, got>>
===============================================================================
