---------------------------- MODULE PeepMountFresh ----------------------------
(***************************************************************************)
(* How long getattr and readdir may go on to answer from an archive that   *)
(* has been replaced.  The cache keeps an entry for the grace period, but  *)
(* the period begins when the entry goes in, and a handler that opened the *)
(* archive before it was replaced may still put old entries in: a readdir  *)
(* of a zip file reads the replaced file to its end, however long it       *)
(* takes.                                                                  *)
(*                                                                         *)
(* "unsettled" is a history variable over PeepMount: for each archive the  *)
(* latest time at which it was replaced, or a request from before its      *)
(* latest replacement was still being served.                              *)
(***************************************************************************)
EXTENDS PeepMount

VARIABLE unsettled

fresh_vars == <<all_vars, unsettled>>

Never == -1 - Grace

\* A request from before the latest replacement of a is still being served.
Behind(a) ==
  \E t \in Threads :
    at[t] # "idle" /\ Archive(t) = a /\ request[t].since < OnDisk(a)

FreshInit ==
  /\ MountInit
  /\ unsettled = [a \in Archives |-> Never]

FreshNext ==
  /\ MountNext
  /\ unsettled' =
       [a \in Archives |-> IF disk'[a] # disk[a] \/ Behind(a)'
                           THEN clock' ELSE unsettled[a]]

FreshSpec == FreshInit /\ [][FreshNext]_fresh_vars

-----------------------------------------------------------------------------
\* The cache call that the latest answer to t came from, or the last one that
\* its handler made, was attended to after the grace period was over.
Settled(t) ==
  locked_at[t] > unsettled[answer[t].request.archivepath] + Grace

\* Memory does not run out, archives can be read, and one thread serves readdir.
Unhindered ==
  ~AllocFails /\ ~ReadErrors /\ \A r, s \in Readers : r = s

\* What t was answered last is so of the archive on disk.
OfFileOnDisk(t) ==
  LET q == answer[t].request
      a == q.archivepath
      listing == Children(a, OnDisk(a), q.relpath)
  IN  /\ Answered(t, "getattr") => answer[t].entry.version = OnDisk(a)
      /\ q.op = "getattr" /\ answer[t].error = ENOENT /\ ~ReadErrors =>
           q.relpath \notin Range(Members(a, OnDisk(a)))
      /\ q.op = "readdir" =>
           /\ answer[t].names \subseteq listing
           /\ Unhindered => answer[t].names = listing

(***************************************************************************)
(* Once the grace period is over after an archive was replaced and the     *)
(* last request from before was answered, nothing of its older versions is *)
(* answered any more: getattr gives the attributes in the file on disk,    *)
(* ENOENT only for a name that is not in it, and readdir only names that   *)
(* are in the directory, and with one reader all of them.  The handlers    *)
(* never ask whether the archive has changed: it takes that no call hands  *)
(* out or prolongs an entry beyond "grace" seconds from the moment it went *)
(* in (peepfs_cache.h:127, 177, 205-242), and that none goes in long after *)
(* it was read (peepfs.c:330-352, 544-561).                                *)
(***************************************************************************)
UpToDate ==
  \A t \in Threads :
    answer[t].request.op # "none" /\ Settled(t) => OfFileOnDisk(t)
=============================================================================
