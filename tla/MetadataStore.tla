---------------------------- MODULE MetadataStore ----------------------------
(***************************************************************************)
(* What the metadata cache promises the threads that call it: a store of   *)
(* records, one per path, that may forget at any time, but in which every  *)
(* call happens at one moment between its start and its return.            *)
(*                                                                         *)
(* A record may name a directory by the id of its Root record; as long as  *)
(* the store remembers that Root record, it also remembers each of these   *)
(* members, in the order in which they were put.  Nothing older than Grace *)
(* when the call was attended to is handed out.  Neither the mutex, the    *)
(* lists, nor the limit on the number of entries is visible.               *)
(***************************************************************************)
EXTENDS Integers, Sequences

CONSTANTS
  Threads,     \* the callers
  Archives,    \* paths of archive files
  Names,       \* names of members
  Root,        \* the archive itself, as a directory that was enumerated
  Metadata,    \* what is stored
  NoMetadata,  \* what a Root record holds
  NoArchive,   \* a caller that asks nothing names no archive
  Grace,       \* how many seconds a record is good for
  AllocFails   \* whether a put may find no memory

VARIABLES
  store,       \* the records that are remembered, by id
  next_id,     \* the id of the next record
  clock,       \* in seconds
  asked,       \* the question of each caller
  stage,       \* whether it has been attended to
  since,       \* at what time
  told         \* the latest answer to each caller

vars == <<stage, next_id, clock, asked, since, told, store>>

NoId == 0
Paths == [archivepath : Archives, relpath : Names \cup {Root}]
RootPath(a) == [archivepath |-> a, relpath |-> Root]

NoQuestion == [op |-> "none", path |-> RootPath(NoArchive), dir |-> NoId,
               entry |-> NoMetadata]
Questions ==
  [op : {"get", "scandir"}, path : Paths, dir : {NoId}, entry : {NoMetadata}]
    \cup [op : {"insert"}, path : Paths, dir : Nat,
          entry : Metadata \cup {NoMetadata}]

Answer(error, id, entries) == [error |-> error, id |-> id, entries |-> entries]
NoAnswer == Answer(0, NoId, <<>>)

\* What a caller gets to see of a record.
Copy(id) ==
  [path |-> store[id].path, dir |-> store[id].dir, entry |-> store[id].entry]

\* The ids of the records that t asks for: at most one.
Under(t) == {id \in DOMAIN store : store[id].path = asked[t].path}

Fresh(t, id) == store[id].born + Grace >= since[t]

\* No directory is remembered without its members.
Closed(kept) ==
  \A id \in kept : \A i \in DOMAIN store[id].members :
    store[id].members[i] \in kept

-----------------------------------------------------------------------------
Init ==
  /\ store = [id \in {} |-> {}]
  /\ next_id = 1
  /\ clock = 0
  /\ asked = [t \in Threads |-> NoQuestion]
  /\ stage = [t \in Threads |-> "idle"]
  /\ since = [t \in Threads |-> 0]
  /\ told = [t \in Threads |-> NoAnswer]

Tick ==
  /\ clock' = clock + 1
  /\ UNCHANGED <<stage, asked, since, told, next_id, store>>

Ask(t) ==
  /\ stage[t] = "idle"
  /\ stage' = [stage EXCEPT ![t] = "asked"]
  /\ asked' = [asked EXCEPT ![t] = asked'[t]]
  /\ asked'[t] \in Questions
  /\ asked'[t].path.relpath = Root => asked'[t].dir = NoId
  /\ since' = [since EXCEPT ![t] = 0]
  /\ told' = [told EXCEPT ![t] = NoAnswer]
  /\ UNCHANGED <<clock, next_id, store>>

Attend(t) ==
  /\ stage[t] = "asked"
  /\ stage' = [stage EXCEPT ![t] = "attended"]
  /\ since' = [since EXCEPT ![t] = clock]
  /\ UNCHANGED <<clock, asked, told, next_id, store>>

Keep(kept) ==
  /\ store' = [id \in kept |-> store[id]]
  /\ Closed(kept)

Forget(t) ==
  /\ stage[t] = "attended"
  /\ UNCHANGED <<stage, next_id, clock, asked, since, told>>
  /\ \E kept \in SUBSET DOMAIN store : Keep(kept)

Reply(t, op) ==
  /\ stage[t] = "attended"
  /\ asked[t].op = op
  /\ stage' = [stage EXCEPT ![t] = "idle"]
  /\ asked' = [asked EXCEPT ![t] = NoQuestion]
  /\ UNCHANGED <<clock, since>>

\* The record goes where its directory is, if that is still remembered.
Joined(id, t) ==
  IF id = asked[t].dir /\ store[id].path = RootPath(asked[t].path.archivepath)
  THEN [store[id] EXCEPT !.members = Append(@, next_id)]
  ELSE store[id]

\* A new record replaces the one under its path.
Put(t) ==
  /\ Reply(t, "insert")
  /\ told' = [told EXCEPT ![t] = Answer(0, next_id, <<>>)]
  /\ next_id' = next_id + 1
  /\ \E kept \in SUBSET (DOMAIN store \ Under(t)) :
       /\ store' = [id \in kept \cup {next_id} |->
                      IF id = next_id
                      THEN [path |-> asked[t].path, dir |-> asked[t].dir,
                            entry |-> asked[t].entry, born |-> since[t],
                            members |-> <<>>]
                      ELSE Joined(id, t)]
       /\ Closed(kept)

\* The record that was under the path is gone all the same.
PutFails(t) ==
  /\ AllocFails
  /\ Reply(t, "insert")
  /\ told' = [told EXCEPT ![t] = Answer(0, NoId, <<>>)]
  /\ next_id' = next_id + 1
  /\ \E kept \in SUBSET (DOMAIN store \ Under(t)) : Keep(kept)

Get(t) ==
  /\ Reply(t, "get")
  /\ \E id \in Under(t) :
       /\ Fresh(t, id)
       /\ told' = [told EXCEPT ![t] = Answer(0, NoId, <<Copy(id)>>)]
  /\ UNCHANGED <<next_id, store>>

\* Every member that was put, and all at once.
Scan(t) ==
  /\ Reply(t, "scandir")
  /\ \E id \in Under(t) :
       LET members == store[id].members
       IN  /\ Fresh(t, id)
           /\ \A i \in DOMAIN members : Fresh(t, members[i])
           /\ told' = [told EXCEPT ![t] =
                         Answer(0, NoId,
                                [i \in DOMAIN members |-> Copy(members[i])])]
  /\ UNCHANGED <<next_id, store>>

Missed(t) ==
  /\ \E op \in {"get", "scandir"} : Reply(t, op)
  /\ Under(t) = {}
  /\ told' = [told EXCEPT ![t] = Answer(-1, NoId, <<>>)]
  /\ UNCHANGED <<next_id, store>>

Next ==
  \/ Tick
  \/ \E t \in Threads :
       \/ Ask(t)
       \/ Attend(t)
       \/ Forget(t)
       \/ Put(t)
       \/ PutFails(t)
       \/ Get(t)
       \/ Scan(t)
       \/ Missed(t)

Spec == Init /\ [][Next]_vars
=============================================================================
