---------------------------- MODULE NamespaceProofs ----------------------------
(***************************************************************************)
(* For any threads, paths and base file systems: no operation passes an    *)
(* archive on its way to the base or is refused without one, each call     *)
(* keeps the promise that the base file system makes to its own callers,   *)
(* and it is known which inode numbers are shared.                         *)
(***************************************************************************)
EXTENDS Namespace, SequenceTheorems, TLAPS

-----------------------------------------------------------------------------
(* The base file system stays one.                                         *)

\* Removing the inodes without a name.
LEMMA SweepIsBase ==
  ASSUME NEW at0, NEW node0,
         at0 = [p \in DOMAIN at0 |-> at0[p]],
         DOMAIN at0 \subseteq Path,
         DOMAIN node0 \subseteq Inodes,
         \A p \in DOMAIN at0 : at0[p] \in DOMAIN node0,
         \A i \in DOMAIN node0 : node0[i] \in Node
  PROVE  IsBase(Sweep(at0, node0))
  BY DEF IsBase, Sweep

\* A name is removed.
LEMMA UnnamedIsBase ==
  ASSUME NEW b, IsBase(b), NEW p PROVE IsBase(Unnamed(b, p))
<1> DEFINE rest == [q \in DOMAIN b.at \ {p} |-> b.at[q]]
<1>1. /\ rest = [q \in DOMAIN rest |-> rest[q]]
      /\ DOMAIN rest \subseteq Path
      /\ \A q \in DOMAIN rest : rest[q] \in DOMAIN b.node
  BY DEF IsBase
<1>2. DOMAIN b.node \subseteq Inodes /\ \A i \in DOMAIN b.node : b.node[i] \in Node
  BY DEF IsBase
<1> HIDE DEF rest
<1>3. IsBase(Sweep(rest, b.node))
  BY <1>1, <1>2, SweepIsBase
<1> QED
  BY <1>3 DEF Unnamed, rest

\* A name is given to an inode that has one.
LEMMA NamedIsBase ==
  ASSUME NEW b, IsBase(b), NEW p \in Path, NEW i \in DOMAIN b.node
  PROVE  IsBase(Named(b, p, i))
<1> DEFINE more == Put(b.at, p, i)
<1>1. /\ more = [q \in DOMAIN more |-> more[q]]
      /\ DOMAIN more \subseteq Path
      /\ \A q \in DOMAIN more : more[q] \in DOMAIN b.node
  BY DEF IsBase, Put
<1>2. DOMAIN b.node \subseteq Inodes /\ \A j \in DOMAIN b.node : b.node[j] \in Node
  BY DEF IsBase
<1> HIDE DEF more
<1>3. IsBase(Sweep(more, b.node))
  BY <1>1, <1>2, SweepIsBase
<1> QED
  BY <1>3 DEF Named, more

\* A name is given to a new inode.
LEMMA MadeIsBase ==
  ASSUME NEW b, IsBase(b), NEW p \in Path, NEW node \in Node,
         FreeInodes(b) # {}
  PROVE  IsBase(Made(b, p, node))
<1> DEFINE i == CHOOSE i \in FreeInodes(b) : TRUE
<1>1. i \in FreeInodes(b)
  OBVIOUS
<1> HIDE DEF i
<1>2. i \in Inodes
  BY <1>1 DEF FreeInodes
<1> DEFINE at0 == Put(b.at, p, i)
           node0 == Put(b.node, i, node)
<1>3. /\ at0 = [q \in DOMAIN at0 |-> at0[q]]
      /\ node0 = [j \in DOMAIN node0 |-> node0[j]]
      /\ DOMAIN at0 \subseteq Path
      /\ \A q \in DOMAIN at0 : at0[q] \in DOMAIN node0
  BY DEF IsBase, Put
<1>4. DOMAIN node0 \subseteq Inodes /\ \A j \in DOMAIN node0 : node0[j] \in Node
  BY <1>2 DEF IsBase, Put
<1> HIDE DEF at0, node0
<1>5. IsBase([at |-> at0, node |-> node0])
  BY <1>3, <1>4 DEF IsBase
<1> QED
  BY <1>5 DEF Made, i, at0, node0

LEMMA ChangedIsBase ==
  ASSUME NEW b, IsBase(b), NEW p \in DOMAIN b.at,
         NEW op \in {"truncate", "utimens", "chmod", "chown"}
  PROVE  IsBase(Changed(b, p, op))
  BY DEF IsBase, Changed, Node

LEMMA RenamedIsBase ==
  ASSUME NEW b, IsBase(b), NEW old \in DOMAIN b.at, NEW new \in Path
  PROVE  IsBase(Renamed(b, old, new))
<1> DEFINE moved(p) == new \o SubSeq(p, Len(old) + 1, Len(p))
           kept == {p \in DOMAIN b.at \ {old, new} : ~Below(p, old)}
           under == {p \in DOMAIN b.at : Below(p, old)} \cup {old}
           at0 == [p \in kept \cup {moved(q) : q \in under} |->
                     IF p \in kept THEN b.at[p]
                     ELSE b.at[CHOOSE q \in under : moved(q) = p]]
<1>1. old \in Path /\ DOMAIN b.at \subseteq Path
  BY DEF IsBase
<1>2. \A q \in under : moved(q) \in Path
  <2> SUFFICES ASSUME NEW q \in under PROVE moved(q) \in Path
    OBVIOUS
  <2>1. q \in Path
    BY <1>1
  <2>2. SubSeq(q, Len(old) + 1, Len(q)) \in Path
    BY <2>1, <1>1 DEF Path
  <2> QED
    BY <2>2 DEF Path
<1>3. \A p \in {moved(q) : q \in under} :
        (CHOOSE q \in under : moved(q) = p) \in under
  OBVIOUS
<1>4. under \subseteq DOMAIN b.at /\ kept \subseteq DOMAIN b.at
  OBVIOUS
<1> HIDE DEF moved, kept, under
<1>5. DOMAIN at0 \subseteq Path
  BY <1>1, <1>2, <1>4
<1>6. \A p \in DOMAIN at0 : at0[p] \in DOMAIN b.node
  BY <1>3, <1>4 DEF IsBase
<1>7. at0 = [p \in DOMAIN at0 |-> at0[p]]
  OBVIOUS
<1>8. DOMAIN b.node \subseteq Inodes /\ \A j \in DOMAIN b.node : b.node[j] \in Node
  BY DEF IsBase
<1> HIDE DEF at0
<1>9. IsBase(Sweep(at0, b.node))
  BY <1>5, <1>6, <1>7, <1>8, SweepIsBase
<1> QED
  BY <1>9 DEF Renamed, at0, kept, moved, under

\* Where a link leads is a path.
LEMMA FollowIsPath ==
  ASSUME NEW b, IsBase(b), NEW p \in Path PROVE Follow(b, p) \in Path
<1>1. CASE IsKind(b, p, {"link"})
  <2>1. b.at[p] \in DOMAIN b.node
    BY <1>1 DEF IsKind, Exists, IsBase
  <2>2. NodeAt(b, p) \in Node
    BY <2>1 DEF NodeAt, IsBase
  <2> QED
    BY <1>1, <2>2 DEF Follow, Node
<1>2. CASE ~IsKind(b, p, {"link"})
  BY <1>2 DEF Follow
<1> QED
  BY <1>1, <1>2

LEMMA MakeIsBase ==
  ASSUME NEW b, IsBase(b), NEW p \in Path, NEW kind \in Kinds,
         NEW target \in Path
  PROVE  IsBase(Make(b, p, kind, target).base)
<1>1. Fresh(kind, target) \in Node
  BY DEF Fresh, Node
<1>2. FreeInodes(b) # {} => IsBase(Made(b, p, Fresh(kind, target)))
  BY <1>1, MadeIsBase
<1> QED
  BY <1>2 DEF Make, Fails, Succeeds

LEMMA OpenCreateIsBase ==
  ASSUME NEW b, IsBase(b), NEW p \in Path
  PROVE  IsBase(OpenCreate(b, p).base)
<1>1. Follow(b, p) \in Path
  BY FollowIsPath
<1>2. <<>> \in Path /\ "file" \in Kinds
  BY DEF Path, Kinds
<1>3. IsBase(Make(b, Follow(b, p), "file", <<>>).base)
  BY <1>1, <1>2, MakeIsBase
<1> QED
  BY <1>3 DEF OpenCreate, Fails, Succeeds

LEMMA ChangeIsBase ==
  ASSUME NEW b, IsBase(b), NEW p \in Path,
         NEW op \in {"truncate", "utimens", "chmod", "chown"}
  PROVE  IsBase(Change(b, p, op).base)
<1>1. Exists(b, Follow(b, p)) => IsBase(Changed(b, Follow(b, p), op))
  BY ChangedIsBase DEF Exists
<1> QED
  BY <1>1 DEF Change, Fails, Succeeds

\* Whatever is asked of a base file system leaves one.
LEMMA DirectIsBase ==
  ASSUME NEW b, IsBase(b), NEW q \in Request
  PROVE  IsBase(Direct(b, q).base)
<1>1. q.path \in Path /\ q.newpath \in Path /\ q.target \in Path
  BY DEF Request
<1>2. TopDir \in Path
  BY DEF Path, TopDir
<1>3. CASE q.op \in {"mkdir", "mknod", "symlink"}
  <2>1. {"dir", "file", "link"} \subseteq Kinds
    BY DEF Kinds
  <2> QED
    BY <1>1, <1>2, <1>3, <2>1, MakeIsBase DEF Direct, Changing, TopDir
<1>4. CASE q.op = "create"
  BY <1>1, <1>4, OpenCreateIsBase DEF Direct, Changing
<1>5. CASE q.op \in {"rmdir", "unlink"}
  BY <1>5, UnnamedIsBase
     DEF Direct, Changing, RemoveDir, Unlink, Fails, Succeeds
<1>6. CASE q.op = "rename"
  <2>1. Exists(b, q.path) => IsBase(Renamed(b, q.path, q.newpath))
    BY <1>1, RenamedIsBase DEF Exists
  <2> QED
    BY <2>1, <1>6 DEF Direct, Changing, Rename, Fails, Succeeds
<1>7. CASE q.op = "link"
  <2>1. Exists(b, q.path) => b.at[q.path] \in DOMAIN b.node
    BY DEF Exists, IsBase
  <2>2. Exists(b, q.path) => IsBase(Named(b, q.newpath, b.at[q.path]))
    BY <1>1, <2>1, NamedIsBase
  <2> QED
    BY <2>2, <1>7 DEF Direct, Changing, Link, Fails, Succeeds
<1>8. CASE q.op \in Changing
  <2>1. IsBase(Change(b, q.path, q.op).base)
    BY <1>1, <1>8, ChangeIsBase DEF Changing
  <2> QED
    BY <2>1, <1>8 DEF Direct, Changing
<1>9. CASE q.op \in Inspecting
  BY <1>9 DEF Direct, Changing, Inspecting, Succeeds
<1>10. q.op \in Operations
  BY DEF Request
<1> QED
  BY <1>3, <1>4, <1>5, <1>6, <1>7, <1>8, <1>9, <1>10
     DEF Operations, Refusing, Unsupported, Inspecting, Changing

-----------------------------------------------------------------------------
(* What is different after a call on the base.                             *)

\* A call that does nothing.
LEMMA NothingChanged ==
  ASSUME NEW b, NEW q PROVE Confined(b, b, q)
  BY DEF Confined, SameObject, Exists, NodeAt

\* Objects that have a name keep it and what they are.
LEMMA SweepKeeps ==
  ASSUME NEW at0, NEW node0
  PROVE  /\ Sweep(at0, node0).at = at0
         /\ \A p \in DOMAIN at0 :
              Sweep(at0, node0).node[at0[p]] = node0[at0[p]]
  BY DEF Sweep

\* unlink and rmdir take away one name.
LEMMA UnnamedDisappears ==
  ASSUME NEW b, NEW p PROVE Disappeared(b, Unnamed(b, p), p)
<1> DEFINE rest == [r \in DOMAIN b.at \ {p} |-> b.at[r]]
           c == Unnamed(b, p)
<1>1. /\ DOMAIN rest = DOMAIN b.at \ {p}
      /\ \A r \in DOMAIN rest : rest[r] = b.at[r]
  OBVIOUS
<1> HIDE DEF rest
<1>2. c.at = rest /\ \A r \in DOMAIN rest : c.node[rest[r]] = b.node[rest[r]]
  BY SweepKeeps DEF Unnamed, rest
<1> HIDE DEF c
<1>3. Disappeared(b, c, p)
  BY <1>1, <1>2 DEF Disappeared, OnlyAt, SameObject, Exists, NodeAt
<1> QED
  BY <1>3 DEF c

\* link adds one.
LEMMA NamedSame ==
  ASSUME NEW b, NEW p \in DOMAIN b.at, NEW new, ~Exists(b, new)
  PROVE  /\ SameObject(b, p, Named(b, new, b.at[p]), new)
         /\ OnlyAt({new}, b, Named(b, new, b.at[p]))
<1> DEFINE more == Put(b.at, new, b.at[p])
           c == Named(b, new, b.at[p])
<1>1. /\ DOMAIN more = DOMAIN b.at \cup {new}
      /\ \A r \in DOMAIN b.at : more[r] = b.at[r]
      /\ more[new] = b.at[p]
  BY DEF Put, Exists
<1> HIDE DEF more
<1>2. c.at = more /\ \A r \in DOMAIN more : c.node[more[r]] = b.node[more[r]]
  BY SweepKeeps DEF Named, more
<1> HIDE DEF c
<1>3. SameObject(b, p, c, new) /\ OnlyAt({new}, b, c)
  BY <1>1, <1>2 DEF OnlyAt, SameObject, Exists, NodeAt
<1> QED
  BY <1>3 DEF c

\* mkdir, mknod, symlink and open make one object with one name.
LEMMA MadeAppears ==
  ASSUME NEW b, IsBase(b), NEW p, ~Exists(b, p), FreeInodes(b) # {},
         NEW kind, NEW target
  PROVE  Appeared(b, Made(b, p, Fresh(kind, target)), p, kind, target)
<1>1. PICK n : n = CHOOSE k \in FreeInodes(b) : TRUE
  OBVIOUS
<1>2. n \in FreeInodes(b)
  BY <1>1
<1>3. n \notin DOMAIN b.node
  BY <1>2 DEF FreeInodes
<1> DEFINE c == Made(b, p, Fresh(kind, target))
<1>4. c = [at |-> Put(b.at, p, n), node |-> Put(b.node, n, Fresh(kind, target))]
  BY <1>1 DEF Made
<1>5. /\ DOMAIN c.at = DOMAIN b.at \cup {p}
      /\ c.at[p] = n
      /\ \A r \in DOMAIN b.at : c.at[r] = b.at[r]
      /\ c.node[n] = Fresh(kind, target)
      /\ \A i \in DOMAIN b.node : c.node[i] = b.node[i]
  BY <1>3, <1>4 DEF Put, Exists
<1>6. \A r \in DOMAIN b.at : b.at[r] \in DOMAIN b.node
  BY DEF IsBase
<1> HIDE DEF c
<1>7. NodeAt(c, p) = [kind |-> kind, target |-> target, attr |-> "none",
                      labels |-> 0]
  BY <1>5 DEF NodeAt, Fresh
<1>8. OnlyAt({p}, b, c)
  BY <1>5, <1>6 DEF OnlyAt, SameObject, Exists, NodeAt
<1>9. Appeared(b, c, p, kind, target)
  BY <1>3, <1>5, <1>6, <1>7, <1>8 DEF Appeared, Exists
<1> QED
  BY <1>9 DEF c

\* truncate, utimes, chmod and chown change one object, whatever its names.
LEMMA ChangedAttributes ==
  ASSUME NEW b, IsBase(b), NEW p, Exists(b, p), NEW op
  PROVE  Attributed(b, Changed(b, p, op), p, op)
<1> DEFINE c == Changed(b, p, op)
<1>1. /\ c.at = b.at
      /\ b.at[p] \in DOMAIN b.node
      /\ c.node = [b.node EXCEPT ![b.at[p]].attr = op]
  BY DEF Changed, IsBase, Exists
<1>2. /\ c.node[b.at[p]] = [b.node[b.at[p]] EXCEPT !.attr = op]
      /\ \A i \in DOMAIN b.node \ {b.at[p]} : c.node[i] = b.node[i]
  BY <1>1 DEF IsBase
<1> HIDE DEF c
<1>3. \A r \in DOMAIN b.at : b.at[r] \in DOMAIN b.node
  BY DEF IsBase
<1>4. OnlyAt(NamesOf(b, p), b, c)
  BY <1>1, <1>2, <1>3 DEF OnlyAt, NamesOf, SameObject, Exists, NodeAt
<1>5. Attributed(b, c, p, op)
  BY <1>1, <1>2, <1>4 DEF Attributed, NamesOf, Exists, NodeAt
<1> QED
  BY <1>5 DEF c

\* Below, token by token.
LEMMA BelowTokens ==
  ASSUME NEW p \in Path, NEW dir \in Path
  PROVE  Below(p, dir) <=> /\ Len(p) > Len(dir)
                           /\ p[Len(dir) + 1] = Slash
                           /\ \A i \in 1 .. Len(dir) : p[i] = dir[i]
<1> DEFINE S == Words \cup {Suffix, Slash}
           d == Append(dir, Slash)
<1>1. p \in Seq(S) /\ dir \in Seq(S) /\ Slash \in S
  BY DEF Path
<1>2. /\ d \in Seq(S) /\ Len(d) = Len(dir) + 1
      /\ \A i \in 1 .. Len(dir) : d[i] = dir[i]
      /\ d[Len(dir) + 1] = Slash
  BY <1>1
<1>3. Len(p) \in Nat /\ Len(dir) \in Nat
  BY <1>1
<1> HIDE DEF S, d
<1>4. CASE Len(d) <= Len(p)
  <2> DEFINE u == SubSeq(d, 1, Len(d))
             v == SubSeq(p, 1, Len(d))
  <2>1. /\ u \in Seq(S) /\ v \in Seq(S) /\ Len(u) = Len(d) /\ Len(v) = Len(d)
        /\ \A i \in 1 .. Len(d) : u[i] = d[i] /\ v[i] = p[i]
    BY <1>1, <1>2, <1>4
  <2> HIDE DEF u, v
  <2>2. (u = v) <=> \A i \in 1 .. Len(d) : u[i] = v[i]
    BY <2>1, SeqEqual
  <2>3. (u = v) <=> \A i \in 1 .. Len(d) : p[i] = d[i]
    BY <2>1, <2>2
  <2>4. Below(p, dir) <=> u = v
    BY <1>4 DEF Below, IsPrefix, d, u, v
  <2> QED
    BY <1>2, <1>3, <1>4, <2>3, <2>4
<1>5. CASE Len(d) > Len(p)
  <2>1. ~Below(p, dir)
    BY <1>2, <1>3, <1>5 DEF Below, IsPrefix, d
  <2> QED
    BY <1>2, <1>3, <1>5, <2>1
<1> QED
  BY <1>2, <1>3, <1>4, <1>5

\* Of two directories that a name is below, one is below the other.
LEMMA AboveComparable ==
  ASSUME NEW p \in Path, NEW a \in Path, NEW c \in Path,
         AtOrBelow(p, a), AtOrBelow(p, c)
  PROVE  a = c \/ Below(a, c) \/ Below(c, a)
<1>1. CASE p = a \/ p = c
  BY <1>1 DEF AtOrBelow
<1>2. CASE Below(p, a) /\ Below(p, c)
  <2>1. /\ Len(a) \in Nat /\ Len(c) \in Nat
        /\ Len(p) > Len(a) /\ Len(p) > Len(c)
        /\ p[Len(a) + 1] = Slash /\ p[Len(c) + 1] = Slash
        /\ \A i \in 1 .. Len(a) : p[i] = a[i]
        /\ \A i \in 1 .. Len(c) : p[i] = c[i]
    BY <1>2, BelowTokens DEF Path
  <2>2. CASE Len(a) = Len(c)
    <3>1. \A i \in 1 .. Len(a) : a[i] = c[i]
      BY <2>1, <2>2
    <3> QED
      BY <2>2, <3>1, SeqEqual DEF Path
  <2>3. CASE Len(a) < Len(c)
    <3>1. c[Len(a) + 1] = Slash /\ \A i \in 1 .. Len(a) : c[i] = a[i]
      BY <2>1, <2>3
    <3> QED
      BY <2>3, <3>1, BelowTokens
  <2>4. CASE Len(c) < Len(a)
    <3>1. a[Len(c) + 1] = Slash /\ \A i \in 1 .. Len(c) : a[i] = c[i]
      BY <2>1, <2>4
    <3> QED
      BY <2>4, <3>1, BelowTokens
  <2> QED
    BY <2>1, <2>2, <2>3, <2>4
<1> QED
  BY <1>1, <1>2 DEF AtOrBelow

\* What rename does to a name.
Rebased(p, old, new) == new \o SubSeq(p, Len(old) + 1, Len(p))

\* ... token by token.
LEMMA RebasedTokens ==
  ASSUME NEW p \in Path, NEW old \in Path, NEW new \in Path,
         AtOrBelow(p, old)
  PROVE  /\ Rebased(p, old, new) \in Path
         /\ Len(p) >= Len(old)
         /\ \A i \in 1 .. Len(old) : p[i] = old[i]
         /\ Len(Rebased(p, old, new)) = Len(new) + (Len(p) - Len(old))
         /\ \A i \in 1 .. Len(new) : Rebased(p, old, new)[i] = new[i]
         /\ \A i \in 1 .. Len(p) - Len(old) :
              Rebased(p, old, new)[Len(new) + i] = p[Len(old) + i]
<1> DEFINE S == Words \cup {Suffix, Slash}
           rest == SubSeq(p, Len(old) + 1, Len(p))
<1>1. p \in Seq(S) /\ old \in Seq(S) /\ new \in Seq(S)
  BY DEF Path
<1>2. Len(p) >= Len(old) /\ \A i \in 1 .. Len(old) : p[i] = old[i]
  BY BelowTokens DEF AtOrBelow, Path
<1>3. Len(p) \in Nat /\ Len(old) \in Nat /\ Len(new) \in Nat
  BY <1>1
<1> HIDE DEF S
<1>4. /\ rest \in Seq(S) /\ Len(rest) = Len(p) - Len(old)
      /\ \A i \in 1 .. Len(rest) : rest[i] = p[Len(old) + i]
  BY <1>1, <1>2, <1>3
<1> HIDE DEF rest
<1>5. /\ new \o rest \in Seq(S)
      /\ Len(new \o rest) = Len(new) + Len(rest)
      /\ \A i \in 1 .. Len(new) : (new \o rest)[i] = new[i]
      /\ \A i \in 1 .. Len(rest) : (new \o rest)[Len(new) + i] = rest[i]
  <2>1. /\ new \o rest \in Seq(S)
        /\ Len(new \o rest) = Len(new) + Len(rest)
        /\ \A i \in 1 .. Len(new) + Len(rest) :
             (new \o rest)[i] = IF i <= Len(new) THEN new[i]
                               ELSE rest[i - Len(new)]
    BY <1>1, <1>4, ConcatProperties
  <2>2. Len(rest) \in Nat
    BY <1>4
  <2>3. ASSUME NEW i \in 1 .. Len(rest)
        PROVE  (new \o rest)[Len(new) + i] = rest[i]
    <3>1. /\ Len(new) + i \in 1 .. Len(new) + Len(rest)
          /\ ~(Len(new) + i <= Len(new))
          /\ (Len(new) + i) - Len(new) = i
      BY <1>3, <2>2
    <3> QED
      BY <2>1, <3>1
  <2>4. \A i \in 1 .. Len(new) : (new \o rest)[i] = new[i]
    BY <1>3, <2>1, <2>2
  <2> QED
    BY <2>1, <2>3, <2>4
<1> QED
  BY <1>2, <1>4, <1>5 DEF Rebased, rest, S, Path

\* It is then at or below the new one,
LEMMA RebasedBelow ==
  ASSUME NEW p \in Path, NEW old \in Path, NEW new \in Path,
         AtOrBelow(p, old)
  PROVE  AtOrBelow(Rebased(p, old, new), new)
<1>1. Len(p) \in Nat /\ Len(old) \in Nat /\ Len(new) \in Nat
  BY DEF Path
<1> DEFINE moved == Rebased(p, old, new)
<1>2. /\ moved \in Path
      /\ Len(p) >= Len(old)
      /\ Len(moved) = Len(new) + (Len(p) - Len(old))
      /\ \A i \in 1 .. Len(new) : moved[i] = new[i]
      /\ \A i \in 1 .. Len(p) - Len(old) : moved[Len(new) + i] = p[Len(old) + i]
  BY RebasedTokens
<1> SUFFICES AtOrBelow(moved, new)
  OBVIOUS
<1> HIDE DEF moved
<1>3. CASE p = old
  <2>1. /\ moved \in Path
        /\ Len(moved) = Len(new)
        /\ \A i \in 1 .. Len(new) : moved[i] = new[i]
    BY <1>1, <1>2, <1>3
  <2> QED
    BY <1>1, <2>1, SeqEqual DEF Path, AtOrBelow
<1>4. CASE Below(p, old)
  <2>1. Len(p) > Len(old) /\ p[Len(old) + 1] = Slash
    BY <1>4, BelowTokens
  <2>2. 1 \in 1 .. Len(p) - Len(old)
    BY <1>1, <2>1
  <2>3. moved[Len(new) + 1] = Slash
    BY <1>2, <2>1, <2>2
  <2>4. Len(moved) > Len(new)
    BY <1>1, <1>2, <2>1
  <2>5. Below(moved, new)
    BY <1>2, <2>3, <2>4, BelowTokens
  <2> QED
    BY <2>5 DEF AtOrBelow
<1> QED
  BY <1>3, <1>4 DEF AtOrBelow

\* and no two names get the same.
LEMMA RebasedInjective ==
  ASSUME NEW p \in Path, NEW r \in Path, NEW old \in Path, NEW new \in Path,
         AtOrBelow(p, old), AtOrBelow(r, old)
  PROVE  Rebased(p, old, new) = Rebased(r, old, new) => p = r
<1>1. Len(p) \in Nat /\ Len(r) \in Nat /\ Len(old) \in Nat /\ Len(new) \in Nat
  BY DEF Path
<1> DEFINE u == Rebased(p, old, new)
           v == Rebased(r, old, new)
<1>2. /\ u \in Path
      /\ Len(p) >= Len(old)
      /\ \A i \in 1 .. Len(old) : p[i] = old[i]
      /\ Len(u) = Len(new) + (Len(p) - Len(old))
      /\ \A i \in 1 .. Len(new) : u[i] = new[i]
      /\ \A i \in 1 .. Len(p) - Len(old) : u[Len(new) + i] = p[Len(old) + i]
  BY RebasedTokens, Zenon
<1>3. /\ v \in Path
      /\ Len(r) >= Len(old)
      /\ \A i \in 1 .. Len(old) : r[i] = old[i]
      /\ Len(v) = Len(new) + (Len(r) - Len(old))
      /\ \A i \in 1 .. Len(new) : v[i] = new[i]
      /\ \A i \in 1 .. Len(r) - Len(old) : v[Len(new) + i] = r[Len(old) + i]
  BY RebasedTokens, Zenon
<1> HIDE DEF u, v
<1> SUFFICES ASSUME u = v PROVE p = r
  BY DEF u, v
<1>4. u = v
  OBVIOUS
<1>5. Len(p) = Len(r)
  BY <1>1, <1>2, <1>3, <1>4
<1>6. ASSUME NEW i \in 1 .. Len(p) PROVE p[i] = r[i]
  <2>1. CASE i <= Len(old)
    <3>1. i \in 1 .. Len(old)
      BY <1>1, <2>1
    <3> QED
      BY <1>2, <1>3, <3>1
  <2>2. CASE i > Len(old)
    <3>1. PICK j \in 1 .. Len(p) - Len(old) : i = Len(old) + j
      <4>1. /\ i - Len(old) \in 1 .. Len(p) - Len(old)
            /\ i = Len(old) + (i - Len(old))
        BY <1>1, <2>2
      <4> QED
        BY <4>1
    <3>2. u[Len(new) + j] = p[Len(old) + j] /\ v[Len(new) + j] = r[Len(old) + j]
      BY <1>2, <1>3, <1>5, <3>1
    <3> QED
      BY <1>4, <3>1, <3>2
  <2> QED
    BY <1>1, <2>1, <2>2
<1> QED
  BY <1>5, <1>6, SeqEqual DEF Path

\* rename moves a name, and all below it, to names that were free.
LEMMA RenamedMoves ==
  ASSUME NEW b, IsBase(b), NEW old \in DOMAIN b.at, NEW new \in Path,
         ~Below(new, old), Empty(b, new), old # new
  PROVE  Moved(b, Renamed(b, old, new), old, new)
<1> DEFINE kept == {p \in DOMAIN b.at \ {old, new} : ~Below(p, old)}
           under == {p \in DOMAIN b.at : Below(p, old)} \cup {old}
           names == kept \cup {Rebased(r, old, new) : r \in under}
           at0 == [p \in names |->
                     IF p \in kept THEN b.at[p]
                     ELSE b.at[CHOOSE r \in under : Rebased(r, old, new) = p]]
           c == Renamed(b, old, new)
<1>1. old \in Path /\ DOMAIN b.at \subseteq Path
  BY DEF IsBase
<1>2. /\ under = {p \in DOMAIN b.at : AtOrBelow(p, old)}
      /\ under \subseteq DOMAIN b.at /\ kept \subseteq DOMAIN b.at
  BY DEF AtOrBelow
<1>3. kept = {p \in DOMAIN b.at : ~AtOrBelow(p, old) /\ ~AtOrBelow(p, new)}
  BY DEF AtOrBelow, Empty
<1>4. c = Sweep(at0, b.node)
  BY DEF Renamed, Rebased
<1> HIDE DEF kept, under, c
<1>5. ASSUME NEW r \in under
      PROVE  /\ AtOrBelow(Rebased(r, old, new), new)
             /\ Rebased(r, old, new) \notin kept
             /\ at0[Rebased(r, old, new)] = b.at[r]
  <2>1. r \in Path /\ AtOrBelow(r, old)
    BY <1>1, <1>2
  <2>2. AtOrBelow(Rebased(r, old, new), new)
    BY <1>1, <2>1, RebasedBelow
  <2>3. Rebased(r, old, new) \notin kept
    BY <1>3, <2>2
  <2>4. PICK s :
          s = CHOOSE u \in under : Rebased(u, old, new) = Rebased(r, old, new)
    OBVIOUS
  <2>5. s \in under /\ Rebased(s, old, new) = Rebased(r, old, new)
    BY <2>4
  <2>6. s = r
    <3>1. s \in Path /\ AtOrBelow(s, old)
      BY <1>1, <1>2, <2>5
    <3>2. Rebased(s, old, new) = Rebased(r, old, new) => s = r
      BY <1>1, <2>1, <3>1, RebasedInjective
    <3> QED
      BY <2>5, <3>2
  <2>7. at0[Rebased(r, old, new)] = b.at[r]
    BY <2>3, <2>4, <2>6
  <2> QED
    BY <2>2, <2>3, <2>7
<1>6. \A p \in kept : at0[p] = b.at[p]
  OBVIOUS
<1>7. DOMAIN at0 = names
  OBVIOUS
<1>8. names = kept \cup {Rebased(r, old, new) : r \in under}
  OBVIOUS
<1> HIDE DEF at0, names
<1>9. c.at = at0 /\ \A p \in names : c.node[at0[p]] = b.node[at0[p]]
  BY <1>4, <1>7, SweepKeeps
<1>10. ASSUME NEW p \in under PROVE SameObject(b, p, c, Rebased(p, old, new))
  <2>1. Rebased(p, old, new) \in names
    BY <1>8
  <2> QED
    BY <1>2, <1>5, <1>7, <1>9, <2>1 DEF SameObject, Exists, NodeAt
<1>11. ASSUME NEW p \in names, AtOrBelow(p, new)
       PROVE  \E r \in under : p = Rebased(r, old, new)
  BY <1>3, <1>8, <1>11
<1>12. ASSUME NEW p \in names PROVE ~AtOrBelow(p, old)
  <2>1. CASE p \in kept
    BY <1>3, <2>1
  <2>2. CASE p \notin kept
    <3>1. PICK r \in under : p = Rebased(r, old, new)
      BY <1>8, <2>2
    <3>2. AtOrBelow(p, new) /\ p \in Path
      BY <1>1, <1>2, <1>5, <3>1, RebasedTokens
    <3>3. ~Below(old, new)
      BY DEF Empty
    <3> QED
      BY <1>1, <3>2, <3>3, AboveComparable
  <2> QED
    BY <2>1, <2>2
<1>13. ASSUME NEW p \in DOMAIN b.at \cup names,
              ~AtOrBelow(p, old), ~AtOrBelow(p, new)
       PROVE  SameObject(b, p, c, p)
  <2>1. p \in kept
    BY <1>3, <1>5, <1>8, <1>13
  <2>2. p \in DOMAIN b.at /\ p \in names /\ at0[p] = b.at[p]
    BY <1>2, <1>6, <1>8, <2>1
  <2>3. /\ p \in DOMAIN c.at /\ c.at[p] = b.at[p]
        /\ c.node[c.at[p]] = b.node[b.at[p]]
    BY <1>7, <1>9, <2>2
  <2> QED
    BY <2>2, <2>3 DEF SameObject, Exists, NodeAt
<1>14. DOMAIN c.at = names
  BY <1>7, <1>9
<1>15. \A p \in under : SameObject(b, p, c, Rebased(p, old, new))
  BY <1>10
<1>16. OnlyAt(under \cup {p \in DOMAIN c.at : AtOrBelow(p, new)}, b, c)
  <2> SUFFICES ASSUME NEW p \in DOMAIN b.at \cup DOMAIN c.at, p \notin under,
                      ~(p \in DOMAIN c.at /\ AtOrBelow(p, new))
               PROVE  SameObject(b, p, c, p)
    BY DEF OnlyAt
  <2>1. ~AtOrBelow(p, old)
    BY <1>2, <1>12, <1>14
  <2>2. new \in names
    <3>1. old \in under
      BY <1>2 DEF AtOrBelow
    <3>2. Rebased(old, old, new) = new
      <4>1. Len(old) \in Nat /\ SubSeq(old, Len(old) + 1, Len(old)) = <<>>
        BY <1>1 DEF Path
      <4> QED
        BY <4>1, ConcatEmptySeq DEF Rebased, Path
    <3> QED
      BY <1>8, <3>1, <3>2
  <2>3. AtOrBelow(p, new) => p \in DOMAIN c.at
    BY <1>14, <2>2 DEF AtOrBelow, Empty
  <2> QED
    BY <1>13, <1>14, <2>1, <2>3
<1> QED
  <2>1. \A p \in {p \in DOMAIN c.at : AtOrBelow(p, new)} :
          \E r \in under : p = Rebased(r, old, new)
    BY <1>11, <1>14
  <2>2. \A p \in DOMAIN c.at : ~AtOrBelow(p, old)
    BY <1>12, <1>14
  <2>3. Moved(b, c, old, new)
    BY <1>2, <1>15, <1>16, <2>1, <2>2 DEF Moved, Rebased
  <2> QED
    BY <2>3 DEF c

-----------------------------------------------------------------------------
(* Each call keeps the promise for the request it is made for.             *)

Fits(b, q, outcome) ==
  /\ Confined(b, outcome.base, q)
  /\ ~Altered(b, q) => AsAsked(b, outcome.base, q, outcome.error)

LEMMA FailureFits ==
  ASSUME NEW b, NEW q, NEW error \in Nat \ {0},
         ~Altered(b, q) => /\ Obstacle(b, q)
                           /\ error = ENOENT <=> Missing(b, q)
  PROVE  Fits(b, q, Fails(b, error))
  BY NothingChanged DEF Fits, Fails, AsAsked

LEMMA SuccessFits ==
  ASSUME NEW b, NEW q, NEW c, Confined(b, c, q),
         ~Altered(b, q) => ~Obstacle(b, q) /\ Effect(b, c, q)
  PROVE  Fits(b, q, Succeeds(c))
<1>1. ~Obstacle(b, q) => ~Missing(b, q)
  BY DEF Obstacle
<1> QED
  BY <1>1 DEF Fits, Succeeds, AsAsked, ENOENT

\* mkdir, mknod, symlink.
LEMMA MakeFits ==
  ASSUME NEW b, IsBase(b), NEW q, NEW kind, NEW target,
         \/ q.op = "mkdir" /\ kind = "dir" /\ target = TopDir
         \/ q.op = "mknod" /\ kind = "file" /\ target = TopDir
         \/ q.op = "symlink" /\ kind = "link" /\ target = q.target
  PROVE  Fits(b, q, Make(b, q.path, kind, target))
<1> DEFINE p == q.path
           dir == DirectoryOf(p)
           c == Made(b, p, Fresh(kind, target))
<1>1. q.op \in Making /\ AddsName(b, q) /\ NewName(q) = p
  BY DEF Making, AddsName, NewName
<1>2. Missing(b, q) <=> ~Exists(b, dir)
  BY <1>1 DEF Missing
<1>3. Obstacle(b, q) <=> ~IsDir(b, dir) \/ Exists(b, p) \/ FreeInodes(b) = {}
  BY <1>1, <1>2 DEF Obstacle, Making, IsDir, IsKind
<1> HIDE DEF p, dir
<1>4. CASE NoDirectory(b, p) # 0
  <2>1. /\ NoDirectory(b, p) \in Nat \ {0}
        /\ NoDirectory(b, p) = ENOENT <=> ~Exists(b, dir)
        /\ ~IsDir(b, dir)
    BY <1>4 DEF NoDirectory, IsDir, IsKind, ENOENT, ENOTDIR, dir
  <2> QED
    BY <1>2, <1>3, <1>4, <2>1, FailureFits DEF Make, p
<1>5. CASE NoDirectory(b, p) = 0
  <2>1. IsDir(b, dir) /\ Exists(b, dir)
    BY <1>5 DEF NoDirectory, IsDir, IsKind, ENOENT, ENOTDIR, dir
  <2>2. CASE Exists(b, p)
    BY <1>2, <1>3, <1>5, <2>1, <2>2, FailureFits
       DEF Make, EEXIST, ENOENT, p
  <2>3. CASE ~Exists(b, p) /\ FreeInodes(b) = {}
    BY <1>2, <1>3, <1>5, <2>1, <2>3, FailureFits
       DEF Make, ENOSPC, ENOENT, p
  <2>4. CASE ~Exists(b, p) /\ FreeInodes(b) # {}
    <3>1. Appeared(b, c, p, kind, target)
      BY <2>4, MadeAppears
    <3> HIDE DEF c
    <3>2. Effect(b, c, q)
      BY <3>1 DEF Effect, Changing, Inspecting, p
    <3>3. Confined(b, c, q)
      BY <3>1 DEF Appeared, OnlyAt, Confined, AtOrBelow, p
    <3>4. Fits(b, q, Succeeds(c))
      BY <1>3, <2>1, <2>4, <3>2, <3>3, SuccessFits
    <3> QED
      BY <1>5, <2>4, <3>4 DEF Make, p, c
  <2> QED
    BY <2>2, <2>3, <2>4
<1> QED
  BY <1>4, <1>5 DEF NoDirectory, ENOENT, ENOTDIR

\* open with O_CREAT: of a link, it is about what the link leads to.
LEMMA CreateFits ==
  ASSUME NEW b, IsBase(b), NEW q, q.op = "create"
  PROVE  Fits(b, q, OpenCreate(b, q.path))
<1> DEFINE p == q.path
           f == Follow(b, p)
           dir == DirectoryOf(f)
           c == Made(b, f, Fresh("file", TopDir))
<1>1. ~Altered(b, q) => f = p
  BY DEF Altered, Following, Follow, p
<1>2. ~Altered(b, q) =>
        (Missing(b, q) <=> ~Exists(b, f) /\ ~Exists(b, dir))
  BY <1>1 DEF Missing, Making, AddsName, NewName
<1>3. ~Altered(b, q) =>
        (Obstacle(b, q) <=>
           \/ ~Exists(b, f) /\ (~IsDir(b, dir) \/ FreeInodes(b) = {})
           \/ IsDir(b, f))
  BY <1>1, <1>2 DEF Obstacle, Making, AddsName, NewName, IsDir, IsKind
<1> HIDE DEF dir, f
<1>4. CASE Exists(b, f) /\ IsDir(b, f)
  <2>1. OpenCreate(b, p) = Fails(b, EISDIR)
    BY <1>4 DEF OpenCreate, f
  <2>2. EISDIR \in Nat \ {0} /\ EISDIR # ENOENT
    BY DEF EISDIR, ENOENT
  <2> QED
    BY <1>2, <1>3, <1>4, <2>1, <2>2, FailureFits
<1>5. CASE Exists(b, f) /\ ~IsDir(b, f)
  <2>1. OpenCreate(b, p) = Succeeds(b)
    BY <1>5 DEF OpenCreate, f
  <2>2. ~Altered(b, q) => Effect(b, b, q)
    BY <1>1, <1>5 DEF Effect, Changing, Inspecting
  <2> QED
    BY <1>3, <1>5, <2>1, <2>2, NothingChanged, SuccessFits
<1>6. CASE ~Exists(b, f) /\ NoDirectory(b, f) # 0
  <2>1. /\ NoDirectory(b, f) \in Nat \ {0}
        /\ NoDirectory(b, f) = ENOENT <=> ~Exists(b, dir)
        /\ ~IsDir(b, dir)
    BY <1>6 DEF NoDirectory, IsDir, IsKind, ENOENT, ENOTDIR, dir
  <2>2. OpenCreate(b, p) = Fails(b, NoDirectory(b, f))
    BY <1>6 DEF OpenCreate, Make, f
  <2> QED
    BY <1>2, <1>3, <1>6, <2>1, <2>2, FailureFits
<1>7. CASE ~Exists(b, f) /\ NoDirectory(b, f) = 0
  <2>1. IsDir(b, dir) /\ Exists(b, dir)
    BY <1>7 DEF NoDirectory, IsDir, IsKind, ENOENT, ENOTDIR, dir
  <2>2. CASE FreeInodes(b) = {}
    <3>1. OpenCreate(b, p) = Fails(b, ENOSPC)
      BY <1>7, <2>2 DEF OpenCreate, Make, f
    <3>2. ENOSPC \in Nat \ {0} /\ ENOSPC # ENOENT
      BY DEF ENOSPC, ENOENT
    <3> QED
      BY <1>2, <1>3, <1>7, <2>1, <2>2, <3>1, <3>2, FailureFits
  <2>3. CASE FreeInodes(b) # {}
    <3>1. OpenCreate(b, p) = Succeeds(c)
      BY <1>7, <2>3 DEF OpenCreate, Make, TopDir, f
    <3>2. Appeared(b, c, f, "file", TopDir)
      BY <1>7, <2>3, MadeAppears
    <3> HIDE DEF c
    <3>3. ~Altered(b, q) => Effect(b, c, q)
      BY <1>1, <1>7, <3>2 DEF Effect, Changing, Inspecting
    <3>4. Confined(b, c, q)
      BY <3>2 DEF Appeared, OnlyAt, Confined, f
    <3>5. ~Altered(b, q) => ~Obstacle(b, q)
      BY <1>3, <1>7, <2>1, <2>3 DEF IsDir, IsKind
    <3> QED
      BY <3>1, <3>3, <3>4, <3>5, SuccessFits
  <2> QED
    BY <2>2, <2>3
<1> QED
  BY <1>4, <1>5, <1>6, <1>7 DEF NoDirectory, ENOENT, ENOTDIR

\* rmdir, unlink.
LEMMA RemoveFits ==
  ASSUME NEW b, NEW q
  PROVE  /\ q.op = "rmdir" => Fits(b, q, RemoveDir(b, q.path))
         /\ q.op = "unlink" => Fits(b, q, Unlink(b, q.path))
<1> DEFINE p == q.path
           c == Unnamed(b, p)
<1>1. ENOENT \in Nat \ {0} /\ ENOTDIR \in Nat \ {0, ENOENT}
      /\ EISDIR \in Nat \ {0, ENOENT} /\ ENOTEMPTY \in Nat \ {0, ENOENT}
  BY DEF ENOENT, ENOTDIR, EISDIR, ENOTEMPTY
<1>2. Disappeared(b, c, p)
  BY UnnamedDisappears
<1> HIDE DEF c
<1>3. Confined(b, c, q)
  BY <1>2 DEF Disappeared, OnlyAt, Confined, AtOrBelow
<1>4. ASSUME q.op = "rmdir" PROVE Fits(b, q, RemoveDir(b, p))
  <2>1. Missing(b, q) <=> ~Exists(b, p)
    BY <1>4 DEF Missing, Making, AddsName
  <2>2. Obstacle(b, q) <=> ~Exists(b, p) \/ ~IsDir(b, p) \/ ~Empty(b, p)
    BY <1>4, <2>1 DEF Obstacle, Making, AddsName
  <2>3. Effect(b, c, q)
    BY <1>2, <1>4 DEF Effect, Changing, Inspecting
  <2>4. ~Obstacle(b, q) => Fits(b, q, Succeeds(c))
    BY <1>3, <2>3, SuccessFits
  <2> QED
    BY <1>1, <2>1, <2>2, <2>4, FailureFits DEF RemoveDir, c
<1>5. ASSUME q.op = "unlink" PROVE Fits(b, q, Unlink(b, p))
  <2>1. Missing(b, q) <=> ~Exists(b, p)
    BY <1>5 DEF Missing, Making, AddsName
  <2>2. Obstacle(b, q) <=> ~Exists(b, p) \/ IsDir(b, p)
    BY <1>5, <2>1 DEF Obstacle, Making, AddsName
  <2>3. Effect(b, c, q)
    BY <1>2, <1>5 DEF Effect, Changing, Inspecting
  <2>4. ~Obstacle(b, q) => Fits(b, q, Succeeds(c))
    BY <1>3, <2>3, SuccessFits
  <2> QED
    BY <1>1, <2>1, <2>2, <2>4, FailureFits DEF Unlink, c
<1> QED
  BY <1>4, <1>5

LEMMA RenameFits ==
  ASSUME NEW b, IsBase(b), NEW q \in Request, q.op = "rename"
  PROVE  Fits(b, q, Rename(b, q.path, q.newpath))
<1> DEFINE old == q.path
           new == q.newpath
           dir == DirectoryOf(new)
           c == Renamed(b, old, new)
           same == Exists(b, new) /\ b.at[new] = b.at[old]
<1>1. new \in Path
  BY DEF Request
<1>2. AddsName(b, q) /\ NewName(q) = new
  BY DEF AddsName, NewName
<1>3. Missing(b, q) <=> ~Exists(b, old) \/ ~Exists(b, dir)
  BY <1>2 DEF Missing, Making
<1>4. ~Altered(b, q) =>
        (Obstacle(b, q) <=>
           \/ ~Exists(b, old) \/ ~IsDir(b, dir)
           \/ RenameObstacle(b, old, new))
  BY <1>2, <1>3 DEF Obstacle, Making, Altered, IsDir, IsKind
<1>5. /\ ENOENT \in Nat \ {0} /\ ENOTDIR \in Nat \ {0, ENOENT}
      /\ EISDIR \in Nat \ {0, ENOENT} /\ ENOTEMPTY \in Nat \ {0, ENOENT}
      /\ EINVAL \in Nat \ {0, ENOENT}
  BY DEF ENOENT, ENOTDIR, EISDIR, ENOTEMPTY, EINVAL
<1>6. /\ NoDirectory(b, new) = 0 <=> IsDir(b, dir)
      /\ NoDirectory(b, new) = ENOENT <=> ~Exists(b, dir)
      /\ NoDirectory(b, new) \in Nat
  BY <1>5 DEF NoDirectory, IsDir, IsKind
<1> HIDE DEF dir
<1>7. CASE ~Exists(b, old)
  BY <1>3, <1>4, <1>5, <1>7, FailureFits DEF Rename
<1>8. CASE Exists(b, old) /\ NoDirectory(b, new) # 0
  <2>1. Rename(b, old, new) = Fails(b, NoDirectory(b, new))
    BY <1>8 DEF Rename
  <2> QED
    BY <1>3, <1>4, <1>6, <1>8, <2>1, FailureFits
<1>9. CASE /\ Exists(b, old) /\ NoDirectory(b, new) = 0
           /\ RenameObstacle(b, old, new)
  <2>1. PICK e \in Nat \ {0, ENOENT} : Rename(b, old, new) = Fails(b, e)
    BY <1>5, <1>9 DEF Rename, RenameObstacle, IsDir, IsKind
  <2>2. ~Missing(b, q) /\ (~Altered(b, q) => Obstacle(b, q))
    BY <1>3, <1>4, <1>5, <1>6, <1>9
  <2> QED
    BY <2>1, <2>2, FailureFits
<1>10. CASE /\ Exists(b, old) /\ NoDirectory(b, new) = 0
            /\ ~RenameObstacle(b, old, new)
  <2>1. ~Altered(b, q) => ~Obstacle(b, q)
    BY <1>4, <1>6, <1>10
  <2>2. CASE same
    <3>1. Rename(b, old, new) = Succeeds(b)
      BY <1>10, <2>2 DEF Rename, RenameObstacle
    <3>2. Effect(b, b, q)
      BY <2>2 DEF Effect, Changing, Inspecting
    <3> QED
      BY <2>1, <3>1, <3>2, NothingChanged, SuccessFits
  <2>3. CASE ~same
    <3>1. /\ ~Below(new, old) /\ Empty(b, new) /\ old # new
          /\ old \in DOMAIN b.at
      BY <1>10, <2>3 DEF RenameObstacle, Exists
    <3>2. Rename(b, old, new) = Succeeds(c)
      BY <1>10, <2>3 DEF Rename, RenameObstacle, IsDir, IsKind
    <3>3. Moved(b, c, old, new)
      BY <1>1, <3>1, RenamedMoves
    <3> HIDE DEF c
    <3>4. Effect(b, c, q)
      BY <2>3, <3>3 DEF Effect, Changing, Inspecting
    <3>5. Confined(b, c, q)
      BY <3>3 DEF Moved, OnlyAt, Confined
    <3> QED
      BY <2>1, <3>2, <3>4, <3>5, SuccessFits
  <2> QED
    BY <2>2, <2>3
<1> QED
  BY <1>7, <1>8, <1>9, <1>10

LEMMA LinkFits ==
  ASSUME NEW b, NEW q, q.op = "link"
  PROVE  Fits(b, q, Link(b, q.path, q.newpath))
<1> DEFINE old == q.path
           new == q.newpath
           dir == DirectoryOf(new)
           c == Named(b, new, b.at[old])
<1>1. AddsName(b, q) /\ NewName(q) = new
  BY DEF AddsName, NewName
<1>2. Missing(b, q) <=> ~Exists(b, old) \/ ~Exists(b, dir)
  BY <1>1 DEF Missing, Making
<1>3. Obstacle(b, q) <=>
        ~Exists(b, old) \/ ~IsDir(b, dir) \/ Exists(b, new) \/ IsDir(b, old)
  BY <1>1, <1>2 DEF Obstacle, Making, IsDir, IsKind
<1>4. /\ ENOENT \in Nat \ {0} /\ EEXIST \in Nat \ {0, ENOENT}
      /\ EACCES \in Nat \ {0, ENOENT} /\ ENOTDIR \in Nat \ {0, ENOENT}
  BY DEF ENOENT, EEXIST, EACCES, ENOTDIR
<1>5. /\ NoDirectory(b, new) = 0 <=> IsDir(b, dir)
      /\ NoDirectory(b, new) = ENOENT <=> ~Exists(b, dir)
      /\ NoDirectory(b, new) \in Nat
  BY <1>4 DEF NoDirectory, IsDir, IsKind
<1> HIDE DEF dir
<1>6. CASE Obstacle(b, q)
  <2>1. PICK e \in Nat \ {0} :
          Link(b, old, new) = Fails(b, e) /\ (e = ENOENT <=> Missing(b, q))
    BY <1>2, <1>3, <1>4, <1>5, <1>6 DEF Link, IsDir, IsKind
  <2> QED
    BY <1>6, <2>1, FailureFits
<1>7. CASE ~Obstacle(b, q)
  <2>1. Link(b, old, new) = Succeeds(c)
    BY <1>3, <1>5, <1>7 DEF Link
  <2>2. SameObject(b, old, c, new) /\ OnlyAt({new}, b, c)
    BY <1>3, <1>7, NamedSame DEF Exists
  <2> HIDE DEF c
  <2>3. Effect(b, c, q)
    BY <2>2 DEF Effect, Changing, Inspecting
  <2>4. Confined(b, c, q)
    BY <2>2 DEF OnlyAt, Confined, AtOrBelow
  <2> QED
    BY <1>7, <2>1, <2>3, <2>4, SuccessFits
<1> QED
  BY <1>6, <1>7

\* truncate, utimes, chmod, chown.
LEMMA ChangeFits ==
  ASSUME NEW b, IsBase(b), NEW q, q.op \in Changing
  PROVE  Fits(b, q, Change(b, q.path, q.op))
<1> DEFINE p == q.path
           f == Follow(b, p)
           c == Changed(b, f, q.op)
<1>1. ~Altered(b, q) => f = p
  BY DEF Altered, Following, Follow
<1>2. ~Altered(b, q) => (Missing(b, q) <=> ~Exists(b, f))
  BY <1>1 DEF Missing, Making, Changing, AddsName
<1>3. ~Altered(b, q) =>
        (Obstacle(b, q) <=>
           ~Exists(b, f) \/ (q.op = "truncate" /\ IsDir(b, f)))
  BY <1>1, <1>2 DEF Obstacle, Making, Changing, AddsName
<1>4. ENOENT \in Nat \ {0} /\ EISDIR \in Nat \ {0, ENOENT}
  BY DEF ENOENT, EISDIR
<1> HIDE DEF f
<1>5. CASE ~Exists(b, f)
  BY <1>2, <1>3, <1>4, <1>5, FailureFits DEF Change, f
<1>6. CASE Exists(b, f) /\ q.op = "truncate" /\ IsDir(b, f)
  <2>1. Change(b, p, q.op) = Fails(b, EISDIR)
    BY <1>6 DEF Change, f
  <2> QED
    BY <1>2, <1>3, <1>4, <1>6, <2>1, FailureFits
<1>7. CASE Exists(b, f) /\ ~(q.op = "truncate" /\ IsDir(b, f))
  <2>1. Change(b, p, q.op) = Succeeds(c)
    BY <1>7 DEF Change, f
  <2>2. Attributed(b, c, f, q.op)
    BY <1>7, ChangedAttributes
  <2> HIDE DEF c
  <2>3. ~Altered(b, q) => Effect(b, c, q)
    BY <1>1, <2>2 DEF Effect, Changing, Inspecting
  <2>4. Confined(b, c, q)
    BY <2>2 DEF Attributed, OnlyAt, Confined, f
  <2> QED
    BY <1>3, <1>7, <2>1, <2>3, <2>4, SuccessFits
<1> QED
  BY <1>5, <1>6, <1>7

\* What only looks changes nothing.
LEMMA InspectingEffect ==
  ASSUME NEW b, NEW q, q.op \in Inspecting
  PROVE  Effect(b, b, q) /\ (Missing(b, q) <=> ~Exists(b, q.path))
  BY DEF Effect, Inspecting, Changing, Missing, Making, AddsName

\* access, statvfs.
LEMMA LookFits ==
  ASSUME NEW b, NEW q, q.op \in {"access", "statfs"}
  PROVE  Fits(b, q, Look(b, q.path))
<1>1. ~Altered(b, q) => Follow(b, q.path) = q.path
  BY DEF Altered, Following, Follow
<1>2. q.op \in Inspecting
  BY DEF Inspecting
<1>3. Obstacle(b, q) <=> ~Exists(b, q.path)
  BY <1>2, InspectingEffect DEF Obstacle, Making, AddsName
<1>4. ENOENT \in Nat \ {0}
  BY DEF ENOENT
<1>5. CASE Exists(b, Follow(b, q.path))
  BY <1>1, <1>2, <1>3, <1>5, InspectingEffect, NothingChanged, SuccessFits
     DEF Look
<1>6. CASE ~Exists(b, Follow(b, q.path))
  BY <1>1, <1>2, <1>3, <1>4, <1>6, InspectingEffect, FailureFits DEF Look
<1> QED
  BY <1>5, <1>6

LEMMA ReadLinkFits ==
  ASSUME NEW b, NEW q, q.op = "readlink"
  PROVE  Fits(b, q, ReadLink(b, q.path))
<1>1. q.op \in Inspecting
  BY DEF Inspecting
<1>2. Obstacle(b, q) <=> ~Exists(b, q.path) \/ ~IsKind(b, q.path, {"link"})
  BY <1>1, InspectingEffect DEF Obstacle, Making, AddsName
<1>3. ENOENT \in Nat \ {0} /\ EINVAL \in Nat \ {0, ENOENT}
  BY DEF ENOENT, EINVAL
<1>4. CASE Obstacle(b, q)
  BY <1>1, <1>2, <1>3, <1>4, InspectingEffect, FailureFits
     DEF ReadLink, IsKind
<1>5. CASE ~Obstacle(b, q)
  BY <1>1, <1>2, <1>5, InspectingEffect, NothingChanged, SuccessFits
     DEF ReadLink
<1> QED
  BY <1>4, <1>5

-----------------------------------------------------------------------------
(* The search, and what it has seen.                                       *)

\* The buffers of a thread hold the paths that it was asked for.
Buffered(t) ==
  at[t] # "idle" => /\ Full(t) = request[t].path
                    /\ NewFull(t) = request[t].newpath
                    /\ request[t] \in Request

\* No occurrence in p up to place k was behind a regular file throughout.
Seen(t, p, k) ==
  \A j \in Occurrences(p) : j <= k => <<p, j>> \notin always[t]
AllSeen(t, p) == \A j \in Occurrences(p) : <<p, j>> \notin always[t]

InsideFor(t) ==
  \E p \in {request[t].path, request[t].newpath} :
    /\ <<p, token[t]>> \in ever[t]
    /\ ctx[Context(t)].archivepath = ArchivePath(p, token[t])
    /\ \A k \in 1 .. token[t] - 1 : <<p, k>> \notin always[t]

SearchInv(t) ==
  /\ \A x \in always[t] : \E p \in {request[t].path, request[t].newpath} :
       \E k \in Occurrences(p) : x = <<p, k>>
  /\ at[t] = "search" => Seen(t, request[t].path, token[t])
  /\ at[t] = "search_new" => /\ AllSeen(t, request[t].path)
                             /\ Seen(t, request[t].newpath, token[t])
  /\ at[t] \in {"call", "listing"} /\ request[t].op # "statfs" =>
       always[t] = {}
  /\ at[t] = "inside" => InsideFor(t)

(***************************************************************************)
(* The inductive invariant: the buffers are the thread's own, and the      *)
(* search has seen every occurrence it passed at a moment when it was not  *)
(* behind a regular file.                                                  *)
(***************************************************************************)
NamespaceInvariant ==
  /\ TypeOK
  /\ DOMAIN answer = Threads
  /\ \A t \in Threads : Buffered(t) /\ SearchInv(t)

-----------------------------------------------------------------------------
(* What a step leaves alone.                                               *)

\* A step of thread t is not noticed by the others.
Alone(t) ==
  \A u \in Threads \ {t} :
    /\ at'[u] = at[u]
    /\ request'[u] = request[u]
    /\ ctx'[u] = ctx[u]
    /\ token'[u] = token[u]

\* While a request is served, the histories go one way.
LEMMA WatchKeeps ==
  ASSUME Watch, NEW t \in Threads, at[t] # "idle", at'[t] # "idle"
  PROVE  /\ always'[t] \subseteq always[t]
         /\ always'[t] \subseteq Behind(base', request'[t])
         /\ ever[t] \subseteq ever'[t]
         /\ Behind(base', request'[t]) \subseteq ever'[t]
  BY DEF Watch

LEMMA WatchBegins ==
  ASSUME Watch, NEW t \in Threads, at[t] = "idle"
  PROVE  /\ always'[t] = Behind(base', request'[t])
         /\ ever'[t] = Behind(base', request'[t])
  BY DEF Watch

\* What is behind a regular file is an occurrence.
LEMMA BehindOccurs ==
  ASSUME NEW b, NEW q, NEW x \in Behind(b, q)
  PROVE  \E p \in {q.path, q.newpath} : \E k \in Occurrences(p) :
           x = <<p, k>> /\ Regular(b, ArchivePath(p, k))
<1>1. PICK p \in {q.path, q.newpath} :
        x \in {<<p, k>> : k \in BehindFiles(b, p)}
  BY DEF Behind
<1>2. PICK k \in BehindFiles(b, p) : x = <<p, k>>
  BY <1>1
<1> QED
  BY <1>2 DEF BehindFiles

LEMMA OccursBehind ==
  ASSUME NEW b, NEW q, NEW p \in {q.path, q.newpath}, NEW k \in Occurrences(p)
  PROVE  <<p, k>> \in Behind(b, q) <=> Regular(b, ArchivePath(p, k))
<1>1. ASSUME Regular(b, ArchivePath(p, k)) PROVE <<p, k>> \in Behind(b, q)
  BY <1>1 DEF Behind, BehindFiles
<1>2. ASSUME <<p, k>> \in Behind(b, q) PROVE Regular(b, ArchivePath(p, k))
  BY <1>2, BehindOccurs
<1> QED
  BY <1>1, <1>2

\* A thread that has nothing to do with a step keeps its part.
LEMMA KeptInv ==
  ASSUME Watch, NEW u \in Threads, Buffered(u), SearchInv(u),
         at'[u] = at[u], request'[u] = request[u], ctx'[u] = ctx[u],
         token'[u] = token[u]
  PROVE  Buffered(u)' /\ SearchInv(u)'
<1>1. Buffered(u)'
  BY DEF Buffered, Full, NewFull, Context
<1>2. CASE at[u] = "idle"
  <2>1. \A x \in always'[u] :
          \E p \in {request'[u].path, request'[u].newpath} :
            \E k \in Occurrences(p) : x = <<p, k>>
    BY <1>2, WatchBegins, BehindOccurs
  <2> QED
    BY <1>1, <1>2, <2>1 DEF SearchInv
<1>3. CASE at[u] # "idle"
  <2>1. always'[u] \subseteq always[u] /\ ever[u] \subseteq ever'[u]
    BY <1>3, WatchKeeps
  <2>2. InsideFor(u) => InsideFor(u)'
    BY <2>1 DEF InsideFor, Context
  <2> QED
    BY <1>1, <2>1, <2>2 DEF SearchInv, Seen, AllSeen
<1> QED
  BY <1>2, <1>3

\* It is enough to look at the thread that made a step.
LEMMA OneThread ==
  ASSUME NamespaceInvariant, Watch, NEW t \in Threads, Alone(t), TypeOK',
         DOMAIN answer' = Threads, Buffered(t)', SearchInv(t)'
  PROVE  NamespaceInvariant'
<1>1. ASSUME NEW u \in Threads \ {t} PROVE Buffered(u)' /\ SearchInv(u)'
  <2>1. Buffered(u) /\ SearchInv(u)
    BY DEF NamespaceInvariant
  <2> QED
    BY <2>1, KeptInv DEF Alone
<1> QED
  BY <1>1 DEF NamespaceInvariant

-----------------------------------------------------------------------------
(* One lemma per step.                                                     *)

LEMMA OtherKeeps ==
  ASSUME NamespaceInvariant, Watch, NEW q \in Outside, Other(q)
  PROVE  NamespaceInvariant'
<1>1. q \in Request
  BY NamespaceAssumption
<1>2. IsBase(base')
  BY <1>1, DirectIsBase DEF Other, NamespaceInvariant, TypeOK
<1>3. TypeOK'
  BY <1>2 DEF NamespaceInvariant, TypeOK, Other
<1>4. \A u \in Threads : Buffered(u)' /\ SearchInv(u)'
  <2> SUFFICES ASSUME NEW u \in Threads PROVE Buffered(u)' /\ SearchInv(u)'
    OBVIOUS
  <2>1. Buffered(u) /\ SearchInv(u)
    BY DEF NamespaceInvariant
  <2> QED
    BY <2>1, KeptInv DEF Other
<1>5. DOMAIN answer' = Threads
  BY DEF Other, NamespaceInvariant
<1> QED
  BY <1>3, <1>4, <1>5 DEF NamespaceInvariant

LEMMA BeginKeeps ==
  ASSUME NamespaceInvariant, Watch, NEW t \in Threads,
         NEW q \in Requests[t], Begin(t, q)
  PROVE  NamespaceInvariant'
<1>1. q \in Request
  BY NamespaceAssumption
<1>2. q.path \in Path /\ q.newpath \in Path
  BY <1>1 DEF Request
<1>3. ctx' \in [Threads -> [fullpath : Path, new_fullpath : Path,
                            archivepath : Path]]
  BY <1>2 DEF Begin, Context, NamespaceInvariant, TypeOK
<1>4. TypeOK'
  BY <1>1, <1>3 DEF Begin, Goto, NamespaceInvariant, TypeOK
<1>5. Alone(t)
  BY DEF Alone, Begin, Goto, Context, NamespaceInvariant, TypeOK
<1>6. /\ request'[t] = q
      /\ ctx'[t].fullpath = q.path /\ ctx'[t].new_fullpath = q.newpath
      /\ token'[t] = 0
      /\ at'[t] = IF q.op = "statfs" THEN "call" ELSE "search"
      /\ at[t] = "idle"
  BY DEF Begin, Goto, Context, NamespaceInvariant, TypeOK
<1>7. Buffered(t)'
  BY <1>1, <1>6 DEF Buffered, Full, NewFull, Context
<1>8. \A x \in always'[t] : \E p \in {request'[t].path, request'[t].newpath} :
        \E k \in Occurrences(p) : x = <<p, k>>
  BY <1>6, WatchBegins, BehindOccurs
<1>9. Seen(t, request[t].path, token[t])'
  <2>1. \A j \in Occurrences(q.path) : j \in Nat \ {0}
    BY <1>2 DEF Occurrences, Path
  <2> QED
    BY <1>6, <2>1 DEF Seen
<1>10. SearchInv(t)'
  BY <1>6, <1>8, <1>9 DEF SearchInv
<1> QED
  BY <1>4, <1>5, <1>7, <1>10, OneThread DEF Begin, NamespaceInvariant

\* A handler ends.
LEMMA AnswerKeeps ==
  ASSUME NamespaceInvariant, Watch, NEW t \in Threads, NEW e, NEW s, NEW n,
         Answer(t, e, s, n), IsBase(base')
  PROVE  NamespaceInvariant'
<1>1. NoRequest \in Request \cup {NoRequest} /\ Buffers \in
        [fullpath : Path, new_fullpath : Path, archivepath : Path]
  BY DEF Buffers, Path
<1>2. TypeOK'
  BY <1>1 DEF Answer, Goto, Context, NamespaceInvariant, TypeOK
<1>3. Alone(t)
  BY DEF Alone, Answer, Goto, Context, NamespaceInvariant, TypeOK
<1>4. at'[t] = "idle" /\ request'[t] = NoRequest
  BY DEF Answer, Goto, NamespaceInvariant, TypeOK
<1>5. Buffered(t)'
  BY <1>4 DEF Buffered
<1>6. Behind(base', NoRequest) = {}
  <2>1. Occurrences(TopDir) = {}
    BY DEF Occurrences, TopDir
  <2> QED
    BY <2>1, BehindOccurs DEF NoRequest
<1>7. always'[t] = {}
  BY <1>4, <1>6 DEF Watch
<1>8. SearchInv(t)'
  BY <1>4, <1>7 DEF SearchInv
<1> QED
  BY <1>2, <1>3, <1>5, <1>8, OneThread DEF Answer, NamespaceInvariant

\* An occurrence that lstat finds nothing regular before is seen.
LEMMA TryNextKeeps ==
  ASSUME NamespaceInvariant, Watch, NEW t \in Threads, TryNext(t)
  PROVE  NamespaceInvariant'
<1>1. PICK k \in DOMAIN Searched(t) :
        /\ Found(t, k)
        /\ ~IsArchivePath(base, ArchivePath(Searched(t), k))
        /\ Tried(t, k)
        /\ token' = [token EXCEPT ![t] = k]
  BY DEF TryNext
<1> DEFINE p == Searched(t)
<1>2. Searching(t) /\ at[t] \in {"search", "search_new"}
  BY DEF TryNext, Searching
<1>3. /\ request[t] \in Request
      /\ p = IF at[t] = "search_new" THEN request[t].newpath
             ELSE request[t].path
      /\ Buffered(t) /\ SearchInv(t)
  BY <1>2 DEF NamespaceInvariant, Buffered, Searched
<1>4. p \in Path /\ p \in {request[t].path, request[t].newpath}
  BY <1>3 DEF Request
<1>5. ArchivePath(p, k) \in Path /\ k \in Nat
  BY <1>1, <1>4 DEF ArchivePath, Path
<1> HIDE DEF p
<1>6. ctx' = [ctx EXCEPT ![t] = [@ EXCEPT !.archivepath = ArchivePath(p, k)]]
  BY <1>1 DEF Tried, Context, p
<1>7. /\ base' = base /\ at' = at /\ request' = request
      /\ todo' = todo /\ filled' = filled
  BY DEF TryNext
<1>8. ctx \in [Threads -> [fullpath : Path, new_fullpath : Path,
                           archivepath : Path]]
  BY DEF NamespaceInvariant, TypeOK
<1>9. ctx' \in [Threads -> [fullpath : Path, new_fullpath : Path,
                            archivepath : Path]]
  BY <1>5, <1>6, <1>8
<1>10. TypeOK'
  BY <1>1, <1>5, <1>7, <1>9 DEF NamespaceInvariant, TypeOK
<1>11. token \in [Threads -> Nat] /\ token'[t] = k
  BY <1>1 DEF NamespaceInvariant, TypeOK
<1>12. Alone(t)
  BY <1>1, <1>6, <1>7, <1>8, <1>11 DEF Alone
<1>13. Buffered(t)'
  <2>1. /\ ctx'[t].fullpath = ctx[t].fullpath
        /\ ctx'[t].new_fullpath = ctx[t].new_fullpath
    BY <1>6, <1>8
  <2> QED
    BY <1>2, <1>3, <1>7, <2>1 DEF Buffered, Full, NewFull, Context
<1>14. always'[t] \subseteq always[t] /\
         always'[t] \subseteq Behind(base, request[t])
  BY <1>2, <1>7, WatchKeeps
<1>15. <<p, k>> \notin always'[t]
  <2>1. k \in Occurrences(p)
    BY <1>1 DEF Found, p
  <2>2. <<p, k>> \notin Behind(base, request[t])
    BY <1>1, <1>4, <2>1, OccursBehind DEF IsArchivePath, p
  <2> QED
    BY <1>14, <2>2
<1>16. ASSUME Seen(t, p, token[t]), NEW j \in Occurrences(p), j <= k
       PROVE  <<p, j>> \notin always'[t]
  <2>1. CASE j = k
    BY <2>1, <1>15
  <2>2. CASE j # k
    <3>1. j \in Nat
      BY <1>4 DEF Occurrences, Path
    <3>2. \A i \in Occurrences(p) : i > token[t] => k <= i
      BY <1>1 DEF Found, p
    <3>3. j > token[t] => k <= j
      BY <1>16, <3>2
    <3>4. token[t] \in Nat
      BY <1>11
    <3>5. j <= token[t]
      BY <1>5, <1>16, <2>2, <3>1, <3>3, <3>4
    <3> QED
      BY <1>14, <1>16, <3>5 DEF Seen
  <2> QED
    BY <2>1, <2>2
<1>17. SearchInv(t)'
  <2>1. CASE at[t] = "search"
    <3>1. Seen(t, request[t].path, token[t])'
      BY <2>1, <1>3, <1>7, <1>11, <1>16 DEF SearchInv, Seen
    <3> QED
      BY <2>1, <3>1, <1>3, <1>7, <1>14 DEF SearchInv
  <2>2. CASE at[t] = "search_new"
    <3>1. Seen(t, request[t].newpath, token[t])'
      BY <2>2, <1>3, <1>7, <1>11, <1>16 DEF SearchInv, Seen
    <3>2. AllSeen(t, request[t].path)'
      BY <2>2, <1>3, <1>7, <1>14 DEF SearchInv, AllSeen
    <3> QED
      BY <2>2, <3>1, <3>2, <1>3, <1>7, <1>14 DEF SearchInv
  <2> QED
    BY <1>2, <2>1, <2>2
<1> QED
  BY <1>10, <1>12, <1>13, <1>17, OneThread DEF TryNext, NamespaceInvariant

\* The first occurrence behind a regular file is where the search ends.
LEMMA LeadsInsideKeeps ==
  ASSUME NamespaceInvariant, Watch, NEW t \in Threads, LeadsInside(t)
  PROVE  NamespaceInvariant'
<1>1. PICK k \in DOMAIN Searched(t) :
        /\ Found(t, k)
        /\ IsArchivePath(base, ArchivePath(Searched(t), k))
        /\ Tried(t, k)
        /\ token' = [token EXCEPT ![t] = k]
  BY DEF LeadsInside
<1> DEFINE p == Searched(t)
<1>2. Searching(t) /\ at[t] \in {"search", "search_new"}
  BY DEF LeadsInside, Searching
<1>3. /\ request[t] \in Request
      /\ p = IF at[t] = "search_new" THEN request[t].newpath
             ELSE request[t].path
      /\ Buffered(t) /\ SearchInv(t)
  BY <1>2 DEF NamespaceInvariant, Buffered, Searched
<1>4. p \in Path /\ p \in {request[t].path, request[t].newpath}
  BY <1>3 DEF Request
<1>5. ArchivePath(p, k) \in Path /\ k \in Nat
  BY <1>1, <1>4 DEF ArchivePath, Path
<1> HIDE DEF p
<1>6. ctx' = [ctx EXCEPT ![t] = [@ EXCEPT !.archivepath = ArchivePath(p, k)]]
  BY <1>1 DEF Tried, Context, p
<1>7. /\ base' = base /\ at' = [at EXCEPT ![t] = "inside"]
      /\ request' = request /\ todo' = todo /\ filled' = filled
  BY DEF LeadsInside, Goto
<1>8. /\ ctx \in [Threads -> [fullpath : Path, new_fullpath : Path,
                              archivepath : Path]]
      /\ token \in [Threads -> Nat]
      /\ at \in [Threads -> {"idle", "search", "search_new", "inside", "call",
                             "listing"}]
  BY DEF NamespaceInvariant, TypeOK
<1>9. ctx' \in [Threads -> [fullpath : Path, new_fullpath : Path,
                            archivepath : Path]]
  BY <1>5, <1>6, <1>8
<1>10. TypeOK'
  BY <1>1, <1>5, <1>7, <1>9 DEF NamespaceInvariant, TypeOK
<1>11. token'[t] = k /\ at'[t] = "inside"
  BY <1>1, <1>7, <1>8
<1>12. Alone(t)
  BY <1>1, <1>6, <1>7, <1>8 DEF Alone
<1>13. Buffered(t)'
  <2>1. /\ ctx'[t].fullpath = ctx[t].fullpath
        /\ ctx'[t].new_fullpath = ctx[t].new_fullpath
    BY <1>6, <1>8
  <2> QED
    BY <1>2, <1>3, <1>7, <2>1 DEF Buffered, Full, NewFull, Context
<1>14. /\ always'[t] \subseteq always[t]
       /\ Behind(base, request[t]) \subseteq ever'[t]
  BY <1>2, <1>7, <1>11, WatchKeeps
<1>15. <<p, k>> \in ever'[t]
  <2>1. k \in Occurrences(p)
    BY <1>1 DEF Found, p
  <2>2. <<p, k>> \in Behind(base, request[t])
    BY <1>1, <1>4, <2>1, OccursBehind DEF IsArchivePath, p
  <2> QED
    BY <1>14, <2>2
<1>16. ASSUME NEW j \in 1 .. k - 1 PROVE <<p, j>> \notin always'[t]
  <2>1. CASE j \in Occurrences(p)
    <3>1. Seen(t, p, token[t])
      BY <1>2, <1>3 DEF SearchInv
    <3>2. \A i \in Occurrences(p) : i > token[t] => k <= i
      BY <1>1 DEF Found, p
    <3>3. j > token[t] => k <= j
      BY <2>1, <3>2
    <3>4. token[t] \in Nat /\ j \in Nat
      BY <1>8
    <3>5. j <= token[t]
      BY <1>5, <1>16, <3>3, <3>4
    <3> QED
      BY <1>14, <2>1, <3>1, <3>5 DEF Seen
  <2>2. CASE j \notin Occurrences(p)
    <3>1. \A x \in always[t] :
            \E r \in {request[t].path, request[t].newpath} :
              \E i \in Occurrences(r) : x = <<r, i>>
      BY <1>3 DEF SearchInv
    <3>2. <<p, j>> \notin always[t]
      BY <2>2, <3>1
    <3> QED
      BY <1>14, <3>2
  <2> QED
    BY <2>1, <2>2
<1>17. ctx'[t].archivepath = ArchivePath(p, k)
  BY <1>6, <1>8
<1>18. InsideFor(t)'
  <2>1. p \in {request'[t].path, request'[t].newpath}
    BY <1>4, <1>7
  <2> QED
    BY <2>1, <1>11, <1>15, <1>16, <1>17 DEF InsideFor, Context
<1>19. SearchInv(t)'
  BY <1>3, <1>7, <1>11, <1>14, <1>18 DEF SearchInv
<1> QED
  BY <1>10, <1>12, <1>13, <1>19, OneThread
     DEF LeadsInside, NamespaceInvariant

\* strstr finds no further occurrence: every one of the path is seen.
LEMMA LeadsToBaseKeeps ==
  ASSUME NamespaceInvariant, Watch, NEW t \in Threads, LeadsToBase(t)
  PROVE  NamespaceInvariant'
<1>1. /\ base' = base /\ request' = request /\ ctx' = ctx
      /\ todo' = todo /\ filled' = filled
      /\ at[t] \in {"search", "search_new"}
      /\ FoundNone(t)
  BY DEF LeadsToBase, Searching
<1>2. /\ at \in [Threads -> {"idle", "search", "search_new", "inside", "call",
                             "listing"}]
      /\ token \in [Threads -> Nat]
      /\ Buffered(t) /\ SearchInv(t) /\ request[t] \in Request
  BY <1>1 DEF NamespaceInvariant, TypeOK, Buffered
<1>3. \/ /\ request[t].op \in {"rename", "link"} /\ at[t] = "search"
         /\ at' = [at EXCEPT ![t] = "search_new"]
         /\ token' = [token EXCEPT ![t] = 0]
      \/ /\ request[t].op \notin {"rename", "link"} \/ at[t] = "search_new"
         /\ at' = [at EXCEPT ![t] = "call"]
         /\ token' = token
  BY <1>1 DEF LeadsToBase, Goto
<1>4. TypeOK'
  BY <1>1, <1>3 DEF NamespaceInvariant, TypeOK
<1>5. Alone(t)
  BY <1>1, <1>2, <1>3 DEF Alone
<1>6. Buffered(t)'
  BY <1>1, <1>2 DEF Buffered, Full, NewFull, Context
<1>7. at'[t] # "idle" /\ at[t] # "idle"
  BY <1>1, <1>2, <1>3
<1>8. always'[t] \subseteq always[t]
  BY <1>7, WatchKeeps
<1>9. ASSUME at[t] = "search" PROVE SearchInv(t)'
  <2>1. AllSeen(t, request[t].path)
    <3>1. \A j \in Occurrences(request[t].path) : j <= token[t]
      BY <1>1, <1>2, <1>9 DEF FoundNone, Searched, Buffered
    <3> QED
      BY <3>1, <1>2, <1>9 DEF SearchInv, Seen, AllSeen
  <2>2. CASE at'[t] = "search_new"
    <3>1. token'[t] = 0
      BY <1>2, <1>3, <2>2, <1>9
    <3>2. \A j \in Occurrences(request[t].newpath) : j \in Nat \ {0}
      BY <1>2 DEF Occurrences, Path, Request
    <3>3. Seen(t, request[t].newpath, token[t])'
      BY <1>1, <3>1, <3>2 DEF Seen
    <3>4. AllSeen(t, request[t].path)'
      BY <1>1, <1>8, <2>1 DEF AllSeen
    <3> QED
      BY <1>1, <1>2, <1>8, <2>2, <3>3, <3>4 DEF SearchInv
  <2>3. CASE at'[t] = "call"
    <3>1. request[t].newpath = TopDir
      BY <1>2, <1>3, <1>9, <2>3 DEF Request
    <3>2. Occurrences(TopDir) = {}
      BY DEF Occurrences, TopDir
    <3>3. always[t] = {}
      BY <1>2, <2>1, <3>1, <3>2 DEF SearchInv, AllSeen
    <3>4. always'[t] = {}
      BY <1>8, <3>3
    <3> QED
      BY <2>3, <3>4 DEF SearchInv
  <2> QED
    BY <1>2, <1>3, <2>2, <2>3
<1>10. ASSUME at[t] = "search_new" PROVE SearchInv(t)'
  <2>1. at'[t] = "call"
    BY <1>2, <1>3, <1>10
  <2>2. AllSeen(t, request[t].newpath)
    <3>1. \A j \in Occurrences(request[t].newpath) : j <= token[t]
      BY <1>1, <1>2, <1>10 DEF FoundNone, Searched, Buffered
    <3> QED
      BY <3>1, <1>2, <1>10 DEF SearchInv, Seen, AllSeen
  <2>3. always[t] = {}
    BY <1>2, <1>10, <2>2 DEF SearchInv, AllSeen
  <2>4. always'[t] = {}
    BY <1>8, <2>3
  <2> QED
    BY <2>1, <2>4 DEF SearchInv
<1>11. SearchInv(t)'
  BY <1>1, <1>9, <1>10
<1> QED
  BY <1>4, <1>5, <1>6, <1>11, OneThread DEF LeadsToBase, NamespaceInvariant

LEMMA StatOfIsStat ==
  ASSUME NEW b, IsBase(b), NEW p \in DOMAIN b.at
  PROVE  StatOf(b, p) \in [kind : Kinds, ino : Nat]
<1>1. b.at[p] \in DOMAIN b.node /\ b.at[p] \in Inodes
  BY DEF IsBase
<1>2. b.node[b.at[p]] \in Node /\ b.at[p] \in Nat
  BY <1>1, BaseAssumption DEF IsBase
<1> QED
  BY <1>2 DEF StatOf, Stat, NodeAt, Node

LEMMA ModIsNat ==
  ASSUME NEW m \in Nat \ {0}, NEW x \in Nat PROVE x % m \in 0 .. m - 1
  OBVIOUS

LEMMA ComposeIsNat ==
  ASSUME NEW i \in Nat, NEW r \in Nat
  PROVE  ComposeIno(i, r) \in Nat
<1>1. HalfWord \in Nat \ {0}
  BY NamespaceAssumption
<1>2. HalfWord * HalfWord \in Nat \ {0}
  BY <1>1
<1>3. r % HalfWord \in Nat
  BY <1>1, ModIsNat
<1>4. i * HalfWord \in Nat
  BY <1>1
<1>5. (r % HalfWord) + i * HalfWord \in Nat
  BY <1>3, <1>4
<1> QED
  BY <1>2, <1>5, ModIsNat DEF ComposeIno

LEMMA OpendirKeeps ==
  ASSUME NamespaceInvariant, Watch, NEW t \in Threads, Opendir(t)
  PROVE  NamespaceInvariant'
<1>1. CASE ~IsDir(base, Full(t))
  <2>1. IsBase(base')
    BY <1>1 DEF Opendir, Says, NamespaceInvariant, TypeOK
  <2>2. \E e : Answer(t, e, NoStat, {})
    BY <1>1 DEF Opendir, Says
  <2> QED
    BY <2>1, <2>2, AnswerKeeps
<1>2. CASE IsDir(base, Full(t))
  <2>1. /\ todo' = [todo EXCEPT ![t] =
             {[path |-> p, stat |-> StatOf(base, p)] :
                p \in Entries(base, Full(t))}]
        /\ at' = [at EXCEPT ![t] = "listing"]
        /\ UNCHANGED <<base, request, ctx, token, filled, answer>>
        /\ at[t] = "call" /\ request[t].op = "readdir"
    BY <1>2 DEF Opendir, Calls, Goto
  <2>2. Entries(base, Full(t)) \subseteq DOMAIN base.at
    BY DEF Entries
  <2>3. IsBase(base) /\ DOMAIN base.at \subseteq Path
    BY DEF NamespaceInvariant, TypeOK, IsBase
  <2>4. {[path |-> p, stat |-> StatOf(base, p)] :
           p \in Entries(base, Full(t))} \subseteq Entry
    BY <2>2, <2>3, StatOfIsStat DEF Entry
  <2>5. TypeOK'
    BY <2>1, <2>4 DEF NamespaceInvariant, TypeOK
  <2>6. at \in [Threads -> {"idle", "search", "search_new", "inside", "call",
                            "listing"}]
    BY DEF NamespaceInvariant, TypeOK
  <2>7. Alone(t) /\ at'[t] = "listing"
    BY <2>1, <2>6 DEF Alone
  <2>8. Buffered(t)'
    BY <2>1, <2>7 DEF NamespaceInvariant, Buffered, Full, NewFull, Context
  <2>9. always'[t] = {}
    <3>1. always[t] = {}
      BY <2>1 DEF NamespaceInvariant, SearchInv
    <3> QED
      BY <2>1, <2>7, <3>1, WatchKeeps
  <2>10. SearchInv(t)'
    BY <2>7, <2>9 DEF SearchInv
  <2> QED
    BY <2>1, <2>5, <2>7, <2>8, <2>10, OneThread DEF NamespaceInvariant
<1> QED
  BY <1>1, <1>2

LEMMA FillEntryKeeps ==
  ASSUME NamespaceInvariant, Watch, NEW t \in Threads, FillEntry(t)
  PROVE  NamespaceInvariant'
<1>1. PICK e \in todo[t] :
        /\ todo' = [todo EXCEPT ![t] = @ \ {e}]
        /\ filled' = [filled EXCEPT ![t] = @ \cup {e} \cup
             IF Identified(base, e.path) THEN {ContentsEntry(e)} ELSE {}]
  BY DEF FillEntry
<1>2. at[t] = "listing" /\ UNCHANGED <<base, at, request, ctx, token, answer>>
  BY DEF FillEntry
<1>3. /\ todo \in [Threads -> SUBSET Entry]
      /\ filled \in [Threads -> SUBSET Entry]
  BY DEF NamespaceInvariant, TypeOK
<1>4. e \in Entry
  BY <1>1, <1>3
<1>5. ContentsEntry(e) \in Entry
  <2>1. e.path \in Path /\ e.stat.ino \in Nat
    BY <1>4 DEF Entry
  <2>2. PeepName(e.path) \in Path
    BY <2>1 DEF PeepName, Path
  <2>3. ComposeIno(e.stat.ino, 1) \in Nat
    BY <2>1, ComposeIsNat
  <2> QED
    BY <2>2, <2>3 DEF ContentsEntry, Entry, Stat, Kinds
<1>6. /\ todo' \in [Threads -> SUBSET Entry]
      /\ filled' \in [Threads -> SUBSET Entry]
  BY <1>1, <1>3, <1>4, <1>5
<1>7. TypeOK'
  BY <1>2, <1>6 DEF NamespaceInvariant, TypeOK
<1>8. \A u \in Threads : Buffered(u)' /\ SearchInv(u)'
  <2> SUFFICES ASSUME NEW u \in Threads PROVE Buffered(u)' /\ SearchInv(u)'
    OBVIOUS
  <2>1. Buffered(u) /\ SearchInv(u)
    BY DEF NamespaceInvariant
  <2> QED
    BY <2>1, <1>2, KeptInv
<1> QED
  BY <1>2, <1>7, <1>8 DEF NamespaceInvariant

-----------------------------------------------------------------------------
(* The calls on the base path.                                             *)

LEMMA PassesAsAsked ==
  ASSUME NamespaceInvariant, NEW t \in Threads, NEW op, NEW outcome,
         Passes(t, op, outcome)
  PROVE  /\ \E e, s : Answer(t, e, s, {})
         /\ base' = outcome.base
         /\ answer'[t].error = outcome.error
<1>1. Answer(t, outcome.error, NoStat, {}) /\ base' = outcome.base
  BY DEF Passes
<1>2. DOMAIN answer = Threads
  BY DEF NamespaceInvariant
<1> QED
  BY <1>1, <1>2 DEF Answer

LEMMA SaysError ==
  ASSUME NamespaceInvariant, NEW t \in Threads, NEW error, Says(t, error)
  PROVE  /\ \E e, s : Answer(t, e, s, {})
         /\ base' = base
         /\ answer'[t].error = error
<1>1. Answer(t, error, NoStat, {}) /\ base' = base
  BY DEF Says
<1>2. DOMAIN answer = Threads
  BY DEF NamespaceInvariant
<1> QED
  BY <1>1, <1>2 DEF Answer

\* The call of a handler keeps the promise for what its thread was asked for.
Served(t) ==
  /\ \E e, s : Answer(t, e, s, {})
  /\ base' = base \/ base' = Direct(base, request[t]).base
  /\ Confined(base, base', request[t])
  /\ ~Altered(base, request[t]) =>
       AsAsked(base, base', request[t], answer'[t].error)

LEMMA PassedIsServed ==
  ASSUME NamespaceInvariant, NEW t \in Threads, NEW op, NEW outcome,
         Passes(t, op, outcome), Fits(base, request[t], outcome),
         outcome.base = base \/ outcome.base = Direct(base, request[t]).base
  PROVE  Served(t)
  BY PassesAsAsked DEF Served, Fits

\* Calls that leave the base alone, whatever their error is from.
LEMMA SaidIsServed ==
  ASSUME NamespaceInvariant, NEW t \in Threads, NEW error, Says(t, error),
         request[t].op \in Inspecting,
         ~Altered(base, request[t]) =>
           /\ error = 0 <=> ~Obstacle(base, request[t])
           /\ error = ENOENT <=> Missing(base, request[t])
  PROVE  Served(t)
<1>1. /\ \E e, s : Answer(t, e, s, {})
      /\ base' = base
      /\ answer'[t].error = error
  BY SaysError
<1> QED
  BY <1>1, NothingChanged, InspectingEffect DEF Served, AsAsked

LEMMA CallIsAsAsked ==
  ASSUME NamespaceInvariant, NEW t \in Threads, Call(t),
         ~(Opendir(t) /\ IsDir(base, Full(t)))
  PROVE  Served(t)
<1> DEFINE q == request[t]
           b == base
<1>1. at[t] = "call"
  BY DEF Call, Mkdir, Mknod, Symlink, Create, Rmdir, UnlinkFile, RenameFile,
         LinkFile, Readlink, Truncate, Chmod, Chown, Access, Statfs, Utimens,
         Listxattr, Getxattr, Xattr, Getattr, Opendir, Passes, Calls
<1>2. Full(t) = q.path /\ NewFull(t) = q.newpath /\ q \in Request /\ IsBase(b)
  BY <1>1 DEF NamespaceInvariant, TypeOK, Buffered
<1>3. ENOENT \in Nat \ {0} /\ ENOTDIR \in Nat \ {0, ENOENT}
      /\ ENODATA \in Nat \ {0, ENOENT} /\ EINVAL \in Nat \ {0, ENOENT}
  BY DEF ENOENT, ENOTDIR, ENODATA, EINVAL
<1>4. CASE Mkdir(t)
  <2>1. q.op = "mkdir"
    BY <1>4 DEF Mkdir, Passes, Calls
  <2>2. Passes(t, "mkdir", Make(b, q.path, "dir", TopDir))
    BY <1>2, <1>4 DEF Mkdir, TopDir
  <2>3. Make(b, q.path, "dir", TopDir) = Direct(b, q)
    BY <2>1 DEF Direct, Changing, TopDir
  <2>4. Fits(b, q, Make(b, q.path, "dir", TopDir))
    BY <1>2, <2>1, MakeFits
  <2> QED
    BY <2>2, <2>3, <2>4, PassedIsServed
<1>5. CASE Mknod(t)
  <2>1. q.op = "mknod"
    BY <1>5 DEF Mknod, Passes, Calls
  <2>2. Passes(t, "mknod", Make(b, q.path, "file", TopDir))
    BY <1>2, <1>5 DEF Mknod, TopDir
  <2>3. Make(b, q.path, "file", TopDir) = Direct(b, q)
    BY <2>1 DEF Direct, Changing, TopDir
  <2>4. Fits(b, q, Make(b, q.path, "file", TopDir))
    BY <1>2, <2>1, MakeFits
  <2> QED
    BY <2>2, <2>3, <2>4, PassedIsServed
<1>6. CASE Symlink(t)
  <2>1. q.op = "symlink"
    BY <1>6 DEF Symlink, Passes, Calls
  <2>2. Passes(t, "symlink", Make(b, q.path, "link", q.target))
    BY <1>2, <1>6 DEF Symlink
  <2>3. Make(b, q.path, "link", q.target) = Direct(b, q)
    BY <2>1 DEF Direct, Changing, TopDir
  <2>4. Fits(b, q, Make(b, q.path, "link", q.target))
    BY <1>2, <2>1, MakeFits
  <2> QED
    BY <2>2, <2>3, <2>4, PassedIsServed
<1>7. CASE Create(t)
  <2>1. q.op = "create"
    BY <1>7 DEF Create, Passes, Calls
  <2>2. Passes(t, "create", OpenCreate(b, q.path))
    BY <1>2, <1>7 DEF Create
  <2>3. OpenCreate(b, q.path) = Direct(b, q)
    BY <2>1 DEF Direct, Changing, TopDir
  <2>4. Fits(b, q, OpenCreate(b, q.path))
    BY <1>2, <2>1, CreateFits
  <2> QED
    BY <2>2, <2>3, <2>4, PassedIsServed
<1>8. CASE Rmdir(t)
  <2>1. q.op = "rmdir"
    BY <1>8 DEF Rmdir, Passes, Calls
  <2>2. Passes(t, "rmdir", RemoveDir(b, q.path))
    BY <1>2, <1>8 DEF Rmdir
  <2>3. RemoveDir(b, q.path) = Direct(b, q)
    BY <2>1 DEF Direct, Changing, TopDir
  <2>4. Fits(b, q, RemoveDir(b, q.path))
    BY <1>2, <2>1, RemoveFits
  <2> QED
    BY <2>2, <2>3, <2>4, PassedIsServed
<1>9. CASE UnlinkFile(t)
  <2>1. q.op = "unlink"
    BY <1>9 DEF UnlinkFile, Passes, Calls
  <2>2. Passes(t, "unlink", Unlink(b, q.path))
    BY <1>2, <1>9 DEF UnlinkFile
  <2>3. Unlink(b, q.path) = Direct(b, q)
    BY <2>1 DEF Direct, Changing, TopDir
  <2>4. Fits(b, q, Unlink(b, q.path))
    BY <1>2, <2>1, RemoveFits
  <2> QED
    BY <2>2, <2>3, <2>4, PassedIsServed
<1>10. CASE RenameFile(t)
  <2>1. q.op = "rename"
    BY <1>10 DEF RenameFile, Passes, Calls
  <2>2. Passes(t, "rename", Rename(b, q.path, q.newpath))
    BY <1>2, <1>10 DEF RenameFile
  <2>3. Rename(b, q.path, q.newpath) = Direct(b, q)
    BY <2>1 DEF Direct, Changing, TopDir
  <2>4. Fits(b, q, Rename(b, q.path, q.newpath))
    BY <1>2, <2>1, RenameFits
  <2> QED
    BY <2>2, <2>3, <2>4, PassedIsServed
<1>11. CASE LinkFile(t)
  <2>1. q.op = "link"
    BY <1>11 DEF LinkFile, Passes, Calls
  <2>2. Passes(t, "link", Link(b, q.path, q.newpath))
    BY <1>2, <1>11 DEF LinkFile
  <2>3. Link(b, q.path, q.newpath) = Direct(b, q)
    BY <2>1 DEF Direct, Changing, TopDir
  <2>4. Fits(b, q, Link(b, q.path, q.newpath))
    BY <1>2, <2>1, LinkFits
  <2> QED
    BY <2>2, <2>3, <2>4, PassedIsServed
<1>12. CASE Readlink(t)
  <2>1. q.op = "readlink"
    BY <1>12 DEF Readlink, Passes, Calls
  <2>2. Passes(t, "readlink", ReadLink(b, q.path))
    BY <1>2, <1>12 DEF Readlink
  <2>3. ReadLink(b, q.path).base = b
    BY DEF ReadLink, Fails, Succeeds
  <2>4. Fits(b, q, ReadLink(b, q.path))
    BY <1>2, <2>1, ReadLinkFits
  <2> QED
    BY <2>2, <2>3, <2>4, PassedIsServed
<1>13. CASE Truncate(t)
  <2>1. q.op = "truncate"
    BY <1>13 DEF Truncate, Passes, Calls
  <2>2. Passes(t, "truncate", Change(b, q.path, q.op))
    BY <1>2, <1>13, <2>1 DEF Truncate
  <2>3. Change(b, q.path, q.op) = Direct(b, q)
    BY <2>1 DEF Direct, Changing, TopDir
  <2>4. Fits(b, q, Change(b, q.path, q.op))
    BY <1>2, <2>1, ChangeFits DEF Changing
  <2> QED
    BY <2>2, <2>3, <2>4, PassedIsServed
<1>14. CASE Chmod(t)
  <2>1. q.op = "chmod"
    BY <1>14 DEF Chmod, Passes, Calls
  <2>2. Passes(t, "chmod", Change(b, q.path, q.op))
    BY <1>2, <1>14, <2>1 DEF Chmod
  <2>3. Change(b, q.path, q.op) = Direct(b, q)
    BY <2>1 DEF Direct, Changing, TopDir
  <2>4. Fits(b, q, Change(b, q.path, q.op))
    BY <1>2, <2>1, ChangeFits DEF Changing
  <2> QED
    BY <2>2, <2>3, <2>4, PassedIsServed
<1>15. CASE Chown(t)
  <2>1. q.op = "chown"
    BY <1>15 DEF Chown, Passes, Calls
  <2>2. Passes(t, "chown", Change(b, q.path, q.op))
    BY <1>2, <1>15, <2>1 DEF Chown
  <2>3. Change(b, q.path, q.op) = Direct(b, q)
    BY <2>1 DEF Direct, Changing, TopDir
  <2>4. Fits(b, q, Change(b, q.path, q.op))
    BY <1>2, <2>1, ChangeFits DEF Changing
  <2> QED
    BY <2>2, <2>3, <2>4, PassedIsServed
<1>16. CASE Access(t)
  <2>1. q.op = "access"
    BY <1>16 DEF Access, Passes, Calls
  <2>2. Passes(t, "access", Look(b, q.path))
    BY <1>2, <1>16 DEF Access
  <2>3. Look(b, q.path).base = b
    BY DEF Look, Fails, Succeeds
  <2>4. Fits(b, q, Look(b, q.path))
    BY <1>2, <2>1, LookFits
  <2> QED
    BY <2>2, <2>3, <2>4, PassedIsServed
<1>17. CASE Statfs(t)
  <2>1. q.op = "statfs"
    BY <1>17 DEF Statfs, Passes, Calls
  <2>2. Passes(t, "statfs", Look(b, q.path))
    BY <1>2, <1>17 DEF Statfs
  <2>3. Look(b, q.path).base = b
    BY DEF Look, Fails, Succeeds
  <2>4. Fits(b, q, Look(b, q.path))
    BY <1>2, <2>1, LookFits
  <2> QED
    BY <2>2, <2>3, <2>4, PassedIsServed
<1>18. CASE Utimens(t)
  <2>1. q.op = "utimens"
    BY <1>18 DEF Utimens, Passes, Calls
  <2>2. CASE q.special /\ Exists(b, Follow(b, q.path))
    <3>1. Passes(t, "utimens", Fails(b, EINVAL))
      BY <1>2, <1>18, <2>2 DEF Utimens
    <3>2. Altered(b, q)
      BY <2>1, <2>2 DEF Altered
    <3>3. Fits(b, q, Fails(b, EINVAL))
      BY <1>3, <3>2, FailureFits
    <3>4. Fails(b, EINVAL).base = b
      BY DEF Fails
    <3> QED
      BY <3>1, <3>3, <3>4, PassedIsServed
  <2>3. CASE ~(q.special /\ Exists(b, Follow(b, q.path)))
    <3>1. Passes(t, "utimens", Change(b, q.path, q.op))
      BY <1>2, <1>18, <2>1, <2>3 DEF Utimens
    <3>2. Change(b, q.path, q.op) = Direct(b, q)
      BY <2>1 DEF Direct, Changing
    <3>3. Fits(b, q, Change(b, q.path, q.op))
      BY <1>2, <2>1, ChangeFits DEF Changing
    <3> QED
      BY <3>1, <3>2, <3>3, PassedIsServed
  <2> QED
    BY <2>2, <2>3
<1>19. CASE Listxattr(t)
  <2>1. q.op = "listxattr" /\ q.op \in Inspecting
    BY <1>19 DEF Listxattr, Xattr, Calls, Inspecting
  <2>2. PICK e : /\ Says(t, e)
                 /\ \/ ListAttributes(b, q.path).length # 0
                    \/ e = ListAttributes(b, q.path).error
    BY <1>2, <1>19 DEF Listxattr, Xattr
  <2>3. ~Altered(b, q) =>
          /\ Follow(b, q.path) = q.path
          /\ Exists(b, q.path) => NodeAt(b, q.path).labels = 0
    BY <2>1 DEF Altered, Following, Unsupported, Follow
  <2>4. (Missing(b, q) <=> ~Exists(b, q.path))
        /\ (Obstacle(b, q) <=> ~Exists(b, q.path))
    BY <2>1, InspectingEffect DEF Obstacle, Making, AddsName
  <2>5. ~Altered(b, q) =>
          /\ e = 0 <=> ~Obstacle(b, q)
          /\ e = ENOENT <=> Missing(b, q)
    BY <1>3, <2>2, <2>3, <2>4 DEF ListAttributes, Fails, Returns
  <2> QED
    BY <2>1, <2>2, <2>5, SaidIsServed
<1>20. CASE Getxattr(t)
  <2>1. q.op = "getxattr" /\ q.op \in Inspecting
    BY <1>20 DEF Getxattr, Xattr, Calls, Inspecting
  <2>2. PICK e : /\ Says(t, e)
                 /\ \/ GetAttribute(b, q.path).length # 0
                    \/ e = GetAttribute(b, q.path).error
    BY <1>2, <1>20 DEF Getxattr, Xattr
  <2>3. ~Altered(b, q) =>
          /\ Follow(b, q.path) = q.path
          /\ Exists(b, q.path) => NodeAt(b, q.path).labels = 0
    BY <2>1 DEF Altered, Following, Unsupported, Follow
  <2>4. (Missing(b, q) <=> ~Exists(b, q.path))
        /\ (Obstacle(b, q) <=>
              ~Exists(b, q.path) \/ NodeAt(b, q.path).labels = 0)
    BY <2>1, InspectingEffect DEF Obstacle, Making, AddsName
  <2>5. ~Altered(b, q) =>
          /\ e = 0 <=> ~Obstacle(b, q)
          /\ e = ENOENT <=> Missing(b, q)
    BY <1>3, <2>2, <2>3, <2>4 DEF GetAttribute, Fails, Returns
  <2> QED
    BY <2>1, <2>2, <2>5, SaidIsServed
<1>21. CASE Getattr(t)
  <2>1. q.op = "getattr" /\ q.op \in Inspecting
    BY <1>21 DEF Getattr, Calls, Inspecting
  <2>2. (Missing(b, q) <=> ~Exists(b, q.path))
        /\ (Obstacle(b, q) <=> ~Exists(b, q.path))
    BY <2>1, InspectingEffect DEF Obstacle, Making, AddsName
  <2>3. PICK e, s : /\ Answer(t, e, s, {}) /\ base' = b
                    /\ e = IF Exists(b, q.path) THEN 0 ELSE ENOENT
    BY <1>2, <1>21 DEF Getattr
  <2>4. answer'[t].error = e
    BY <2>3 DEF Answer, NamespaceInvariant
  <2> QED
    BY <1>3, <2>1, <2>2, <2>3, <2>4, NothingChanged, InspectingEffect
       DEF Served, AsAsked
<1>22. CASE Opendir(t)
  <2>1. q.op = "readdir" /\ q.op \in Inspecting
    BY <1>22 DEF Opendir, Calls, Inspecting
  <2>2. (Missing(b, q) <=> ~Exists(b, q.path)) /\ Obstacle(b, q)
    BY <1>2, <1>22, <2>1, InspectingEffect DEF Obstacle
  <2>3. Says(t, IF Exists(b, q.path) THEN ENOTDIR ELSE ENOENT)
    BY <1>2, <1>22 DEF Opendir
  <2> QED
    BY <1>3, <2>1, <2>2, <2>3, SaidIsServed
<1> QED
  BY <1>4, <1>5, <1>6, <1>7, <1>8, <1>9, <1>10, <1>11, <1>12, <1>13,
     <1>14, <1>15, <1>16, <1>17, <1>18, <1>19, <1>20, <1>21, <1>22 DEF
     Call

LEMMA CallKeeps ==
  ASSUME NamespaceInvariant, Watch, NEW t \in Threads, Call(t)
  PROVE  NamespaceInvariant'
<1>1. CASE Opendir(t) /\ IsDir(base, Full(t))
  BY <1>1, OpendirKeeps
<1>2. CASE ~(Opendir(t) /\ IsDir(base, Full(t)))
  <2>1. Served(t)
    BY <1>2, CallIsAsAsked
  <2>2. PICK e, s : Answer(t, e, s, {})
    BY <2>1 DEF Served
  <2>3. at[t] = "call"
    BY <1>2 DEF Call, Mkdir, Mknod, Symlink, Create, Rmdir, UnlinkFile,
         RenameFile, LinkFile, Readlink, Truncate, Chmod, Chown, Access, Statfs,
         Utimens, Listxattr, Getxattr, Xattr, Getattr, Opendir, Passes, Calls
  <2>4. request[t] \in Request /\ IsBase(base)
    BY <2>3 DEF NamespaceInvariant, Buffered, TypeOK
  <2>5. IsBase(base')
    BY <2>1, <2>4, DirectIsBase DEF Served
  <2> QED
    BY <2>2, <2>5, AnswerKeeps
<1> QED
  BY <1>1, <1>2

\* Inside an archive, and at the end of a listing, the base is left alone.
LEMMA EndKeeps ==
  ASSUME NamespaceInvariant, Watch, NEW t \in Threads,
         \/ Refuse(t) \/ GetattrInside(t) \/ ReaddirInside(t) \/ AccessInside(t)
         \/ Closedir(t)
  PROVE  /\ NamespaceInvariant'
         /\ at[t] \in {"inside", "listing"}
         /\ \E e, s, n : Answer(t, e, s, n)
<1>1. /\ base' = base
      /\ at[t] \in {"inside", "listing"}
      /\ \E e, s, n : Answer(t, e, s, n)
  <2>1. ASSUME Refuse(t) \/ ReaddirInside(t)
        PROVE  base' = base /\ at[t] = "inside" /\ \E e, s, n : Answer(t, e, s, n)
    BY <2>1 DEF Refuse, ReaddirInside, Inside, Says
  <2>2. ASSUME AccessInside(t)
        PROVE  base' = base /\ at[t] = "inside" /\ \E e, s, n : Answer(t, e, s, n)
    BY <2>2 DEF AccessInside, Inside, Says
  <2>3. ASSUME GetattrInside(t)
        PROVE  base' = base /\ at[t] = "inside" /\ \E e, s, n : Answer(t, e, s, n)
    BY <2>3 DEF GetattrInside, Inside, Says
  <2>4. ASSUME Closedir(t)
        PROVE  base' = base /\ at[t] = "listing" /\ \E e, s, n : Answer(t, e, s, n)
    BY <2>4 DEF Closedir
  <2> QED
    BY <2>1, <2>2, <2>3, <2>4
<1>2. IsBase(base')
  BY <1>1 DEF NamespaceInvariant, TypeOK
<1>3. NamespaceInvariant'
  <2>1. PICK e, s, n : Answer(t, e, s, n)
    BY <1>1
  <2> QED
    BY <1>2, <2>1, AnswerKeeps
<1> QED
  BY <1>1, <1>3

LEMMA InitKeeps == Init => NamespaceInvariant
<1> SUFFICES ASSUME Init PROVE NamespaceInvariant
  OBVIOUS
<1>1. /\ NoRequest \in Request \cup {NoRequest}
      /\ Buffers \in [fullpath : Path, new_fullpath : Path, archivepath : Path]
  BY DEF Buffers, Path
<1>2. IsBase(base)
  BY NamespaceAssumption DEF Init
<1>3. TypeOK
  BY <1>1, <1>2 DEF Init, TypeOK
<1>4. \A t \in Threads : Buffered(t) /\ SearchInv(t)
  BY DEF Init, Buffered, SearchInv
<1> QED
  BY <1>3, <1>4 DEF Init, NamespaceInvariant

LEMMA NextKeeps == NamespaceInvariant /\ [Next]_vars => NamespaceInvariant'
<1> SUFFICES ASSUME NamespaceInvariant, [Next]_vars PROVE NamespaceInvariant'
  OBVIOUS
<1>1. CASE UNCHANGED vars
  <2>1. TypeOK' /\ DOMAIN answer' = Threads
    BY <1>1 DEF vars, NamespaceInvariant, TypeOK
  <2>2. ASSUME NEW t \in Threads PROVE Buffered(t)' /\ SearchInv(t)'
    <3>1. Buffered(t) /\ SearchInv(t)
      BY DEF NamespaceInvariant
    <3>2. Buffered(t)'
      BY <1>1, <3>1 DEF vars, Buffered, Full, NewFull, Context
    <3>3. InsideFor(t) => InsideFor(t)'
      BY <1>1 DEF vars, InsideFor, Context
    <3>4. SearchInv(t)'
      BY <1>1, <3>1, <3>3 DEF vars, SearchInv, Seen, AllSeen
    <3> QED
      BY <3>2, <3>4
  <2> QED
    BY <2>1, <2>2 DEF NamespaceInvariant
<1>2. CASE Next
  <2>1. Watch
    BY <1>2 DEF Next
  <2>2. ASSUME NEW t \in Threads, NEW q \in Requests[t], Begin(t, q)
        PROVE  NamespaceInvariant'
    BY <2>1, <2>2, BeginKeeps
  <2>3. ASSUME NEW t \in Threads, TryNext(t) \/ LeadsInside(t) \/ LeadsToBase(t)
        PROVE  NamespaceInvariant'
    BY <2>1, <2>3, TryNextKeeps, LeadsInsideKeeps, LeadsToBaseKeeps
  <2>4. ASSUME NEW t \in Threads,
               \/ Refuse(t) \/ GetattrInside(t) \/ ReaddirInside(t)
               \/ AccessInside(t) \/ Closedir(t)
        PROVE  NamespaceInvariant'
    BY <2>1, <2>4, EndKeeps
  <2>5. ASSUME NEW t \in Threads, Call(t) PROVE NamespaceInvariant'
    BY <2>1, <2>5, CallKeeps
  <2>6. ASSUME NEW t \in Threads, FillEntry(t) PROVE NamespaceInvariant'
    BY <2>1, <2>6, FillEntryKeeps
  <2>7. ASSUME NEW q \in Outside, Other(q) PROVE NamespaceInvariant'
    BY <2>1, <2>7, OtherKeeps
  <2> QED
    BY <1>2, <2>2, <2>3, <2>4, <2>5, <2>6, <2>7 DEF Next, Step
<1> QED
  BY <1>1, <1>2

LEMMA Inductive == Spec => []NamespaceInvariant
<1> QED
  BY InitKeeps, NextKeeps, PTL DEF Spec

-----------------------------------------------------------------------------
(* The theorems.                                                           *)

\* The base file system stays one, and every thread's buffers, position in its
\* search and lists are of their types.
THEOREM TypeCorrect == Spec => []TypeOK
<1>1. NamespaceInvariant => TypeOK
  BY DEF NamespaceInvariant
<1> QED
  BY <1>1, Inductive, PTL

\* A handler that makes its call on the base path has found no place where the
\* path was behind a regular file all the time since the request came.
THEOREM NoCallBehindAnArchive == Spec => []PassedOnlyOutside
<1>1. NamespaceInvariant => PassedOnlyOutside
  BY DEF NamespaceInvariant, SearchInv, PassedOnlyOutside
<1> QED
  BY <1>1, Inductive, PTL

\* A handler refuses, or goes on inside an archive, only for a place of its own
\* path that was behind a regular file at some time since the request came.
THEOREM ArchiveOfThePath == Spec => []RefusedOnlyInside
<1>1. NamespaceInvariant => RefusedOnlyInside
  BY DEF NamespaceInvariant, SearchInv, InsideFor, RefusedOnlyInside
<1> QED
  BY <1>1, Inductive, PTL

LEMMA CallEnds ==
  ASSUME NamespaceInvariant, Next, NEW t \in Threads,
         at[t] = "call", at'[t] = "idle"
  PROVE  Call(t)
<1>1. at \in [Threads -> {"idle", "search", "search_new", "inside", "call",
                          "listing"}]
  BY DEF NamespaceInvariant, TypeOK
<1>2. ASSUME NEW u \in Threads, NEW q \in Requests[u], Begin(u, q) PROVE FALSE
  BY <1>1, <1>2 DEF Begin, Goto
<1>3. ASSUME NEW u \in Threads,
             TryNext(u) \/ LeadsInside(u) \/ LeadsToBase(u) \/ FillEntry(u)
      PROVE  FALSE
  BY <1>1, <1>3 DEF TryNext, LeadsInside, LeadsToBase, FillEntry, Searching, Goto
<1>4. Watch
  BY DEF Next
<1>5. ASSUME NEW u \in Threads,
             \/ Refuse(u) \/ GetattrInside(u) \/ ReaddirInside(u)
             \/ AccessInside(u) \/ Closedir(u)
      PROVE  FALSE
  <2>1. at[u] \in {"inside", "listing"} /\ \E e, s, n : Answer(u, e, s, n)
    BY <1>4, <1>5, EndKeeps
  <2> QED
    BY <1>1, <2>1 DEF Answer, Goto
<1>6. ASSUME NEW u \in Threads, Call(u) PROVE u = t
  <2>1. CASE Opendir(u)
    <3>1. \/ at' = [at EXCEPT ![u] = "listing"]
          \/ at' = [at EXCEPT ![u] = "idle"]
      BY <2>1 DEF Opendir, Says, Answer, Goto
    <3> QED
      BY <1>1, <3>1
  <2>2. CASE ~Opendir(u)
    <3>1. \E e, s : Answer(u, e, s, {})
      BY <1>6, <2>2, CallIsAsAsked DEF Served
    <3> QED
      BY <1>1, <3>1 DEF Answer, Goto
  <2> QED
    BY <2>1, <2>2
<1>7. ASSUME NEW q \in Outside, Other(q) PROVE FALSE
  BY <1>7 DEF Other
<1> QED
  BY <1>2, <1>3, <1>5, <1>6, <1>7 DEF Next, Step

\* Each call does to the base file system, and answers, what a program that
\* called it itself was promised for the request; where the code alters that, it
\* still stays with what the request was about.
THEOREM EachCallAsAsked == Spec => CallsAsAsked
<1> DEFINE Promised ==
      \A t \in Threads :
        LET q == request[t]
        IN  at[t] = "call" /\ at'[t] = "idle" =>
              /\ Confined(base, base', q)
              /\ ~Altered(base, q) =>
                   AsAsked(base, base', q, answer'[t].error)
<1>1. ASSUME NamespaceInvariant, Next, NEW t \in Threads,
             at[t] = "call", at'[t] = "idle"
      PROVE  Served(t)
  <2>1. Call(t)
    BY <1>1, CallEnds
  <2>2. ~(Opendir(t) /\ IsDir(base, Full(t)))
    <3> SUFFICES ASSUME Opendir(t), IsDir(base, Full(t)) PROVE FALSE
      OBVIOUS
    <3>1. at' = [at EXCEPT ![t] = "listing"]
      BY DEF Opendir, Goto
    <3>2. at \in [Threads -> {"idle", "search", "search_new", "inside", "call",
                              "listing"}]
      BY <1>1 DEF NamespaceInvariant, TypeOK
    <3> QED
      BY <1>1, <3>1, <3>2
  <2> QED
    BY <1>1, <2>1, <2>2, CallIsAsAsked
<1>2. NamespaceInvariant /\ [Next]_vars => [Promised]_vars
  BY <1>1 DEF Served
<1> QED
  BY <1>2, Inductive, PTL DEF Spec, CallsAsAsked

-----------------------------------------------------------------------------
(* Inode numbers.                                                          *)

\* Two numbers with different upper halves are apart,
LEMMA HalvesApart ==
  ASSUME NEW m \in Nat, NEW n \in Nat, m < n, NEW i \in 0 .. HalfWord - 1,
         NEW j \in Nat
  PROVE  m * HalfWord + i < n * HalfWord + j
<1>1. HalfWord \in Nat \ {0}
  BY NamespaceAssumption
<1>2. (m + 1) * HalfWord <= n * HalfWord
  BY <1>1
<1>3. (m + 1) * HalfWord = m * HalfWord + HalfWord
  BY <1>1
<1>4. m * HalfWord \in Nat /\ n * HalfWord \in Nat
  BY <1>1
<1> QED
  BY <1>1, <1>2, <1>3, <1>4

\* and one number has one pair of halves.
LEMMA HalvesUnique ==
  ASSUME NEW m \in Nat, NEW n \in Nat, NEW i \in 0 .. HalfWord - 1,
         NEW j \in 0 .. HalfWord - 1
  PROVE  m * HalfWord + i = n * HalfWord + j <=> m = n /\ i = j
<1>1. HalfWord \in Nat \ {0} /\ m * HalfWord \in Nat /\ n * HalfWord \in Nat
  BY NamespaceAssumption
<1>2. CASE m = n
  BY <1>1, <1>2
<1>3. CASE m < n
  <2>1. m * HalfWord + i < n * HalfWord + j
    BY <1>1, <1>3, HalvesApart
  <2> QED
    BY <1>1, <1>3, <2>1
<1>4. CASE n < m
  <2>1. n * HalfWord + j < m * HalfWord + i
    BY <1>1, <1>4, HalvesApart
  <2> QED
    BY <1>1, <1>4, <2>1
<1> QED
  BY <1>2, <1>3, <1>4

\* Division by half a word.
LEMMA Halved ==
  ASSUME NEW n \in Nat
  PROVE  /\ n \div HalfWord \in Nat
         /\ n % HalfWord \in 0 .. HalfWord - 1
         /\ n = (n \div HalfWord) * HalfWord + (n % HalfWord)
<1>1. HalfWord \in Nat \ {0}
  BY NamespaceAssumption
<1>2. \A h \in Nat \ {0} : /\ n \div h \in Nat
                          /\ n % h \in 0 .. h - 1
                          /\ n = h * (n \div h) + (n % h)
  OBVIOUS
<1>3. n \div HalfWord \in Nat /\ n % HalfWord \in 0 .. HalfWord - 1
  BY <1>1, <1>2
<1>4. HalfWord * (n \div HalfWord) = (n \div HalfWord) * HalfWord
  BY <1>1, <1>3
<1> QED
  BY <1>1, <1>2, <1>3, <1>4

\* What is over a word is cut.
LEMMA Cut ==
  ASSUME NEW w \in Nat \ {0}, NEW a \in Nat, NEW x \in 0 .. w - 1
  PROVE  (a * w + x) % w = x
<1> DEFINE y == a * w + x
<1>1. a * w \in Nat
  OBVIOUS
<1>2. y \in Nat
  BY <1>1
<1>3. y = w * (y \div w) + (y % w) /\ y % w \in 0 .. w - 1 /\ y \div w \in Nat
  BY <1>2
<1> DEFINE k == y \div w
           r == y % w
<1>4. k = a
  <2> HIDE DEF k, r
  <2>1. w * k + r = a * w + x /\ k \in Nat /\ r \in 0 .. w - 1
    BY <1>3 DEF k, r
  <2>2. CASE k < a
    <3>1. (k + 1) * w <= a * w /\ (k + 1) * w = w * k + w
      BY <2>1, <2>2
    <3> QED
      BY <1>1, <2>1, <3>1
  <2>3. CASE a < k
    <3>1. (a + 1) * w <= w * k /\ (a + 1) * w = a * w + w
      BY <2>1, <2>3
    <3>2. w * k \in Nat
      BY <2>1
    <3> QED
      BY <1>1, <2>1, <3>1, <3>2
  <2> QED
    BY <2>1, <2>2, <2>3
<1> HIDE DEF y, k
<1>5. w * a = a * w
  OBVIOUS
<1> QED
  BY <1>1, <1>3, <1>4, <1>5 DEF y, k

\* Composed numbers are made of the lower half of the base's inode and rel.
LEMMA NumberHalves ==
  ASSUME NEW n \in Inodes, NEW i \in 0 .. HalfWord - 1
  PROVE  /\ Halves(n, i)[1] \in Nat
         /\ Halves(n, i)[2] \in 0 .. HalfWord - 1
         /\ Number(n, i) = Halves(n, i)[1] * HalfWord + Halves(n, i)[2]
<1>1. HalfWord \in Nat \ {0} /\ n \in Nat
  BY NamespaceAssumption
<1>2. CASE i = 0
  BY <1>1, <1>2, Halved DEF Halves, Number
<1>3. CASE i # 0
  <2>1. PICK a \in Nat, l \in 0 .. HalfWord - 1 :
          n = a * HalfWord + l /\ l = n % HalfWord
    BY <1>1, Halved
  <2>2. i % HalfWord = i
    BY <1>1
  <2> DEFINE word == HalfWord * HalfWord
             low == l * HalfWord + i
  <2>3. word \in Nat \ {0}
    BY <1>1
  <2>4. low \in 0 .. word - 1
    <3>1. l * HalfWord <= (HalfWord - 1) * HalfWord /\ l * HalfWord \in Nat
      BY <1>1
    <3>2. (HalfWord - 1) * HalfWord = HalfWord * HalfWord - HalfWord
      BY <1>1
    <3> QED
      BY <1>1, <2>3, <3>1, <3>2
  <2>5. n * HalfWord = a * word + l * HalfWord
    <3>1. (a * HalfWord + l) * HalfWord =
            (a * HalfWord) * HalfWord + l * HalfWord
      BY <1>1
    <3>2. (a * HalfWord) * HalfWord = a * (HalfWord * HalfWord)
      BY <1>1
    <3> QED
      BY <2>1, <3>1, <3>2
  <2>6. i + n * HalfWord = a * word + low
    <3>1. a * word \in Nat /\ l * HalfWord \in Nat
      BY <1>1, <2>3
    <3> QED
      BY <2>5, <3>1
  <2>7. (i + n * HalfWord) % word = low
    <3> HIDE DEF word, low
    <3> QED
      BY <2>3, <2>4, <2>6, Cut
  <2>8. ComposeIno(n, i) = l * HalfWord + i
    <3> DEFINE sum == i + n * HalfWord
    <3>1. ComposeIno(n, i) = sum % word
      BY <2>2 DEF ComposeIno
    <3> HIDE DEF sum
    <3> QED
      BY <2>7, <3>1 DEF sum
  <2>9. Number(n, i) = l * HalfWord + i
    BY <1>3, <2>8 DEF Number
  <2>10. Halves(n, i) = <<l, i>>
    BY <1>3, <2>1 DEF Halves
  <2> QED
    BY <1>1, <2>9, <2>10
<1> QED
  BY <1>2, <1>3

\* So two of them agree exactly if these do.
LEMMA NumbersDistinct ==
  ASSUME NEW m \in Inodes, NEW n \in Inodes,
         NEW i \in 0 .. HalfWord - 1, NEW j \in 0 .. HalfWord - 1
  PROVE  /\ Number(m, i) = Number(n, j) <=> Halves(m, i) = Halves(n, j)
         /\ m < HalfWord /\ n < HalfWord /\ Number(m, i) = Number(n, j) =>
              m = n /\ i = j
<1>1. HalfWord \in Nat \ {0} /\ m \in Nat \ {0} /\ n \in Nat \ {0}
  BY NamespaceAssumption
<1>2. /\ Halves(m, i) = <<Halves(m, i)[1], Halves(m, i)[2]>>
      /\ Halves(n, j) = <<Halves(n, j)[1], Halves(n, j)[2]>>
  BY DEF Halves
<1>3. Number(m, i) = Number(n, j) <=>
        Halves(m, i)[1] = Halves(n, j)[1] /\ Halves(m, i)[2] = Halves(n, j)[2]
  <2> DEFINE a == Halves(m, i)[1]
             c == Halves(m, i)[2]
             d == Halves(n, j)[1]
             e == Halves(n, j)[2]
  <2>1. /\ a \in Nat /\ c \in 0 .. HalfWord - 1
        /\ Number(m, i) = a * HalfWord + c
    BY NumberHalves
  <2>2. /\ d \in Nat /\ e \in 0 .. HalfWord - 1
        /\ Number(n, j) = d * HalfWord + e
    BY NumberHalves
  <2> HIDE DEF a, c, d, e
  <2>3. a * HalfWord + c = d * HalfWord + e <=> a = d /\ c = e
    BY <2>1, <2>2, HalvesUnique
  <2> QED
    BY <2>1, <2>2, <2>3 DEF a, c, d, e
<1>4. Number(m, i) = Number(n, j) <=> Halves(m, i) = Halves(n, j)
  BY <1>2, <1>3
<1>5. ASSUME m < HalfWord, n < HalfWord, Number(m, i) = Number(n, j)
      PROVE  m = n /\ i = j
  <2>1. \A h \in Nat \ {0} : \A x \in 0 .. h - 1 : x \div h = 0 /\ x % h = x
    OBVIOUS
  <2>2. /\ m \div HalfWord = 0 /\ m % HalfWord = m
        /\ n \div HalfWord = 0 /\ n % HalfWord = n
    BY <1>1, <1>5, <2>1
  <2>3. /\ Halves(m, i)[1] = Halves(n, j)[1]
        /\ Halves(m, i)[2] = Halves(n, j)[2]
    BY <1>3, <1>5
  <2> QED
    BY <1>1, <2>2, <2>3 DEF Halves
<1> QED
  BY <1>4, <1>5

\* For every width of the word and all inode numbers of the base: objects of
\* the mount share a number exactly if its halves agree, which none do as long
\* as the base's numbers fit in half a word.
THEOREM InodesDistinct == Spec => []DistinctInodes
<1>1. NamespaceInvariant => DistinctInodes
  <2>1. NamespaceInvariant => DOMAIN base.node \subseteq Inodes
    BY DEF NamespaceInvariant, TypeOK, IsBase
  <2> QED
    BY <2>1, NumbersDistinct DEF DistinctInodes
<1> QED
  BY <1>1, Inductive, PTL

-----------------------------------------------------------------------------
(* One tree: what getattr and readdir say of a base that stays the same.   *)

EntryOf(b, p) == [path |-> p, stat |-> StatOf(b, p)]

\* As long as the base stays the same, the places behind a regular file are
\* the ones that always were, and the only ones that ever were.
Untouched(t) ==
  at[t] # "idle" /\ still[t] =>
    /\ always[t] = Behind(base, request[t])
    /\ ever[t] = Behind(base, request[t])

\* Entries that are not read yet, and those that readdir has passed on.
ListedSoFar(b, dir, rest, names) ==
  /\ \A p \in Entries(b, dir) :
       \/ EntryOf(b, p) \in rest
       \/ /\ EntryOf(b, p) \in names
          /\ Identified(b, p) => ContentsEntry(EntryOf(b, p)) \in names
  /\ \A e \in rest : \E p \in Entries(b, dir) : e = EntryOf(b, p)
  /\ \A e \in names : \E p \in Entries(b, dir) :
       \/ e = EntryOf(b, p)
       \/ Identified(b, p) /\ e = ContentsEntry(EntryOf(b, p))

Listing(t) ==
  /\ at[t] # "listing" => filled[t] = {}
  /\ at[t] = "listing" =>
       /\ request[t].op = "readdir"
       /\ still[t] =>
            ListedSoFar(base, request[t].path, todo[t], filled[t])

TreeInvariant ==
  NamespaceInvariant /\ \A t \in Threads : Untouched(t) /\ Listing(t)

\* What a step can be to a thread.
Unmoved(t) ==
  /\ at'[t] = at[t]
  /\ request'[t] = request[t]
  /\ todo'[t] = todo[t]
  /\ filled'[t] = filled[t]
Ended(t) == at'[t] = "idle" /\ filled'[t] = {}
Moves(t) ==
  /\ at[t] # "listing" /\ at'[t] # "listing"
  /\ filled'[t] = filled[t]
  /\ at[t] # "idle" => request'[t] = request[t]

\* The steps that answer.
Ends(t) ==
  \/ Refuse(t) \/ GetattrInside(t) \/ ReaddirInside(t) \/ AccessInside(t)
  \/ Closedir(t)
  \/ Call(t) /\ ~(Opendir(t) /\ IsDir(base, Full(t)))

LEMMA EndsAnswers ==
  ASSUME NamespaceInvariant, Watch, NEW t \in Threads, Ends(t)
  PROVE  \E e, s, n : Answer(t, e, s, n)
<1>1. CASE Call(t) /\ ~Opendir(t)
  BY <1>1, CallIsAsAsked DEF Served
<1>2. CASE Opendir(t) /\ ~IsDir(base, Full(t))
  BY <1>2 DEF Opendir, Says
<1> QED
  BY <1>1, <1>2, EndKeeps DEF Ends

LEMMA AnswerShape ==
  ASSUME NamespaceInvariant, NEW t \in Threads, NEW u \in Threads,
         NEW e, NEW s, NEW n, Answer(u, e, s, n)
  PROVE  (u = t => Ended(t)) /\ (u # t => Unmoved(t))
  BY DEF Answer, Goto, NamespaceInvariant, TypeOK, Ended, Unmoved

LEMMA MoveShape ==
  ASSUME NamespaceInvariant, NEW t \in Threads, NEW u \in Threads,
         \/ \E q \in Requests[u] : Begin(u, q)
         \/ TryNext(u) \/ LeadsInside(u) \/ LeadsToBase(u)
  PROVE  (u = t => Moves(t)) /\ (u # t => Unmoved(t))
<1>1. /\ at \in [Threads -> {"idle", "search", "search_new", "inside", "call",
                             "listing"}]
      /\ request \in [Threads -> Request \cup {NoRequest}]
  BY DEF NamespaceInvariant, TypeOK
<1>2. ASSUME NEW q \in Requests[u], Begin(u, q)
      PROVE  (u = t => Moves(t)) /\ (u # t => Unmoved(t))
  BY <1>1, <1>2 DEF Begin, Goto, Moves, Unmoved
<1>3. CASE TryNext(u)
  BY <1>1, <1>3 DEF TryNext, Searching, Moves, Unmoved
<1>4. CASE LeadsInside(u)
  BY <1>1, <1>4 DEF LeadsInside, Searching, Goto, Moves, Unmoved
<1>5. CASE LeadsToBase(u)
  BY <1>1, <1>5 DEF LeadsToBase, Searching, Goto, Moves, Unmoved
<1> QED
  BY <1>2, <1>3, <1>4, <1>5

\* The rest of a listing: its start, and one entry of it.
ListingStarts(t) ==
  /\ at'[t] = "listing"
  /\ at[t] = "call" /\ request[t].op = "readdir"
  /\ UNCHANGED base
  /\ request'[t] = request[t] /\ filled'[t] = filled[t]
  /\ todo'[t] = {EntryOf(base, p) : p \in Entries(base, Full(t))}
ListingGoesOn(t) ==
  /\ at[t] = "listing" /\ at'[t] = "listing"
  /\ UNCHANGED base
  /\ request'[t] = request[t]
  /\ \E e \in todo[t] :
       /\ todo'[t] = todo[t] \ {e}
       /\ filled'[t] = filled[t] \cup {e} \cup
            IF Identified(base, e.path) THEN {ContentsEntry(e)} ELSE {}

LEMMA ListingShape ==
  ASSUME NamespaceInvariant, NEW t \in Threads, NEW u \in Threads,
         \/ Opendir(u) /\ IsDir(base, Full(u))
         \/ FillEntry(u)
  PROVE  /\ u = t => ListingStarts(t) \/ ListingGoesOn(t)
         /\ u # t => Unmoved(t)
<1>1. /\ at \in [Threads -> {"idle", "search", "search_new", "inside", "call",
                             "listing"}]
      /\ todo \in [Threads -> SUBSET Entry]
      /\ filled \in [Threads -> SUBSET Entry]
  BY DEF NamespaceInvariant, TypeOK
<1>2. CASE Opendir(u) /\ IsDir(base, Full(u))
  BY <1>1, <1>2 DEF Opendir, Calls, Goto, ListingStarts, Unmoved, EntryOf
<1>3. CASE FillEntry(u)
  <2>1. PICK e \in todo[u] :
          /\ todo' = [todo EXCEPT ![u] = @ \ {e}]
          /\ filled' = [filled EXCEPT ![u] = @ \cup {e} \cup
               IF Identified(base, e.path) THEN {ContentsEntry(e)} ELSE {}]
    BY <1>3 DEF FillEntry
  <2>2. at[u] = "listing" /\ UNCHANGED <<base, at, request>>
    BY <1>3 DEF FillEntry
  <2>3. u # t => Unmoved(t)
    BY <1>1, <2>1, <2>2 DEF Unmoved
  <2>4. /\ todo'[u] = todo[u] \ {e}
        /\ filled'[u] = filled[u] \cup {e} \cup
             IF Identified(base, e.path) THEN {ContentsEntry(e)} ELSE {}
    BY <1>1, <2>1
  <2> QED
    BY <2>2, <2>3, <2>4 DEF ListingGoesOn
<1> QED
  BY <1>2, <1>3

LEMMA Shapes ==
  ASSUME NamespaceInvariant, Next, NEW t \in Threads
  PROVE  \/ Unmoved(t) \/ Ended(t) \/ Moves(t)
         \/ ListingStarts(t) \/ ListingGoesOn(t)
<1>1. Watch
  BY DEF Next
<1>2. ASSUME NEW u \in Threads, Ends(u) PROVE Unmoved(t) \/ Ended(t)
  <2>1. PICK e, s, n : Answer(u, e, s, n)
    BY <1>1, <1>2, EndsAnswers
  <2> QED
    BY <2>1, AnswerShape
<1>3. ASSUME NEW q \in Outside, Other(q) PROVE Unmoved(t)
  BY <1>3 DEF Other, Unmoved
<1>4. \/ \E u \in Threads :
           \/ Ends(u)
           \/ \E q \in Requests[u] : Begin(u, q)
           \/ TryNext(u) \/ LeadsInside(u) \/ LeadsToBase(u)
           \/ Opendir(u) /\ IsDir(base, Full(u))
           \/ FillEntry(u)
      \/ \E q \in Outside : Other(q)
  BY DEF Next, Step, Ends
<1> QED
  BY <1>2, <1>3, <1>4, MoveShape, ListingShape

LEMMA UntouchedKeeps ==
  ASSUME NamespaceInvariant, Next, NEW t \in Threads, Untouched(t)
  PROVE  Untouched(t)'
<1> SUFFICES ASSUME at'[t] # "idle", still'[t]
             PROVE  /\ always'[t] = Behind(base', request'[t])
                    /\ ever'[t] = Behind(base', request'[t])
  BY DEF Untouched
<1>1. Watch
  BY DEF Next
<1>2. CASE at[t] = "idle"
  BY <1>1, <1>2, WatchBegins
<1>3. CASE at[t] # "idle"
  <2>1. still[t] /\ base' = base
    BY <1>1, <1>3 DEF Watch
  <2>2. request'[t] = request[t]
    BY <1>3, Shapes
         DEF Unmoved, Ended, Moves, ListingStarts, ListingGoesOn
  <2>3. /\ always'[t] = always[t] \cap Behind(base', request'[t])
        /\ ever'[t] = ever[t] \cup Behind(base', request'[t])
    BY <1>1, <1>3 DEF Watch
  <2>4. Behind(base', request'[t]) = Behind(base, request[t])
    BY <2>1, <2>2
  <2> QED
    BY <1>3, <2>1, <2>3, <2>4 DEF Untouched
<1> QED
  BY <1>2, <1>3

\* One more entry, and the contents of it if it is an archive.
LEMMA OneMoreListed ==
  ASSUME NEW b, NEW dir, NEW rest, NEW names, NEW e \in rest,
         ListedSoFar(b, dir, rest, names)
  PROVE  ListedSoFar(b, dir, rest \ {e}, names \cup {e} \cup
           IF Identified(b, e.path) THEN {ContentsEntry(e)} ELSE {})
<1> DEFINE more == names \cup {e} \cup
             IF Identified(b, e.path) THEN {ContentsEntry(e)} ELSE {}
<1>1. PICK d \in Entries(b, dir) : e = EntryOf(b, d)
  BY DEF ListedSoFar
<1>2. e.path = d
  BY <1>1 DEF EntryOf
<1>3. /\ names \subseteq more /\ e \in more
      /\ Identified(b, d) => ContentsEntry(e) \in more
  BY <1>2
<1>4. \A x \in more :
        \/ x \in names
        \/ x = e
        \/ Identified(b, d) /\ x = ContentsEntry(e)
  BY <1>2
<1> HIDE DEF more
<1>5. ASSUME NEW p \in Entries(b, dir)
      PROVE  \/ EntryOf(b, p) \in rest \ {e}
             \/ /\ EntryOf(b, p) \in more
                /\ Identified(b, p) => ContentsEntry(EntryOf(b, p)) \in more
  <2>1. EntryOf(b, p) = e => p = d
    BY <1>2 DEF EntryOf
  <2> QED
    BY <2>1, <1>1, <1>3 DEF ListedSoFar
<1>6. \A x \in rest \ {e} : \E p \in Entries(b, dir) : x = EntryOf(b, p)
  BY DEF ListedSoFar
<1>7. ASSUME NEW x \in more
      PROVE  \E p \in Entries(b, dir) :
               \/ x = EntryOf(b, p)
               \/ Identified(b, p) /\ x = ContentsEntry(EntryOf(b, p))
  BY <1>1, <1>4 DEF ListedSoFar
<1>8. ListedSoFar(b, dir, rest \ {e}, more)
  BY <1>5, <1>6, <1>7 DEF ListedSoFar
<1> QED
  BY <1>8 DEF more

LEMMA ListingKeeps ==
  ASSUME NamespaceInvariant, Next, NEW t \in Threads, Listing(t)
  PROVE  Listing(t)'
<1>1. Watch
  BY DEF Next
<1>2. at[t] = "listing" /\ at'[t] = "listing" =>
        (still'[t] => still[t] /\ base' = base)
  BY <1>1 DEF Watch
<1>3. CASE Unmoved(t)
  <2>1. CASE at[t] # "listing"
    BY <1>3, <2>1 DEF Unmoved, Listing
  <2>2. CASE at[t] = "listing"
    BY <1>2, <1>3, <2>2 DEF Unmoved, Listing
  <2> QED
    BY <2>1, <2>2
<1>4. CASE Ended(t)
  BY <1>4 DEF Ended, Listing
<1>5. CASE Moves(t)
  BY <1>5 DEF Moves, Listing
<1>6. CASE ListingStarts(t)
  <2>1. filled'[t] = {}
    BY <1>6 DEF ListingStarts, Listing
  <2>2. Full(t) = request[t].path
    BY <1>6 DEF ListingStarts, NamespaceInvariant, Buffered
  <2>3. ListedSoFar(base, request[t].path, todo'[t], filled'[t])
    BY <1>6, <2>1, <2>2 DEF ListingStarts, ListedSoFar
  <2> QED
    BY <1>6, <2>3 DEF ListingStarts, Listing
<1>7. CASE ListingGoesOn(t)
  <2>1. still[t] => ListedSoFar(base, request[t].path, todo'[t], filled'[t])
    BY <1>7, OneMoreListed DEF ListingGoesOn, Listing
  <2>2. still'[t] => ListedSoFar(base', request'[t].path, todo'[t], filled'[t])
    BY <1>2, <1>7, <2>1 DEF ListingGoesOn
  <2> QED
    BY <1>7, <2>2 DEF ListingGoesOn, Listing
<1> QED
  BY <1>3, <1>4, <1>5, <1>6, <1>7, Shapes

LEMMA TreeInductive == Spec => []TreeInvariant
<1>1. Init => TreeInvariant
  BY InitKeeps DEF Init, TreeInvariant, Untouched, Listing
<1>2. TreeInvariant /\ [Next]_vars => TreeInvariant'
  <2> SUFFICES ASSUME TreeInvariant, [Next]_vars PROVE TreeInvariant'
    OBVIOUS
  <2>1. NamespaceInvariant /\ NamespaceInvariant'
    BY NextKeeps DEF TreeInvariant
  <2>2. CASE UNCHANGED vars
    <3>1. ASSUME NEW t \in Threads PROVE Untouched(t)' /\ Listing(t)'
      BY <2>2 DEF vars, TreeInvariant, Untouched, Listing
    <3> QED
      BY <2>1, <3>1 DEF TreeInvariant
  <2>3. CASE Next
    BY <2>1, <2>3, UntouchedKeeps, ListingKeeps DEF TreeInvariant
  <2> QED
    BY <2>2, <2>3
<1> QED
  BY <1>1, <1>2, PTL DEF Spec

-----------------------------------------------------------------------------
(* What a path stands for.                                                 *)

\* The first place behind a regular file decides.
LEMMA LookupInside ==
  ASSUME NEW b, NEW p \in Path, NEW k \in BehindFiles(b, p),
         \A j \in BehindFiles(b, p) : k <= j
  PROVE  Lookup(b, p) = IF RelPath(p, k) = <<>>
                        THEN ContentsStat(b, ArchivePath(p, k))
                        ELSE Stat("member", 0)
<1>1. BehindFiles(b, p) \subseteq Nat
  BY DEF BehindFiles, Occurrences, Path
<1> DEFINE First(i) == \A j \in BehindFiles(b, p) : i <= j
<1>2. \A i \in BehindFiles(b, p) : First(i) => i = k
  BY <1>1
<1>3. (CHOOSE i \in BehindFiles(b, p) : First(i)) = k
  BY <1>2
<1> QED
  BY <1>3 DEF Lookup

LEMMA LookupOutside ==
  ASSUME NEW b, NEW p, BehindFiles(b, p) = {}, Exists(b, p)
  PROVE  Lookup(b, p) = StatOf(b, p)
  BY DEF Lookup

\* The contents of an archive, by its name with the suffix.
LEMMA LookupContents ==
  ASSUME NEW b, NEW p \in Path, Reachable(b, p), Regular(b, p)
  PROVE  Lookup(b, PeepName(p)) = ContentsStat(b, p)
<1> DEFINE q == PeepName(p)
           k == Len(p) + 1
<1>1. /\ p \in Seq(Words \cup {Suffix, Slash})
      /\ q \in Path /\ Len(q) = k /\ q[k] = Suffix
      /\ \A i \in 1 .. Len(p) : q[i] = p[i]
  BY DEF PeepName, Path
<1>2. ASSUME NEW i \in 1 .. k PROVE ArchivePath(q, i) = SubSeq(p, 1, i - 1)
  BY <1>1, <1>2 DEF ArchivePath, PeepName, Path
<1>3. ArchivePath(q, k) = p
  BY <1>1, <1>2
<1>4. k \in BehindFiles(b, q)
  BY <1>1, <1>3 DEF BehindFiles, Occurrences
<1>5. ASSUME NEW j \in BehindFiles(b, q), j # k PROVE FALSE
  <2>1. j \in 1 .. Len(p) /\ q[j] = Suffix
    BY <1>1, <1>5 DEF BehindFiles, Occurrences
  <2>2. ArchivePath(q, j) = ArchivePath(p, j)
    BY <1>2, <2>1 DEF ArchivePath
  <2>3. j \in BehindFiles(b, p)
    BY <1>1, <1>5, <2>1, <2>2 DEF BehindFiles, Occurrences
  <2> QED
    BY <2>3 DEF Reachable
<1>6. RelPath(q, k) = <<>>
  BY <1>1 DEF RelPath, Path
<1> HIDE DEF q, k
<1>7. k \in Nat
  BY <1>1 DEF k, Path
<1>8. \A j \in BehindFiles(b, q) : k <= j
  BY <1>5, <1>7
<1>9. Lookup(b, q) = ContentsStat(b, p)
  BY <1>1, <1>3, <1>4, <1>6, <1>8, LookupInside
<1> QED
  BY <1>9 DEF q

\* What a listing shows as the contents of an archive.
LEMMA ContentsOfEntry ==
  ASSUME NEW b, NEW p
  PROVE  ContentsEntry(EntryOf(b, p)) =
           [path |-> PeepName(p), stat |-> ContentsStat(b, p)]
  BY DEF ContentsEntry, EntryOf, StatOf, Stat, ContentsStat

LEMMA PeepNameBack ==
  ASSUME NEW p \in Path
  PROVE  ArchivePath(PeepName(p), Len(PeepName(p))) = p
  BY DEF ArchivePath, PeepName, Path

\* A listing that is complete is what the paths stand for.
LEMMA CompleteListing ==
  ASSUME NEW b, IsBase(b), NEW dir, NEW names,
         ListedSoFar(b, dir, {}, names)
  PROVE  /\ \A e \in names : ShownAsFound(b, e)
         /\ \A p \in Entries(b, dir) : ListedIfThere(b, p, names)
<1>1. \A p \in Entries(b, dir) : p \in DOMAIN b.at /\ p \in Path
  BY DEF Entries, IsBase
<1>2. ASSUME NEW e \in names PROVE ShownAsFound(b, e)
  <2>1. PICK p \in Entries(b, dir) :
          \/ e = EntryOf(b, p)
          \/ Identified(b, p) /\ e = ContentsEntry(EntryOf(b, p))
    BY DEF ListedSoFar
  <2>2. CASE e = EntryOf(b, p)
    BY <1>1, <2>2 DEF EntryOf, ShownAsFound, Exists
  <2>3. CASE Identified(b, p) /\ e = ContentsEntry(EntryOf(b, p))
    <3>1. e = [path |-> PeepName(p), stat |-> ContentsStat(b, p)]
      BY <2>3, ContentsOfEntry
    <3>2. ArchivePath(e.path, Len(e.path)) = p
      BY <1>1, <3>1, PeepNameBack
    <3>3. IsKind(b, Follow(b, p), {"archive"})
      BY <2>3 DEF Identified
    <3>4. ~IsKind(b, p, {"link"}) => Regular(b, p)
      BY <3>3 DEF Follow, Regular, IsKind
    <3>5. Reachable(b, p) /\ ~IsKind(b, p, {"link"}) =>
            Lookup(b, e.path) = e.stat
      BY <1>1, <3>1, <3>4, LookupContents
    <3> QED
      BY <3>2, <3>3, <3>5 DEF ShownAsFound
  <2> QED
    BY <2>1, <2>2, <2>3
<1>3. ASSUME NEW p \in Entries(b, dir), Reachable(b, p)
      PROVE  /\ [path |-> p, stat |-> Lookup(b, p)] \in names
             /\ HasContents(b, p) =>
                  [path |-> PeepName(p), stat |-> Lookup(b, PeepName(p))]
                    \in names
  <2>1. /\ EntryOf(b, p) \in names
        /\ Identified(b, p) => ContentsEntry(EntryOf(b, p)) \in names
    BY DEF ListedSoFar
  <2>2. Lookup(b, p) = StatOf(b, p)
    BY <1>1, <1>3, LookupOutside DEF Reachable, Exists
  <2>3. ASSUME HasContents(b, p)
        PROVE  /\ Identified(b, p)
               /\ Lookup(b, PeepName(p)) = ContentsStat(b, p)
    <3>1. Regular(b, p) /\ ~IsKind(b, p, {"link"})
      BY <2>3 DEF HasContents, Regular, IsKind
    <3>2. Identified(b, p)
      BY <2>3, <3>1 DEF HasContents, Identified, Follow
    <3> QED
      BY <1>1, <1>3, <3>1, <3>2, LookupContents
  <2> QED
    BY <2>1, <2>2, <2>3, ContentsOfEntry DEF EntryOf
<1> QED
  BY <1>2, <1>3 DEF ListedIfThere

-----------------------------------------------------------------------------
(* The answers.                                                            *)

\* The paths behind a regular file when the base has stayed the same.
LEMMA StillBehind ==
  ASSUME TreeInvariant, NEW t \in Threads, at[t] # "idle", still[t],
         NEW k \in Occurrences(request[t].path)
  PROVE  /\ k \in BehindFiles(base, request[t].path) <=>
              <<request[t].path, k>> \in always[t]
         /\ k \in BehindFiles(base, request[t].path) <=>
              <<request[t].path, k>> \in ever[t]
<1>1. /\ always[t] = Behind(base, request[t])
      /\ ever[t] = Behind(base, request[t])
  BY DEF TreeInvariant, Untouched
<1>2. <<request[t].path, k>> \in Behind(base, request[t]) <=>
        Regular(base, ArchivePath(request[t].path, k))
  BY OccursBehind
<1> QED
  BY <1>1, <1>2 DEF BehindFiles

LEMMA GetattrSays ==
  ASSUME TreeInvariant, NEW t \in Threads, Getattr(t), still[t]
  PROVE  answer'[t].stat = Lookup(base, request[t].path)
<1> DEFINE p == request[t].path
<1>1. at[t] = "call" /\ request[t].op = "getattr" /\ Full(t) = p
  BY DEF Getattr, Calls, TreeInvariant, NamespaceInvariant, Buffered
<1>2. always[t] = {}
  BY <1>1 DEF TreeInvariant, NamespaceInvariant, SearchInv
<1>3. BehindFiles(base, p) = {}
  BY <1>1, <1>2, StillBehind DEF BehindFiles
<1>4. DOMAIN answer = Threads
  BY DEF TreeInvariant, NamespaceInvariant
<1>5. answer'[t].stat = IF Exists(base, p) THEN StatOf(base, p) ELSE NoStat
  BY <1>1, <1>4 DEF Getattr, Answer
<1> QED
  BY <1>3, <1>5 DEF Lookup

LEMMA GetattrInsideSays ==
  ASSUME TreeInvariant, NEW t \in Threads, GetattrInside(t), still[t]
  PROVE  answer'[t].stat = Lookup(base, request[t].path)
<1> DEFINE p == request[t].path
           k == token[t]
           a == ctx[Context(t)].archivepath
<1>1. /\ at[t] = "inside" /\ request[t].op = "getattr" /\ Full(t) = p
      /\ request[t] \in Request
  BY DEF GetattrInside, Inside, TreeInvariant, NamespaceInvariant, Buffered
<1>2. p \in Path /\ request[t].newpath = TopDir
  BY <1>1 DEF Request
<1>3. InsideFor(t)
  BY <1>1 DEF TreeInvariant, NamespaceInvariant, SearchInv
<1>4. PICK r \in {p, TopDir} :
        /\ <<r, k>> \in ever[t]
        /\ a = ArchivePath(r, k)
        /\ \A j \in 1 .. k - 1 : <<r, j>> \notin always[t]
  BY <1>2, <1>3 DEF InsideFor
<1>5. k \in Occurrences(r)
  <2>1. <<r, k>> \in Behind(base, request[t])
    BY <1>1, <1>4 DEF TreeInvariant, Untouched
  <2> QED
    BY <2>1, BehindOccurs
<1>6. r = p
  <2>1. Occurrences(TopDir) = {}
    BY DEF Occurrences, TopDir
  <2> QED
    BY <1>4, <1>5, <2>1
<1>7. k \in BehindFiles(base, p) /\ a = ArchivePath(p, k)
  BY <1>1, <1>4, <1>5, <1>6, StillBehind
<1>8. ASSUME NEW j \in BehindFiles(base, p) PROVE k <= j
  <2>1. j \in Occurrences(p) /\ j \in Nat \ {0} /\ k \in Nat
    BY <1>2, <1>5, <1>6 DEF BehindFiles, Occurrences, Path
  <2>2. <<p, j>> \in always[t]
    BY <1>1, <2>1, StillBehind
  <2> QED
    BY <1>4, <1>6, <2>1, <2>2
<1>9. Lookup(base, p) = IF RelPath(p, k) = <<>> THEN ContentsStat(base, a)
                        ELSE Stat("member", 0)
  BY <1>2, <1>7, <1>8, LookupInside
<1>10. Exists(base, a)
  BY <1>7 DEF BehindFiles, Regular, IsKind
<1>11. DOMAIN answer = Threads
  BY DEF TreeInvariant, NamespaceInvariant
<1>12. answer'[t].stat = IF RelPath(p, k) = <<>> THEN ContentsStat(base, a)
                         ELSE Stat("member", 0)
  <2>1. \/ RelPath(p, k) = <<>> /\ Answer(t, 0, ContentsStat(base, a), {})
        \/ RelPath(p, k) # <<>> /\ Answer(t, 0, Stat("member", 0), {})
    BY <1>1, <1>10 DEF GetattrInside
  <2> QED
    BY <1>11, <2>1 DEF Answer
<1> QED
  BY <1>9, <1>12

LEMMA ClosedirSays ==
  ASSUME TreeInvariant, NEW t \in Threads, Closedir(t), still[t]
  PROVE  /\ \A e \in answer'[t].names : ShownAsFound(base, e)
         /\ \A p \in Entries(base, request[t].path) :
              ListedIfThere(base, p, answer'[t].names)
<1>1. IsBase(base) /\ DOMAIN answer = Threads
  BY DEF TreeInvariant, NamespaceInvariant, TypeOK
<1>2. answer'[t].names = filled[t]
  BY <1>1 DEF Closedir, Answer
<1>3. ListedSoFar(base, request[t].path, {}, filled[t])
  BY DEF Closedir, TreeInvariant, Listing
<1> QED
  BY <1>1, <1>2, <1>3, CompleteListing

\* A thread's request ends with one of its own steps.
LEMMA OwnEnd ==
  ASSUME NamespaceInvariant, Next, NEW t \in Threads,
         at[t] # "idle", at'[t] = "idle"
  PROVE  Ends(t)
<1>1. Watch
  BY DEF Next
<1>2. ASSUME NEW u \in Threads, Ends(u) PROVE u = t
  <2>1. PICK e, s, n : Answer(u, e, s, n)
    BY <1>1, <1>2, EndsAnswers
  <2> QED
    BY <2>1, AnswerShape DEF Unmoved
<1>3. ASSUME NEW q \in Outside, Other(q) PROVE FALSE
  BY <1>3 DEF Other
<1>4. ASSUME NEW u \in Threads,
             \/ Opendir(u) /\ IsDir(base, Full(u))
             \/ FillEntry(u)
      PROVE  FALSE
  BY <1>4, ListingShape DEF ListingStarts, ListingGoesOn, Unmoved
<1>5. ASSUME NEW u \in Threads,
             \/ \E q \in Requests[u] : Begin(u, q)
             \/ TryNext(u) \/ LeadsInside(u) \/ LeadsToBase(u)
      PROVE  FALSE
  <2>1. at \in [Threads -> {"idle", "search", "search_new", "inside", "call",
                            "listing"}]
    BY DEF NamespaceInvariant, TypeOK
  <2> QED
    BY <1>5, <2>1 DEF Begin, TryNext, LeadsInside, LeadsToBase, Goto
<1> QED
  BY <1>2, <1>3, <1>4, <1>5 DEF Next, Step, Ends

LEMMA EndsAsFound ==
  ASSUME TreeInvariant, Next, NEW t \in Threads,
         at[t] # "idle", at'[t] = "idle", still[t]
  PROVE  /\ request[t].op = "getattr" =>
              answer'[t].stat = Lookup(base, request[t].path)
         /\ at[t] = "listing" =>
              /\ \A e \in answer'[t].names : ShownAsFound(base, e)
              /\ \A p \in Entries(base, request[t].path) :
                   ListedIfThere(base, p, answer'[t].names)
<1>1. Ends(t)
  BY OwnEnd DEF TreeInvariant
<1>2. CASE at[t] = "listing"
  <2>1. request[t].op = "readdir"
    BY <1>2 DEF TreeInvariant, Listing
  <2>2. ~Call(t)
    BY <1>2 DEF Call, Mkdir, Mknod, Symlink, Create, Rmdir, UnlinkFile,
         RenameFile, LinkFile, Readlink, Truncate, Chmod, Chown, Access, Statfs,
         Utimens, Listxattr, Getxattr, Xattr, Getattr, Opendir, Passes, Calls
  <2>3. Closedir(t)
    BY <1>1, <1>2, <2>2 DEF Ends, Refuse, GetattrInside, ReaddirInside,
         AccessInside, Inside
  <2> QED
    BY <2>1, <2>3, ClosedirSays
<1>3. CASE at[t] # "listing" /\ request[t].op = "getattr"
  <2>1. Call(t) => Getattr(t)
    BY <1>3 DEF Call, Mkdir, Mknod, Symlink, Create, Rmdir, UnlinkFile,
         RenameFile, LinkFile, Readlink, Truncate, Chmod, Chown, Access, Statfs,
         Utimens, Listxattr, Getxattr, Xattr, Opendir, Passes, Calls
  <2>2. Getattr(t) \/ GetattrInside(t)
    BY <1>1, <1>3, <2>1 DEF Ends, Refuse, ReaddirInside, AccessInside, Inside,
         Closedir, Refusing, Unsupported
  <2> QED
    BY <1>3, <2>2, GetattrSays, GetattrInsideSays
<1> QED
  BY <1>2, <1>3

\* While the base file system stays the same, getattr answers what the path
\* stands for, and readdir shows what getattr finds and nothing else.
THEOREM GetattrAndReaddirAgree == Spec => OneTree
<1> DEFINE Agree ==
      \A t \in Threads :
        LET q == request[t]
            reply == answer'[t]
        IN  at[t] # "idle" /\ at'[t] = "idle" /\ still[t] =>
              /\ q.op = "getattr" => reply.stat = Lookup(base, q.path)
              /\ at[t] = "listing" =>
                   /\ \A e \in reply.names : ShownAsFound(base, e)
                   /\ \A p \in Entries(base, q.path) :
                        ListedIfThere(base, p, reply.names)
<1>1. TreeInvariant /\ [Next]_vars => [Agree]_vars
  BY EndsAsFound
<1> QED
  BY <1>1, TreeInductive, PTL DEF Spec, OneTree
=============================================================================
