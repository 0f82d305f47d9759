--------------------------- MODULE PeepCacheProofs ---------------------------
(***************************************************************************)
(* Proofs that the cache keeps its promises for every number of threads,   *)
(* archives and names, every max_entries > 0, grace and length of run.     *)
(***************************************************************************)
EXTENDS PeepCache, FiniteSetTheorems, SequenceTheorems, TLAPS

-----------------------------------------------------------------------------
(* Lists.                                                                  *)

\* What DL_DELETE leaves: the elements after e move up by one.
LEMMA DeleteAt ==
  ASSUME NEW S, NEW s, IsListOf(s, S), NEW e \in S
  PROVE  \E k \in 1 .. Len(s) :
           /\ s[k] = e
           /\ DL_DELETE(s, e) \in Seq(S)
           /\ Len(DL_DELETE(s, e)) = Len(s) - 1
           /\ \A i \in 1 .. Len(s) - 1 :
                DL_DELETE(s, e)[i] = IF i < k THEN s[i] ELSE s[i + 1]
<1> DEFINE k == CHOOSE i \in 1 .. Len(s) : s[i] = e
           d == DL_DELETE(s, e)
<1>1. /\ s \in Seq(S) /\ Len(s) \in Nat
      /\ \A i \in 1 .. Len(s) : s[i] \in S
      /\ \A i, j \in 1 .. Len(s) : s[i] = s[j] => i = j
  BY ElementOfSeq DEF IsListOf
<1>2. k \in 1 .. Len(s) /\ s[k] = e
  BY DEF IsListOf
<1>3. d = SubSeq(s, 1, k - 1) \o SubSeq(s, k + 1, Len(s))
  BY DEF DL_DELETE, RemoveAt
<1> HIDE DEF k
<1>4. /\ SubSeq(s, 1, k - 1) \in Seq(S)
      /\ Len(SubSeq(s, 1, k - 1)) = k - 1
      /\ \A i \in 1 .. k - 1 : SubSeq(s, 1, k - 1)[i] = s[i]
  BY <1>1, <1>2
<1>5. /\ SubSeq(s, k + 1, Len(s)) \in Seq(S)
      /\ Len(SubSeq(s, k + 1, Len(s))) = Len(s) - k
      /\ \A i \in 1 .. Len(s) - k : SubSeq(s, k + 1, Len(s))[i] = s[k + i]
  BY <1>1, <1>2
<1> HIDE DEF d
<1>6. /\ d \in Seq(S)
      /\ Len(d) = Len(s) - 1
      /\ \A i \in 1 .. Len(s) - 1 : d[i] = IF i < k THEN s[i] ELSE s[i + 1]
  <2> DEFINE f == SubSeq(s, 1, k - 1)
             g == SubSeq(s, k + 1, Len(s))
  <2>1. /\ f \o g \in Seq(S)
        /\ Len(f \o g) = Len(f) + Len(g)
        /\ \A i \in 1 .. Len(f) + Len(g) :
             (f \o g)[i] = IF i <= Len(f) THEN f[i] ELSE g[i - Len(f)]
    BY <1>4, <1>5, ConcatProperties
  <2>2. d = f \o g /\ Len(f) = k - 1 /\ Len(g) = Len(s) - k
    BY <1>3, <1>4, <1>5
  <2> HIDE DEF f, g
  <2>3. Len(d) = Len(s) - 1
    BY <1>1, <1>2, <2>1, <2>2
  <2>4. ASSUME NEW i \in 1 .. Len(s) - 1, i < k PROVE d[i] = s[i]
    <3>1. i <= Len(f) /\ i \in 1 .. Len(f) + Len(g) /\ i \in 1 .. k - 1
      BY <1>1, <1>2, <2>2, <2>4
    <3>2. d[i] = f[i]
      BY <2>2, <2>1, <3>1
    <3> QED BY <1>4, <3>1, <3>2 DEF f
  <2>5. ASSUME NEW i \in 1 .. Len(s) - 1, ~(i < k) PROVE d[i] = s[i + 1]
    <3>1. /\ ~(i <= Len(f)) /\ i \in 1 .. Len(f) + Len(g)
          /\ i - Len(f) = i - k + 1 /\ i - k + 1 \in 1 .. Len(s) - k
      BY <1>1, <1>2, <2>2, <2>5
    <3>2. d[i] = g[i - k + 1]
      BY <2>2, <2>1, <3>1
    <3>3. g[i - k + 1] = s[k + (i - k + 1)] /\ k + (i - k + 1) = i + 1
      BY <1>2, <1>5, <3>1 DEF g
    <3> QED BY <3>2, <3>3
  <2> QED BY <2>2, <2>1, <2>3, <2>4, <2>5
<1> QED BY <1>2, <1>6 DEF d

\* DL_DELETE drops e and keeps every other element once.
LEMMA DeleteFromList ==
  ASSUME NEW S, NEW s, IsListOf(s, S), NEW e \in S
  PROVE  IsListOf(DL_DELETE(s, e), S \ {e})
<1> DEFINE d == DL_DELETE(s, e)
<1>1. /\ s \in Seq(S) /\ Len(s) \in Nat
      /\ \A i \in 1 .. Len(s) : s[i] \in S
      /\ \A i, j \in 1 .. Len(s) : s[i] = s[j] => i = j
  BY ElementOfSeq DEF IsListOf
<1>2. PICK k \in 1 .. Len(s) :
        /\ s[k] = e
        /\ d \in Seq(S)
        /\ Len(d) = Len(s) - 1
        /\ \A i \in 1 .. Len(s) - 1 : d[i] = IF i < k THEN s[i] ELSE s[i + 1]
  BY DeleteAt
<1> HIDE DEF d
<1>3. IsListOf(d, S \ {e})
  <2>1. \A i \in 1 .. Len(d) : d[i] \in S \ {e}
    <3>1. ASSUME NEW i \in 1 .. Len(d) PROVE d[i] \in S /\ d[i] # s[k]
      <4>1. CASE i < k
        BY <1>1, <1>2, <4>1
      <4>2. CASE ~(i < k)
        <5>1. i + 1 \in 1 .. Len(s) /\ i + 1 # k /\ d[i] = s[i + 1]
          BY <1>1, <1>2, <4>2
        <5> QED BY <1>1, <1>2, <5>1
      <4> QED BY <4>1, <4>2
    <3> QED BY <1>2, <3>1
  <2>2. d \in Seq(S \ {e})
    BY <1>2, <2>1
  <2>3. ASSUME NEW x \in S \ {e} PROVE \E i \in 1 .. Len(d) : d[i] = x
    <3>1. PICK i \in 1 .. Len(s) : s[i] = x
      BY DEF IsListOf
    <3>2. i # k
      BY <1>2, <3>1
    <3>3. CASE i < k
      BY <1>1, <1>2, <3>1, <3>3
    <3>4. CASE i > k
      <4>1. i - 1 \in 1 .. Len(d) /\ d[i - 1] = s[(i - 1) + 1]
        BY <1>1, <1>2, <3>1, <3>4
      <4> QED BY <3>1, <4>1
    <3> QED BY <1>1, <1>2, <3>1, <3>2, <3>3, <3>4
  <2>4. ASSUME NEW i \in 1 .. Len(d), NEW j \in 1 .. Len(d), d[i] = d[j]
        PROVE  i = j
    <3> DEFINE m(n) == IF n < k THEN n ELSE n + 1
    <3>1. /\ m(i) \in 1 .. Len(s) /\ d[i] = s[m(i)]
          /\ m(j) \in 1 .. Len(s) /\ d[j] = s[m(j)]
      BY <1>1, <1>2
    <3>2. m(i) = m(j)
      <4> HIDE DEF m
      <4> QED BY <1>1, <2>4, <3>1
    <3> QED BY <1>1, <1>2, <3>2
  <2> QED BY <2>2, <2>3, <2>4 DEF IsListOf
<1> QED BY <1>3 DEF d

\* DL_DELETE keeps the order of the others.
LEMMA DeleteKeepsOrder ==
  ASSUME NEW S, NEW s, IsListOf(s, S), NEW e \in S,
         NEW i \in 1 .. Len(DL_DELETE(s, e)),
         NEW j \in 1 .. Len(DL_DELETE(s, e)), i <= j
  PROVE  \E k, l \in 1 .. Len(s) :
           k <= l /\ DL_DELETE(s, e)[i] = s[k] /\ DL_DELETE(s, e)[j] = s[l]
<1> DEFINE d == DL_DELETE(s, e)
<1>1. /\ s \in Seq(S) /\ Len(s) \in Nat
      /\ \A m \in 1 .. Len(s) : s[m] \in S
      /\ \A m, n \in 1 .. Len(s) : s[m] = s[n] => m = n
  BY ElementOfSeq, SMTT(30) DEF IsListOf
<1>2. PICK k \in 1 .. Len(s) :
        /\ s[k] = e
        /\ d \in Seq(S)
        /\ Len(d) = Len(s) - 1
        /\ \A m \in 1 .. Len(s) - 1 : d[m] = IF m < k THEN s[m] ELSE s[m + 1]
  BY DeleteAt
<1> HIDE DEF d
<1> DEFINE m == IF i < k THEN i ELSE i + 1
           l == IF j < k THEN j ELSE j + 1
<1>3. m \in 1 .. Len(s) /\ l \in 1 .. Len(s) /\ m <= l
  BY <1>1, <1>2 DEF d
<1>4. d[i] = s[m] /\ d[j] = s[l]
  BY <1>1, <1>2 DEF d
<1> QED BY <1>3, <1>4 DEF d

\* DL_APPEND of a new element.
LEMMA AppendToList ==
  ASSUME NEW S, NEW s, IsListOf(s, S), NEW e, e \notin S
  PROVE  /\ IsListOf(Append(s, e), S \cup {e})
         /\ Len(Append(s, e)) = Len(s) + 1
         /\ \A i \in 1 .. Len(s) : Append(s, e)[i] = s[i]
         /\ Append(s, e)[Len(s) + 1] = e
<1>1. s \in Seq(S \cup {e}) /\ Len(s) \in Nat
  <2>1. s \in Seq(S)
    BY DEF IsListOf
  <2> QED BY <2>1, SeqMonotonic
<1>2. /\ Append(s, e) \in Seq(S \cup {e})
      /\ Len(Append(s, e)) = Len(s) + 1
      /\ \A i \in 1 .. Len(s) : Append(s, e)[i] = s[i]
      /\ Append(s, e)[Len(s) + 1] = e
  BY <1>1
<1>3. \A i \in 1 .. Len(s) : s[i] \in S
  BY <1>1 DEF IsListOf
<1>4. \A x \in S \cup {e} : \E i \in 1 .. Len(s) + 1 : Append(s, e)[i] = x
  BY <1>1, <1>2 DEF IsListOf
<1>5. \A i, j \in 1 .. Len(s) + 1 : Append(s, e)[i] = Append(s, e)[j] => i = j
  <2>1. \A i, j \in 1 .. Len(s) : s[i] = s[j] => i = j
    BY DEF IsListOf
  <2> QED BY <1>1, <1>2, <1>3, <2>1
<1> QED BY <1>2, <1>4, <1>5 DEF IsListOf

\* Moving an element to the tail loses and doubles nothing.
LEMMA MoveInList ==
  ASSUME NEW S, NEW s, IsListOf(s, S), NEW e \in S
  PROVE  IsListOf(MoveToTail(s, e), S)
<1>1. IsListOf(DL_DELETE(s, e), S \ {e})
  BY DeleteFromList
<1>2. IsListOf(Append(DL_DELETE(s, e), e), (S \ {e}) \cup {e})
  BY <1>1, AppendToList
<1>3. (S \ {e}) \cup {e} = S
  OBVIOUS
<1> QED BY <1>2, <1>3 DEF MoveToTail

-----------------------------------------------------------------------------
(* The operators of the cache.                                             *)

\* HASH_FIND_STR returns the entry with the path, if there is one.
LEMMA FindFinds ==
  ASSUME NEW c, CacheTypeOK(c), NEW path
  PROVE  /\ Find(c, path) # NoId => /\ Find(c, path) \in Live(c)
                                    /\ c.ents[Find(c, path)].path = path
         /\ Find(c, path) = NoId => \A e \in Live(c) : c.ents[e].path # path
<1> DEFINE hits == {e \in Live(c) : c.ents[e].path = path}
<1>1. \A e \in Live(c) : e # NoId
  BY DEF CacheTypeOK, NoId
<1>2. CASE hits = {}
  <2>1. Find(c, path) = NoId
    BY <1>2 DEF Find
  <2> QED BY <1>2, <2>1
<1>3. CASE hits # {}
  <2>1. Find(c, path) \in hits
    BY <1>3 DEF Find
  <2> QED BY <1>1, <2>1
<1> QED BY <1>2, <1>3

\* Refreshing an entry's place in the lru order disturbs nothing else.
LEMMA TouchKeeps ==
  ASSUME NEW c, CacheInv(c), NEW e \in Live(c)
  PROVE  /\ CacheInv(Touch(c, e))
         /\ Touch(c, e).ents = c.ents
         /\ Touch(c, e).expire = c.expire
         /\ Touch(c, e).next_id = c.next_id
         /\ Touch(c, e).num_entries = c.num_entries
<1> DEFINE d == Touch(c, e)
<1>1. /\ DOMAIN d = {"ents", "lru", "expire", "next_id", "num_entries"}
      /\ d.ents = c.ents
      /\ d.expire = c.expire
      /\ d.next_id = c.next_id
      /\ d.num_entries = c.num_entries
      /\ d.lru = MoveToTail(c.lru, e)
  BY DEF CacheInv, CacheTypeOK, Touch
<1>2. IsListOf(d.lru, Live(c))
  BY <1>1, MoveInList DEF CacheInv, Listed
<1> HIDE DEF d
<1>3. Live(d) = Live(c)
  BY <1>1 DEF Live
<1>4. d.lru \in Seq(Nat)
  <2>1. Live(c) \subseteq Nat
    BY DEF CacheInv, CacheTypeOK
  <2>2. d.lru \in Seq(Live(c))
    BY <1>2 DEF IsListOf
  <2> QED BY <2>1, <2>2, SeqMonotonic
<1>5. CacheTypeOK(d)
  BY <1>1, <1>3, <1>4 DEF CacheInv, CacheTypeOK
<1>6. Listed(d)
  BY <1>1, <1>2, <1>3 DEF CacheInv, Listed
<1>7. UniquePaths(d)
  BY <1>1, <1>3 DEF CacheInv, UniquePaths
<1>8. ChainsSound(d)
  BY <1>1, <1>3 DEF CacheInv, ChainsSound
<1>9. RootsOnTop(d)
  BY <1>1, <1>3 DEF CacheInv, RootsOnTop
<1>10. Aged(d)
  BY <1>1, <1>3 DEF CacheInv, Aged
<1>11. CacheInv(d)
  BY <1>5, <1>6, <1>7, <1>8, <1>9, <1>10 DEF CacheInv
<1> QED BY <1>1, <1>11 DEF d

OnNoChain(c, e) ==
  \A h \in Live(c) : \A i \in 1 .. Len(c.ents[h].dir) : c.ents[h].dir[i] # e

\* Removing an entry that no chain leads to.
LEMMA UnlinkKeeps ==
  ASSUME NEW c, CacheInv(c), NEW e \in Live(c), OnNoChain(c, e)
  PROVE  /\ CacheInv(Unlink(c, e))
         /\ Live(Unlink(c, e)) = Live(c) \ {e}
         /\ \A x \in Live(c) \ {e} : Unlink(c, e).ents[x] = c.ents[x]
         /\ Unlink(c, e).next_id = c.next_id
         /\ Unlink(c, e).num_entries = c.num_entries - 1
<1> DEFINE d == Unlink(c, e)
<1>1. /\ DOMAIN d = {"ents", "lru", "expire", "next_id", "num_entries"}
      /\ d.ents = [x \in Live(c) \ {e} |-> c.ents[x]]
      /\ d.lru = DL_DELETE(c.lru, e)
      /\ d.expire = DL_DELETE(c.expire, e)
      /\ d.next_id = c.next_id
      /\ d.num_entries = c.num_entries - 1
  BY DEF CacheInv, CacheTypeOK, Unlink
<1> HIDE DEF d
<1>2. /\ Live(d) = Live(c) \ {e}
      /\ \A x \in Live(c) \ {e} : d.ents[x] = c.ents[x]
  BY <1>1 DEF Live
<1>3. /\ IsListOf(d.lru, Live(d))
      /\ IsListOf(d.expire, Live(d))
  BY <1>1, <1>2, DeleteFromList DEF CacheInv, Listed
<1>4. /\ IsFiniteSet(Live(d))
      /\ Cardinality(Live(d)) = Cardinality(Live(c)) - 1
      /\ Cardinality(Live(d)) \in Nat
  BY <1>2, FS_RemoveElement, FS_CardinalityType DEF CacheInv, Listed
<1>5. Listed(d)
  BY <1>1, <1>3, <1>4 DEF CacheInv, Listed
<1>6. CacheTypeOK(d)
  <2>1. Live(d) \subseteq Nat /\ Live(d) \subseteq 1 .. d.next_id - 1
    BY <1>1, <1>2 DEF CacheInv, CacheTypeOK
  <2>2. d.lru \in Seq(Nat) /\ d.expire \in Seq(Nat)
    BY <1>3, <2>1, SeqMonotonic DEF IsListOf
  <2>3. d.ents \in [Live(d) -> EntryRecords]
    BY <1>1, <1>2 DEF CacheInv, CacheTypeOK
  <2>4. d.num_entries \in Nat
    BY <1>4, <1>5 DEF Listed
  <2> QED BY <1>1, <2>1, <2>2, <2>3, <2>4 DEF CacheInv, CacheTypeOK
<1>7. UniquePaths(d) /\ RootsOnTop(d)
  BY <1>2 DEF CacheInv, UniquePaths, RootsOnTop
<1>8. ChainsSound(d)
  <2>1. ASSUME NEW h \in Live(d), NEW i \in 1 .. Len(d.ents[h].dir)
        PROVE  LET m == d.ents[h].dir[i]
               IN  /\ m \in Live(d)
                   /\ d.ents[m].archive_id = h
                   /\ d.ents[m].path.archivepath = d.ents[h].path.archivepath
    <3> DEFINE m == c.ents[h].dir[i]
    <3>1. h \in Live(c) /\ d.ents[h] = c.ents[h]
      BY <1>2
    <3>2. /\ m \in Live(c) /\ m # e
          /\ c.ents[m].archive_id = h
          /\ c.ents[m].path.archivepath = c.ents[h].path.archivepath
      BY <3>1 DEF CacheInv, ChainsSound, OnNoChain
    <3> QED BY <1>2, <3>1, <3>2
  <2> QED BY <2>1 DEF ChainsSound
<1>9. Aged(d)
  <2>1. ASSUME NEW i \in 1 .. Len(d.expire), NEW j \in 1 .. Len(d.expire),
               i <= j
        PROVE  d.ents[d.expire[i]].born <= d.ents[d.expire[j]].born
    <3>1. IsListOf(c.expire, Live(c))
      BY DEF CacheInv, Listed
    <3>2. PICK k \in 1 .. Len(c.expire), l \in 1 .. Len(c.expire) :
            k <= l /\ d.expire[i] = c.expire[k] /\ d.expire[j] = c.expire[l]
      <4> DEFINE s == c.expire
                 S == Live(c)
      <4>1. d.expire = DL_DELETE(s, e) /\ IsListOf(s, S) /\ e \in S
        BY <1>1, <3>1
      <4> HIDE DEF s, S
      <4>2. /\ i \in 1 .. Len(DL_DELETE(s, e)) /\ j \in 1 .. Len(DL_DELETE(s, e))
            /\ i <= j
        BY <2>1, <4>1
      <4>3. \E k, l \in 1 .. Len(s) :
              k <= l /\ DL_DELETE(s, e)[i] = s[k] /\ DL_DELETE(s, e)[j] = s[l]
        BY <4>1, <4>2, DeleteKeepsOrder
      <4> QED BY <4>1, <4>3 DEF s
    <3>3. d.expire[i] \in Live(d) /\ d.expire[j] \in Live(d)
      BY <1>3, ElementOfSeq DEF IsListOf
    <3>4. c.ents[c.expire[k]].born <= c.ents[c.expire[l]].born
      BY <3>2 DEF CacheInv, Aged
    <3> QED BY <1>2, <3>2, <3>3, <3>4
  <2>2. \A x \in Live(d) : d.ents[x].expire <= d.ents[x].born + Grace
    BY <1>2 DEF CacheInv, Aged
  <2> QED BY <2>1, <2>2 DEF Aged
<1>10. CacheInv(d)
  BY <1>5, <1>6, <1>7, <1>8, <1>9 DEF CacheInv
<1> QED BY <1>1, <1>2, <1>10 DEF d

\* A member's chain hangs from the Root entry that OwningDir finds.
LEMMA OwnerFound ==
  ASSUME NEW c, CacheInv(c), NEW h \in Live(c), NEW i \in 1 .. Len(c.ents[h].dir)
  PROVE  OwningDir(c, c.ents[h].dir[i]) = h
<1> DEFINE e == c.ents[h].dir[i]
           path == RootPath(c.ents[e].path.archivepath)
<1>1. /\ e \in Live(c)
      /\ c.ents[e].archive_id = h
      /\ c.ents[e].path.archivepath = c.ents[h].path.archivepath
  BY DEF CacheInv, ChainsSound
<1>2. c.ents[h] \in EntryRecords /\ h # NoId
  BY DEF CacheInv, CacheTypeOK, NoId
<1>3. c.ents[h].dir # <<>>
  BY <1>2
<1>4. c.ents[h].path = path
  <2>1. c.ents[h].path.relpath = Root
    BY <1>3 DEF CacheInv, RootsOnTop
  <2>2. c.ents[h].path \in Paths
    BY <1>2 DEF EntryRecords
  <2> QED BY <1>1, <2>1, <2>2 DEF Paths, RootPath
<1>5. Find(c, path) = h
  <2>1. CacheTypeOK(c)
    BY DEF CacheInv
  <2>2. Find(c, path) # NoId
    BY <1>4, <2>1, FindFinds
  <2>3. Find(c, path) \in Live(c) /\ c.ents[Find(c, path)].path = path
    BY <2>1, <2>2, FindFinds
  <2> QED BY <1>4, <2>3 DEF CacheInv, UniquePaths
<1> HIDE DEF e
<1>6. OwningDir(c, e) = h
  BY <1>1, <1>2, <1>5 DEF OwningDir
<1> QED BY <1>6 DEF e

\* __peepfs_cache_delete leaves a sound cache without the entry.
LEMMA DeleteKeeps ==
  ASSUME NEW c, CacheInv(c), NEW e \in Live(c)
  PROVE  /\ CacheInv(Delete(c, e))
         /\ Live(Delete(c, e)) \subseteq Live(c) \ {e}
         /\ \A x \in Live(Delete(c, e)) : Delete(c, e).ents[x] = c.ents[x]
         /\ Delete(c, e).next_id = c.next_id
         /\ Delete(c, e).num_entries < c.num_entries
<1> DEFINE ae == OwningDir(c, e)
<1>1. c.num_entries \in Nat
  BY DEF CacheInv, CacheTypeOK
<1>2. CASE ae = NoId
  <2>1. OnNoChain(c, e)
    <3>1. ASSUME NEW h \in Live(c), NEW i \in 1 .. Len(c.ents[h].dir),
                 c.ents[h].dir[i] = e
          PROVE  FALSE
      <4>1. OwningDir(c, c.ents[h].dir[i]) = h
        BY OwnerFound
      <4>2. h # NoId
        BY DEF CacheInv, CacheTypeOK, NoId
      <4> QED BY <1>2, <3>1, <4>1, <4>2
    <3> QED BY <3>1 DEF OnNoChain
  <2>2. Delete(c, e) = Unlink(c, e)
    BY <1>2 DEF Delete
  <2> QED BY <1>1, <2>1, <2>2, UnlinkKeeps
<1>3. CASE ae # NoId
  <2> DEFINE d == Unlink(c, ae)
  <2>1. /\ ae \in Live(c)
        /\ c.ents[ae].path = RootPath(c.ents[e].path.archivepath)
        /\ c.ents[e].archive_id # NoId
    <3>1. /\ ae = Find(c, RootPath(c.ents[e].path.archivepath))
          /\ c.ents[e].archive_id # NoId
      BY <1>3 DEF OwningDir
    <3> QED BY <1>3, <3>1, FindFinds DEF CacheInv
  <2>2. c.ents[ae].archive_id = NoId
    BY <2>1 DEF CacheInv, RootsOnTop, RootPath
  <2>3. ae # e
    BY <2>1, <2>2
  <2>4. OnNoChain(c, ae)
    <3>1. ASSUME NEW h \in Live(c), NEW i \in 1 .. Len(c.ents[h].dir),
                 c.ents[h].dir[i] = ae
          PROVE  FALSE
      <4>1. c.ents[ae].archive_id = h
        BY <3>1 DEF CacheInv, ChainsSound
      <4>2. h # NoId
        BY DEF CacheInv, CacheTypeOK, NoId
      <4> QED BY <2>2, <4>1, <4>2
    <3> QED BY <3>1 DEF OnNoChain
  <2> HIDE DEF ae
  <2>5. /\ CacheInv(d)
        /\ Live(d) = Live(c) \ {ae}
        /\ \A x \in Live(d) : d.ents[x] = c.ents[x]
        /\ d.next_id = c.next_id
        /\ d.num_entries = c.num_entries - 1
    BY <2>1, <2>4, UnlinkKeeps
  <2> HIDE DEF d
  <2>6. e \in Live(d)
    BY <2>3, <2>5
  <2>7. OnNoChain(d, e)
    <3>1. ASSUME NEW h \in Live(d), NEW i \in 1 .. Len(d.ents[h].dir),
                 d.ents[h].dir[i] = e
          PROVE  FALSE
      <4>1. h \in Live(c) /\ h # ae /\ d.ents[h] = c.ents[h]
        BY <2>5
      <4>2. i \in 1 .. Len(c.ents[h].dir) /\ c.ents[h].dir[i] = e
        BY <3>1, <4>1
      <4>3. OwningDir(c, c.ents[h].dir[i]) = h
        BY <4>1, <4>2, OwnerFound
      <4> QED BY <4>1, <4>2, <4>3 DEF ae
    <3> QED BY <3>1 DEF OnNoChain
  <2>8. Delete(c, e) = Unlink(d, e)
    BY <1>3 DEF Delete, ae, d
  <2>9. /\ CacheInv(Unlink(d, e))
        /\ Live(Unlink(d, e)) = Live(d) \ {e}
        /\ \A x \in Live(d) \ {e} : Unlink(d, e).ents[x] = d.ents[x]
        /\ Unlink(d, e).next_id = d.next_id
        /\ Unlink(d, e).num_entries = d.num_entries - 1
    BY <2>5, <2>6, <2>7, UnlinkKeeps
  <2> QED BY <1>1, <2>5, <2>8, <2>9
<1> QED BY <1>2, <1>3

\* Before calloc: the path is free, there is room, and the id is taken.
LEMMA MakeRoomKeeps ==
  ASSUME NEW c, CacheInv(c), c.num_entries <= MaxEntries, NEW path
  PROVE  /\ CacheInv(MakeRoom(c, path))
         /\ MakeRoom(c, path).num_entries < MaxEntries
         /\ MakeRoom(c, path).next_id = c.next_id + 1
         /\ Live(MakeRoom(c, path)) \subseteq Live(c)
         /\ \A x \in Live(MakeRoom(c, path)) :
              /\ MakeRoom(c, path).ents[x] = c.ents[x]
              /\ c.ents[x].path # path
<1> DEFINE b == [c EXCEPT !.next_id = @ + 1]
           d == DeleteOld(b, path)
           g == Evict(d)
<1>1. /\ DOMAIN b = DOMAIN c
      /\ b.ents = c.ents /\ b.lru = c.lru /\ b.expire = c.expire
      /\ b.num_entries = c.num_entries
      /\ b.next_id = c.next_id + 1
  BY DEF CacheInv, CacheTypeOK
<1>2. MakeRoom(c, path) = g
  BY DEF MakeRoom
<1> HIDE DEF b
<1>3. Live(b) = Live(c)
  BY <1>1 DEF Live
<1>4. CacheInv(b)
  <2>1. CacheTypeOK(b)
    BY <1>1, <1>3 DEF CacheInv, CacheTypeOK
  <2>2. Listed(b)
    BY <1>1, <1>3 DEF CacheInv, Listed
  <2>3. UniquePaths(b) /\ RootsOnTop(b)
    BY <1>1, <1>3 DEF CacheInv, UniquePaths, RootsOnTop
  <2>4. ChainsSound(b)
    BY <1>1, <1>3 DEF CacheInv, ChainsSound
  <2>5. Aged(b)
    BY <1>1, <1>3 DEF CacheInv, Aged
  <2> QED BY <2>1, <2>2, <2>3, <2>4, <2>5 DEF CacheInv
<1>5. /\ CacheInv(d)
      /\ Live(d) \subseteq Live(b)
      /\ \A x \in Live(d) : d.ents[x] = b.ents[x] /\ b.ents[x].path # path
      /\ d.next_id = b.next_id
      /\ d.num_entries <= b.num_entries
  <2> DEFINE old == Find(b, path)
  <2>1. CacheTypeOK(b) /\ b.num_entries \in Nat
    BY <1>4 DEF CacheInv, CacheTypeOK
  <2>2. CASE old = NoId
    <3>1. d = b
      BY <2>2 DEF DeleteOld
    <3>2. \A x \in Live(b) : b.ents[x].path # path
      BY <2>1, <2>2, FindFinds
    <3> QED BY <1>4, <2>1, <3>1, <3>2
  <2>3. CASE old # NoId
    <3>1. d = Delete(b, old)
      BY <2>3 DEF DeleteOld
    <3>2. old \in Live(b) /\ b.ents[old].path = path
      BY <2>1, <2>3, FindFinds
    <3> HIDE DEF old, d
    <3>3. /\ CacheInv(d)
          /\ Live(d) \subseteq Live(b) \ {old}
          /\ \A x \in Live(d) : d.ents[x] = b.ents[x]
          /\ d.next_id = b.next_id
          /\ d.num_entries < b.num_entries
      BY <1>4, <3>1, <3>2, DeleteKeeps
    <3>4. d.num_entries \in Nat
      BY <3>3 DEF CacheInv, CacheTypeOK
    <3>5. \A x \in Live(d) : b.ents[x].path # path
      BY <1>4, <3>2, <3>3 DEF CacheInv, UniquePaths
    <3> QED BY <2>1, <3>3, <3>4, <3>5
  <2> QED BY <2>2, <2>3
<1> HIDE DEF d
<1>6. d.num_entries \in Nat /\ d.num_entries <= MaxEntries
  <2>1. d.num_entries \in Nat /\ b.num_entries \in Nat
    BY <1>4, <1>5 DEF CacheInv, CacheTypeOK
  <2> QED BY <1>1, <1>5, <2>1, CacheAssumption
<1>7. /\ CacheInv(g)
      /\ Live(g) \subseteq Live(d)
      /\ \A x \in Live(g) : g.ents[x] = d.ents[x]
      /\ g.next_id = d.next_id
      /\ g.num_entries < MaxEntries
  <2>1. CASE d.num_entries = MaxEntries
    <3>1. g = Delete(d, Head(d.lru))
      BY <2>1 DEF Evict
    <3>2. Head(d.lru) \in Live(d)
      <4>1. Live(d) # {}
        BY <1>5, <2>1, FS_EmptySet, CacheAssumption DEF CacheInv, Listed
      <4>2. d.lru \in Seq(Live(d)) /\ \E i \in 1 .. Len(d.lru) : TRUE
        BY <1>5, <4>1 DEF CacheInv, Listed, IsListOf
      <4>3. d.lru # <<>>
        BY <4>2, EmptySeq
      <4> QED BY <4>2, <4>3, HeadTailProperties
    <3> HIDE DEF g
    <3>3. /\ CacheInv(g)
          /\ Live(g) \subseteq Live(d)
          /\ \A x \in Live(g) : g.ents[x] = d.ents[x]
          /\ g.next_id = d.next_id
          /\ g.num_entries < d.num_entries
      BY <1>5, <3>1, <3>2, DeleteKeeps
    <3> QED BY <2>1, <3>3
  <2>2. CASE d.num_entries # MaxEntries
    <3>1. g = d
      BY <2>2 DEF Evict
    <3> QED BY <1>5, <1>6, <2>2, <3>1, CacheAssumption
  <2> QED BY <2>1, <2>2
<1> HIDE DEF g
<1> QED BY <1>1, <1>2, <1>3, <1>5, <1>7

\* HASH_ADD_STR and the two DL_APPENDs of a new entry.
LEMMA AddKeeps ==
  ASSUME NEW c, CacheInv(c), c.num_entries < MaxEntries,
         NEW id \in 1 .. c.next_id - 1, id \notin Live(c),
         NEW path \in Paths, \A x \in Live(c) : c.ents[x].path # path,
         NEW archive_id \in Nat, path.relpath = Root => archive_id = NoId,
         NEW entry \in Metadata \cup {NoMetadata},
         NEW born \in Int, BornBy(c, born),
         NEW expire \in Int, expire <= born + Grace
  PROVE  LET d == Add(c, id, path, archive_id, entry, expire, born)
         IN  /\ CacheInv(d)
             /\ Live(d) = Live(c) \cup {id}
             /\ \A x \in Live(c) : d.ents[x] = c.ents[x]
             /\ d.ents[id].path = path
             /\ d.ents[id].archive_id = archive_id
             /\ d.ents[id].born = born
             /\ d.next_id = c.next_id
             /\ d.num_entries <= MaxEntries
<1> DEFINE rec == [path |-> path, archive_id |-> archive_id,
                   expire |-> expire, born |-> born, entry |-> entry,
                   dir |-> <<>>]
           d == Add(c, id, path, archive_id, entry, expire, born)
<1>1. /\ DOMAIN d = {"ents", "lru", "expire", "next_id", "num_entries"}
      /\ d.ents = [x \in Live(c) \cup {id} |->
                     IF x = id THEN rec ELSE c.ents[x]]
      /\ d.lru = Append(c.lru, id)
      /\ d.expire = Append(c.expire, id)
      /\ d.next_id = c.next_id
      /\ d.num_entries = c.num_entries + 1
  BY DEF CacheInv, CacheTypeOK, Add
<1>2. rec \in EntryRecords
  BY DEF EntryRecords
<1>3. /\ rec.path = path /\ rec.archive_id = archive_id /\ rec.born = born
      /\ rec.expire = expire /\ rec.dir = <<>> /\ Len(rec.dir) = 0
  BY EmptySeq
<1> HIDE DEF rec, d
<1>4. /\ Live(d) = Live(c) \cup {id}
      /\ \A x \in Live(c) : d.ents[x] = c.ents[x]
      /\ d.ents[id] = rec
  BY <1>1 DEF Live
<1>5. /\ IsListOf(d.lru, Live(d))
      /\ IsListOf(d.expire, Live(d))
      /\ Len(d.expire) = Len(c.expire) + 1
      /\ \A i \in 1 .. Len(c.expire) : d.expire[i] = c.expire[i]
      /\ d.expire[Len(c.expire) + 1] = id
  BY <1>1, <1>4, AppendToList DEF CacheInv, Listed
<1>6. /\ IsFiniteSet(Live(d))
      /\ Cardinality(Live(d)) = Cardinality(Live(c)) + 1
  BY <1>4, FS_AddElement DEF CacheInv, Listed
<1>7. Listed(d)
  BY <1>1, <1>5, <1>6 DEF CacheInv, Listed
<1>8. CacheTypeOK(d)
  <2>1. Live(d) \subseteq Nat /\ Live(d) \subseteq 1 .. d.next_id - 1
    <3>1. c.next_id \in Nat \ {0} /\ Live(c) \subseteq 1 .. c.next_id - 1
      BY DEF CacheInv, CacheTypeOK
    <3> QED BY <1>1, <1>4, <3>1, SMTT(30)
  <2>2. d.lru \in Seq(Nat) /\ d.expire \in Seq(Nat)
    BY <1>5, <2>1, SeqMonotonic DEF IsListOf
  <2>3. d.ents \in [Live(d) -> EntryRecords]
    BY <1>1, <1>2, <1>4 DEF CacheInv, CacheTypeOK
  <2>4. d.num_entries \in Nat
    BY <1>1 DEF CacheInv, CacheTypeOK
  <2> QED BY <1>1, <2>1, <2>2, <2>3, <2>4 DEF CacheInv, CacheTypeOK
<1>9. UniquePaths(d)
  BY <1>3, <1>4 DEF CacheInv, UniquePaths
<1>10. RootsOnTop(d)
  BY <1>3, <1>4 DEF CacheInv, RootsOnTop
<1>11. ChainsSound(d)
  <2>1. ASSUME NEW h \in Live(d), NEW i \in 1 .. Len(d.ents[h].dir)
        PROVE  LET m == d.ents[h].dir[i]
               IN  /\ m \in Live(d)
                   /\ d.ents[m].archive_id = h
                   /\ d.ents[m].path.archivepath = d.ents[h].path.archivepath
    <3> DEFINE m == c.ents[h].dir[i]
    <3>1. h # id
      BY <1>3, <1>4
    <3>2. h \in Live(c) /\ d.ents[h] = c.ents[h]
      BY <1>4, <3>1
    <3>3. /\ m \in Live(c)
          /\ c.ents[m].archive_id = h
          /\ c.ents[m].path.archivepath = c.ents[h].path.archivepath
      BY <3>2 DEF CacheInv, ChainsSound
    <3> QED BY <1>4, <3>2, <3>3
  <2> QED BY <2>1 DEF ChainsSound
<1>12. Aged(d)
  <2> DEFINE n == Len(c.expire)
  <2>1. c.expire \in Seq(Live(c)) /\ n \in Nat
    BY DEF CacheInv, Listed, IsListOf
  <2>2. \A i \in 1 .. n : c.expire[i] \in Live(c)
    BY <2>1, ElementOfSeq
  <2>3. \A i \in 1 .. n : /\ d.ents[d.expire[i]] = c.ents[c.expire[i]]
                          /\ c.ents[c.expire[i]].born <= born
    BY <1>4, <1>5, <2>2 DEF BornBy
  <2>4. d.ents[d.expire[n + 1]].born = born
    BY <1>3, <1>4, <1>5
  <2>5. ASSUME NEW i \in 1 .. n + 1, NEW j \in 1 .. n + 1, i <= j
        PROVE  d.ents[d.expire[i]].born <= d.ents[d.expire[j]].born
    <3>1. CASE j = n + 1
      <4>1. CASE i = n + 1
        BY <2>4, <3>1, <4>1
      <4>2. CASE i # n + 1
        <5>1. i \in 1 .. n
          BY <2>1, <4>2
        <5>2. d.ents[d.expire[i]].born <= born
          BY <2>3, <5>1
        <5> QED BY <2>4, <3>1, <5>2
      <4> QED BY <4>1, <4>2
    <3>2. CASE j # n + 1
      <4>1. i \in 1 .. n /\ j \in 1 .. n
        BY <2>1, <2>5, <3>2
      <4> QED BY <2>3, <2>5, <4>1 DEF CacheInv, Aged
    <3> QED BY <3>1, <3>2
  <2>6. \A x \in Live(d) : d.ents[x].expire <= d.ents[x].born + Grace
    BY <1>3, <1>4 DEF CacheInv, Aged
  <2> QED BY <1>5, <2>5, <2>6 DEF Aged
<1>13. d.num_entries <= MaxEntries
  BY <1>1, CacheAssumption DEF CacheInv, CacheTypeOK
<1>14. CacheInv(d)
  BY <1>7, <1>8, <1>9, <1>10, <1>11, <1>12 DEF CacheInv
<1> QED BY <1>1, <1>3, <1>4, <1>13, <1>14 DEF d

\* LL_APPEND2 of an entry that names its directory.
LEMMA ChainKeeps ==
  ASSUME NEW c, CacheInv(c), NEW id \in Live(c), NEW archive_id,
         c.ents[id].archive_id = archive_id
  PROVE  LET d == Chain(c, id, c.ents[id].path.archivepath, archive_id)
         IN  /\ CacheInv(d)
             /\ Live(d) = Live(c)
             /\ \A x \in Live(c) : d.ents[x].born = c.ents[x].born
             /\ d.num_entries = c.num_entries
             /\ d.next_id = c.next_id
<1> DEFINE archivepath == c.ents[id].path.archivepath
           ae == Find(c, RootPath(archivepath))
           d == Chain(c, id, archivepath, archive_id)
<1>1. CASE ~(archive_id # NoId /\ ae = archive_id)
  <2>1. d = c
    BY <1>1 DEF Chain
  <2> QED BY <2>1
<1>2. CASE archive_id # NoId /\ ae = archive_id
  <2> DEFINE b == Touch(c, ae)
             dir == Append(c.ents[ae].dir, id)
  <2>1. ae \in Live(c) /\ c.ents[ae].path = RootPath(archivepath)
    BY <1>2, FindFinds DEF CacheInv
  <2>2. d = [b EXCEPT !.ents[ae].dir = Append(@, id)]
    BY <1>2 DEF Chain
  <2> HIDE DEF ae
  <2>3. /\ CacheInv(b)
        /\ b.ents = c.ents
        /\ b.expire = c.expire
        /\ b.next_id = c.next_id
        /\ b.num_entries = c.num_entries
    BY <2>1, TouchKeeps
  <2>4. Live(b) = Live(c)
    BY <2>3 DEF Live
  <2> HIDE DEF b
  <2>5. /\ DOMAIN d = {"ents", "lru", "expire", "next_id", "num_entries"}
        /\ d.ents = [c.ents EXCEPT ![ae].dir = dir]
        /\ d.expire = c.expire /\ d.lru = b.lru
        /\ d.next_id = c.next_id /\ d.num_entries = c.num_entries
    BY <2>2, <2>3 DEF CacheInv, CacheTypeOK
  <2> HIDE DEF d
  <2>6. Live(d) = Live(c)
    BY <2>5 DEF Live
  <2>7. id \in Nat /\ ae \in Nat
    BY <2>1 DEF CacheInv, CacheTypeOK
  <2>8. c.ents[ae] \in EntryRecords /\ c.ents \in [Live(c) -> EntryRecords]
    BY <2>1 DEF CacheInv, CacheTypeOK
  <2>9. c.ents[ae].dir \in Seq(Nat)
    BY <2>8 DEF EntryRecords
  <2>10. /\ dir \in Seq(Nat)
         /\ Len(dir) = Len(c.ents[ae].dir) + 1
         /\ \A i \in 1 .. Len(c.ents[ae].dir) : dir[i] = c.ents[ae].dir[i]
         /\ dir[Len(c.ents[ae].dir) + 1] = id
    BY <2>7, <2>9, AppendProperties, SMTT(30)
  <2> HIDE DEF dir
  <2>11. /\ d.ents[ae] = [c.ents[ae] EXCEPT !.dir = dir]
         /\ \A x \in Live(c) \ {ae} : d.ents[x] = c.ents[x]
    BY <2>1, <2>5, <2>8
  <2>12. /\ d.ents[ae] \in EntryRecords
         /\ d.ents[ae].dir = dir
         /\ d.ents[ae].path = c.ents[ae].path
         /\ d.ents[ae].archive_id = c.ents[ae].archive_id
         /\ d.ents[ae].born = c.ents[ae].born
         /\ d.ents[ae].expire = c.ents[ae].expire
    BY <2>8, <2>10, <2>11 DEF EntryRecords
  <2>13. \A x \in Live(c) : /\ d.ents[x].path = c.ents[x].path
                            /\ d.ents[x].archive_id = c.ents[x].archive_id
                            /\ d.ents[x].born = c.ents[x].born
                            /\ d.ents[x].expire = c.ents[x].expire
                            /\ x # ae => d.ents[x].dir = c.ents[x].dir
    BY <2>11, <2>12
  <2>14. CacheTypeOK(d)
    <3>1. d.ents \in [Live(d) -> EntryRecords]
      <4>1. \A x \in Live(c) : d.ents[x] \in EntryRecords
        BY <2>8, <2>11, <2>12
      <4>2. d.ents = [x \in Live(c) |-> d.ents[x]]
        BY <2>5, <2>8
      <4> QED BY <2>6, <4>1, <4>2
    <3> QED BY <2>3, <2>4, <2>5, <2>6, <3>1 DEF CacheInv, CacheTypeOK
  <2>15. Listed(d)
    BY <2>3, <2>4, <2>5, <2>6 DEF CacheInv, Listed
  <2>16. UniquePaths(d)
    BY <2>6, <2>13 DEF CacheInv, UniquePaths
  <2>17. RootsOnTop(d)
    <3>1. c.ents[ae].path.relpath = Root
      BY <2>1 DEF RootPath
    <3> QED BY <2>6, <2>13, <3>1 DEF CacheInv, RootsOnTop
  <2>18. ChainsSound(d)
    <3>1. ASSUME NEW h \in Live(c), NEW i \in 1 .. Len(d.ents[h].dir)
          PROVE  LET m == d.ents[h].dir[i]
                 IN  /\ m \in Live(c)
                     /\ c.ents[m].archive_id = h
                     /\ c.ents[m].path.archivepath
                          = c.ents[h].path.archivepath
      <4>1. CASE h = ae /\ i = Len(c.ents[ae].dir) + 1
        <5>1. d.ents[h].dir[i] = id
          BY <2>10, <2>12, <4>1
        <5>2. c.ents[ae].path.archivepath = archivepath
          BY <2>1 DEF RootPath
        <5> QED BY <1>2, <4>1, <5>1, <5>2 DEF ae
      <4>2. CASE h = ae /\ i # Len(c.ents[ae].dir) + 1
        <5>1. i \in 1 .. Len(c.ents[ae].dir)
          <6>1. Len(c.ents[ae].dir) \in Nat
            BY <2>9
          <6>2. i \in 1 .. Len(c.ents[ae].dir) + 1
            BY <2>10, <2>12, <4>2
          <6> QED BY <4>2, <6>1, <6>2
        <5>2. d.ents[h].dir[i] = c.ents[h].dir[i]
          BY <2>10, <2>12, <4>2, <5>1
        <5> QED BY <4>2, <5>1, <5>2 DEF CacheInv, ChainsSound
      <4>3. CASE h # ae
        <5>1. d.ents[h].dir = c.ents[h].dir
          BY <2>13, <4>3
        <5>2. i \in 1 .. Len(c.ents[h].dir)
          BY <5>1
        <5>3. ChainsSound(c)
          BY DEF CacheInv
        <5> HIDE DEF d
        <5> QED BY <5>1, <5>2, <5>3 DEF ChainsSound
      <4> QED BY <4>1, <4>2, <4>3
    <3>2. ASSUME NEW h \in Live(d), NEW i \in 1 .. Len(d.ents[h].dir)
          PROVE  LET m == d.ents[h].dir[i]
                 IN  /\ m \in Live(d)
                     /\ d.ents[m].archive_id = h
                     /\ d.ents[m].path.archivepath
                          = d.ents[h].path.archivepath
      <4> DEFINE m == d.ents[h].dir[i]
      <4>1. /\ h \in Live(c) /\ m \in Live(c)
            /\ c.ents[m].archive_id = h
            /\ c.ents[m].path.archivepath = c.ents[h].path.archivepath
        BY <2>6, <3>1
      <4> QED BY <2>6, <2>13, <4>1
    <3> QED BY <3>2 DEF ChainsSound
  <2>19. Aged(d)
    <3>1. \A i \in 1 .. Len(c.expire) : c.expire[i] \in Live(c)
      BY ElementOfSeq DEF CacheInv, Listed, IsListOf
    <3> QED BY <2>5, <2>6, <2>13, <3>1 DEF CacheInv, Aged
  <2>20. CacheInv(d)
    BY <2>14, <2>15, <2>16, <2>17, <2>18, <2>19 DEF CacheInv
  <2> QED BY <2>5, <2>6, <2>13, <2>20 DEF d
<1> QED BY <1>1, <1>2

\* peepfs_cache_insert as a whole.
LEMMA InsertKeeps ==
  ASSUME NEW c, CacheInv(c), c.num_entries <= MaxEntries,
         NEW path \in Paths,
         NEW archive_id \in Nat, path.relpath = Root => archive_id = NoId,
         NEW entry \in Metadata \cup {NoMetadata},
         NEW born \in Int, BornBy(c, born),
         NEW expire \in Int, expire <= born + Grace
  PROVE  LET d == Insert(c, path, archive_id, entry, expire, born)
         IN  CacheInv(d) /\ BornBy(d, born) /\ d.num_entries <= MaxEntries
<1> DEFINE room == MakeRoom(c, path)
           id == c.next_id
           added == Add(room, id, path, archive_id, entry, expire, born)
           d == Insert(c, path, archive_id, entry, expire, born)
<1>1. id \in Nat \ {0} /\ Live(c) \subseteq 1 .. id - 1
  BY DEF CacheInv, CacheTypeOK
<1>2. /\ CacheInv(room)
      /\ room.num_entries < MaxEntries
      /\ room.next_id = id + 1
      /\ Live(room) \subseteq Live(c)
      /\ \A x \in Live(room) : room.ents[x] = c.ents[x] /\ c.ents[x].path # path
  BY MakeRoomKeeps
<1>3. d = Chain(added, id, path.archivepath, archive_id)
  BY DEF Insert
<1> HIDE DEF room, id
<1>4. id \in 1 .. room.next_id - 1 /\ id \notin Live(room)
  BY <1>1, <1>2
<1>5. BornBy(room, born) /\ \A x \in Live(room) : room.ents[x].path # path
  BY <1>2 DEF BornBy
<1>6. /\ CacheInv(added)
      /\ Live(added) = Live(room) \cup {id}
      /\ \A x \in Live(room) : added.ents[x] = room.ents[x]
      /\ added.ents[id].path = path
      /\ added.ents[id].archive_id = archive_id
      /\ added.ents[id].born = born
      /\ added.num_entries <= MaxEntries
  BY <1>2, <1>4, <1>5, AddKeeps
<1> HIDE DEF added, d
<1>7. /\ CacheInv(d)
      /\ Live(d) = Live(added)
      /\ \A x \in Live(added) : d.ents[x].born = added.ents[x].born
      /\ d.num_entries = added.num_entries
  BY <1>3, <1>6, ChainKeeps
<1>8. BornBy(d, born)
  BY <1>5, <1>6, <1>7 DEF BornBy
<1> QED BY <1>6, <1>7, <1>8 DEF d

\* The head of the list by expiry went in first: nothing is older.
LEMMA HeadOldest ==
  ASSUME NEW c, CacheInv(c), NEW e \in Live(c)
  PROVE  /\ c.expire # <<>>
         /\ Head(c.expire) \in Live(c)
         /\ c.ents[Head(c.expire)].born <= c.ents[e].born
<1>1. c.expire \in Seq(Live(c)) /\ Len(c.expire) \in Nat
  BY DEF CacheInv, Listed, IsListOf
<1>2. PICK i \in 1 .. Len(c.expire) : c.expire[i] = e
  BY DEF CacheInv, Listed, IsListOf
<1>3. 1 \in 1 .. Len(c.expire) /\ 1 <= i
  BY <1>1, <1>2
<1>4. c.expire # <<>> /\ Head(c.expire) = c.expire[1]
  BY <1>1, <1>3, EmptySeq
<1>5. c.ents[c.expire[1]].born <= c.ents[c.expire[i]].born
  BY <1>3 DEF CacheInv, Aged
<1> QED BY <1>1, <1>2, <1>3, <1>4, <1>5, HeadTailProperties

-----------------------------------------------------------------------------
(* The inductive invariant.                                                *)

\* peepfs_cache_init makes a sound cache.
LEMMA EmptyCacheInv == CacheInv(EmptyCache) /\ BornBy(EmptyCache, 0)
<1> DEFINE c == EmptyCache
<1>1. /\ DOMAIN c = {"ents", "lru", "expire", "next_id", "num_entries"}
      /\ c.ents = <<>> /\ c.lru = <<>> /\ c.expire = <<>>
      /\ c.next_id = 1 /\ c.num_entries = 0
  BY DEF EmptyCache
<1>2. <<>> \in Seq({}) /\ <<>> \in Seq(Nat) /\ Len(<<>>) = 0
  BY EmptySeq
<1>3. DOMAIN <<>> = {} /\ <<>> \in [{} -> EntryRecords]
  OBVIOUS
<1> HIDE DEF c
<1>4. Live(c) = {}
  BY <1>1, <1>3 DEF Live
<1>5. CacheTypeOK(c)
  BY <1>1, <1>2, <1>3, <1>4 DEF CacheTypeOK
<1>6. Listed(c)
  BY <1>1, <1>2, <1>4, FS_EmptySet DEF Listed, IsListOf
<1>7. UniquePaths(c) /\ ChainsSound(c) /\ RootsOnTop(c) /\ BornBy(c, 0)
  BY <1>4 DEF UniquePaths, ChainsSound, RootsOnTop, BornBy
<1>8. Aged(c)
  BY <1>1, <1>2, <1>4 DEF Aged
<1>9. CacheInv(c)
  BY <1>5, <1>6, <1>7, <1>8 DEF CacheInv
<1> QED BY <1>7, <1>9 DEF c

\* The invariant holds before the first call.
LEMMA InitInvariant == Init => Invariant
<1> SUFFICES ASSUME Init PROVE Invariant
  OBVIOUS
<1>1. CacheInv(cache) /\ BornBy(cache, 0)
  BY EmptyCacheInv DEF Init
<1>2. Bounded
  BY CacheAssumption DEF Init, EmptyCache, Bounded
<1>3. NoCall \in CallType /\ NoReply \in [error : {0, -1}, id : Nat]
  BY DEF NoCall, NoReply, CallType, NoId
<1>4. <<>> \in Seq(EntryRecords) /\ Len(<<>>) = 0
  BY EmptySeq
<1>5. TypeOK
  BY <1>1, <1>3, <1>4 DEF TypeOK, Init, CacheInv, NoId
<1>6. LockInv /\ CallInv
  BY CacheAssumption DEF Init, LockInv, CallInv, NoCall, NoId
<1>7. TimeInv
  BY <1>1, CacheAssumption DEF Init, TimeInv, NoCall
<1>8. ServedInv
  BY <1>4 DEF Init, ServedInv, ServedInGrace
<1> QED BY <1>1, <1>2, <1>5, <1>6, <1>7, <1>8 DEF Invariant

\* Every way a call begins.
LEMMA BeginKeeps ==
  ASSUME Invariant, NEW t \in Threads,
         NEW op \in {"insert", "get", "scandir"},
         NEW path \in Paths, NEW archive_id \in Nat,
         path.relpath = Root => archive_id = NoId,
         NEW entry \in Metadata \cup {NoMetadata},
         NEW now \in Nat, now <= clock,
         Begin(t, op, path, archive_id, entry, now)
  PROVE  Invariant'
<1> DEFINE new == [op |-> op, path |-> path, archive_id |-> archive_id,
                   entry |-> entry, now |-> now]
<1> USE DEF Begin
<1>1. /\ new \in CallType
      /\ new.op = op /\ new.path = path /\ new.archive_id = archive_id
      /\ new.now = now
  BY DEF CallType
<1> HIDE DEF new
<1>2. call' = [call EXCEPT ![t] = new]
  BY DEF new
<1>3. <<>> \in Seq(EntryRecords) /\ Len(<<>>) = 0
  BY EmptySeq
<1>4. TypeOK
  BY DEF Invariant
<1>5. CacheInv(cache)' /\ Bounded'
  BY DEF Invariant, Bounded
<1>6. TypeOK'
  <2>1. NoReply \in [error : {0, -1}, id : Nat]
    BY DEF NoReply, NoId
  <2>2. /\ call' \in [Threads -> CallType]
        /\ pc' \in [Threads -> {"idle", "waiting", "locked", "scanning"}]
        /\ locked_at' \in [Threads -> Nat]
        /\ served' \in [Threads -> Seq(EntryRecords)]
        /\ reply' \in [Threads -> [error : {0, -1}, id : Nat]]
    BY <1>1, <1>2, <1>3, <1>4, <2>1, SMTT(30) DEF TypeOK
  <2>3. CacheTypeOK(cache)'
    BY <1>5 DEF CacheInv
  <2> QED BY <1>4, <2>2, <2>3 DEF TypeOK
<1>7. pc[t] = "idle" /\ lock # t /\ pc'[t] = "waiting"
  BY <1>4 DEF Invariant, LockInv, TypeOK
<1>8. \A u \in Threads \ {t} :
        /\ pc'[u] = pc[u] /\ call'[u] = call[u] /\ served'[u] = served[u]
        /\ locked_at'[u] = locked_at[u]
  BY <1>4 DEF TypeOK
<1>9. call'[t] = new /\ served'[t] = <<>> /\ locked_at'[t] = 0
  BY <1>2, <1>4 DEF TypeOK
<1>10. LockInv'
  BY <1>7, <1>8 DEF Invariant, LockInv
<1>11. CallInv'
  BY <1>1, <1>7, <1>8, <1>9 DEF Invariant, CallInv
<1>12. TimeInv'
  BY <1>1, <1>4, <1>7, <1>8, <1>9 DEF Invariant, TimeInv, BornBy, TypeOK
<1>13. ServedInv'
  <2>1. ServedInGrace'
    BY <1>3, <1>8, <1>9 DEF Invariant, ServedInv, ServedInGrace
  <2>2. ASSUME NEW u \in Threads
        PROVE  /\ pc'[u] \in {"waiting", "locked"} => served'[u] = <<>>
               /\ pc'[u] = "scanning" => ~HeadExpired(u)'
    BY <1>7, <1>8, <1>9 DEF Invariant, ServedInv, HeadExpired
  <2> QED BY <2>1, <2>2 DEF ServedInv
<1> QED BY <1>5, <1>6, <1>10, <1>11, <1>12, <1>13 DEF Invariant

\* Every way a call ends.
LEMMA UnlockKeeps ==
  ASSUME Invariant, NEW t \in Threads, lock = t,
         NEW error \in {0, -1}, NEW id \in Nat,
         Unlock(t, error, id),
         CacheInv(cache)', Bounded', BornBy(cache, clock)',
         served' \in [Threads -> Seq(EntryRecords)], ServedInGrace',
         \A u \in Threads \ {t} : served'[u] = served[u],
         dir_id' \in
           [Threads -> [archivepath : Archives \cup {NoArchive}, id : Nat]]
  PROVE  Invariant'
<1> USE DEF Unlock
<1>1. TypeOK
  BY DEF Invariant
<1>2. t # NoThread /\ lock' = NoThread
  BY CacheAssumption
<1>3. NoCall \in CallType /\ NoCall.op = "none" /\ NoCall.now = 0
      /\ NoCall.archive_id = NoId
  BY DEF NoCall, CallType, NoId
<1>4. TypeOK'
  <2>1. [error |-> error, id |-> id] \in [error : {0, -1}, id : Nat]
    OBVIOUS
  <2>2. /\ call' \in [Threads -> CallType]
        /\ pc' \in [Threads -> {"idle", "waiting", "locked", "scanning"}]
        /\ cursor' \in [Threads -> Nat]
        /\ reply' \in [Threads -> [error : {0, -1}, id : Nat]]
    BY <1>1, <1>3, <2>1 DEF TypeOK
  <2>3. CacheTypeOK(cache)'
    BY DEF CacheInv
  <2> QED BY <1>1, <1>2, <2>2, <2>3 DEF TypeOK
<1>5. /\ pc'[t] = "idle" /\ call'[t] = NoCall
      /\ \A u \in Threads \ {t} :
           /\ pc'[u] = pc[u] /\ call'[u] = call[u] /\ cursor'[u] = cursor[u]
           /\ pc[u] \notin {"locked", "scanning"}
  BY <1>1 DEF TypeOK, Invariant, LockInv
<1>6. LockInv'
  BY <1>2, <1>5, CacheAssumption DEF LockInv
<1>7. CallInv'
  BY <1>3, <1>5 DEF Invariant, CallInv
<1>8. TimeInv'
  <2>1. ASSUME NEW u \in Threads
        PROVE  /\ call'[u].now <= clock' /\ locked_at'[u] <= clock'
               /\ lock' # u
    BY <1>1, <1>2, <1>3, <1>5, CacheAssumption, SMTT(30)
    DEF Invariant, TimeInv, TypeOK
  <2> QED BY <2>1 DEF TimeInv
<1>9. ServedInv'
  BY <1>5 DEF Invariant, ServedInv
<1> QED BY <1>4, <1>6, <1>7, <1>8, <1>9 DEF Invariant

\* Once the head of the expiry list is fresh, every entry is.
LEMMA AllFresh ==
  ASSUME Invariant, NEW t \in Threads, ~HeadExpired(t), NEW e \in Live(cache)
  PROVE  cache.ents[e].born + Grace >= locked_at[t]
<1> DEFINE h == Head(cache.expire)
<1>1. CacheInv(cache) /\ locked_at[t] \in Nat
      /\ \A x \in Live(cache) : cache.ents[x] \in EntryRecords
  BY DEF Invariant, TypeOK, CacheTypeOK
<1>2. /\ cache.expire # <<>> /\ h \in Live(cache)
      /\ cache.ents[h].born <= cache.ents[e].born
  BY <1>1, HeadOldest
<1>3. ~(cache.ents[h].expire < locked_at[t])
  BY <1>2 DEF HeadExpired
<1>4. cache.ents[h].expire <= cache.ents[h].born + Grace
  BY <1>1, <1>2 DEF CacheInv, Aged
<1>5. /\ cache.ents[h].expire \in Int /\ cache.ents[h].born \in Int
      /\ cache.ents[e].born \in Int
  BY <1>1, <1>2 DEF EntryRecords
<1> DEFINE head_expire == cache.ents[h].expire
           head_born == cache.ents[h].born
           born == cache.ents[e].born
           now == locked_at[t]
<1>6. /\ head_expire \in Int /\ head_born \in Int /\ born \in Int
      /\ now \in Int /\ head_born <= born
      /\ ~(head_expire < now) /\ head_expire <= head_born + Grace
  BY <1>1, <1>2, <1>3, <1>4, <1>5
<1> HIDE DEF head_expire, head_born, born, now
<1>7. born + Grace >= now
  BY <1>6, CacheAssumption
<1> QED BY <1>7 DEF born, now

\* The steps between pthread_mutex_lock and pthread_mutex_unlock.
LEMMA CriticalKeeps ==
  ASSUME Invariant, NEW t \in Threads, Critical(t)
  PROVE  Invariant'
<1>1. TypeOK /\ CacheInv(cache) /\ cache.num_entries <= MaxEntries
  BY DEF Invariant, Bounded
<1>2. pc[t] \in {"locked", "scanning"}
  BY DEF Critical, ExpungeOne, InsertDone, InsertNoMemory, GetHit, Miss,
         ScanBegin, ScanMember, ScanEnd, InBody
<1>3. lock = t /\ BornBy(cache, locked_at[t]) /\ call[t].now <= locked_at[t]
      /\ locked_at[t] <= clock
  BY <1>2 DEF Invariant, LockInv, TimeInv
<1>4. /\ call[t] \in CallType /\ locked_at[t] \in Nat /\ clock \in Nat
      /\ served[t] \in Seq(EntryRecords) /\ cursor[t] \in Nat
      /\ cache.next_id \in Nat /\ \A x \in Live(cache) : x \in Nat
      /\ cache.num_entries \in Nat
  BY <1>1 DEF TypeOK, CacheTypeOK
<1>5. \A u \in Threads \ {t} : pc[u] \notin {"locked", "scanning"} /\ lock # u
  BY <1>3 DEF Invariant, LockInv
<1>6. \A e \in Live(cache) : cache.ents[e] \in EntryRecords
  BY <1>1 DEF TypeOK, CacheTypeOK
<1>7. ~HeadExpired(t) => \A e \in Live(cache) :
                          cache.ents[e].born + Grace >= locked_at[t]
  BY AllFresh
<1>8. \A c : BornBy(c, locked_at[t]) /\ CacheTypeOK(c) => BornBy(c, clock)
  <2> SUFFICES ASSUME NEW c, BornBy(c, locked_at[t]), CacheTypeOK(c),
                      NEW e \in Live(c)
               PROVE  c.ents[e].born <= clock
    BY DEF BornBy
  <2>1. c.ents[e].born \in Int /\ c.ents[e].born <= locked_at[t]
    BY DEF BornBy, CacheTypeOK, EntryRecords
  <2> QED BY <1>3, <1>4, <2>1
<1>9. ASSUME InBody(t, "insert")
      PROVE  /\ call[t].path \in Paths
             /\ call[t].path.relpath = Root => call[t].archive_id = NoId
             /\ \A id \in Nat : RememberDir(t, id) =>
                  dir_id' \in [Threads ->
                    [archivepath : Archives \cup {NoArchive}, id : Nat]]
  <2>1. /\ call[t].path \in Paths
        /\ call[t].path.relpath = Root => call[t].archive_id = NoId
    BY <1>9 DEF InBody, Invariant, CallInv
  <2>2. ASSUME NEW id \in Nat, RememberDir(t, id)
        PROVE  dir_id' \in [Threads ->
                 [archivepath : Archives \cup {NoArchive}, id : Nat]]
    <3> DEFINE new == [archivepath |-> call[t].path.archivepath, id |-> id]
    <3>1. new \in [archivepath : Archives \cup {NoArchive}, id : Nat]
      BY <2>1 DEF Paths
    <3> HIDE DEF new
    <3>2. dir_id' = dir_id \/ dir_id' = [dir_id EXCEPT ![t] = new]
      BY <2>2 DEF RememberDir, new
    <3> QED BY <1>1, <3>1, <3>2 DEF TypeOK
  <2> QED BY <2>1, <2>2
<1>10. CASE ExpungeOne(t)
  <2> DEFINE d == Delete(cache, Head(cache.expire))
  <2>1. /\ cache' = d /\ cache.expire # <<>> /\ pc[t] = "locked"
        /\ UNCHANGED <<clock, lock, pc, call, locked_at, cursor, served,
                       reply, dir_id>>
    BY <1>10 DEF ExpungeOne, HeadExpired
  <2>2. Head(cache.expire) \in Live(cache)
    BY <1>1, <2>1, HeadTailProperties DEF CacheInv, Listed, IsListOf
  <2>3. /\ CacheInv(d)
        /\ Live(d) \subseteq Live(cache)
        /\ \A x \in Live(d) : d.ents[x] = cache.ents[x]
        /\ d.num_entries < cache.num_entries
    BY <1>1, <2>2, DeleteKeeps
  <2> HIDE DEF d
  <2>4. CacheInv(cache)' /\ BornBy(cache, locked_at[t])'
    BY <1>3, <2>1, <2>3 DEF BornBy, CacheInv
  <2>5. Bounded'
    <3>1. d.num_entries \in Nat
      BY <2>3 DEF CacheInv, CacheTypeOK
    <3> QED BY <1>1, <1>4, <2>1, <2>3, <3>1, CacheAssumption DEF Bounded
  <2>6. BornBy(cache, clock)'
    BY <1>3, <2>1, <2>3 DEF BornBy, Invariant, TimeInv
  <2>7. TypeOK'
    <3>1. CacheTypeOK(cache)'
      BY <2>4 DEF CacheInv
    <3> QED BY <1>1, <2>1, <3>1 DEF TypeOK
  <2>8. LockInv' /\ CallInv'
    BY <1>5, <2>1 DEF Invariant, LockInv, CallInv
  <2>9. TimeInv'
    BY <1>3, <1>5, <2>1, <2>4, <2>6 DEF Invariant, TimeInv
  <2>10. ServedInv'
    <3>1. ServedInGrace'
      BY <2>1 DEF Invariant, ServedInv, ServedInGrace
    <3>2. \A u \in Threads : pc[u] # "scanning"
      BY <1>5, <2>1
    <3> QED BY <2>1, <3>1, <3>2 DEF Invariant, ServedInv
  <2> QED BY <2>4, <2>5, <2>7, <2>8, <2>9, <2>10 DEF Invariant
<1>11. CASE InsertDone(t)
  <2> DEFINE expire == call[t].now + Grace
             d == Insert(cache, call[t].path, call[t].archive_id,
                         call[t].entry, expire, locked_at[t])
  <2>1. InBody(t, "insert") /\ cache' = d
    BY <1>11 DEF InsertDone
  <2>2. expire \in Int /\ expire <= locked_at[t] + Grace
    BY <1>3, <1>4, CacheAssumption, SMTT(30) DEF CallType
  <2>3. /\ call[t].archive_id \in Nat /\ locked_at[t] \in Int
        /\ call[t].entry \in Metadata \cup {NoMetadata}
    BY <1>4 DEF CallType
  <2> HIDE DEF expire
  <2>4. CacheInv(d) /\ BornBy(d, locked_at[t]) /\ d.num_entries <= MaxEntries
    BY <1>1, <1>3, <1>9, <2>1, <2>2, <2>3, InsertKeeps
  <2> HIDE DEF d
  <2>5. /\ CacheInv(cache)' /\ Bounded' /\ BornBy(cache, clock)'
    BY <1>8, <1>11, <2>1, <2>4 DEF CacheInv, Bounded, InsertDone, Unlock
  <2>6. /\ served' = served /\ locked_at' = locked_at
        /\ Unlock(t, 0, cache.next_id) /\ RememberDir(t, cache.next_id)
    BY <1>11 DEF InsertDone, Unlock
  <2>7. ServedInGrace' /\ served' \in [Threads -> Seq(EntryRecords)]
    BY <1>1, <2>6 DEF Invariant, ServedInv, ServedInGrace, TypeOK
  <2> QED BY <1>3, <1>4, <1>9, <2>1, <2>5, <2>6, <2>7, UnlockKeeps
<1>12. CASE InsertNoMemory(t)
  <2> DEFINE d == MakeRoom(cache, call[t].path)
  <2>1. InBody(t, "insert") /\ cache' = d
    BY <1>12 DEF InsertNoMemory
  <2>2. /\ CacheInv(d) /\ d.num_entries < MaxEntries
        /\ Live(d) \subseteq Live(cache)
        /\ \A x \in Live(d) : d.ents[x] = cache.ents[x]
    BY <1>1, MakeRoomKeeps
  <2> HIDE DEF d
  <2>3. d.num_entries <= MaxEntries
    BY <2>2, CacheAssumption DEF CacheInv, CacheTypeOK
  <2>4. BornBy(d, locked_at[t])
    BY <1>3, <2>2 DEF BornBy
  <2>5. CacheInv(cache)' /\ Bounded' /\ BornBy(cache, clock)'
    BY <1>8, <1>12, <2>1, <2>2, <2>3, <2>4
       DEF CacheInv, Bounded, InsertNoMemory, Unlock
  <2>6. /\ served' = served /\ locked_at' = locked_at
        /\ Unlock(t, 0, NoId) /\ RememberDir(t, NoId)
    BY <1>12 DEF InsertNoMemory, Unlock
  <2>7. ServedInGrace' /\ served' \in [Threads -> Seq(EntryRecords)]
    BY <1>1, <2>6 DEF Invariant, ServedInv, ServedInGrace, TypeOK
  <2>8. NoId \in Nat
    BY DEF NoId
  <2> QED BY <1>3, <1>9, <2>1, <2>5, <2>6, <2>7, <2>8, UnlockKeeps
<1>13. CASE GetHit(t)
  <2> DEFINE e == Find(cache, call[t].path)
             d == Touch(cache, e)
  <2>1. /\ InBody(t, "get") /\ e # NoId /\ cache' = d
        /\ served' = [served EXCEPT ![t] = <<cache.ents[e]>>]
        /\ Unlock(t, 0, NoId) /\ dir_id' = dir_id
        /\ locked_at' = locked_at /\ clock' = clock
    BY <1>13 DEF GetHit, Unlock
  <2>2. e \in Live(cache)
    BY <1>1, <2>1, FindFinds DEF CacheInv
  <2> HIDE DEF e
  <2>3. CacheInv(d) /\ d.ents = cache.ents /\ d.num_entries = cache.num_entries
    BY <1>1, <2>2, TouchKeeps
  <2> HIDE DEF d
  <2>4. CacheInv(cache)' /\ Bounded' /\ BornBy(cache, clock)'
    BY <1>1, <2>1, <2>3 DEF Bounded, BornBy, Live, Invariant, TimeInv, CacheInv
  <2>5. /\ <<cache.ents[e]>> \in Seq(EntryRecords)
        /\ Len(<<cache.ents[e]>>) = 1
        /\ <<cache.ents[e]>>[1] = cache.ents[e]
    BY <1>6, <2>2
  <2>6. /\ served' \in [Threads -> Seq(EntryRecords)]
        /\ served'[t] = <<cache.ents[e]>>
        /\ \A u \in Threads \ {t} : served'[u] = served[u]
    BY <1>1, <2>1, <2>5 DEF TypeOK
  <2>7. cache.ents[e].born + Grace >= locked_at[t]
    BY <1>7, <2>1, <2>2 DEF InBody
  <2>8. ServedInGrace'
    <3> SUFFICES ASSUME NEW u \in Threads, NEW i \in 1 .. Len(served'[u])
                 PROVE  served'[u][i].born + Grace >= locked_at'[u]
      BY DEF ServedInGrace
    <3>1. CASE u = t
      <4>1. Len(served'[u]) = 1
        BY <2>5, <2>6, <3>1
      <4>2. i = 1
        BY <4>1
      <4> QED BY <2>1, <2>5, <2>6, <2>7, <3>1, <4>2
    <3>2. CASE u # t
      BY <2>1, <2>6, <3>2 DEF Invariant, ServedInv, ServedInGrace
    <3> QED BY <3>1, <3>2
  <2>9. NoId \in Nat /\ dir_id' \in
          [Threads -> [archivepath : Archives \cup {NoArchive}, id : Nat]]
    BY <1>1, <2>1 DEF NoId, TypeOK
  <2> QED BY <1>3, <2>1, <2>4, <2>6, <2>8, <2>9, UnlockKeeps
<1>14. CASE Miss(t)
  <2>1. /\ UNCHANGED <<cache, served, dir_id, clock, locked_at>>
        /\ Unlock(t, -1, NoId)
    BY <1>14 DEF Miss, Unlock
  <2>2. CacheInv(cache)' /\ Bounded' /\ BornBy(cache, clock)'
    BY <1>1, <2>1 DEF Bounded, BornBy, Live, Invariant, TimeInv, CacheInv
  <2>3. /\ served' \in [Threads -> Seq(EntryRecords)]
        /\ ServedInGrace'
        /\ NoId \in Nat
        /\ dir_id' \in
             [Threads -> [archivepath : Archives \cup {NoArchive}, id : Nat]]
    BY <1>1, <2>1 DEF Invariant, ServedInv, ServedInGrace, TypeOK, NoId
  <2> QED BY <1>3, <2>1, <2>2, <2>3, UnlockKeeps
<1>15. CASE ScanBegin(t)
  <2>1. /\ UNCHANGED <<cache, clock, lock, call, locked_at, served, reply,
                       dir_id>>
        /\ pc' = [pc EXCEPT ![t] = "scanning"]
        /\ cursor' = [cursor EXCEPT ![t] = 1]
        /\ pc[t] = "locked" /\ ~HeadExpired(t) /\ call[t].op = "scandir"
        /\ Find(cache, call[t].path) # NoId
    BY <1>15 DEF ScanBegin, InBody
  <2>2. /\ pc'[t] = "scanning" /\ cursor'[t] = 1
        /\ \A u \in Threads \ {t} : pc'[u] = pc[u] /\ cursor'[u] = cursor[u]
    BY <1>1, <2>1 DEF TypeOK
  <2>3. TypeOK' /\ CacheInv(cache)' /\ Bounded'
    <3>1. CacheInv(cache)' /\ Bounded'
      BY <1>1, <2>1 DEF Bounded
    <3>2. CacheTypeOK(cache)'
      BY <3>1 DEF CacheInv
    <3> QED BY <1>1, <2>1, <3>1, <3>2 DEF TypeOK
  <2>4. LockInv' /\ CallInv'
    BY <1>3, <2>1, <2>2 DEF Invariant, LockInv, CallInv
  <2>5. TimeInv'
    BY <2>1 DEF Invariant, TimeInv, BornBy
  <2>6. ServedInv'
    <3>1. ServedInGrace'
      BY <2>1 DEF Invariant, ServedInv, ServedInGrace
    <3>2. ASSUME NEW u \in Threads
          PROVE  /\ pc'[u] \in {"waiting", "locked"} => served'[u] = <<>>
                 /\ pc'[u] = "scanning" => ~HeadExpired(u)'
      BY <2>1, <2>2 DEF Invariant, ServedInv, HeadExpired
    <3> QED BY <3>1, <3>2 DEF ServedInv
  <2> QED BY <2>3, <2>4, <2>5, <2>6 DEF Invariant
<1>16. CASE ScanMember(t)
  <2> DEFINE h == Find(cache, call[t].path)
             e == ScannedDir(t)[cursor[t]]
             d == Touch(cache, e)
             rec == cache.ents[e]
  <2>1. /\ pc[t] = "scanning" /\ cursor[t] <= Len(cache.ents[h].dir)
        /\ cache' = d
        /\ served' = [served EXCEPT ![t] = Append(@, rec)]
        /\ cursor' = [cursor EXCEPT ![t] = @ + 1]
        /\ UNCHANGED <<clock, lock, pc, call, locked_at, reply, dir_id>>
    BY <1>16 DEF ScanMember, ScannedDir
  <2>2. h # NoId /\ cursor[t] >= 1 /\ ~HeadExpired(t)
    BY <2>1 DEF Invariant, CallInv, ServedInv
  <2>3. h \in Live(cache)
    BY <1>1, <2>2, FindFinds DEF CacheInv
  <2>4. cache.ents[h].dir \in Seq(Nat)
    BY <1>6, <2>3 DEF EntryRecords
  <2>5. e \in Live(cache)
    <3>1. cursor[t] \in 1 .. Len(cache.ents[h].dir)
      BY <1>4, <2>1, <2>2, <2>4
    <3>2. cache.ents[h].dir[cursor[t]] \in Live(cache)
      BY <1>1, <2>3, <3>1 DEF CacheInv, ChainsSound
    <3> QED BY <3>2 DEF ScannedDir
  <2>6. rec \in EntryRecords /\ rec.born + Grace >= locked_at[t]
    BY <1>6, <1>7, <2>2, <2>5
  <2> HIDE DEF e
  <2>7. /\ CacheInv(d) /\ d.ents = cache.ents /\ d.expire = cache.expire
        /\ d.num_entries = cache.num_entries
    BY <1>1, <2>5, TouchKeeps
  <2> HIDE DEF d, rec
  <2>8. CacheInv(cache)' /\ Bounded' /\ BornBy(cache, clock)'
        /\ BornBy(cache, locked_at[t])'
    BY <1>1, <1>3, <2>1, <2>7
       DEF Bounded, BornBy, Live, Invariant, TimeInv, CacheInv
  <2>9. \A path : Find(cache, path)' = Find(cache', path)
    OBVIOUS
  <2>10. \A path : Find(cache', path) = Find(cache, path)
    BY <2>1, <2>7 DEF Find, Live
  <2>11. /\ Append(served[t], rec) \in Seq(EntryRecords)
         /\ Len(Append(served[t], rec)) = Len(served[t]) + 1
         /\ \A i \in 1 .. Len(served[t]) :
              Append(served[t], rec)[i] = served[t][i]
         /\ Append(served[t], rec)[Len(served[t]) + 1] = rec
         /\ Len(served[t]) \in Nat
    BY <1>4, <2>6, AppendProperties, LenProperties
  <2>12. /\ served' \in [Threads -> Seq(EntryRecords)]
         /\ served'[t] = Append(served[t], rec)
         /\ \A u \in Threads \ {t} : served'[u] = served[u]
         /\ cursor' \in [Threads -> Nat]
         /\ cursor'[t] = cursor[t] + 1
    <3> DEFINE new == Append(served[t], rec)
    <3>1. new \in Seq(EntryRecords) /\ served' = [served EXCEPT ![t] = new]
      BY <2>1, <2>11
    <3> HIDE DEF new
    <3>2. /\ served' \in [Threads -> Seq(EntryRecords)]
          /\ served'[t] = new
          /\ \A u \in Threads \ {t} : served'[u] = served[u]
      BY <1>1, <3>1 DEF TypeOK
    <3>3. /\ cursor' \in [Threads -> Nat]
          /\ cursor'[t] = cursor[t] + 1
      BY <1>1, <1>4, <2>1, SMTT(30) DEF TypeOK
    <3> QED BY <3>2, <3>3 DEF new
  <2>13. TypeOK'
    <3>1. CacheTypeOK(cache)'
      BY <2>8 DEF CacheInv
    <3> QED BY <1>1, <2>1, <2>12, <3>1 DEF TypeOK
  <2>14. LockInv' /\ TimeInv'
    BY <1>3, <1>5, <2>1, <2>8 DEF Invariant, LockInv, TimeInv
  <2>15. CallInv'
    <3>1. ASSUME NEW u \in Threads, pc'[u] = "scanning" PROVE u = t
      BY <1>5, <2>1, <3>1
    <3>2. cursor'[t] >= 1
      BY <1>4, <2>2, <2>12
    <3> QED BY <2>1, <2>2, <2>10, <3>1, <3>2 DEF Invariant, CallInv
  <2>16. ServedInGrace'
    <3> SUFFICES ASSUME NEW u \in Threads, NEW i \in 1 .. Len(served'[u])
                 PROVE  served'[u][i].born + Grace >= locked_at'[u]
      BY DEF ServedInGrace
    <3>1. CASE u = t /\ i = Len(served[t]) + 1
      BY <2>1, <2>6, <2>11, <2>12, <3>1
    <3>2. CASE u = t /\ i # Len(served[t]) + 1
      <4>1. i \in 1 .. Len(served[t])
        BY <2>11, <2>12, <3>2
      <4>2. served[t][i].born + Grace >= locked_at[t]
        BY <4>1 DEF Invariant, ServedInv, ServedInGrace
      <4> QED BY <2>1, <2>11, <2>12, <3>2, <4>1, <4>2
    <3>3. CASE u # t
      BY <2>1, <2>12, <3>3 DEF Invariant, ServedInv, ServedInGrace
    <3> QED BY <3>1, <3>2, <3>3
  <2>17. ServedInv'
    <3>1. ASSUME NEW u \in Threads
          PROVE  /\ pc'[u] \in {"waiting", "locked"} => served'[u] = <<>>
                 /\ pc'[u] = "scanning" => ~HeadExpired(u)'
      <4>1. CASE u = t
        BY <2>1, <2>2, <2>7, <4>1 DEF HeadExpired
      <4>2. CASE u # t
        BY <1>5, <2>1, <2>12, <4>2 DEF Invariant, ServedInv
      <4> QED BY <4>1, <4>2
    <3> QED BY <2>16, <3>1 DEF ServedInv
  <2> QED BY <2>8, <2>13, <2>14, <2>15, <2>17 DEF Invariant
<1>17. CASE ScanEnd(t)
  <2> DEFINE h == Find(cache, call[t].path)
             d == Touch(cache, h)
  <2>1. /\ pc[t] = "scanning" /\ cache' = d
        /\ UNCHANGED <<served, dir_id, clock, locked_at>>
        /\ Unlock(t, 0, NoId)
    BY <1>17 DEF ScanEnd, Unlock
  <2>2. h # NoId
    BY <2>1 DEF Invariant, CallInv
  <2>3. h \in Live(cache)
    BY <1>1, <2>2, FindFinds DEF CacheInv
  <2> HIDE DEF h
  <2>4. CacheInv(d) /\ d.ents = cache.ents /\ d.num_entries = cache.num_entries
    BY <1>1, <2>3, TouchKeeps
  <2> HIDE DEF d
  <2>5. CacheInv(cache)' /\ Bounded' /\ BornBy(cache, clock)'
    BY <1>1, <2>1, <2>4 DEF Bounded, BornBy, Live, Invariant, TimeInv, CacheInv
  <2>6. /\ served' \in [Threads -> Seq(EntryRecords)]
        /\ ServedInGrace'
        /\ NoId \in Nat
        /\ dir_id' \in
             [Threads -> [archivepath : Archives \cup {NoArchive}, id : Nat]]
    BY <1>1, <2>1 DEF Invariant, ServedInv, ServedInGrace, TypeOK, NoId
  <2> QED BY <1>3, <2>1, <2>5, <2>6, UnlockKeeps
<1> QED BY <1>10, <1>11, <1>12, <1>13, <1>14, <1>15, <1>16, <1>17 DEF Critical

\* The mutex is taken: everything in the cache went in before now.
LEMMA AcquireKeeps ==
  ASSUME Invariant, NEW t \in Threads, Acquire(t)
  PROVE  Invariant'
<1> USE DEF Acquire
<1>1. TypeOK
  BY DEF Invariant
<1>2. /\ pc'[t] = "locked" /\ locked_at'[t] = clock
      /\ \A u \in Threads \ {t} :
           pc'[u] = pc[u] /\ locked_at'[u] = locked_at[u]
      /\ \A u \in Threads : pc[u] \notin {"locked", "scanning"}
      /\ lock' = t /\ cache' = cache
  BY <1>1, CacheAssumption DEF TypeOK, Invariant, LockInv
<1>3. CacheInv(cache)' /\ Bounded'
  BY DEF Invariant, Bounded
<1>4. TypeOK'
  <2>1. CacheTypeOK(cache)'
    BY <1>3 DEF CacheInv
  <2> QED BY <1>1, <2>1 DEF TypeOK
<1>5. LockInv' /\ CallInv'
  BY <1>2 DEF Invariant, LockInv, CallInv
<1>6. TimeInv'
  <2>1. BornBy(cache, clock) /\ BornBy(cache, clock)'
    BY DEF Invariant, TimeInv, BornBy
  <2>2. ASSUME NEW u \in Threads
        PROVE  /\ call'[u].now <= clock' /\ locked_at'[u] <= clock'
               /\ lock' = u => /\ BornBy(cache', locked_at'[u])
                               /\ call'[u].now <= locked_at'[u]
    BY <1>1, <1>2, <2>1 DEF Invariant, TimeInv, TypeOK
  <2> QED BY <2>1, <2>2 DEF TimeInv
<1>7. ServedInv'
  <2>1. served[t] = <<>> /\ Len(<<>>) = 0
    BY EmptySeq DEF Invariant, ServedInv
  <2>2. ServedInGrace'
    BY <1>2, <2>1 DEF Invariant, ServedInv, ServedInGrace
  <2>3. ASSUME NEW u \in Threads
        PROVE  /\ pc'[u] \in {"waiting", "locked"} => served'[u] = <<>>
               /\ pc'[u] # "scanning"
    BY <1>2, <2>1 DEF Invariant, ServedInv
  <2> QED BY <2>2, <2>3 DEF ServedInv
<1> QED BY <1>3, <1>4, <1>5, <1>6, <1>7 DEF Invariant

\* Every step of every thread, and of the clock, keeps the invariant.
LEMMA NextKeeps == Invariant /\ [Next]_vars => Invariant'
<1> SUFFICES ASSUME Invariant, [Next]_vars PROVE Invariant'
  OBVIOUS
<1>1. TypeOK
  BY DEF Invariant
<1>2. CASE UNCHANGED vars
  <2>1. CacheInv(cache)' /\ Bounded' /\ TypeOK'
    <3>1. CacheInv(cache)' /\ Bounded'
      BY <1>2 DEF Invariant, Bounded, vars
    <3>2. CacheTypeOK(cache)'
      BY <3>1 DEF CacheInv
    <3> QED BY <1>1, <1>2, <3>1, <3>2 DEF TypeOK, vars
  <2>2. LockInv' /\ CallInv' /\ TimeInv'
    BY <1>2 DEF Invariant, LockInv, CallInv, TimeInv, BornBy, vars
  <2>3. ServedInv'
    BY <1>2 DEF Invariant, ServedInv, ServedInGrace, HeadExpired, vars
  <2> QED BY <2>1, <2>2, <2>3 DEF Invariant
<1>3. CASE Tick
  <2>1. CacheInv(cache)' /\ Bounded' /\ TypeOK'
    <3>1. CacheInv(cache)' /\ Bounded'
      BY <1>3 DEF Invariant, Bounded, Tick
    <3>2. CacheTypeOK(cache)'
      BY <3>1 DEF CacheInv
    <3> QED BY <1>1, <1>3, <3>1, <3>2 DEF TypeOK, Tick
  <2>2. LockInv' /\ CallInv'
    BY <1>3 DEF Invariant, LockInv, CallInv, Tick
  <2>3. TimeInv'
    <3>1. clock \in Nat /\ clock' = clock + 1 /\ cache' = cache
      BY <1>1, <1>3 DEF Tick, TypeOK
    <3>2. \A t \in Threads : /\ call[t].now \in Nat /\ locked_at[t] \in Nat
                             /\ call[t].now <= clock /\ locked_at[t] <= clock
      BY <1>1 DEF TypeOK, CallType, Invariant, TimeInv
    <3>3. BornBy(cache, clock)'
      <4>1. \A e \in Live(cache) : /\ cache.ents[e].born \in Int
                                   /\ cache.ents[e].born <= clock
        BY <1>1 DEF TypeOK, CacheTypeOK, EntryRecords, Invariant, TimeInv,
                    BornBy
      <4> QED BY <3>1, <4>1 DEF BornBy
    <3> QED BY <1>3, <3>1, <3>2, <3>3 DEF Tick, Invariant, TimeInv, BornBy
  <2>4. ServedInv'
    BY <1>3 DEF Invariant, ServedInv, ServedInGrace, HeadExpired, Tick
  <2> QED BY <2>1, <2>2, <2>3, <2>4 DEF Invariant
<1>4. ASSUME NEW t \in Threads, BeginCall(t) PROVE Invariant'
  <2>1. /\ clock \in Nat /\ 0 <= clock /\ NoId = 0
        /\ NoMetadata \in Metadata \cup {NoMetadata}
    BY <1>1 DEF TypeOK, NoId
  <2>2. \A a \in Archives : RootPath(a) \in Paths /\ RootPath(a).relpath = Root
    BY DEF RootPath, Paths
  <2>3. \A a \in Archives, name \in Names :
          /\ [archivepath |-> a, relpath |-> name] \in Paths
          /\ [archivepath |-> a, relpath |-> name].relpath # Root
    BY CacheAssumption DEF Paths
  <2>4. ASSUME NEW a \in Archives, BeginInsertRoot(t, a) PROVE Invariant'
    BY <2>1, <2>2, <2>4, BeginKeeps DEF BeginInsertRoot, BeginInsert
  <2>5. ASSUME NEW a \in Archives, BeginScandir(t, a) PROVE Invariant'
    BY <2>1, <2>2, <2>5, BeginKeeps DEF BeginScandir
  <2>6. ASSUME NEW name \in Names, NEW m \in Metadata,
               BeginInsertMember(t, name, m)
        PROVE  Invariant'
    <3>1. dir_id[t].archivepath \in Archives /\ dir_id[t].id \in Nat
      BY <1>1, <2>6 DEF BeginInsertMember, TypeOK
    <3> QED BY <2>1, <2>3, <2>6, <3>1, BeginKeeps
            DEF BeginInsertMember, BeginInsert
  <2>7. ASSUME NEW a \in Archives, NEW name \in Names, NEW m \in Metadata,
               BeginInsertAttr(t, a, name, m)
        PROVE  Invariant'
    BY <2>1, <2>3, <2>7, BeginKeeps DEF BeginInsertAttr, BeginInsert
  <2>8. ASSUME NEW a \in Archives, NEW name \in Names, BeginGet(t, a, name)
        PROVE  Invariant'
    BY <2>1, <2>3, <2>8, BeginKeeps DEF BeginGet
  <2> QED BY <1>4, <2>4, <2>5, <2>6, <2>7, <2>8 DEF BeginCall
<1> QED BY <1>2, <1>3, <1>4, AcquireKeeps, CriticalKeeps DEF Next, CacheStep

-----------------------------------------------------------------------------
(* The theorems.                                                           *)

(***************************************************************************)
(* Whatever calls the threads make, in whatever order they get the mutex   *)
(* and whatever the time is then, the cache (peepfs_cache.h) is sound and  *)
(* the calls under way agree with it.                                      *)
(***************************************************************************)
THEOREM InvariantHolds == Spec => []Invariant
<1>1. Init => Invariant
  BY InitInvariant
<1>2. Invariant /\ [Next]_vars => Invariant'
  BY NextKeeps
<1> QED BY <1>1, <1>2, PTL DEF Spec

\* Type correctness, of the cache (peepfs_cache.h) and of each call.
THEOREM TypeCorrect == Spec => []TypeOK
<1>1. Invariant => TypeOK
  BY DEF Invariant
<1> QED BY <1>1, InvariantHolds, PTL

(***************************************************************************)
(* Both lists, the hash and the counter always describe the same entries:  *)
(* no sequence of calls leaves an entry on a list after it was freed, or   *)
(* in the hash but on no list (__peepfs_cache_delete, peepfs_cache_insert).*)
(***************************************************************************)
THEOREM StructuresAgree == Spec => []ListsAgree
<1>1. Invariant => ListsAgree
  BY DEF Invariant, CacheInv, ListsAgree
<1> QED BY <1>1, InvariantHolds, PTL

\* The equality test in peepfs_cache_insert is enough to bound the cache.
THEOREM CacheBounded == Spec => []Bounded
<1>1. Invariant => Bounded
  BY DEF Invariant
<1> QED BY <1>1, InvariantHolds, PTL

\* The hash never holds two entries for one path.
THEOREM PathsUnique == Spec => []OnePerPath
<1>1. Invariant => OnePerPath
  BY DEF Invariant, CacheInv, OnePerPath
<1> QED BY <1>1, InvariantHolds, PTL

(***************************************************************************)
(* No chain of a live Root entry leads to a freed member, whatever was     *)
(* replaced, evicted or expired, although no delete repairs a chain.       *)
(***************************************************************************)
THEOREM NoDanglingChain == Spec => []DirChainsSound
<1>1. Invariant => DirChainsSound
  BY DEF Invariant, CacheInv, DirChainsSound
<1> QED BY <1>1, InvariantHolds, PTL

(***************************************************************************)
(* Nothing is served that went in more than "grace" seconds before the     *)
(* call took the lock: the list by expiry is sorted by time of insertion,  *)
(* and its head, which the expunge looks at, is the oldest.                *)
(***************************************************************************)
THEOREM FreshWithinGrace == Spec => []ServedInGrace
<1>1. Invariant => ServedInGrace
  BY DEF Invariant, ServedInv
<1> QED BY <1>1, InvariantHolds, PTL

(***************************************************************************)
(* While peepfs_cache_scandir walks a chain, the Root entry stays in the   *)
(* hash and its chain stays as it was: no other thread gets past the mutex *)
(* and the walk's own list moves touch only the lru order.                 *)
(***************************************************************************)
THEOREM WalkUndisturbed == Spec => ScanUndisturbed
<1>1. ASSUME Invariant, Next PROVE ScanStable
  <2> SUFFICES ASSUME NEW t \in Threads,
                      pc[t] = "scanning", pc'[t] = "scanning"
               PROVE  /\ Find(cache', call[t].path) # NoId
                      /\ ScannedDir(t)' = ScannedDir(t)
    BY DEF ScanStable
  <2>1. TypeOK /\ CacheInv(cache) /\ lock = t /\ Find(cache, call[t].path) # NoId
    BY <1>1 DEF Invariant, LockInv, CallInv
  <2>2. \A u \in Threads \ {t} : pc[u] \notin {"locked", "scanning"}
    BY <1>1, <2>1 DEF Invariant, LockInv
  <2>3. cache'.ents = cache.ents /\ call'[t] = call[t]
    <3>1. CASE Tick
      BY <1>1, <3>1 DEF Tick
    <3>2. ASSUME NEW u \in Threads, BeginCall(u)
          PROVE  cache' = cache /\ call'[t] = call[t]
      <4>1. PICK op, path, id, entry, now : Begin(u, op, path, id, entry, now)
        BY <3>2 DEF BeginCall, BeginInsertRoot, BeginScandir,
           BeginInsertMember, BeginInsertAttr, BeginGet, BeginInsert
      <4>2. u # t
        BY <4>1 DEF Begin
      <4> QED BY <2>1, <4>1, <4>2 DEF Begin, TypeOK
    <3>3. ASSUME NEW u \in Threads, Acquire(u) PROVE FALSE
      BY <2>1, <3>3, CacheAssumption DEF Acquire
    <3>4. ASSUME NEW u \in Threads, Critical(u)
          PROVE  cache'.ents = cache.ents /\ call'[t] = call[t]
      <4>1. pc[u] \in {"locked", "scanning"}
        BY <3>4 DEF Critical, ExpungeOne, InsertDone, InsertNoMemory, GetHit,
                    Miss, ScanBegin, ScanMember, ScanEnd, InBody
      <4>2. u = t
        BY <2>2, <4>1
      <4>3. ScanMember(t) \/ ScanEnd(t)
        BY <3>4, <4>2 DEF Critical, ExpungeOne, InsertDone, InsertNoMemory,
                          GetHit, Miss, ScanBegin, InBody
      <4>4. ~ScanEnd(t)
        BY <2>1 DEF ScanEnd, Unlock, TypeOK
      <4>5. PICK e : cache' = Touch(cache, e) /\ call' = call
        BY <4>3, <4>4 DEF ScanMember
      <4> QED BY <2>1, <4>5 DEF Touch, CacheInv, CacheTypeOK
    <3> QED BY <1>1, <3>1, <3>2, <3>3, <3>4 DEF Next, CacheStep
  <2>4. Find(cache', call[t].path) = Find(cache, call[t].path)
    BY <2>3 DEF Find, Live
  <2> QED BY <2>1, <2>3, <2>4 DEF ScannedDir
<1>2. Invariant /\ [Next]_vars => [ScanStable]_vars
  BY <1>1
<1> QED BY <1>2, InvariantHolds, PTL DEF Spec, ScanUndisturbed
=============================================================================
