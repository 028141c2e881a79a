-------------------------- MODULE DiskCacheProofs --------------------------
(***************************************************************************)
(* What DiskCache promises for every number of slots, sectors and writes:  *)
(* its type, that no sector is cached twice, that a cached sector is what  *)
(* the disk holds, and that a read of one sector returns just that.        *)
(***************************************************************************)
EXTENDS DiskCache, TLAPS

\* The sectors a read has passed without finding them are still not cached,
\* and those it is adding were read from the disk.
ReadWindow ==
  /\ pc = "lookup" =>
       /\ req.start <= miss /\ miss <= i /\ i <= End
       /\ \A s \in miss .. i - 1 : Cached(s) = {}
  /\ pc = "populate" =>
       /\ miss <= j /\ j <= i /\ i <= End
       /\ \A s \in j .. i - 1 : Cached(s) = {} /\ buff[s] = disk[s]
  /\ pc = "populate" /\ i # End => hit \in Listed
  /\ pc = "hit" => hit \in Listed /\ i < End
  /\ req.start <= i

CacheInv == TypeOK /\ NoDuplicate /\ Coherent /\ ReadWindow

-----------------------------------------------------------------------------
LEMMA ListedIsSlot ==
  ASSUME TypeOK  PROVE  Listed \subseteq Slot
  BY DEF TypeOK, Listed

LEMMA EndBound ==
  ASSUME TypeOK  PROVE  End \in Nat /\ End <= LastSector + 1 /\ req.start < End
  BY CacheAssumption DEF TypeOK, Requests, End, Sector

\* Putting sector s, which is not cached, into entry e at the end of a list
\* that holds other listed entries.
LEMMA AddKeeps ==
  ASSUME TypeOK, Coherent, disk' = disk,
         NEW e \in Slot, NEW list \in Seq(Slot), NEW s \in Sector,
         \A k \in 1 .. Len(list) : list[k] \in Listed /\ list[k] # e,
         \A k, l \in 1 .. Len(list) :
           k # l => /\ list[k] # list[l]
                    /\ entry[list[k]].sector # entry[list[l]].sector,
         Cached(s) = {},
         Add(e, list, s, disk[s])
  PROVE  /\ lru' \in Seq(Slot)
         /\ entry' \in [Slot -> [sector : Sector, data : Content]]
         /\ torn' \subseteq Sector
         /\ Listed' = {list[k] : k \in 1 .. Len(list)} \cup {e}
         /\ NoDuplicate' /\ Coherent'
         /\ \A t \in Sector \ {s} : Cached(t) = {} => Cached(t)' = {}
<1>1. /\ lru' = Append(list, e) /\ torn' = torn \ {s}
      /\ entry' = [entry EXCEPT ![e] = [sector |-> s, data |-> disk[s]]]
  BY DEF Add
<1>2. /\ lru' \in Seq(Slot) /\ Len(lru') = Len(list) + 1
      /\ \A k \in 1 .. Len(list) : lru'[k] = list[k]
      /\ lru'[Len(list) + 1] = e
  BY <1>1
<1>3. Listed' = {list[k] : k \in 1 .. Len(list)} \cup {e}
  <2> DEFINE old == {list[k] : k \in 1 .. Len(list)}
  <2>1. Len(list) \in Nat /\ Listed' = {lru'[k] : k \in 1 .. Len(list) + 1}
    BY <1>2 DEF Listed
  <2>2. ASSUME NEW k \in 1 .. Len(list) + 1
        PROVE  lru'[k] \in old \cup {e}
    <3>1. CASE k \in 1 .. Len(list)
      BY <1>2, <3>1
    <3>2. CASE k = Len(list) + 1
      BY <1>2, <3>2
    <3> QED
      BY <2>1, <3>1, <3>2
  <2>3. ASSUME NEW x \in old PROVE x \in Listed'
    <3>1. PICK k \in 1 .. Len(list) : x = list[k]
      OBVIOUS
    <3>2. k \in 1 .. Len(list) + 1 /\ lru'[k] = x
      BY <1>2, <2>1, <3>1
    <3> QED
      BY <2>1, <3>2
  <2>4. e \in Listed'
    <3>1. Len(list) + 1 \in 1 .. Len(list) + 1
      BY <2>1
    <3> QED
      BY <1>2, <2>1, <3>1
  <2> HIDE DEF old
  <2>5. Listed' \subseteq old \cup {e}
    BY <2>1, <2>2
  <2> QED
    BY <2>3, <2>4, <2>5 DEF old
<1>4. /\ entry' \in [Slot -> [sector : Sector, data : Content]]
      /\ torn' \subseteq Sector
  BY <1>1 DEF TypeOK
<1>5. /\ entry'[e].sector = s /\ entry'[e].data = disk[s]
      /\ \A f \in Slot \ {e} : entry'[f] = entry[f]
  BY <1>1 DEF TypeOK
<1>6. \A f \in Listed : entry[f].sector # s
  BY DEF Cached
<1>7. NoDuplicate'
  <2> SUFFICES ASSUME NEW k \in 1 .. Len(list) + 1, NEW l \in 1 .. Len(list) + 1,
                      k # l
               PROVE  /\ lru'[k] # lru'[l]
                      /\ entry'[lru'[k]].sector # entry'[lru'[l]].sector
    BY <1>2 DEF NoDuplicate
  <2>1. CASE k \in 1 .. Len(list) /\ l \in 1 .. Len(list)
    BY <2>1, <1>2, <1>5, ListedIsSlot
  <2>2. CASE k = Len(list) + 1
    BY <2>2, <1>2, <1>5, <1>6, ListedIsSlot
  <2>3. CASE l = Len(list) + 1
    BY <2>3, <1>2, <1>5, <1>6, ListedIsSlot
  <2> QED  BY <2>1, <2>2, <2>3
<1>8. Coherent'
  <2> SUFFICES ASSUME NEW f \in Listed', entry'[f].sector \notin torn'
               PROVE  entry'[f].data = disk[entry'[f].sector]
    BY DEF Coherent
  <2>1. CASE f = e
    BY <2>1, <1>5
  <2>2. CASE f # e
    BY <2>2, <1>1, <1>3, <1>5, <1>6, ListedIsSlot DEF Coherent
  <2> QED  BY <2>1, <2>2
<1>9. ASSUME NEW t \in Sector \ {s}, Cached(t) = {}
      PROVE  Cached(t)' = {}
  BY <1>9, <1>3, <1>5, ListedIsSlot DEF Cached
<1> QED  BY <1>2, <1>3, <1>4, <1>7, <1>8, <1>9

\* disk_cache_add() of a sector that is not cached and was read from the disk.
LEMMA DiskCacheAddKeeps ==
  ASSUME TypeOK, NoDuplicate, Coherent, disk' = disk, NEW s \in Sector,
         Cached(s) = {}, disk_cache_add(s, disk[s])
  PROVE  /\ lru' \in Seq(Slot)
         /\ entry' \in [Slot -> [sector : Sector, data : Content]]
         /\ torn' \subseteq Sector
         /\ Listed \subseteq Listed'
         /\ NoDuplicate' /\ Coherent'
         /\ \A t \in Sector \ {s} : Cached(t) = {} => Cached(t)' = {}
<1>1. CASE \E e \in FreeSlots : Add(e, lru, s, disk[s])
  <2>1. PICK e \in FreeSlots : Add(e, lru, s, disk[s])
    BY <1>1
  <2>2. /\ e \in Slot /\ lru \in Seq(Slot)
        /\ \A k \in 1 .. Len(lru) : lru[k] \in Listed /\ lru[k] # e
    BY DEF FreeSlots, Listed, TypeOK
  <2>3. \A k, l \in 1 .. Len(lru) :
          k # l => lru[k] # lru[l] /\ entry[lru[k]].sector # entry[lru[l]].sector
    BY DEF NoDuplicate
  <2>4. PICK list \in Seq(Slot) : list = lru
    BY <2>2
  <2>5. Listed = {list[k] : k \in 1 .. Len(list)}
    BY <2>4 DEF Listed
  <2>6. Add(e, list, s, disk[s])
    BY <2>1, <2>4
  <2>7. /\ lru' \in Seq(Slot)
        /\ entry' \in [Slot -> [sector : Sector, data : Content]]
        /\ torn' \subseteq Sector
        /\ Listed' = {list[k] : k \in 1 .. Len(list)} \cup {e}
        /\ NoDuplicate' /\ Coherent'
        /\ \A t \in Sector \ {s} : Cached(t) = {} => Cached(t)' = {}
    BY <2>2, <2>3, <2>4, <2>6, AddKeeps
  <2> QED  BY <2>5, <2>7
<1>2. CASE FreeSlots = {} /\ Add(Head(lru), Tail(lru), s, disk[s])
  <2>1. lru \in Seq(Slot) /\ lru # <<>>
    BY <1>2, CacheAssumption DEF FreeSlots, Listed, TypeOK
  <2>e. PICK e \in Slot : e = Head(lru)
    BY <2>1
  <2>t. Tail(lru) \in Seq(Slot)
    BY <2>1
  <2>l. PICK list \in Seq(Slot) : list = Tail(lru)
    BY <2>t, Zenon
  <2>2. /\ e \in Slot /\ e = lru[1] /\ list \in Seq(Slot)
        /\ Len(list) = Len(lru) - 1 /\ Len(lru) \in Nat \ {0}
        /\ \A k \in 1 .. Len(list) : list[k] = lru[k + 1]
    BY <2>1, <2>e, <2>l
  <2>3. \A k \in 1 .. Len(list) : list[k] \in Listed /\ list[k] # e
    BY <2>2 DEF Listed, NoDuplicate
  <2>4. \A k, l \in 1 .. Len(list) :
          k # l => /\ list[k] # list[l]
                   /\ entry[list[k]].sector # entry[list[l]].sector
    BY <2>2 DEF NoDuplicate
  <2>5. Listed \subseteq {list[k] : k \in 1 .. Len(list)} \cup {e}
    <3> SUFFICES ASSUME NEW k \in 1 .. Len(lru)
                 PROVE  lru[k] = e \/ \E l \in 1 .. Len(list) : lru[k] = list[l]
      BY DEF Listed
    <3>1. CASE k = 1
      BY <3>1, <2>2
    <3>2. CASE k # 1
      <4>1. k - 1 \in 1 .. Len(list) /\ list[k - 1] = lru[k]
        BY <3>2, <2>2
      <4> QED  BY <4>1
    <3> QED  BY <3>1, <3>2
  <2>6. Add(e, list, s, disk[s])
    BY <1>2, <2>e, <2>l
  <2>7. /\ lru' \in Seq(Slot)
        /\ entry' \in [Slot -> [sector : Sector, data : Content]]
        /\ torn' \subseteq Sector
        /\ Listed' = {list[k] : k \in 1 .. Len(list)} \cup {e}
        /\ NoDuplicate' /\ Coherent'
        /\ \A t \in Sector \ {s} : Cached(t) = {} => Cached(t)' = {}
    BY <2>3, <2>4, <2>6, AddKeeps
  <2> QED  BY <2>5, <2>7
<1> QED  BY <1>1, <1>2 DEF disk_cache_add

\* A bump only reorders the list.
LEMMA BumpKeeps ==
  ASSUME TypeOK, NoDuplicate, Coherent, NEW e \in Listed, lru' = Bumped(e),
         UNCHANGED <<disk, entry, torn>>
  PROVE  /\ lru' \in Seq(Slot) /\ NoDuplicate' /\ Coherent' /\ Listed' = Listed
<1> DEFINE n == Len(lru)
           at == CHOOSE k \in 1 .. n : lru[k] = e
           from(k) == IF k < at THEN k ELSE IF k < n THEN k + 1 ELSE at
<1>1. at \in 1 .. n /\ lru[at] = e
  BY DEF Listed
<1>2. n \in Nat /\ lru \in Seq(Slot)
  BY DEF TypeOK
<1>3. lru' = [k \in 1 .. n |-> IF k < at THEN lru[k]
                                ELSE IF k < n THEN lru[k + 1] ELSE e]
  BY DEF Bumped
<1> HIDE DEF n, at
<1>4. /\ \A k \in 1 .. n : from(k) \in 1 .. n
      /\ \A k, l \in 1 .. n : k # l => from(k) # from(l)
  BY <1>1, <1>2
<1>5. \A m \in 1 .. n : \E k \in 1 .. n : from(k) = m
  <2> SUFFICES ASSUME NEW m \in 1 .. n  PROVE  \E k \in 1 .. n : from(k) = m
    OBVIOUS
  <2>1. CASE m < at
    <3>1. from(m) = m
      BY <2>1
    <3> QED  BY <3>1
  <2>2. CASE m = at
    <3>1. n \in 1 .. n /\ from(n) = at
      BY <1>1, <1>2
    <3> QED  BY <3>1, <2>2
  <2>3. CASE m > at
    <3>1. m - 1 \in 1 .. n /\ from(m - 1) = m
      BY <2>3, <1>1, <1>2
    <3> QED  BY <3>1
  <2> QED  BY <2>1, <2>2, <2>3, <1>1, <1>2
<1>6. \A k \in 1 .. n : lru'[k] = lru[from(k)]
  BY <1>1, <1>3
<1>7. \A k \in 1 .. n : lru[k] \in Slot
  BY <1>2 DEF n
<1>8. lru' \in [1 .. n -> Slot]
  BY <1>3, <1>1, <1>7, <1>2
<1>9. lru' \in Seq(Slot) /\ Len(lru') = n
  BY <1>8, <1>2
<1> HIDE DEF from
<1>10. Listed' = Listed
  <2>1. Listed' = {lru'[k] : k \in 1 .. n} /\ Listed = {lru[k] : k \in 1 .. n}
    BY <1>9 DEF Listed, n
  <2> QED  BY <2>1, <1>4, <1>5, <1>6
<1>11. NoDuplicate'
  <2>1. \A k, l \in 1 .. n :
          k # l => lru[k] # lru[l] /\ entry[lru[k]].sector # entry[lru[l]].sector
    BY DEF NoDuplicate, n
  <2>2. ASSUME NEW k \in 1 .. n, NEW l \in 1 .. n, k # l
        PROVE  /\ lru'[k] # lru'[l]
               /\ entry'[lru'[k]].sector # entry'[lru'[l]].sector
    <3>1. from(k) \in 1 .. n /\ from(l) \in 1 .. n /\ from(k) # from(l)
      BY <1>4, <2>2
    <3>2. lru'[k] = lru[from(k)] /\ lru'[l] = lru[from(l)]
      BY <1>6
    <3> QED  BY <2>1, <3>1, <3>2
  <2> QED  BY <2>2, <1>9 DEF NoDuplicate
<1>12. Coherent'
  BY <1>10 DEF Coherent
<1> QED  BY <1>9, <1>10, <1>11, <1>12

-----------------------------------------------------------------------------
LEMMA CacheInit == Init => CacheInv
  BY CacheAssumption
     DEF Init, CacheInv, TypeOK, NoDuplicate, Coherent, ReadWindow, Listed,
         Sector, Content, Requests

LEMMA ReadKeeps ==
  ASSUME CacheInv, Read  PROVE  CacheInv'
<1> USE CacheAssumption
<1>1. TypeOK /\ NoDuplicate /\ Coherent /\ ReadWindow
  BY DEF CacheInv
<1>2. End \in Nat /\ End <= LastSector + 1 /\ req.start < End /\ req.start \in Nat
  BY <1>1, EndBound DEF TypeOK, Requests, Sector
<1>3. CASE ReadBegin
  <2>1. PICK r \in Requests(MaxRead) :
          req' = r /\ i' = r.start /\ miss' = r.start /\ j' = r.start
    BY <1>3 DEF ReadBegin
  <2>2. /\ pc' = "lookup" /\ hit' = NoSlot
        /\ UNCHANGED <<disk, writes, lru, entry, buff, torn>>
    BY <1>3 DEF ReadBegin
  <2>3. /\ r.start \in 0 .. LastSector /\ r.num \in Nat \ {0}
        /\ r.start + r.num <= LastSector + 1
    BY DEF Requests, Sector
  <2>4. TypeOK'
    BY <1>1, <2>1, <2>2, <2>3 DEF TypeOK
  <2>5. NoDuplicate' /\ Coherent'
    BY <1>1, <2>2 DEF NoDuplicate, Coherent, Listed
  <2>6. ReadWindow'
    BY <2>1, <2>2, <2>3 DEF ReadWindow, End
  <2> QED  BY <2>4, <2>5, <2>6 DEF CacheInv
<1>4. CASE LookupMiss
  <2>1. TypeOK'
    BY <1>1, <1>2, <1>4 DEF LookupMiss, TypeOK
  <2>2. NoDuplicate' /\ Coherent'
    BY <1>1, <1>4 DEF LookupMiss, NoDuplicate, Coherent, Listed
  <2>3. ReadWindow'
    <3>1. \A s \in miss .. (i + 1) - 1 : s \in miss .. i - 1 \/ s = i
      BY <1>1 DEF TypeOK
    <3> QED  BY <1>1, <1>2, <1>4, <3>1
                DEF LookupMiss, ReadWindow, Cached, Listed, TypeOK, End
  <2> QED  BY <2>1, <2>2, <2>3 DEF CacheInv
<1>5. CASE LookupHit \/ LookupEnd
  <2>1. /\ UNCHANGED <<disk, writes, lru, entry, req, i, miss, torn>>
        /\ pc = "lookup" /\ hit' \in Listed \cup {NoSlot}
        /\ req.start <= miss /\ miss <= i /\ i <= End
        /\ i < End => hit' \in Listed
    BY <1>1, <1>2, <1>5 DEF LookupHit, LookupEnd, Cached, ReadWindow, TypeOK
  <2>2. \/ /\ pc' = "populate" /\ j' = miss
           /\ buff' = [s \in Sector |-> IF s \in miss .. i - 1 THEN disk[s]
                                                             ELSE buff[s]]
        \/ pc' \in {"idle", "done"} /\ UNCHANGED <<j, buff>>
        \/ pc' = "hit" /\ i < End /\ UNCHANGED <<j, buff>>
    BY <1>5 DEF LookupHit, LookupEnd, PopulateBegin, ReadFails
  <2>3. TypeOK'
    BY <1>1, <2>1, <2>2, ListedIsSlot DEF TypeOK, Sector
  <2>4. NoDuplicate' /\ Coherent'
    BY <1>1, <2>1 DEF NoDuplicate, Coherent, Listed
  <2>5. miss .. i - 1 \subseteq Sector
    BY <1>1, <1>2, <2>1 DEF TypeOK, Sector
  <2>6. ReadWindow'
    <3>1. /\ \A s \in miss .. i - 1 : Cached(s) = {}
          /\ \A s \in Sector : Cached(s)' = Cached(s)
          /\ Listed' = Listed /\ End' = End
          /\ req.start <= i /\ i' = i /\ miss' = miss /\ req' = req
      BY <1>1, <2>1 DEF ReadWindow, Cached, Listed, End
    <3>2. CASE pc' = "populate"
      <4>1. \A s \in miss .. i - 1 : buff'[s] = disk'[s]
        BY <2>1, <2>2, <2>5, <3>2
      <4>2. j' = miss /\ i' = i /\ miss' = miss
        BY <2>1, <2>2, <3>2
      <4>3. i \in Int /\ miss \in Int
        BY <1>1 DEF TypeOK
      <4> QED  BY <1>2, <2>1, <2>5, <3>1, <3>2, <4>1, <4>2, <4>3 DEF ReadWindow
    <3>3. CASE pc' # "populate"
      BY <2>1, <2>2, <3>1, <3>3 DEF ReadWindow
    <3> QED  BY <3>2, <3>3
  <2> QED  BY <2>3, <2>4, <2>6 DEF CacheInv
<1>6. CASE PopulateAdd
  <2>1. /\ pc = "populate" /\ j < i /\ disk_cache_add(j, buff[j]) /\ j' = j + 1
        /\ UNCHANGED <<disk, writes, pc, req, i, miss, hit, buff>>
    BY <1>6 DEF PopulateAdd
  <2>2. /\ i <= End /\ miss <= j
        /\ \A s \in j .. i - 1 : Cached(s) = {} /\ buff[s] = disk[s]
        /\ i # End => hit \in Listed
    BY <1>1, <2>1 DEF ReadWindow
  <2>3. /\ j \in Nat /\ i \in Nat /\ j \in Sector
        /\ j .. i - 1 \subseteq Sector /\ j \in j .. i - 1
    BY <1>1, <1>2, <2>1, <2>2 DEF TypeOK, Sector
  <2>9. PICK x \in Sector : x = j
    BY <2>3
  <2>4. Cached(x) = {} /\ disk_cache_add(x, disk[x])
    BY <2>1, <2>2, <2>3, <2>9
  <2>5. /\ lru' \in Seq(Slot)
        /\ entry' \in [Slot -> [sector : Sector, data : Content]]
        /\ torn' \subseteq Sector
        /\ Listed \subseteq Listed'
        /\ NoDuplicate' /\ Coherent'
        /\ \A t \in Sector \ {x} : Cached(t) = {} => Cached(t)' = {}
    BY <1>1, <2>1, <2>4, DiskCacheAddKeeps
  <2>6. TypeOK'
    BY <1>1, <1>2, <2>1, <2>2, <2>3, <2>5 DEF TypeOK
  <2>7. \A s \in j + 1 .. i - 1 : s \in (j .. i - 1) \ {j}
    BY <2>3
  <2>8. ReadWindow'
    BY <1>1, <2>1, <2>2, <2>3, <2>5, <2>7, <2>9 DEF ReadWindow, End, TypeOK
  <2> QED  BY <2>5, <2>6, <2>8 DEF CacheInv
<1>7. CASE PopulateEnd \/ ReadReturns
  <2>1. /\ UNCHANGED <<disk, writes, lru, entry, req, i, miss, j, hit, buff, torn>>
        /\ \/ pc' \in {"idle", "done"}
           \/ pc = "populate" /\ pc' = "hit" /\ i # End
    BY <1>7 DEF PopulateEnd, ReadReturns, reqVars
  <2>2. TypeOK'
    BY <1>1, <2>1 DEF TypeOK
  <2>3. NoDuplicate' /\ Coherent'
    BY <1>1, <2>1 DEF NoDuplicate, Coherent, Listed
  <2>4. ReadWindow'
    BY <1>1, <1>2, <2>1 DEF ReadWindow, Listed, End, TypeOK
  <2> QED  BY <2>2, <2>3, <2>4 DEF CacheInv
<1>8. CASE Hit
  <2>1. /\ pc = "hit" /\ hit \in Listed /\ i < End /\ pc' = "lookup"
        /\ lru' = Bumped(hit) /\ miss' = i + 1 /\ i' = i + 1
        /\ buff' = [buff EXCEPT ![i] = entry[hit].data]
        /\ UNCHANGED <<disk, writes, entry, req, j, hit, torn>>
    BY <1>1, <1>8 DEF Hit, ReadWindow, AfterHit
  <2>2. lru' \in Seq(Slot) /\ NoDuplicate' /\ Coherent' /\ Listed' = Listed
    <3>1. PICK e \in Listed : e = hit
      BY <2>1
    <3>2. lru' = Bumped(e)
      BY <2>1, <3>1
    <3> QED  BY <1>1, <2>1, <3>2, BumpKeeps
  <2>3. entry[hit].data \in Content
    BY <1>1, <2>1, ListedIsSlot DEF TypeOK
  <2>t. i \in Nat /\ i + 1 <= End /\ i + 1 \in 0 .. LastSector + 1
    BY <1>1, <1>2, <2>1 DEF TypeOK
  <2>b. buff' \in [Sector -> Content]
    BY <1>1, <2>1, <2>3 DEF TypeOK
  <2>4. TypeOK'
    BY <1>1, <2>1, <2>2, <2>t, <2>b DEF TypeOK
  <2>5. ReadWindow'
    <3>1. req' = req /\ End' = End /\ req.start <= i + 1
      BY <1>1, <1>2, <2>1 DEF End, ReadWindow, TypeOK
    <3> QED  BY <2>1, <2>t, <3>1 DEF ReadWindow
  <2> QED  BY <2>2, <2>4, <2>5 DEF CacheInv
<1> QED  BY <1>3, <1>4, <1>5, <1>6, <1>7, <1>8 DEF Read

LEMMA WrittenType ==
  ASSUME TypeOK, NEW done \in SUBSET Sector
  PROVE  Written(done) \in [Sector -> Content]
  BY DEF TypeOK, Written, Content

LEMMA WriteKeeps ==
  ASSUME CacheInv, disk_cache_access_write  PROVE  CacheInv'
<1>1. TypeOK /\ NoDuplicate /\ Coherent /\ pc = "idle"
  BY DEF CacheInv, disk_cache_access_write
<1>2. PICK r \in Requests(MaxWrite) :
       \/ /\ disk' = Written(Span(r))
          /\ entry' = [e \in Slot |->
               IF e \in Listed /\ Updated(r, e)
                 THEN [entry[e] EXCEPT !.data = <<entry[e].sector, writes + 1>>]
                 ELSE entry[e]]
          /\ torn' = torn \ Span(r)
       \/ /\ \E done \in SUBSET Span(r) : disk' = Written(done)
          /\ torn' = torn \cup Span(r)
          /\ UNCHANGED entry
  BY DEF disk_cache_access_write
<1>3. writes' = writes + 1 /\ UNCHANGED <<lru, pc, reqVars, buff>>
  BY DEF disk_cache_access_write
<1>4. Span(r) \subseteq Sector
  BY CacheAssumption DEF Requests, Span, Sector
<1>5. Listed \subseteq Slot /\ Listed' = Listed
  BY <1>1, <1>3, ListedIsSlot DEF Listed
<1>6. \A e \in Slot : entry'[e].sector = entry[e].sector
  BY <1>1, <1>2 DEF TypeOK
<1>7. TypeOK'
  <2>1. disk' \in [Sector -> Content] /\ torn' \subseteq Sector
    BY <1>1, <1>2, <1>4, WrittenType DEF TypeOK
  <2>2. entry' \in [Slot -> [sector : Sector, data : Content]]
    <3> SUFFICES ASSUME NEW e \in Slot
                 PROVE  [entry[e] EXCEPT !.data = <<entry[e].sector, writes + 1>>]
                          \in [sector : Sector, data : Content]
      BY <1>1, <1>2, Zenon DEF TypeOK
    <3>1. entry[e] \in [sector : Sector, data : Content] /\ writes + 1 \in Nat
      BY <1>1 DEF TypeOK
    <3>2. <<entry[e].sector, writes + 1>> \in Content
      BY <3>1 DEF Content
    <3> QED  BY <3>1, <3>2
  <2> QED  BY <1>1, <1>3, <2>1, <2>2 DEF TypeOK, reqVars
<1>8. NoDuplicate'
  BY <1>1, <1>3, <1>5, <1>6 DEF NoDuplicate, Listed
<1>9. Coherent'
  <2> SUFFICES ASSUME NEW e \in Listed, entry[e].sector \notin torn'
               PROVE  entry'[e].data = disk'[entry[e].sector]
    BY <1>5, <1>6 DEF Coherent
  <2> DEFINE s == entry[e].sector
  <2>1. e \in Slot /\ s \in Sector /\ entry[e] \in [sector : Sector, data : Content]
    BY <1>1, <1>5 DEF TypeOK
  <2>2. CASE s \in Span(r)
    <3>1. /\ disk' = Written(Span(r))
          /\ entry'[e] = [entry[e] EXCEPT !.data = <<s, writes + 1>>]
      BY <1>2, <2>1, <2>2 DEF Updated
    <3> QED  BY <2>1, <2>2, <3>1 DEF Written
  <2>3. CASE s \notin Span(r)
    <3>1. entry'[e] = entry[e] /\ s \notin torn
      BY <1>2, <2>1, <2>3 DEF Updated
    <3>2. disk'[s] = disk[s]
      BY <1>2, <2>1, <2>3 DEF Written
    <3> QED  BY <1>1, <3>1, <3>2 DEF Coherent
  <2> QED  BY <2>2, <2>3
<1>10. ReadWindow'
  BY <1>1, <1>3 DEF ReadWindow, reqVars, CacheInv
<1> QED  BY <1>7, <1>8, <1>9, <1>10 DEF CacheInv

LEMMA IoctlKeeps ==
  ASSUME CacheInv, disk_cache_access_ioctl  PROVE  CacheInv'
<1>1. TypeOK /\ pc = "idle"
  BY DEF CacheInv, disk_cache_access_ioctl
<1>2. /\ lru' = <<>> /\ torn' = {} /\ writes' = writes + 1
      /\ disk' \in {disk, Written(Sector)}
      /\ UNCHANGED <<entry, pc, reqVars, buff>>
  BY DEF disk_cache_access_ioctl, Flushed
<1>3. TypeOK'
  BY <1>1, <1>2, WrittenType DEF TypeOK, reqVars
<1>4. NoDuplicate' /\ Coherent'
  BY <1>2 DEF NoDuplicate, Coherent, Listed
<1>5. ReadWindow'
  BY <1>1, <1>2 DEF ReadWindow, reqVars, CacheInv
<1> QED  BY <1>3, <1>4, <1>5 DEF CacheInv

LEMMA CacheStep == CacheInv /\ [Next]_vars => CacheInv'
<1> SUFFICES ASSUME CacheInv, [Next]_vars  PROVE  CacheInv'
  OBVIOUS
<1>1. CASE Read
  BY <1>1, ReadKeeps
<1>2. CASE disk_cache_access_write
  BY <1>2, WriteKeeps
<1>3. CASE disk_cache_access_ioctl
  BY <1>3, IoctlKeeps
<1>4. CASE UNCHANGED vars
  BY <1>4 DEF CacheInv, TypeOK, NoDuplicate, Coherent, ReadWindow, Listed,
              Cached, End, vars, reqVars
<1> QED  BY <1>1, <1>2, <1>3, <1>4 DEF Next

LEMMA CacheInvariant == Spec => []CacheInv
  BY CacheInit, CacheStep, PTL DEF Spec

\* The cache's state stays within its types: every loop variable of
\* disk_cache_access_read() stays within the request.
THEOREM CacheTypeCorrect == Spec => []TypeOK
<1>1. CacheInv => TypeOK
  BY DEF CacheInv
<1> QED  BY <1>1, CacheInvariant, PTL

\* The assertion of disk_cache_add() never fails: no sector is cached twice.
THEOREM NeverDuplicated == Spec => []NoDuplicate
<1>1. CacheInv => NoDuplicate
  BY DEF CacheInv
<1> QED  BY <1>1, CacheInvariant, PTL

\* A cached sector is what the disk holds, but for sectors of a failed write.
THEOREM CacheCoherent == Spec => []Coherent
<1>1. CacheInv => Coherent
  BY DEF CacheInv
<1> QED  BY <1>1, CacheInvariant, PTL

-----------------------------------------------------------------------------
(***************************************************************************)
(* A read of one sector.  No entry is added between the lookup that finds  *)
(* the sector and the copy, so it cannot have been replaced (as it can in  *)
(* a longer read, which Coherent does not exclude).                        *)
(***************************************************************************)
SectorRead == req.start \notin torn => buff[req.start] = disk[req.start]

SingleInv ==
  req.num = 1 =>
    /\ pc = "lookup" => miss = req.start \/ (miss = End /\ SectorRead)
    /\ pc = "hit" => i = req.start /\ hit \in Cached(req.start)
    /\ pc = "populate" => i = End /\ buff[req.start] = disk[req.start]
    /\ pc = "done" => SectorRead

\* Each step of a read of one sector keeps what is known of its buffer.
LEMMA SingleReadKeeps ==
  ASSUME CacheInv, SingleInv, Read
  PROVE  SingleInv'
<1> SUFFICES ASSUME req'.num = 1
             PROVE  /\ pc' = "lookup" => miss' = req'.start \/ (miss' = End' /\ SectorRead')
                    /\ pc' = "hit" => i' = req'.start /\ hit' \in Cached(req.start)'
                    /\ pc' = "populate" => i' = End' /\ buff'[req'.start] = disk'[req'.start]
                    /\ pc' = "done" => SectorRead'
  BY Zenon DEF SingleInv
<1>1. TypeOK /\ Coherent /\ ReadWindow
  BY DEF CacheInv
<1>2. CASE ReadBegin
  BY <1>2 DEF ReadBegin
<1>3. CASE ~ReadBegin
  <2>1. req' = req /\ disk' = disk /\ End' = End
    BY <1>3 DEF Read, LookupMiss, LookupHit, LookupEnd, PopulateAdd, PopulateEnd, Hit,
                ReadReturns, reqVars, End
  <2>2. /\ req.start \in Sector /\ req.num = 1 /\ End = req.start + 1
        /\ i \in Nat /\ miss \in Nat /\ req.start \in Nat
    BY <1>1, <2>1 DEF TypeOK, End, Requests, Sector
  <2>3. CASE LookupMiss
    BY <1>1, <2>1, <2>2, <2>3 DEF LookupMiss, SingleInv, SectorRead
  <2>4. CASE LookupHit
    <3>1. i = req.start /\ miss = i
      BY <1>1, <2>2, <2>4 DEF LookupHit, ReadWindow
    <3>2. pc' = "hit" /\ hit' \in Cached(i) /\ i' = i /\ UNCHANGED <<lru, entry>>
      BY <2>4, <3>1 DEF LookupHit
    <3>3. Cached(req.start)' = Cached(req.start)
      BY <2>1, <3>2 DEF Cached, Listed
    <3>4. QED
      BY <2>1, <3>1, <3>2, <3>3
  <2>5. CASE LookupEnd
    <3>1. i = End /\ i' = i /\ miss' = miss /\ torn' = torn
      BY <2>5 DEF LookupEnd
    <3>2. CASE miss = End
      <4>1. SectorRead /\ pc' = "done" /\ buff' = buff
        BY <2>2, <2>5, <3>2 DEF LookupEnd, SingleInv
      <4>2. QED
        BY <2>1, <3>1, <4>1 DEF SectorRead
    <3>3. CASE miss # End
      <4>1. miss = req.start
        BY <2>2, <2>5, <3>3 DEF LookupEnd, SingleInv
      <4>2. CASE PopulateBegin(End)
        <5>1. req.start \in miss .. End - 1
          BY <2>2, <4>1
        <5>2. pc' = "populate" /\ buff'[req.start] = disk[req.start]
          BY <2>2, <4>2, <5>1 DEF PopulateBegin
        <5>3. QED
          BY <2>1, <3>1, <5>2
      <4>3. CASE ReadFails
        BY <4>3 DEF ReadFails
      <4>4. QED
        BY <2>5, <3>3, <4>2, <4>3 DEF LookupEnd
    <3>4. QED
      BY <3>2, <3>3
  <2>6. CASE PopulateAdd
    BY <2>1, <2>2, <2>6 DEF PopulateAdd, SingleInv
  <2>7. CASE PopulateEnd
    BY <2>1, <2>2, <2>7 DEF PopulateEnd, SingleInv, SectorRead
  <2>8. CASE Hit
    <3>1. i = req.start /\ hit \in Cached(i)
      BY <2>2, <2>8 DEF Hit, SingleInv
    <3>2. pc' = "lookup" /\ miss' = End /\ torn' = torn /\ buff'[i] = entry[hit].data
      BY <1>1, <2>2, <2>8, <3>1 DEF Hit, AfterHit, TypeOK
    <3>3. hit \in Listed /\ entry[hit].sector = i
      BY <3>1 DEF Cached
    <3>4. i \notin torn => entry[hit].data = disk[i]
      BY <1>1, <3>3 DEF Coherent
    <3>5. SectorRead'
      BY <2>1, <3>1, <3>2, <3>4 DEF SectorRead
    <3>6. QED
      BY <2>1, <3>2, <3>5
  <2>9. CASE ReadReturns
    BY <2>9 DEF ReadReturns
  <2>10. QED
    BY <1>3, <2>3, <2>4, <2>5, <2>6, <2>7, <2>8, <2>9 DEF Read
<1>4. QED
  BY <1>2, <1>3

\* A read of one sector, as FatFs reads its tables, returns what the disk
\* itself would, for any number of slots and sectors and after any reads,
\* writes and card changes; a failed write to that sector aside
\* (disk_cache_access_read()).
THEOREM SingleReadsAreTransparent == Spec => []SingleReadReturnsDisk
<1>1. Init => SingleInv
  BY DEF Init, SingleInv
<1>2. CacheInv /\ SingleInv /\ [Next]_vars => SingleInv'
  <2> SUFFICES ASSUME CacheInv, SingleInv, [Next]_vars PROVE SingleInv'
    OBVIOUS
  <2>1. CASE Read
    BY <2>1, SingleReadKeeps
  <2>2. CASE disk_cache_access_write \/ disk_cache_access_ioctl
    BY <2>2 DEF disk_cache_access_write, disk_cache_access_ioctl, SingleInv, reqVars
  <2>3. CASE UNCHANGED vars
    BY <2>3 DEF vars, reqVars, SingleInv, SectorRead, End, Cached, Listed
  <2>4. QED
    BY <2>1, <2>2, <2>3 DEF Next
<1>3. CacheInv /\ SingleInv => SingleReadReturnsDisk
  BY DEF CacheInv, TypeOK, Requests, Sector, SingleInv, SectorRead, SingleReadReturnsDisk,
         ReadReturnsDisk, Span
<1>4. QED
  BY <1>1, <1>2, <1>3, CacheInvariant, PTL DEF Spec

=============================================================================
