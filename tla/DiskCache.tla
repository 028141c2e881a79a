----------------------------- MODULE DiskCache -----------------------------
(***************************************************************************)
(* The write-through sector cache between FatFs and the SD card,           *)
(* audio/app/src/drivers/disk/disk_cache.c.                                *)
(*                                                                         *)
(* FatFs serialises its calls (CONFIG_FS_FATFS_REENTRANT), so one request  *)
(* is in progress at a time; a read is a loop, modelled step by step: a    *)
(* lookup per sector, the populate of the misses before a hit, and the     *)
(* copy of the hit.  The loop keeps a pointer to the entry it found, which *)
(* is why entries are slots of the slab and not merely their contents.     *)
(*                                                                         *)
(* A sector's content is <<sector, version>>: the version the last write   *)
(* gave it, and the sector it belongs to.                                  *)
(***************************************************************************)
EXTENDS Integers, Sequences, FiniteSets

CONSTANTS
  Slot,        \* the entries of the slab (sector-count in app.overlay)
  NoSlot,      \* a null entry pointer
  LastSector,  \* the sectors are 0 .. LastSector
  MaxRead,     \* the most sectors in a read
  MaxWrite,    \* the most sectors in a write
  MaxWrites,   \* the bound on the writes
  Faults       \* what the backing disk may do

\* The faults an instance may enable:
\*   read    disk_access_read fails
\*   write   disk_access_write fails, and some sectors may have been written
FaultKind == {"read", "write"}

ASSUME CacheAssumption ==
  /\ Slot # {} /\ IsFiniteSet(Slot) /\ NoSlot \notin Slot
  /\ LastSector \in Nat /\ MaxWrites \in Nat
  /\ MaxRead \in Nat \ {0} /\ MaxWrite \in Nat \ {0}
  /\ Faults \subseteq FaultKind

VARIABLES
  disk,    \* the backing disk
  writes,  \* how many writes there were
  lru,     \* config->lru_list, oldest first
  entry,   \* the entries: the sector and data of each slot
  pc,      \* where the request is
  req,     \* its start_sector and num_sector
  i,       \* the loop variable of disk_cache_access_read()
  miss,    \* cache_miss_start_sector
  j,       \* the next sector disk_cache_populate() adds
  hit,     \* the entry disk_cache_lookup() returned
  buff,    \* the caller's buffer, by sector
  torn     \* history: cached sectors whose last write failed

reqVars == <<req, i, miss, j, hit>>
vars == <<disk, writes, lru, entry, pc, reqVars, buff, torn>>

Sector  == 0 .. LastSector
Content == Sector \X Nat
Span(r)  == r.start .. r.start + r.num - 1
Requests(max) == {r \in [start : Sector, num : 1 .. max] :
                    r.start + r.num <= LastSector + 1}

\* last_sector
End == req.start + req.num

TypeOK ==
  /\ disk \in [Sector -> Content]
  /\ writes \in Nat
  /\ lru \in Seq(Slot)
  /\ entry \in [Slot -> [sector : Sector, data : Content]]
  /\ pc \in {"idle", "lookup", "populate", "hit", "done"}
  /\ req \in Requests(MaxRead)
  /\ i \in 0 .. LastSector + 1
  /\ miss \in 0 .. LastSector + 1 /\ j \in 0 .. LastSector + 1
  /\ hit \in Slot \cup {NoSlot}
  /\ buff \in [Sector -> Content]
  /\ torn \subseteq Sector

Listed == {lru[k] : k \in 1 .. Len(lru)}

Init ==
  /\ disk = [s \in Sector |-> <<s, 0>>] /\ writes = 0
  /\ lru = <<>> /\ entry = [e \in Slot |-> [sector |-> 0, data |-> <<0, 0>>]]
  /\ pc = "idle" /\ req = [start |-> 0, num |-> 1]
  /\ i = 0 /\ miss = 0 /\ j = 0 /\ hit = NoSlot
  /\ buff = disk /\ torn = {}

-----------------------------------------------------------------------------
\* disk_cache_lookup()
Cached(s) == {e \in Listed : entry[e].sector = s}

\* disk_cache_bump(): where e is listed, it moves to the end.
Bumped(e) ==
  LET at == CHOOSE k \in 1 .. Len(lru) : lru[k] = e
  IN  [k \in 1 .. Len(lru) |->
         IF k < at THEN lru[k] ELSE IF k < Len(lru) THEN lru[k + 1] ELSE e]

\* disk_cache_add(): a free slot, or else the oldest entry.
FreeSlots == Slot \ Listed

Add(e, list, s, data) ==
  /\ lru' = Append(list, e)
  /\ entry' = [entry EXCEPT ![e] = [sector |-> s, data |-> data]]
  /\ torn' = torn \ {s}

disk_cache_add(s, data) ==
  \/ \E e \in FreeSlots : Add(e, lru, s, data)
  \/ FreeSlots = {} /\ Add(Head(lru), Tail(lru), s, data)

-----------------------------------------------------------------------------
(***************************************************************************)
(* disk_cache_access_read().                                               *)
(***************************************************************************)
ReadBegin ==
  /\ pc = "idle"
  /\ \E r \in Requests(MaxRead) :
       req' = r /\ i' = r.start /\ miss' = r.start /\ j' = r.start
  /\ hit' = NoSlot
  /\ pc' = "lookup"
  /\ UNCHANGED <<disk, writes, lru, entry, buff, torn>>

\* The misses miss .. end - 1 are read from the disk into the buffer.
PopulateBegin(end) ==
  /\ buff' = [s \in Sector |-> IF s \in miss .. end - 1 THEN disk[s] ELSE buff[s]]
  /\ pc' = "populate" /\ j' = miss

\* The request fails: nothing is said of the buffer.
ReadFails ==
  /\ "read" \in Faults
  /\ pc' = "idle"
  /\ UNCHANGED <<j, buff>>

\* Not cached: go on to the next sector.
LookupMiss ==
  /\ pc = "lookup" /\ i < End
  /\ Cached(i) = {}
  /\ i' = i + 1
  /\ UNCHANGED <<disk, writes, lru, entry, pc, req, miss, j, hit, buff, torn>>

\* Cached: the misses before it come first.
LookupHit ==
  /\ pc = "lookup" /\ i < End
  /\ hit' \in Cached(i)
  /\ IF miss # i THEN PopulateBegin(i) \/ ReadFails
                 ELSE pc' = "hit" /\ UNCHANGED <<j, buff>>
  /\ UNCHANGED <<disk, writes, lru, entry, req, i, miss, torn>>

\* The misses at the end of the request.
LookupEnd ==
  /\ pc = "lookup" /\ i = End
  /\ hit' = NoSlot
  /\ IF miss # End THEN PopulateBegin(End) \/ ReadFails
                   ELSE pc' = "done" /\ UNCHANGED <<j, buff>>
  /\ UNCHANGED <<disk, writes, lru, entry, req, i, miss, torn>>

\* disk_cache_populate() adds what it has read, sector by sector.
PopulateAdd ==
  /\ pc = "populate" /\ j < i
  /\ disk_cache_add(j, buff[j])
  /\ j' = j + 1
  /\ UNCHANGED <<disk, writes, pc, req, i, miss, hit, buff>>

PopulateEnd ==
  /\ pc = "populate" /\ j = i
  /\ pc' = IF i = End THEN "done" ELSE "hit"
  /\ UNCHANGED <<disk, writes, lru, entry, reqVars, buff, torn>>

\* Mutant: the sector of the hit is not skipped.
AfterHit_Same == i

\* cache_miss_start_sector after a hit.
AfterHit == i + 1

\* The data of the entry found is copied, and the entry made the newest.
Hit ==
  /\ pc = "hit"
  /\ buff' = [buff EXCEPT ![i] = entry[hit].data]
  /\ lru' = Bumped(hit)
  /\ miss' = AfterHit /\ i' = i + 1
  /\ pc' = "lookup"
  /\ UNCHANGED <<disk, writes, entry, req, j, hit, torn>>

ReadReturns ==
  /\ pc = "done" /\ pc' = "idle"
  /\ UNCHANGED <<disk, writes, lru, entry, reqVars, buff, torn>>

-----------------------------------------------------------------------------
\* Mutant: only the first sector of a write is updated in the cache.
Updated_First(r, e) == entry[e].sector = r.start

\* A cached sector of the request takes the new data.
Updated(r, e) == entry[e].sector \in Span(r)

\* The disk once the sectors of `done' were written.
Written(done) ==
  [s \in Sector |-> IF s \in done THEN <<s, writes + 1>> ELSE disk[s]]

\* disk_cache_access_write(): through to the disk, then to cached sectors.  A
\* failed write may have reached the disk in part; the cache keeps the old data.
disk_cache_access_write ==
  /\ pc = "idle" /\ writes < MaxWrites
  /\ writes' = writes + 1
  /\ \E r \in Requests(MaxWrite) :
       \/ /\ disk' = Written(Span(r))
          /\ entry' = [e \in Slot |->
               IF e \in Listed /\ Updated(r, e)
                 THEN [entry[e] EXCEPT !.data = <<entry[e].sector, writes + 1>>]
                 ELSE entry[e]]
          /\ torn' = torn \ Span(r)
       \/ /\ "write" \in Faults
          /\ \E done \in SUBSET Span(r) : disk' = Written(done)
          /\ torn' = torn \cup Span(r)
          /\ UNCHANGED entry
  /\ UNCHANGED <<lru, pc, reqVars, buff>>

\* Mutant: an initialised disk keeps the cache of the one before.
Flushed_Not == lru

\* disk_cache_flush()
Flushed == <<>>

\* disk_cache_access_ioctl(), CTRL_INIT and CTRL_DEINIT.  The card may be
\* another one.  A failed ioctl leaves the cache as it is; then FatFs does not
\* mount the disk, and no request comes before a CTRL_INIT that succeeds.
disk_cache_access_ioctl ==
  /\ pc = "idle" /\ writes < MaxWrites
  /\ writes' = writes + 1
  /\ disk' \in {disk, Written(Sector)}
  /\ lru' = Flushed
  /\ torn' = {}
  /\ UNCHANGED <<entry, pc, reqVars, buff>>

Read ==
  \/ ReadBegin \/ LookupMiss \/ LookupHit \/ LookupEnd
  \/ PopulateAdd \/ PopulateEnd \/ Hit \/ ReadReturns

Next == Read \/ disk_cache_access_write \/ disk_cache_access_ioctl

Spec == Init /\ [][Next]_vars

-----------------------------------------------------------------------------
(***************************************************************************)
(* Properties.                                                             *)
(***************************************************************************)

\* disk_cache_add() asserts that "Sector is already cached" never holds
\* (disk_cache.c:89): no sector has two entries, of which a write would update
\* only the first, and no entry is listed twice.
NoDuplicate ==
  \A k, l \in 1 .. Len(lru) :
    k # l => lru[k] # lru[l] /\ entry[lru[k]].sector # entry[lru[l]].sector

\* A cached sector is what the card holds, after any interleaving of reads,
\* writes and card changes.  Only a write that failed leaves a cached sector
\* behind the card, until it is written or fetched again.
Coherent ==
  \A e \in Listed :
    entry[e].sector \notin torn => entry[e].data = disk[entry[e].sector]

\* The cache can be put over a disk unnoticed ("Cache layer on top of another
\* disk driver", drivers/disk/Kconfig.cache:8): a read returns what the disk
\* itself would, failed writes aside.
ReadReturnsDisk ==
  pc = "done" => \A s \in Span(req) \ torn : buff[s] = disk[s]

\* So do the reads of one sector, which FatFs uses for its tables.
SingleReadReturnsDisk == req.num = 1 => ReadReturnsDisk

=============================================================================
