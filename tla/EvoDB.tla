-------------------------------- MODULE EvoDB --------------------------------
(***************************************************************************)
(* CEvoDB, the cached key-value store of src/src/evo/evodb.h under which    *)
(* masternode lists, mined quorum commitments, quorum contributions and     *)
(* superblock amounts are kept.  Every operation holds `cs', so operations  *)
(* are atomic to each other; a flush is several LevelDB batches, and the    *)
(* process can crash between any two of them.                               *)
(*                                                                         *)
(* mapCache/fifoList and mapReadCache/readFifoList are each a map with the  *)
(* order of its keys; LevelDB itself (disk) is external.                    *)
(***************************************************************************)
EXTENDS Integers, Sequences, FiniteSets

CONSTANTS Keys, Values,
          NoValue,         \* "no entry"
          maxCacheSize,    \* 0: the write cache is unbounded
          ReadCacheSizes,  \* arguments SetReadCacheSize is called with
          CHUNK_ITEMS      \* entries per LevelDB batch

ASSUME EvoDBConstants ==
  /\ NoValue \notin Values
  /\ maxCacheSize \in Nat
  /\ ReadCacheSizes \subseteq Nat \ {0}   \* the one caller passes HOT_LIST_CACHE_SIZE
  /\ CHUNK_ITEMS \in Nat \ {0}

VARIABLES mapCache, fifoList, mapReadCache, readFifoList, setEraseCache,
          maxReadCacheSize, bFlushOnNextRead,
          disk,     \* LevelDB
          flush,    \* the phase of the FlushCacheToDisk that holds cs
          waiting   \* the ReadCache/ExistsCache call that triggered it

vars == <<mapCache, fifoList, mapReadCache, readFifoList, setEraseCache,
          maxReadCacheSize, bFlushOnNextRead, disk, flush, waiting>>
readVars == <<mapReadCache, readFifoList>>

NoCall == <<>>
Empty == [k \in Keys |-> NoValue]
ToKeys(order) == {order[i] : i \in 1..Len(order)}

\* list.erase(iterator of k): the order without the entry of k.
Without(order, k) ==
  IF k \in ToKeys(order)
  THEN LET at == CHOOSE i \in 1..Len(order) : order[i] = k
       IN [i \in 1..(Len(order) - 1) |->
             IF i < at THEN order[i] ELSE order[i + 1]]
  ELSE order

Init ==
  /\ disk \in [Keys -> Values \cup {NoValue}]
  /\ mapCache = Empty /\ fifoList = <<>>
  /\ mapReadCache = Empty /\ readFifoList = <<>>
  /\ setEraseCache = {}
  /\ maxReadCacheSize = 0
  /\ bFlushOnNextRead = FALSE
  /\ flush = "idle"
  /\ waiting = NoCall

Unlocked == flush = "idle" /\ waiting = NoCall

IsCacheFull ==
  maxCacheSize > 0 /\ Len(fifoList) + Cardinality(setEraseCache) >= maxCacheSize

-----------------------------------------------------------------------------
(* The read cache. *)

\* TrimReadCache pops the oldest entries until at most `size' are left.
TrimReadCache(entries, order, size) ==
  LET n == IF Len(order) > size THEN Len(order) - size ELSE 0
      popped == ToKeys(SubSeq(order, 1, n))
  IN /\ readFifoList' = SubSeq(order, n + 1, Len(order))
     /\ mapReadCache' =
          [k \in Keys |-> IF k \in popped THEN NoValue ELSE entries[k]]

WriteReadCache(k, v) ==
  IF maxReadCacheSize = 0
  THEN UNCHANGED readVars
  ELSE TrimReadCache([mapReadCache EXCEPT ![k] = v],
                     Append(Without(readFifoList, k), k), maxReadCacheSize)

EraseReadCache(k) ==
  /\ readFifoList' = Without(readFifoList, k)
  /\ mapReadCache' = [mapReadCache EXCEPT ![k] = NoValue]

TouchReadCache(k) ==
  /\ readFifoList' = Append(Without(readFifoList, k), k)
  /\ UNCHANGED mapReadCache

SetReadCacheSize(n) ==
  /\ Unlocked
  /\ maxReadCacheSize' = n
  /\ TrimReadCache(mapReadCache, readFifoList, n)
  /\ UNCHANGED <<mapCache, fifoList, setEraseCache, bFlushOnNextRead, disk,
                 flush, waiting>>

-----------------------------------------------------------------------------
(* Writing and erasing only touch the caches. *)

\* Faulty variant: a key written again stays marked as erased.
WriteCacheKeepErase(k, v) ==
  LET order == Append(Without(fifoList, k), k)
      evict == maxCacheSize > 0 /\ Len(order) > maxCacheSize
      entries == [mapCache EXCEPT ![k] = v]
  IN /\ Unlocked
     /\ fifoList' = IF evict THEN Tail(order) ELSE order
     /\ mapCache' = IF evict THEN [entries EXCEPT ![Head(order)] = NoValue]
                             ELSE entries
     /\ WriteReadCache(k, v)
     /\ UNCHANGED <<setEraseCache, maxReadCacheSize, bFlushOnNextRead, disk,
                    flush, waiting>>

\* Faulty variant: a rewritten key keeps its place in fifoList twice.
WriteCacheTwice(k, v) ==
  LET order == Append(fifoList, k)
      evict == maxCacheSize > 0 /\ Len(order) > maxCacheSize
      entries == [mapCache EXCEPT ![k] = v]
  IN /\ Unlocked
     /\ fifoList' = IF evict THEN Tail(order) ELSE order
     /\ mapCache' = IF evict THEN [entries EXCEPT ![Head(order)] = NoValue]
                             ELSE entries
     /\ WriteReadCache(k, v)
     /\ setEraseCache' = setEraseCache \ {k}
     /\ UNCHANGED <<maxReadCacheSize, bFlushOnNextRead, disk, flush, waiting>>

WriteCache(k, v) ==
  LET order == Append(Without(fifoList, k), k)
      evict == maxCacheSize > 0 /\ Len(order) > maxCacheSize
      entries == [mapCache EXCEPT ![k] = v]
  IN /\ Unlocked
     /\ fifoList' = IF evict THEN Tail(order) ELSE order
     /\ mapCache' = IF evict THEN [entries EXCEPT ![Head(order)] = NoValue]
                             ELSE entries
     /\ WriteReadCache(k, v)
     /\ setEraseCache' = setEraseCache \ {k}
     /\ UNCHANGED <<maxReadCacheSize, bFlushOnNextRead, disk, flush, waiting>>

\* Faulty variant: the next read does not flush the erasure first.
EraseCacheUnflagged(k) ==
  /\ Unlocked
  /\ fifoList' = Without(fifoList, k)
  /\ mapCache' = [mapCache EXCEPT ![k] = NoValue]
  /\ EraseReadCache(k)
  /\ setEraseCache' = setEraseCache \cup {k}
  /\ UNCHANGED <<maxReadCacheSize, bFlushOnNextRead, disk, flush, waiting>>

EraseCache(k) ==
  /\ Unlocked
  /\ bFlushOnNextRead' = TRUE
  /\ fifoList' = Without(fifoList, k)
  /\ mapCache' = [mapCache EXCEPT ![k] = NoValue]
  /\ EraseReadCache(k)
  /\ setEraseCache' = setEraseCache \cup {k}
  /\ UNCHANGED <<maxReadCacheSize, disk, flush, waiting>>

-----------------------------------------------------------------------------
(* FlushCacheToDisk: the written entries in batches, oldest first, then the *)
(* erased keys in batches.                                                  *)

FlushCacheToDisk ==
  /\ Unlocked
  /\ flush' = "write"
  /\ UNCHANGED <<mapCache, fifoList, readVars, setEraseCache,
                 maxReadCacheSize, bFlushOnNextRead, disk, waiting>>

FlushWriteBatch ==
  /\ flush = "write"
  /\ fifoList # <<>>
  /\ LET n == IF Len(fifoList) < CHUNK_ITEMS THEN Len(fifoList) ELSE CHUNK_ITEMS
         batch == ToKeys(SubSeq(fifoList, 1, n))
     IN /\ disk' = [k \in Keys |-> IF k \in batch THEN mapCache[k] ELSE disk[k]]
        /\ mapCache' = [k \in Keys |-> IF k \in batch THEN NoValue ELSE mapCache[k]]
        /\ fifoList' = SubSeq(fifoList, n + 1, Len(fifoList))
  /\ UNCHANGED <<readVars, setEraseCache, maxReadCacheSize, bFlushOnNextRead,
                 flush, waiting>>

FlushWritesDone ==
  /\ flush = "write"
  /\ fifoList = <<>>
  /\ flush' = "erase"
  /\ UNCHANGED <<mapCache, fifoList, readVars, setEraseCache,
                 maxReadCacheSize, bFlushOnNextRead, disk, waiting>>

\* A full batch of erasures; the last, partial one ends the flush.
FlushEraseBatch ==
  /\ flush = "erase"
  /\ \E batch \in SUBSET setEraseCache :
       /\ IF Cardinality(setEraseCache) >= CHUNK_ITEMS
          THEN Cardinality(batch) = CHUNK_ITEMS /\ flush' = "erase"
          ELSE batch = setEraseCache /\ flush' = "idle"
       /\ disk' = [k \in Keys |-> IF k \in batch THEN NoValue ELSE disk[k]]
       /\ setEraseCache' = setEraseCache \ batch
  /\ UNCHANGED <<mapCache, fifoList, readVars, maxReadCacheSize,
                 bFlushOnNextRead, waiting>>

-----------------------------------------------------------------------------
(* Reading. *)

\* ReadCache and ExistsCache first flush when something was erased.
BeginRead(op, k) ==
  /\ Unlocked
  /\ bFlushOnNextRead' = FALSE
  /\ flush' = IF bFlushOnNextRead THEN "write" ELSE "idle"
  /\ waiting' = <<op, k>>
  /\ UNCHANGED <<mapCache, fifoList, readVars, setEraseCache,
                 maxReadCacheSize, disk>>

\* What ReadCache returns once a pending flush is done.
ReadResult(k) ==
  IF mapCache[k] # NoValue THEN mapCache[k]
  ELSE IF mapReadCache[k] # NoValue THEN mapReadCache[k]
  ELSE disk[k]

ReadCache(k) ==
  /\ waiting = <<"ReadCache", k>>
  /\ IF mapCache[k] # NoValue THEN UNCHANGED readVars
     ELSE IF mapReadCache[k] # NoValue THEN TouchReadCache(k)
     ELSE IF disk[k] # NoValue THEN WriteReadCache(k, disk[k])
     ELSE UNCHANGED readVars

ExistsCache(k) ==
  /\ waiting = <<"ExistsCache", k>>
  /\ IF mapReadCache[k] # NoValue THEN TouchReadCache(k) ELSE UNCHANGED readVars

EndRead(k) ==
  /\ flush = "idle"
  /\ ReadCache(k) \/ ExistsCache(k)
  /\ waiting' = NoCall
  /\ UNCHANGED <<mapCache, fifoList, setEraseCache, maxReadCacheSize,
                 bFlushOnNextRead, disk, flush>>

-----------------------------------------------------------------------------
(* CQuorumManager::DoMaintenance wipes a full store and writes what is      *)
(* cached back to it.                                                       *)
ResetDB ==
  /\ Unlocked
  /\ IsCacheFull
  /\ maxReadCacheSize = 0     \* the two stores it is called on have no read cache
  /\ disk' = Empty
  /\ flush' = "write"
  /\ UNCHANGED <<mapCache, fifoList, readVars, setEraseCache,
                 maxReadCacheSize, bFlushOnNextRead, waiting>>

\* The process dies and is restarted: only LevelDB survives.
Crash ==
  /\ mapCache' = Empty /\ fifoList' = <<>>
  /\ mapReadCache' = Empty /\ readFifoList' = <<>>
  /\ setEraseCache' = {}
  /\ maxReadCacheSize' = 0
  /\ bFlushOnNextRead' = FALSE
  /\ flush' = "idle"
  /\ waiting' = NoCall
  /\ UNCHANGED disk

Next ==
  \/ \E k \in Keys, v \in Values : WriteCache(k, v)
  \/ \E k \in Keys : EraseCache(k)
  \/ \E n \in ReadCacheSizes : SetReadCacheSize(n)
  \/ FlushCacheToDisk
  \/ FlushWriteBatch
  \/ FlushWritesDone
  \/ FlushEraseBatch
  \/ \E op \in {"ReadCache", "ExistsCache"}, k \in Keys : BeginRead(op, k)
  \/ \E k \in Keys : EndRead(k)
  \/ ResetDB
  \/ Crash

Spec == Init /\ [][Next]_vars

-----------------------------------------------------------------------------
(* What the store promises. *)

\* Type invariant of CEvoDB's members and of LevelDB.
TypeOK ==
  /\ mapCache \in [Keys -> Values \cup {NoValue}]
  /\ mapReadCache \in [Keys -> Values \cup {NoValue}]
  /\ disk \in [Keys -> Values \cup {NoValue}]
  /\ fifoList \in Seq(Keys)
  /\ readFifoList \in Seq(Keys)
  /\ setEraseCache \subseteq Keys
  /\ maxReadCacheSize \in ReadCacheSizes \cup {0}
  /\ bFlushOnNextRead \in BOOLEAN
  /\ flush \in {"idle", "write", "erase"}
  /\ waiting \in {NoCall} \cup ({"ReadCache", "ExistsCache"} \X Keys)

Distinct(order) == \A i, j \in 1..Len(order) : order[i] = order[j] => i = j

\* An order and the map it belongs to hold the same keys, each once.
InStep(order, entries) ==
  /\ ToKeys(order) = {k \in Keys : entries[k] # NoValue}
  /\ Distinct(order)

\* fifoList, which a flush walks, and mapCache, which reads look up, agree, as
\* do the two parts of the read cache; both keep their bounds.  No key is both
\* to be written and to be erased, so the order "writes, then erasures" of
\* FlushCacheToDisk never undoes a write.
CachesInStep ==
  /\ InStep(fifoList, mapCache)
  /\ InStep(readFifoList, mapReadCache)
  /\ \A k \in setEraseCache : mapCache[k] = NoValue /\ mapReadCache[k] = NoValue
  /\ maxCacheSize > 0 => Len(fifoList) <= maxCacheSize
  /\ Len(readFifoList) <= maxReadCacheSize

\* Every variable has its type, and the caches are in step.
CachesOK == TypeOK /\ CachesInStep

\* The inductive form: besides the above, an erasure not yet on disk is either
\* flagged or being flushed, a reader that has begun has no flag left to
\* honour, a key in both caches has one value, and a read-cache entry of an
\* unbounded store that is no longer to be written is what the disk holds.
StoreInv ==
  /\ TypeOK
  /\ CachesInStep
  /\ setEraseCache # {} => bFlushOnNextRead \/ flush # "idle"
  /\ waiting # NoCall => ~bFlushOnNextRead
  /\ \A k \in Keys :
       mapReadCache[k] # NoValue =>
         \/ mapCache[k] = mapReadCache[k]
         \/ mapCache[k] = NoValue
              /\ (maxCacheSize = 0 => disk[k] = mapReadCache[k])

\* The map the caches and the disk stand for.
View ==
  [k \in Keys |->
     IF mapCache[k] # NoValue THEN mapCache[k]
     ELSE IF mapReadCache[k] # NoValue THEN mapReadCache[k]
     ELSE IF k \in setEraseCache THEN NoValue
     ELSE disk[k]]

\* ReadCache and ExistsCache never consult setEraseCache.  They are right all
\* the same: whenever they look at LevelDB, the erasures have been flushed.
ReadsSeeErasures ==
  flush = "idle" /\ ~bFlushOnNextRead
    => \A k \in Keys : ReadResult(k) = View[k]

\* The store implements the abstract map: a read sees the last write or
\* erasure, a flush changes nothing a reader sees and makes durable only
\* current values, a crash falls back to what is durable.
KV == INSTANCE KeyValueStore
        WITH kv <- View, durable <- disk, Lossy <- maxCacheSize > 0
ImplementsStore == KV!Spec
=============================================================================
