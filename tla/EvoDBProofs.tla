----------------------------- MODULE EvoDBProofs -----------------------------
(***************************************************************************)
(* CEvoDB implements the abstract map of KeyValueStore, for every set of    *)
(* keys and values and every cache size.                                    *)
(***************************************************************************)
EXTENDS EvoDB, TLAPS

USE EvoDBConstants

(* Orders of keys. *)

\* Erasing the entry of a key keeps the order of the others.
LEMMA WithoutProperties ==
  ASSUME NEW s \in Seq(Keys), Distinct(s), NEW k \in Keys
  PROVE  /\ Without(s, k) \in Seq(Keys)
         /\ Distinct(Without(s, k))
         /\ ToKeys(Without(s, k)) = ToKeys(s) \ {k}
         /\ Len(Without(s, k)) = IF k \in ToKeys(s) THEN Len(s) - 1 ELSE Len(s)
<1>1. CASE k \notin ToKeys(s)
  BY <1>1 DEF Without
<1>2. CASE k \in ToKeys(s)
  <2> DEFINE at == CHOOSE i \in 1..Len(s) : s[i] = k
             w == [i \in 1..(Len(s) - 1) |-> IF i < at THEN s[i] ELSE s[i + 1]]
  <2>1. at \in 1..Len(s) /\ s[at] = k
    BY <1>2 DEF ToKeys
  <2>2. Without(s, k) = w
    BY <1>2 DEF Without
  <2> HIDE DEF at
  <2>3. Len(s) \in Nat /\ Len(s) - 1 \in Nat
    BY SMT, Z3, SMTT(10), Z3T(10), <2>1
  <2>4. w \in Seq(Keys) /\ Len(w) = Len(s) - 1
    <3>1. \A i \in 1..(Len(s) - 1) : w[i] \in Keys
      BY SMT, Z3, SMTT(10), Z3T(10), <2>1, <2>3
    <3>2. w \in [1..(Len(s) - 1) -> Keys]
      BY <3>1
    <3> QED BY SMT, Z3, SMTT(10), Z3T(10), <2>3, <3>2
  <2>5. Distinct(w)
    BY SMT, Z3, SMTT(10), Z3T(10), <2>1, <2>3, <2>4 DEF Distinct
  <2>6. ToKeys(w) \subseteq ToKeys(s) \ {k}
    <3> SUFFICES ASSUME NEW i \in 1..Len(w)
                 PROVE  w[i] \in ToKeys(s) /\ w[i] # k
      BY Zenon DEF ToKeys
    <3>1. CASE i < at
      BY SMT, Z3, SMTT(10), Z3T(10), <3>1, <2>1, <2>3, <2>4 DEF ToKeys, Distinct
    <3>2. CASE ~(i < at)
      BY SMT, Z3, SMTT(10), Z3T(10), <3>2, <2>1, <2>3, <2>4 DEF ToKeys, Distinct
    <3> QED BY <3>1, <3>2
  <2>7. ToKeys(s) \ {k} \subseteq ToKeys(w)
    <3> SUFFICES ASSUME NEW i \in 1..Len(s), s[i] # k
                 PROVE  \E j \in 1..Len(w) : w[j] = s[i]
      BY Zenon DEF ToKeys
    <3>1. CASE i < at
      <4>1. i \in 1..Len(w) /\ w[i] = s[i]
        BY SMT, Z3, SMTT(10), Z3T(10), <3>1, <2>1, <2>3, <2>4
      <4> QED BY <4>1
    <3>2. CASE i > at
      <4>1. i - 1 \in 1..Len(w) /\ ~(i - 1 < at) /\ (i - 1) + 1 = i
        BY SMT, Z3, SMTT(10), Z3T(10), <3>2, <2>1, <2>3, <2>4
      <4>2. w[i - 1] = s[i]
        BY <4>1, <2>4, <2>3
      <4> QED BY <4>1, <4>2
    <3> QED BY SMT, Z3, SMTT(10), Z3T(10), <3>1, <3>2, <2>1, <2>3
  <2> QED BY <1>2, <2>2, <2>4, <2>5, <2>6, <2>7
<1> QED BY <1>1, <1>2

\* Writing or touching a key moves it to the back of the order.
LEMMA ToBackProperties ==
  ASSUME NEW s \in Seq(Keys), Distinct(s), NEW k \in Keys
  PROVE  LET w == Append(Without(s, k), k)
         IN /\ w \in Seq(Keys)
            /\ Distinct(w)
            /\ ToKeys(w) = ToKeys(s) \cup {k}
            /\ Len(w) = IF k \in ToKeys(s) THEN Len(s) ELSE Len(s) + 1
            /\ Len(w) > 0 /\ w[Len(w)] = k
<1> DEFINE u == Without(s, k)
           w == Append(u, k)
<1>1. /\ u \in Seq(Keys)
      /\ Distinct(u)
      /\ ToKeys(u) = ToKeys(s) \ {k}
      /\ Len(u) = IF k \in ToKeys(s) THEN Len(s) - 1 ELSE Len(s)
  BY WithoutProperties
<1> HIDE DEF u
<1>2. w \in Seq(Keys) /\ Len(w) = Len(u) + 1 /\ w[Len(u) + 1] = k
  BY SMT, Z3, SMTT(10), Z3T(10), <1>1
<1>3. \A i \in 1..Len(u) : w[i] = u[i]
  BY SMT, Z3, SMTT(10), Z3T(10), <1>1
<1>4. \A i \in 1..Len(u) : u[i] # k
  BY Zenon, <1>1 DEF ToKeys
<1>5. Distinct(w)
  BY SMT, Z3, SMTT(10), Z3T(10), <1>1, <1>2, <1>3, <1>4 DEF Distinct
<1>6. ToKeys(w) = ToKeys(u) \cup {k}
  BY SMT, Z3, SMTT(10), Z3T(10), <1>1, <1>2, <1>3 DEF ToKeys
<1>7. Len(s) \in Nat
  BY SMT, Z3, SMTT(10), Z3T(10)
<1> QED BY SMT, Z3, SMTT(10), Z3T(10), <1>1, <1>2, <1>5, <1>6, <1>7 DEF u

\* Popping the first n entries of an order.
LEMMA PopProperties ==
  ASSUME NEW s \in Seq(Keys), Distinct(s), NEW n \in 0..Len(s)
  PROVE  LET w == SubSeq(s, n + 1, Len(s))
         IN /\ w \in Seq(Keys)
            /\ Distinct(w)
            /\ ToKeys(w) = ToKeys(s) \ ToKeys(SubSeq(s, 1, n))
            /\ ToKeys(SubSeq(s, 1, n)) \subseteq ToKeys(s)
            /\ Len(w) = Len(s) - n
<1> DEFINE w == SubSeq(s, n + 1, Len(s))
           u == SubSeq(s, 1, n)
<1>1. Len(s) \in Nat /\ n \in Nat /\ n <= Len(s)
  BY SMT, Z3, SMTT(10), Z3T(10)
<1>2. w \in Seq(Keys) /\ Len(w) = Len(s) - n
  BY SMT, Z3, SMTT(10), Z3T(10), <1>1
<1>3. \A i \in 1..Len(w) : w[i] = s[n + i]
  BY SMT, Z3, SMTT(10), Z3T(10), <1>1
<1>4. u \in Seq(Keys) /\ Len(u) = n /\ \A i \in 1..n : u[i] = s[i]
  BY SMT, Z3, SMTT(10), Z3T(10), <1>1
<1> HIDE DEF w, u
<1>5. Distinct(w)
  BY SMT, Z3, SMTT(10), Z3T(10), <1>1, <1>2, <1>3 DEF Distinct
<1>6. ToKeys(u) \subseteq ToKeys(s)
  BY SMT, Z3, SMTT(10), Z3T(10), <1>1, <1>4 DEF ToKeys
<1>7. ToKeys(w) \subseteq ToKeys(s) \ ToKeys(u)
  <2> SUFFICES ASSUME NEW i \in 1..Len(w)
               PROVE  w[i] \in ToKeys(s) /\ w[i] \notin ToKeys(u)
    BY DEF ToKeys
  <2>1. n + i \in 1..Len(s) /\ w[i] = s[n + i]
    BY SMT, Z3, SMTT(10), Z3T(10), <1>1, <1>2, <1>3
  <2>2. \A j \in 1..n : s[j] # s[n + i]
    BY SMT, Z3, SMTT(10), Z3T(10), <2>1, <1>1 DEF Distinct
  <2> QED BY <2>1, <2>2, <1>1, <1>4 DEF ToKeys
<1>8. ToKeys(s) \ ToKeys(u) \subseteq ToKeys(w)
  <2> SUFFICES ASSUME NEW i \in 1..Len(s), s[i] \notin ToKeys(u)
               PROVE  \E j \in 1..Len(w) : w[j] = s[i]
    BY DEF ToKeys
  <2>1. i > n
    BY SMT, Z3, SMTT(10), Z3T(10), <1>1, <1>4 DEF ToKeys
  <2>2. i - n \in 1..Len(w) /\ w[i - n] = s[i]
    BY SMT, Z3, SMTT(10), Z3T(10), <2>1, <1>1, <1>2, <1>3
  <2> QED BY <2>2
<1> QED BY <1>2, <1>5, <1>6, <1>7, <1>8 DEF w, u

\* Evicting the oldest entry.
LEMMA TailProperties ==
  ASSUME NEW s \in Seq(Keys), Distinct(s), Len(s) > 0
  PROVE  /\ Tail(s) \in Seq(Keys)
         /\ Distinct(Tail(s))
         /\ ToKeys(Tail(s)) = ToKeys(s) \ {Head(s)}
         /\ Len(Tail(s)) = Len(s) - 1
         /\ Head(s) = s[1]
<1>1. s # <<>> /\ Len(s) \in Nat
  BY SMT, Z3, SMTT(10), Z3T(10)
<1>2. Tail(s) \in Seq(Keys) /\ Len(Tail(s)) = Len(s) - 1 /\ Head(s) = s[1]
  BY SMT, Z3, SMTT(10), Z3T(10), <1>1
<1>3. \A i \in 1..Len(Tail(s)) : Tail(s)[i] = s[i + 1]
  BY SMT, Z3, SMTT(10), Z3T(10), <1>1, <1>2
<1>4. Distinct(Tail(s))
  BY SMT, Z3, SMTT(10), Z3T(10), <1>1, <1>2, <1>3 DEF Distinct
<1>5. ToKeys(Tail(s)) \subseteq ToKeys(s) \ {Head(s)}
  BY SMT, Z3, SMTT(10), Z3T(10), <1>1, <1>2, <1>3 DEF ToKeys, Distinct
<1>6. ToKeys(s) \ {Head(s)} \subseteq ToKeys(Tail(s))
  <2> SUFFICES ASSUME NEW i \in 1..Len(s), s[i] # Head(s)
               PROVE  \E j \in 1..Len(Tail(s)) : Tail(s)[j] = s[i]
    BY DEF ToKeys
  <2>1. i - 1 \in 1..Len(Tail(s)) /\ (i - 1) + 1 = i
    BY SMT, Z3, SMTT(10), Z3T(10), <1>1, <1>2
  <2>2. Tail(s)[i - 1] = s[i]
    BY <2>1, <1>3
  <2> QED BY Zenon, <2>1, <2>2
<1> QED BY <1>2, <1>4, <1>5, <1>6

-----------------------------------------------------------------------------
(* The read cache. *)

\* The part of the invariant that is about the read cache alone.
ReadCacheOK ==
  /\ mapReadCache \in [Keys -> Values \cup {NoValue}]
  /\ readFifoList \in Seq(Keys)
  /\ InStep(readFifoList, mapReadCache)
  /\ Len(readFifoList) <= maxReadCacheSize

\* Trimming drops some entries and changes none.
LEMMA TrimProperties ==
  ASSUME NEW entries \in [Keys -> Values \cup {NoValue}],
         NEW order \in Seq(Keys), InStep(order, entries),
         NEW size \in Nat, TrimReadCache(entries, order, size)
  PROVE  /\ mapReadCache' \in [Keys -> Values \cup {NoValue}]
         /\ readFifoList' \in Seq(Keys)
         /\ InStep(readFifoList', mapReadCache')
         /\ Len(readFifoList') <= size
         /\ \A k \in Keys : mapReadCache'[k] \in {NoValue, entries[k]}
<1> DEFINE n == IF Len(order) > size THEN Len(order) - size ELSE 0
           popped == ToKeys(SubSeq(order, 1, n))
<1>1. n \in 0..Len(order) /\ Len(order) - n <= size
  BY SMT, Z3, SMTT(10), Z3T(10)
<1>2. /\ readFifoList' = SubSeq(order, n + 1, Len(order))
      /\ mapReadCache' = [k \in Keys |-> IF k \in popped THEN NoValue ELSE entries[k]]
  BY DEF TrimReadCache
<1> HIDE DEF n
<1>3. /\ readFifoList' \in Seq(Keys)
      /\ Distinct(readFifoList')
      /\ ToKeys(readFifoList') = ToKeys(order) \ popped
      /\ Len(readFifoList') = Len(order) - n
  BY <1>1, <1>2, PopProperties DEF InStep
<1> HIDE DEF popped
<1>4. ToKeys(readFifoList') = {k \in Keys : mapReadCache'[k] # NoValue}
  BY <1>2, <1>3 DEF InStep
<1> QED BY <1>1, <1>2, <1>3, <1>4 DEF InStep

\* Writing an entry into the read cache.
LEMMA WriteReadCacheProperties ==
  ASSUME ReadCacheOK, maxReadCacheSize \in Nat,
         NEW k \in Keys, NEW v \in Values, WriteReadCache(k, v)
  PROVE  /\ mapReadCache' \in [Keys -> Values \cup {NoValue}]
         /\ readFifoList' \in Seq(Keys)
         /\ InStep(readFifoList', mapReadCache')
         /\ Len(readFifoList') <= maxReadCacheSize
         /\ mapReadCache'[k] \in {NoValue, v}
         /\ \A j \in Keys \ {k} : mapReadCache'[j] \in {NoValue, mapReadCache[j]}
<1>1. CASE maxReadCacheSize = 0
  <2>1. UNCHANGED readVars
    BY <1>1 DEF WriteReadCache
  <2>2. ToKeys(readFifoList) = {}
    BY SMT, Z3, SMTT(10), Z3T(10), <1>1 DEF ReadCacheOK, ToKeys
  <2>3. \A j \in Keys : mapReadCache[j] = NoValue
    BY <2>2 DEF ReadCacheOK, InStep
  <2> QED BY <2>1, <2>3 DEF ReadCacheOK, readVars
<1>2. CASE maxReadCacheSize # 0
  <2> DEFINE entries == [mapReadCache EXCEPT ![k] = v]
             order == Append(Without(readFifoList, k), k)
  <2>1. entries \in [Keys -> Values \cup {NoValue}]
    BY DEF ReadCacheOK
  <2>2. /\ order \in Seq(Keys)
        /\ Distinct(order)
        /\ ToKeys(order) = ToKeys(readFifoList) \cup {k}
    BY ToBackProperties DEF ReadCacheOK, InStep
  <2> HIDE DEF order
  <2>3. InStep(order, entries)
    BY <2>2 DEF InStep, ReadCacheOK
  <2>4. TrimReadCache(entries, order, maxReadCacheSize)
    BY <1>2 DEF WriteReadCache, order
  <2>5. \A j \in Keys \ {k} : entries[j] = mapReadCache[j]
    BY DEF ReadCacheOK
  <2>6. entries[k] = v
    BY DEF ReadCacheOK
  <2> HIDE DEF entries
  <2> QED BY <2>1, <2>2, <2>3, <2>4, <2>5, <2>6, TrimProperties
<1> QED BY <1>1, <1>2

\* Touching an entry only moves it.
LEMMA TouchReadCacheProperties ==
  ASSUME ReadCacheOK, NEW k \in Keys, mapReadCache[k] # NoValue,
         TouchReadCache(k)
  PROVE  /\ mapReadCache' = mapReadCache
         /\ readFifoList' \in Seq(Keys)
         /\ InStep(readFifoList', mapReadCache')
         /\ Len(readFifoList') = Len(readFifoList)
<1>1. k \in ToKeys(readFifoList)
  BY DEF ReadCacheOK, InStep
<1>2. readFifoList' = Append(Without(readFifoList, k), k) /\ mapReadCache' = mapReadCache
  BY DEF TouchReadCache
<1> QED BY SMT, Z3, SMTT(10), Z3T(10), <1>1, <1>2, ToBackProperties DEF ReadCacheOK, InStep

\* Erasing an entry.
LEMMA EraseReadCacheProperties ==
  ASSUME ReadCacheOK, maxReadCacheSize \in Nat, NEW k \in Keys, EraseReadCache(k)
  PROVE  /\ mapReadCache' \in [Keys -> Values \cup {NoValue}]
         /\ mapReadCache'[k] = NoValue
         /\ \A j \in Keys \ {k} : mapReadCache'[j] = mapReadCache[j]
         /\ readFifoList' \in Seq(Keys)
         /\ InStep(readFifoList', mapReadCache')
         /\ Len(readFifoList') <= maxReadCacheSize
<1>1. /\ readFifoList' = Without(readFifoList, k)
      /\ mapReadCache' = [mapReadCache EXCEPT ![k] = NoValue]
  BY DEF EraseReadCache
<1>2. /\ readFifoList' \in Seq(Keys)
      /\ Distinct(readFifoList')
      /\ ToKeys(readFifoList') = ToKeys(readFifoList) \ {k}
      /\ Len(readFifoList') = IF k \in ToKeys(readFifoList)
                              THEN Len(readFifoList) - 1 ELSE Len(readFifoList)
  BY Zenon, <1>1, WithoutProperties DEF ReadCacheOK, InStep
<1>3. Len(readFifoList) \in Nat /\ Len(readFifoList) <= maxReadCacheSize
  BY SMT, Z3, SMTT(10), Z3T(10) DEF ReadCacheOK
<1>4. ToKeys(readFifoList') = {j \in Keys : mapReadCache'[j] # NoValue}
  BY <1>1, <1>2 DEF ReadCacheOK, InStep
<1>5. Len(readFifoList') <= maxReadCacheSize
  BY SMT, Z3, SMTT(10), Z3T(10), <1>2, <1>3
<1> QED BY <1>1, <1>2, <1>4, <1>5 DEF ReadCacheOK, InStep

-----------------------------------------------------------------------------
(* The inductive invariant. *)

LEMMA InitInv == Init => StoreInv
<1> SUFFICES ASSUME Init PROVE StoreInv
  OBVIOUS
<1>1. fifoList = <<>> /\ readFifoList = <<>> /\ Len(<<>>) = 0
  BY DEF Init
<1>a. ToKeys(<<>>) = {} /\ Distinct(<<>>)
  BY SMT, Z3, SMTT(10), Z3T(10) DEF ToKeys, Distinct
<1>2. TypeOK
  <2>1. mapCache \in [Keys -> Values \cup {NoValue}]
        /\ mapReadCache \in [Keys -> Values \cup {NoValue}]
    BY DEF Init, Empty
  <2>2. fifoList \in Seq(Keys) /\ readFifoList \in Seq(Keys)
    BY SMT, Z3, SMTT(10), Z3T(10) DEF Init
  <2> QED BY Zenon, <2>1, <2>2 DEF Init, TypeOK
<1>3. CachesInStep
  BY SMT, Z3, SMTT(10), Z3T(10), <1>1, <1>a DEF Init, CachesInStep, InStep, Empty
<1> QED BY <1>2, <1>3 DEF Init, StoreInv, Empty

LEMMA InvReadCache == StoreInv => ReadCacheOK /\ maxReadCacheSize \in Nat
BY SMT, Z3, SMTT(10), Z3T(10) DEF StoreInv, TypeOK, CachesInStep, ReadCacheOK

LEMMA WriteCacheInv ==
  ASSUME StoreInv, NEW k \in Keys, NEW v \in Values, WriteCache(k, v)
  PROVE  StoreInv'
<1> DEFINE order == Append(Without(fifoList, k), k)
           evict == maxCacheSize > 0 /\ Len(order) > maxCacheSize
           entries == [mapCache EXCEPT ![k] = v]
<1>1. /\ Unlocked
      /\ fifoList' = IF evict THEN Tail(order) ELSE order
      /\ mapCache' = IF evict THEN [entries EXCEPT ![Head(order)] = NoValue]
                              ELSE entries
      /\ WriteReadCache(k, v)
      /\ setEraseCache' = setEraseCache \ {k}
      /\ UNCHANGED <<maxReadCacheSize, bFlushOnNextRead, disk, flush, waiting>>
  BY DEF WriteCache
<1>2. /\ order \in Seq(Keys)
      /\ Distinct(order)
      /\ ToKeys(order) = ToKeys(fifoList) \cup {k}
      /\ Len(order) = IF k \in ToKeys(fifoList) THEN Len(fifoList) ELSE Len(fifoList) + 1
      /\ Len(order) > 0 /\ order[Len(order)] = k
  BY ToBackProperties DEF StoreInv, TypeOK, CachesInStep, InStep
<1> HIDE DEF order
<1>3. entries \in [Keys -> Values \cup {NoValue}] /\ entries[k] = v
      /\ \A j \in Keys \ {k} : entries[j] = mapCache[j]
  BY DEF StoreInv, TypeOK
<1>4. InStep(order, entries)
  BY SMT, Z3, SMTT(10), Z3T(10), <1>2, <1>3 DEF StoreInv, CachesInStep, InStep, TypeOK
<1> HIDE DEF entries
<1>5. /\ mapReadCache' \in [Keys -> Values \cup {NoValue}]
      /\ readFifoList' \in Seq(Keys)
      /\ InStep(readFifoList', mapReadCache')
      /\ Len(readFifoList') <= maxReadCacheSize
      /\ mapReadCache'[k] \in {NoValue, v}
      /\ \A j \in Keys \ {k} : mapReadCache'[j] \in {NoValue, mapReadCache[j]}
  BY <1>1, InvReadCache, WriteReadCacheProperties
<1>6. Len(fifoList) \in Nat /\ Len(order) \in Nat /\ maxCacheSize \in Nat
      /\ (maxCacheSize > 0 => Len(fifoList) <= maxCacheSize)
  BY SMT, Z3, SMTT(10), Z3T(10), <1>2 DEF StoreInv, TypeOK, CachesInStep
<1>7. /\ mapCache' \in [Keys -> Values \cup {NoValue}]
      /\ fifoList' \in Seq(Keys)
      /\ InStep(fifoList', mapCache')
      /\ maxCacheSize > 0 => Len(fifoList') <= maxCacheSize
      /\ mapCache'[k] = v
      /\ \A j \in Keys \ {k} : \/ mapCache'[j] = mapCache[j]
                               \/ maxCacheSize > 0 /\ mapCache'[j] = NoValue
  <2>1. CASE ~evict
    <3>1. fifoList' = order /\ mapCache' = entries
      BY <1>1, <2>1
    <3> QED BY SMT, Z3, SMTT(10), Z3T(10), <2>1, <3>1, <1>2, <1>3, <1>4, <1>6
  <2>2. CASE evict
    <3>1. fifoList' = Tail(order) /\ mapCache' = [entries EXCEPT ![Head(order)] = NoValue]
      BY <1>1, <2>2
    <3>2. /\ Tail(order) \in Seq(Keys)
          /\ Distinct(Tail(order))
          /\ ToKeys(Tail(order)) = ToKeys(order) \ {Head(order)}
          /\ Len(Tail(order)) = Len(order) - 1
          /\ Head(order) = order[1]
      BY <1>2, TailProperties
    <3>3. Len(order) > 1
      BY SMT, Z3, SMTT(10), Z3T(10), <2>2, <1>6
    <3>4. Head(order) # k /\ Head(order) \in Keys
      BY SMT, Z3, SMTT(10), Z3T(10), <1>2, <1>6, <3>2, <3>3 DEF Distinct
    <3>5. ToKeys(fifoList') = {j \in Keys : mapCache'[j] # NoValue}
      BY <3>1, <3>2, <1>3, <1>4 DEF InStep
    <3>6. Len(fifoList') <= maxCacheSize
      <4>1. Len(fifoList') = Len(order) - 1
        BY <3>1, <3>2
      <4>2. Len(order) <= Len(fifoList) + 1 /\ Len(fifoList) <= maxCacheSize
        BY SMT, Z3, SMTT(10), Z3T(10), <2>2, <1>2, <1>6
      <4> QED BY SMT, Z3, SMTT(10), Z3T(10), <4>1, <4>2, <1>6
    <3> QED BY <2>2, <3>1, <3>2, <3>4, <3>5, <3>6, <1>3 DEF InStep
  <2> QED BY <2>1, <2>2
<1>8. TypeOK'
  BY <1>1, <1>5, <1>7 DEF StoreInv, TypeOK
<1>9. CachesInStep'
  BY <1>1, <1>5, <1>7 DEF StoreInv, TypeOK, CachesInStep
<1>10. \A j \in Keys :
         mapReadCache'[j] # NoValue =>
           \/ mapCache'[j] = mapReadCache'[j]
           \/ mapCache'[j] = NoValue
                /\ (maxCacheSize = 0 => disk'[j] = mapReadCache'[j])
  BY SMT, Z3, SMTT(10), Z3T(10), <1>1, <1>5, <1>6, <1>7 DEF StoreInv
<1> QED BY <1>1, <1>8, <1>9, <1>10 DEF StoreInv

LEMMA EraseCacheInv ==
  ASSUME StoreInv, NEW k \in Keys, EraseCache(k)
  PROVE  StoreInv'
<1>1. /\ Unlocked
      /\ bFlushOnNextRead' = TRUE
      /\ fifoList' = Without(fifoList, k)
      /\ mapCache' = [mapCache EXCEPT ![k] = NoValue]
      /\ EraseReadCache(k)
      /\ setEraseCache' = setEraseCache \cup {k}
      /\ UNCHANGED <<maxReadCacheSize, disk, flush, waiting>>
  BY DEF EraseCache
<1>2. /\ mapReadCache' \in [Keys -> Values \cup {NoValue}]
      /\ mapReadCache'[k] = NoValue
      /\ \A j \in Keys \ {k} : mapReadCache'[j] = mapReadCache[j]
      /\ readFifoList' \in Seq(Keys)
      /\ InStep(readFifoList', mapReadCache')
      /\ Len(readFifoList') <= maxReadCacheSize
  BY <1>1, InvReadCache, EraseReadCacheProperties
<1>3. /\ fifoList' \in Seq(Keys)
      /\ Distinct(fifoList')
      /\ ToKeys(fifoList') = ToKeys(fifoList) \ {k}
      /\ Len(fifoList') = IF k \in ToKeys(fifoList) THEN Len(fifoList) - 1 ELSE Len(fifoList)
  BY Zenon, <1>1, WithoutProperties DEF StoreInv, TypeOK, CachesInStep, InStep
<1>4. /\ mapCache' \in [Keys -> Values \cup {NoValue}]
      /\ mapCache'[k] = NoValue
      /\ \A j \in Keys \ {k} : mapCache'[j] = mapCache[j]
  BY <1>1 DEF StoreInv, TypeOK
<1>5. InStep(fifoList', mapCache')
  BY <1>3, <1>4 DEF StoreInv, CachesInStep, InStep
<1>6. maxCacheSize > 0 => Len(fifoList') <= maxCacheSize
  <2>1. Len(fifoList) \in Nat
    BY SMT, Z3, SMTT(10), Z3T(10) DEF StoreInv, TypeOK
  <2> QED BY SMT, Z3, SMTT(10), Z3T(10), <2>1, <1>3 DEF StoreInv, CachesInStep
<1>7. TypeOK'
  BY <1>1, <1>2, <1>3, <1>4 DEF StoreInv, TypeOK
<1>8. CachesInStep'
  BY <1>1, <1>2, <1>4, <1>5, <1>6 DEF StoreInv, TypeOK, CachesInStep
<1> QED BY <1>1, <1>2, <1>4, <1>7, <1>8 DEF StoreInv, Unlocked

LEMMA SetReadCacheSizeInv ==
  ASSUME StoreInv, NEW n \in ReadCacheSizes, SetReadCacheSize(n)
  PROVE  StoreInv'
<1>1. /\ maxReadCacheSize' = n
      /\ TrimReadCache(mapReadCache, readFifoList, n)
      /\ UNCHANGED <<mapCache, fifoList, setEraseCache, bFlushOnNextRead, disk,
                     flush, waiting>>
  BY DEF SetReadCacheSize
<1>2. /\ mapReadCache' \in [Keys -> Values \cup {NoValue}]
      /\ readFifoList' \in Seq(Keys)
      /\ InStep(readFifoList', mapReadCache')
      /\ Len(readFifoList') <= n
      /\ \A k \in Keys : mapReadCache'[k] \in {NoValue, mapReadCache[k]}
  BY <1>1, TrimProperties DEF StoreInv, TypeOK, CachesInStep
<1>3. TypeOK'
  BY <1>1, <1>2 DEF StoreInv, TypeOK
<1>4. CachesInStep'
  BY <1>1, <1>2 DEF StoreInv, TypeOK, CachesInStep
<1> QED BY <1>1, <1>2, <1>3, <1>4 DEF StoreInv

LEMMA FlushWriteBatchInv ==
  ASSUME StoreInv, FlushWriteBatch
  PROVE  /\ StoreInv'
         /\ \E batch \in SUBSET Keys :
              /\ \A k \in batch : mapCache[k] # NoValue
              /\ disk' = [k \in Keys |-> IF k \in batch THEN mapCache[k] ELSE disk[k]]
              /\ mapCache' = [k \in Keys |-> IF k \in batch THEN NoValue ELSE mapCache[k]]
<1> DEFINE n == IF Len(fifoList) < CHUNK_ITEMS THEN Len(fifoList) ELSE CHUNK_ITEMS
           batch == ToKeys(SubSeq(fifoList, 1, n))
<1>1. /\ disk' = [k \in Keys |-> IF k \in batch THEN mapCache[k] ELSE disk[k]]
      /\ mapCache' = [k \in Keys |-> IF k \in batch THEN NoValue ELSE mapCache[k]]
      /\ fifoList' = SubSeq(fifoList, n + 1, Len(fifoList))
      /\ flush = "write"
      /\ UNCHANGED <<readVars, setEraseCache, maxReadCacheSize, bFlushOnNextRead,
                     flush, waiting>>
  BY DEF FlushWriteBatch
<1>2. fifoList \in Seq(Keys) /\ Distinct(fifoList) /\ Len(fifoList) \in Nat
  BY SMT, Z3, SMTT(10), Z3T(10) DEF StoreInv, TypeOK, CachesInStep, InStep
<1>3. n \in 0..Len(fifoList)
  BY SMT, Z3, SMTT(10), Z3T(10), <1>2
<1> HIDE DEF n
<1>4. /\ fifoList' \in Seq(Keys)
      /\ Distinct(fifoList')
      /\ ToKeys(fifoList') = ToKeys(fifoList) \ batch
      /\ batch \subseteq ToKeys(fifoList)
      /\ Len(fifoList') = Len(fifoList) - n
  BY <1>1, <1>2, <1>3, PopProperties
<1> HIDE DEF batch
<1>5. batch \subseteq Keys /\ \A k \in batch : mapCache[k] # NoValue
  BY <1>4 DEF StoreInv, CachesInStep, InStep
<1>6. TypeOK'
  BY <1>1, <1>4 DEF StoreInv, TypeOK, readVars
<1>7. InStep(fifoList', mapCache')
  BY <1>1, <1>4, <1>5 DEF StoreInv, CachesInStep, InStep
<1>8. maxCacheSize > 0 => Len(fifoList') <= maxCacheSize
  BY SMT, Z3, SMTT(10), Z3T(10), <1>2, <1>3, <1>4 DEF StoreInv, CachesInStep
<1>9. CachesInStep'
  BY Zenon, <1>1, <1>7, <1>8 DEF StoreInv, TypeOK, CachesInStep, readVars
<1>10. ASSUME NEW k \in Keys, mapReadCache'[k] # NoValue
       PROVE  \/ mapCache'[k] = mapReadCache'[k]
              \/ mapCache'[k] = NoValue
                   /\ (maxCacheSize = 0 => disk'[k] = mapReadCache'[k])
  <2>1. mapReadCache' = mapReadCache
    BY <1>1 DEF readVars
  <2>2. CASE k \in batch
    BY <1>1, <1>5, <1>10, <2>1, <2>2 DEF StoreInv
  <2>3. CASE k \notin batch
    BY <1>1, <1>10, <2>1, <2>3 DEF StoreInv
  <2> QED BY <2>2, <2>3
<1>11. StoreInv'
  BY <1>1, <1>6, <1>9, <1>10 DEF StoreInv
<1> QED BY <1>1, <1>5, <1>11

LEMMA FlushEraseBatchInv ==
  ASSUME StoreInv, FlushEraseBatch
  PROVE  StoreInv'
<1>1. PICK batch \in SUBSET setEraseCache :
        /\ flush' \in {"idle", "erase"}
        /\ flush' = "idle" => batch = setEraseCache
        /\ disk' = [k \in Keys |-> IF k \in batch THEN NoValue ELSE disk[k]]
        /\ setEraseCache' = setEraseCache \ batch
  BY DEF FlushEraseBatch
<1>2. UNCHANGED <<mapCache, fifoList, readVars, maxReadCacheSize,
                  bFlushOnNextRead, waiting>>
  BY DEF FlushEraseBatch
<1>3. TypeOK'
  BY <1>1, <1>2 DEF StoreInv, TypeOK, readVars
<1>4. CachesInStep'
  BY <1>1, <1>2 DEF StoreInv, CachesInStep, readVars
<1>5. ASSUME NEW k \in Keys, mapReadCache'[k] # NoValue
      PROVE  \/ mapCache'[k] = mapReadCache'[k]
             \/ mapCache'[k] = NoValue
                  /\ (maxCacheSize = 0 => disk'[k] = mapReadCache'[k])
  <2>1. mapCache' = mapCache /\ mapReadCache' = mapReadCache
    BY <1>2 DEF readVars
  <2>2. k \notin batch
    BY <1>1, <1>5, <2>1 DEF StoreInv, CachesInStep
  <2>3. disk'[k] = disk[k]
    BY <1>1, <2>2
  <2> QED BY <1>5, <2>1, <2>3 DEF StoreInv
<1>6. setEraseCache' # {} => bFlushOnNextRead' \/ flush' # "idle"
  BY <1>1
<1> QED BY <1>2, <1>3, <1>4, <1>5, <1>6 DEF StoreInv

LEMMA EndReadInv ==
  ASSUME StoreInv, NEW k \in Keys, EndRead(k)
  PROVE  /\ StoreInv'
         /\ setEraseCache = {}
         /\ \A j \in Keys : \/ mapReadCache'[j] \in {NoValue, mapReadCache[j]}
                            \/ /\ mapCache[j] = NoValue /\ mapReadCache[j] = NoValue
                               /\ mapReadCache'[j] = disk[j]
<1>1. /\ flush = "idle" /\ waiting # NoCall
      /\ waiting' = NoCall
      /\ UNCHANGED <<mapCache, fifoList, setEraseCache, maxReadCacheSize,
                     bFlushOnNextRead, disk, flush>>
  BY SMT, Z3, SMTT(10), Z3T(10) DEF EndRead, ReadCache, ExistsCache, NoCall
<1>2. setEraseCache = {}
  BY <1>1 DEF StoreInv
<1>3. \/ UNCHANGED readVars
      \/ mapReadCache[k] # NoValue /\ TouchReadCache(k)
      \/ /\ mapCache[k] = NoValue /\ mapReadCache[k] = NoValue /\ disk[k] # NoValue
         /\ WriteReadCache(k, disk[k])
  BY DEF EndRead, ReadCache, ExistsCache
<1>4. /\ mapReadCache' \in [Keys -> Values \cup {NoValue}]
      /\ readFifoList' \in Seq(Keys)
      /\ InStep(readFifoList', mapReadCache')
      /\ Len(readFifoList') <= maxReadCacheSize
      /\ \A j \in Keys : \/ mapReadCache'[j] \in {NoValue, mapReadCache[j]}
                         \/ /\ mapCache[j] = NoValue /\ mapReadCache[j] = NoValue
                            /\ mapReadCache'[j] = disk[j]
  <2>0. ReadCacheOK /\ maxReadCacheSize \in Nat /\ disk \in [Keys -> Values \cup {NoValue}]
    BY InvReadCache DEF StoreInv, TypeOK
  <2>1. CASE UNCHANGED readVars
    BY <2>0, <2>1 DEF ReadCacheOK, readVars
  <2>2. CASE mapReadCache[k] # NoValue /\ TouchReadCache(k)
    BY <2>0, <2>2, TouchReadCacheProperties DEF ReadCacheOK
  <2>3. CASE /\ mapCache[k] = NoValue /\ mapReadCache[k] = NoValue /\ disk[k] # NoValue
             /\ WriteReadCache(k, disk[k])
    <3>1. disk[k] \in Values
      BY <2>0, <2>3
    <3>2. /\ mapReadCache' \in [Keys -> Values \cup {NoValue}]
          /\ readFifoList' \in Seq(Keys)
          /\ InStep(readFifoList', mapReadCache')
          /\ Len(readFifoList') <= maxReadCacheSize
          /\ mapReadCache'[k] \in {NoValue, disk[k]}
          /\ \A j \in Keys \ {k} : mapReadCache'[j] \in {NoValue, mapReadCache[j]}
      BY <2>0, <2>3, <3>1, WriteReadCacheProperties
    <3> QED BY <2>3, <3>2
  <2> QED BY <1>3, <2>1, <2>2, <2>3
<1>5. TypeOK'
  BY <1>1, <1>4 DEF StoreInv, TypeOK
<1>6. CachesInStep'
  BY <1>1, <1>2, <1>4 DEF StoreInv, TypeOK, CachesInStep
<1>7. StoreInv'
  BY <1>1, <1>4, <1>5, <1>6 DEF StoreInv
<1> QED BY <1>2, <1>4, <1>7

LEMMA NextInv == StoreInv /\ [Next]_vars => StoreInv'
<1> SUFFICES ASSUME StoreInv, [Next]_vars PROVE StoreInv'
  OBVIOUS
<1>1. ASSUME NEW k \in Keys, NEW v \in Values, WriteCache(k, v) PROVE StoreInv'
  BY <1>1, WriteCacheInv
<1>2. ASSUME NEW k \in Keys, EraseCache(k) PROVE StoreInv'
  BY <1>2, EraseCacheInv
<1>3. ASSUME NEW n \in ReadCacheSizes, SetReadCacheSize(n) PROVE StoreInv'
  BY <1>3, SetReadCacheSizeInv
<1>4. CASE FlushCacheToDisk \/ FlushWritesDone
  BY SMT, Z3, SMTT(10), Z3T(10), <1>4 DEF FlushCacheToDisk, FlushWritesDone, StoreInv, TypeOK, CachesInStep, readVars
<1>5. CASE FlushWriteBatch
  BY <1>5, FlushWriteBatchInv
<1>6. CASE FlushEraseBatch
  BY <1>6, FlushEraseBatchInv
<1>7. ASSUME NEW op \in {"ReadCache", "ExistsCache"}, NEW k \in Keys, BeginRead(op, k)
      PROVE  StoreInv'
  <2>1. TypeOK'
    BY Zenon, <1>7 DEF BeginRead, StoreInv, TypeOK, readVars
  <2>2. CachesInStep'
    BY <1>7 DEF BeginRead, StoreInv, CachesInStep, readVars
  <2> QED BY <1>7, <2>1, <2>2 DEF BeginRead, Unlocked, StoreInv, readVars
<1>8. ASSUME NEW k \in Keys, EndRead(k) PROVE StoreInv'
  BY <1>8, EndReadInv
<1>9. CASE ResetDB
  <2>1. maxCacheSize # 0
    BY SMT, Z3, SMTT(10), Z3T(10), <1>9 DEF ResetDB, IsCacheFull
  <2>2. TypeOK'
    BY <1>9 DEF ResetDB, StoreInv, TypeOK, readVars, Empty
  <2>3. CachesInStep'
    BY <1>9 DEF ResetDB, StoreInv, CachesInStep, readVars
  <2>4. mapCache' = mapCache /\ mapReadCache' = mapReadCache /\ waiting' = waiting
        /\ bFlushOnNextRead' = bFlushOnNextRead /\ flush' = "write"
    BY <1>9 DEF ResetDB, readVars
  <2> QED BY <2>1, <2>2, <2>3, <2>4 DEF StoreInv
<1>10. CASE Crash
  <2>1. Init'
    BY <1>10 DEF Crash, Init, StoreInv, TypeOK
  <2>2. (Init => StoreInv)'
    BY InitInv, PTL
  <2> QED BY <2>1, <2>2
<1>11. CASE UNCHANGED vars
  BY <1>11 DEF vars, StoreInv, TypeOK, CachesInStep
<1> QED
  BY <1>1, <1>2, <1>3, <1>4, <1>5, <1>6, <1>7, <1>8, <1>9, <1>10, <1>11 DEF Next

\* The invariant holds throughout: the two halves of each cache agree, bounds
\* are kept, and no erasure that is not on disk yet goes unflagged.
THEOREM StoreInvariant == Spec => []StoreInv
BY InitInv, NextInv, PTL DEF Spec

\* The two halves of each cache hold the same keys and keep their bounds, and no
\* key is both to be written and to be erased, for every cache size.
THEOREM CachesStayInStep == Spec => []CachesOK
<1>1. StoreInv => CachesOK
  BY DEF StoreInv, CachesOK
<1> QED BY <1>1, StoreInvariant, PTL

\* Readers that never consult setEraseCache nevertheless never see an erased
\* value: what ReadCache finds is the value of the map the store stands for.
THEOREM ReadsCorrect == Spec => []ReadsSeeErasures
<1>1. StoreInv => ReadsSeeErasures
  BY DEF StoreInv, ReadsSeeErasures, ReadResult, View
<1> QED BY <1>1, StoreInvariant, PTL

-----------------------------------------------------------------------------
(* Every step of the store is a step of the abstract map, or none. *)

LEMMA ViewType == StoreInv => View \in [Keys -> Values \cup {NoValue}]
BY DEF StoreInv, TypeOK, View

\* Entries of the read cache that go away fall back to the disk; in an
\* unbounded store they are on the disk already.
LEMMA ReadCacheShrinks ==
  ASSUME StoreInv, NEW j \in Keys, mapCache'[j] = mapCache[j],
         disk'[j] = disk[j], j \in setEraseCache' <=> j \in setEraseCache,
         mapReadCache'[j] \in {NoValue, mapReadCache[j]}
  PROVE  \/ View'[j] = View[j]
         \/ maxCacheSize > 0 /\ View'[j] = disk[j]
<1>1. View[j] = IF mapCache[j] # NoValue THEN mapCache[j]
                ELSE IF mapReadCache[j] # NoValue THEN mapReadCache[j]
                ELSE IF j \in setEraseCache THEN NoValue ELSE disk[j]
  BY DEF View
<1>2. View'[j] = IF mapCache'[j] # NoValue THEN mapCache'[j]
                 ELSE IF mapReadCache'[j] # NoValue THEN mapReadCache'[j]
                 ELSE IF j \in setEraseCache' THEN NoValue ELSE disk'[j]
  BY DEF View
<1>3. mapReadCache[j] # NoValue => j \notin setEraseCache
  BY DEF StoreInv, CachesInStep
<1>4. maxCacheSize = 0 /\ mapReadCache[j] # NoValue /\ mapCache[j] = NoValue
        => disk[j] = mapReadCache[j]
  BY DEF StoreInv
<1> QED BY SMT, Z3, SMTT(10), Z3T(10), <1>1, <1>2, <1>3, <1>4

LEMMA WriteCacheStep ==
  ASSUME StoreInv, StoreInv', NEW k \in Keys, NEW v \in Values, WriteCache(k, v)
  PROVE  KV!Put(k, v)
<1> DEFINE order == Append(Without(fifoList, k), k)
           evict == maxCacheSize > 0 /\ Len(order) > maxCacheSize
           entries == [mapCache EXCEPT ![k] = v]
           lost == {j \in Keys \ {k} : View'[j] # View[j]}
<1>1. /\ mapCache' = IF evict THEN [entries EXCEPT ![Head(order)] = NoValue]
                              ELSE entries
      /\ WriteReadCache(k, v)
      /\ setEraseCache' = setEraseCache \ {k}
      /\ disk' = disk
  BY DEF WriteCache
<1>2. /\ mapReadCache'[k] \in {NoValue, v}
      /\ \A j \in Keys \ {k} : mapReadCache'[j] \in {NoValue, mapReadCache[j]}
  BY <1>1, InvReadCache, WriteReadCacheProperties
<1>3. ASSUME NEW j \in Keys \ {k}
      PROVE  mapCache'[j] = mapCache[j] \/ (maxCacheSize > 0 /\ mapCache'[j] = NoValue)
  <2>1. entries[j] = mapCache[j] /\ DOMAIN entries = Keys
    BY DEF StoreInv, TypeOK
  <2>2. CASE ~evict
    <3>1. mapCache' = entries
      BY <2>2, <1>1
    <3> QED BY <3>1, <2>1
  <2>3. CASE evict
    <3>1. mapCache' = [entries EXCEPT ![Head(order)] = NoValue] /\ maxCacheSize > 0
      BY <1>1, <2>3
    <3> HIDE DEF order, entries
    <3>2. mapCache'[j] = IF j = Head(order) THEN NoValue ELSE entries[j]
      BY <3>1, <2>1
    <3> QED BY <3>1, <3>2, <2>1
  <2> QED BY <2>2, <2>3
<1>4. mapCache'[k] = v
  <2>1. CASE ~evict
    <3>1. mapCache' = entries /\ fifoList' = order
      BY <2>1 DEF WriteCache
    <3> QED BY <3>1 DEF StoreInv, TypeOK
  <2>2. CASE evict
    <3>1. mapCache' = [entries EXCEPT ![Head(order)] = NoValue] /\ fifoList' = Tail(order)
      BY <2>2 DEF WriteCache
    <3>2. /\ order \in Seq(Keys) /\ Distinct(order)
          /\ Len(order) > 0 /\ order[Len(order)] = k
      BY SMT, Z3, ZenonT(40), ToBackProperties DEF StoreInv, TypeOK, CachesInStep, InStep
    <3> HIDE DEF order
    <3>3. Len(order) > 1 /\ Len(order) \in Nat
      BY SMT, Z3, SMTT(10), Z3T(10), <2>2, <3>2
    <3>4. Head(order) # k
      BY SMT, Z3, SMTT(10), Z3T(10), <3>2, <3>3, TailProperties DEF Distinct
    <3> QED BY <3>1, <3>4 DEF StoreInv, TypeOK
  <2> QED BY <2>1, <2>2
<1>5. View'[k] = v
  BY <1>4 DEF View
<1>6. ASSUME NEW j \in Keys \ {k}
      PROVE  View'[j] = View[j] \/ (maxCacheSize > 0 /\ View'[j] = disk[j])
  <2>1. CASE mapCache'[j] = mapCache[j]
    BY Zenon, <1>1, <1>2, <2>1, ReadCacheShrinks
  <2>2. CASE maxCacheSize > 0 /\ mapCache'[j] = NoValue /\ mapCache[j] # NoValue
    <3>1. View[j] = mapCache[j]
      BY <2>2 DEF View
    <3>2. j \notin setEraseCache'
      BY <1>1, <2>2 DEF StoreInv, CachesInStep
    <3>3. (View'[j] = mapReadCache'[j] /\ mapReadCache'[j] # NoValue) \/ View'[j] = disk[j]
      BY <2>2, <3>2, <1>1 DEF View
    <3>4. mapReadCache'[j] # NoValue => mapReadCache'[j] = mapCache[j]
      BY <1>2, <2>2 DEF StoreInv
    <3> QED BY <2>2, <3>1, <3>3, <3>4
  <2> QED BY <1>3, <2>1, <2>2
<1> HIDE DEF order, entries
<1>7. View \in [Keys -> Values \cup {NoValue}] /\ View' \in [Keys -> Values \cup {NoValue}]
  <2>1. View \in [Keys -> Values \cup {NoValue}]
    BY ViewType
  <2>2. View' \in [Keys -> Values \cup {NoValue}]
    BY DEF StoreInv, TypeOK, View
  <2> QED BY <2>1, <2>2
<1>8. lost \in SUBSET (Keys \ {k}) /\ (lost = {} \/ maxCacheSize > 0)
  BY <1>6
<1>9. View' = [KV!Fallback(lost) EXCEPT ![k] = v]
  <2> DEFINE fb == [j \in Keys |-> IF j \in lost THEN disk[j] ELSE View[j]]
  <2>1. KV!Fallback(lost) = fb
    BY DEF KV!Fallback
  <2>2. \A j \in Keys : View'[j] = [fb EXCEPT ![k] = v][j]
    BY <1>5, <1>6
  <2>3. View' = [fb EXCEPT ![k] = v]
    BY Zenon, <2>2, <1>7
  <2> QED BY <2>1, <2>3
<1> HIDE DEF lost
<1> QED BY Zenon, <1>1, <1>8, <1>9 DEF KV!Put

LEMMA EraseCacheStep ==
  ASSUME StoreInv, StoreInv', NEW k \in Keys, EraseCache(k)
  PROVE  KV!Del(k)
<1>1. /\ mapCache' = [mapCache EXCEPT ![k] = NoValue]
      /\ mapReadCache' = [mapReadCache EXCEPT ![k] = NoValue]
      /\ setEraseCache' = setEraseCache \cup {k}
      /\ disk' = disk
  BY DEF EraseCache, EraseReadCache
<1>2. View' = [View EXCEPT ![k] = NoValue]
  BY Zenon, <1>1 DEF View, StoreInv, TypeOK
<1> QED BY <1>1, <1>2 DEF KV!Del

LEMMA FlushWriteBatchStep ==
  ASSUME StoreInv, StoreInv', FlushWriteBatch
  PROVE  KV!Sync
<1>1. PICK batch \in SUBSET Keys :
        /\ \A k \in batch : mapCache[k] # NoValue
        /\ disk' = [k \in Keys |-> IF k \in batch THEN mapCache[k] ELSE disk[k]]
        /\ mapCache' = [k \in Keys |-> IF k \in batch THEN NoValue ELSE mapCache[k]]
  BY FlushWriteBatchInv
<1>2. mapReadCache' = mapReadCache /\ setEraseCache' = setEraseCache
  BY DEF FlushWriteBatch, readVars
<1>3. disk' = [k \in Keys |-> IF k \in batch THEN View[k] ELSE disk[k]]
  BY <1>1 DEF View
<1>4. ASSUME NEW k \in Keys
      PROVE  View'[k] = View[k]
  <2>1. CASE k \in batch
    <3>1. mapCache'[k] = NoValue /\ disk'[k] = mapCache[k] /\ View[k] = mapCache[k]
          /\ k \notin setEraseCache
      BY <1>1, <2>1 DEF View, StoreInv, CachesInStep
    <3>2. mapReadCache[k] # NoValue => mapReadCache[k] = mapCache[k]
      BY <1>1, <2>1 DEF StoreInv
    <3> QED BY <3>1, <3>2, <1>2 DEF View
  <2>2. CASE k \notin batch
    BY <1>1, <1>2, <2>2 DEF View
  <2> QED BY <2>1, <2>2
<1>5. View' = View
  BY <1>4 DEF View
<1> QED BY <1>3, <1>5 DEF KV!Sync

LEMMA FlushEraseBatchStep ==
  ASSUME StoreInv, StoreInv', FlushEraseBatch
  PROVE  KV!Sync
<1>1. PICK batch \in SUBSET setEraseCache :
        /\ disk' = [k \in Keys |-> IF k \in batch THEN NoValue ELSE disk[k]]
        /\ setEraseCache' = setEraseCache \ batch
  BY DEF FlushEraseBatch
<1>2. mapCache' = mapCache /\ mapReadCache' = mapReadCache
  BY DEF FlushEraseBatch, readVars
<1>3. batch \in SUBSET Keys /\ \A k \in batch : View[k] = NoValue
  BY <1>1 DEF StoreInv, TypeOK, CachesInStep, View
<1>4. disk' = [k \in Keys |-> IF k \in batch THEN View[k] ELSE disk[k]]
  BY <1>1, <1>3
<1>5. \A k \in Keys : View'[k] = View[k]
  BY <1>1, <1>2 DEF View
<1>6. View' = View
  BY <1>5 DEF View
<1> QED BY <1>3, <1>4, <1>6 DEF KV!Sync

\* Only the read cache shrinks or repeats the disk: a stutter, or a Forget.
LEMMA ReadCacheStep ==
  ASSUME StoreInv, mapCache' = mapCache, disk' = disk,
         setEraseCache' = setEraseCache,
         \A j \in Keys :
           \/ mapReadCache'[j] \in {NoValue, mapReadCache[j]}
           \/ /\ mapCache[j] = NoValue /\ mapReadCache[j] = NoValue
              /\ setEraseCache = {} /\ mapReadCache'[j] = disk[j]
  PROVE  KV!Forget \/ (View' = View /\ disk' = disk)
<1> DEFINE lost == {j \in Keys : View'[j] # View[j]}
<1>1. ASSUME NEW j \in Keys
      PROVE  View'[j] = View[j] \/ (maxCacheSize > 0 /\ View'[j] = disk[j])
  <2>1. CASE mapReadCache'[j] \in {NoValue, mapReadCache[j]}
    BY <2>1, ReadCacheShrinks
  <2>2. CASE /\ mapCache[j] = NoValue /\ mapReadCache[j] = NoValue
             /\ setEraseCache = {} /\ mapReadCache'[j] = disk[j]
    BY <2>2 DEF View
  <2> QED BY <2>1, <2>2
<1>2. CASE lost = {}
  <2>1. View' = View
    BY Zenon, <1>2 DEF View
  <2> QED BY <2>1
<1>3. CASE lost # {}
  <2>1. maxCacheSize > 0
    BY <1>1, <1>3
  <2>2. \A j \in Keys : View'[j] = IF j \in lost THEN disk[j] ELSE View[j]
    BY <1>1
  <2>3. View' = [j \in Keys |-> IF j \in lost THEN disk[j] ELSE View[j]]
    BY <2>2 DEF View
  <2>4. View' = KV!Fallback(lost) /\ lost \in SUBSET Keys
    BY <2>3 DEF KV!Fallback
  <2> HIDE DEF lost
  <2> QED BY <2>1, <2>4 DEF KV!Forget
<1> QED BY <1>2, <1>3

LEMMA ResetDBStep ==
  ASSUME StoreInv, ResetDB
  PROVE  KV!Wipe
<1>1. /\ disk' = [k \in Keys |-> NoValue] /\ maxCacheSize > 0 /\ maxReadCacheSize = 0
      /\ mapCache' = mapCache /\ mapReadCache' = mapReadCache
      /\ setEraseCache' = setEraseCache
  BY DEF ResetDB, IsCacheFull, readVars, Empty
<1> DEFINE kept == {k \in Keys : mapCache[k] # NoValue}
<1>2. ToKeys(readFifoList) = {}
  BY SMT, Z3, SMTT(10), Z3T(10), <1>1 DEF StoreInv, CachesInStep, TypeOK, ToKeys
<1>3. \A k \in Keys : mapReadCache[k] = NoValue
  BY <1>2 DEF StoreInv, CachesInStep, InStep
<1>4. \A k \in Keys : View'[k] = IF k \in kept THEN View[k] ELSE NoValue
  BY <1>1, <1>3 DEF View
<1>5. View' = [k \in Keys |-> IF k \in kept THEN View[k] ELSE NoValue]
  BY <1>4 DEF View
<1> QED BY Zenon, <1>1, <1>5 DEF KV!Wipe

\* CEvoDB implements the abstract key-value map for every cache size: reads
\* see the last write or erasure, a flush is invisible to readers and makes
\* durable only current values, a crash leaves exactly the durable map.
THEOREM Refinement == Spec => ImplementsStore
<1>1. Init => KV!Init
  BY DEF Init, KV!Init, KV!Store, View, Empty
<1>2. StoreInv /\ StoreInv' /\ [Next]_vars => [KV!Next]_<<View, disk>>
  <2> SUFFICES ASSUME StoreInv, StoreInv', [Next]_vars
               PROVE  KV!Next \/ (View' = View /\ disk' = disk)
    OBVIOUS
  <2>1. ASSUME NEW k \in Keys, NEW v \in Values, WriteCache(k, v) PROVE KV!Next
    BY <2>1, WriteCacheStep DEF KV!Next
  <2>2. ASSUME NEW k \in Keys, EraseCache(k) PROVE KV!Next
    BY <2>2, EraseCacheStep DEF KV!Next
  <2>3. ASSUME NEW n \in ReadCacheSizes, SetReadCacheSize(n)
        PROVE  KV!Next \/ (View' = View /\ disk' = disk)
    <3>1. mapCache' = mapCache /\ disk' = disk /\ setEraseCache' = setEraseCache
      BY <2>3 DEF SetReadCacheSize
    <3>2. \A k \in Keys : mapReadCache'[k] \in {NoValue, mapReadCache[k]}
      BY <2>3, TrimProperties DEF SetReadCacheSize, StoreInv, TypeOK, CachesInStep
    <3> QED BY <3>1, <3>2, ReadCacheStep DEF KV!Next
  <2>4. CASE FlushWriteBatch
    BY <2>4, FlushWriteBatchStep DEF KV!Next
  <2>5. CASE FlushEraseBatch
    BY <2>5, FlushEraseBatchStep DEF KV!Next
  <2>6. ASSUME NEW k \in Keys, EndRead(k)
        PROVE  KV!Next \/ (View' = View /\ disk' = disk)
    <3>1. mapCache' = mapCache /\ disk' = disk /\ setEraseCache' = setEraseCache
      BY <2>6 DEF EndRead
    <3> QED BY <3>1, <2>6, EndReadInv, ReadCacheStep DEF KV!Next
  <2>7. CASE ResetDB
    BY <2>7, ResetDBStep DEF KV!Next
  <2>8. CASE Crash
    <3>1. View' = disk /\ disk' = disk
      BY <2>8 DEF Crash, View, Empty, StoreInv, TypeOK
    <3> QED BY <3>1 DEF KV!Next, KV!Crash
  <2>9. ASSUME NEW op \in {"ReadCache", "ExistsCache"}, NEW k \in Keys, BeginRead(op, k)
        PROVE  View' = View /\ disk' = disk
    BY <2>9 DEF BeginRead, View, readVars
  <2>10. CASE FlushCacheToDisk \/ FlushWritesDone \/ UNCHANGED vars
    BY <2>10 DEF FlushCacheToDisk, FlushWritesDone, vars, View, readVars
  <2> QED BY <2>1, <2>2, <2>3, <2>4, <2>5, <2>6, <2>7, <2>8, <2>9, <2>10 DEF Next
<1> QED BY <1>1, <1>2, StoreInvariant, PTL DEF Spec, KV!Spec, ImplementsStore
=============================================================================
