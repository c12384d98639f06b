---------------------------- MODULE KeyValueStore ----------------------------
(***************************************************************************)
(* What a user of CEvoDB (src/src/evo/evodb.h) relies on: a map `kv' that   *)
(* reads observe, and its durable part, the only thing a crash leaves.      *)
(* A store whose write cache is bounded (Lossy) may also forget a value     *)
(* that was never made durable, or be wiped down to its cached entries.     *)
(***************************************************************************)
EXTENDS Naturals

CONSTANTS Keys,     \* the keys of the store
          Values,   \* the values it can hold
          NoValue,  \* "no entry under this key"
          Lossy     \* TRUE when maxCacheSize > 0

VARIABLES kv,       \* what a read of each key returns
          durable   \* what a read returns after a crash

Store == [Keys -> Values \cup {NoValue}]

Init ==
  /\ kv \in Store
  /\ durable = kv

\* Keys in `lost' fall back to their durable value.
Fallback(lost) == [k \in Keys |-> IF k \in lost THEN durable[k] ELSE kv[k]]

Put(k, v) ==
  /\ \E lost \in SUBSET (Keys \ {k}) :
       /\ lost = {} \/ Lossy
       /\ kv' = [Fallback(lost) EXCEPT ![k] = v]
  /\ UNCHANGED durable

Del(k) ==
  /\ kv' = [kv EXCEPT ![k] = NoValue]
  /\ UNCHANGED durable

\* Some keys become durable with exactly the value a read returns now.
Sync ==
  /\ \E synced \in SUBSET Keys :
       durable' = [k \in Keys |-> IF k \in synced THEN kv[k] ELSE durable[k]]
  /\ UNCHANGED kv

Forget ==
  /\ Lossy
  /\ \E lost \in SUBSET Keys : kv' = Fallback(lost)
  /\ UNCHANGED durable

Wipe ==
  /\ Lossy
  /\ \E kept \in SUBSET Keys :
       kv' = [k \in Keys |-> IF k \in kept THEN kv[k] ELSE NoValue]
  /\ durable' = [k \in Keys |-> NoValue]

Crash ==
  /\ kv' = durable
  /\ UNCHANGED durable

Next ==
  \/ \E k \in Keys, v \in Values : Put(k, v)
  \/ \E k \in Keys : Del(k)
  \/ Sync
  \/ Forget
  \/ Wipe
  \/ Crash

Spec == Init /\ [][Next]_<<kv, durable>>
=============================================================================
