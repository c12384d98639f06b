-------------------------- MODULE MintReplayProofs --------------------------
(***************************************************************************)
(* Proofs about MintReplay: on every block tree, and over any number of     *)
(* crashes at any point of a flush or of a replay, a minted output on disk  *)
(* has its marker on disk and no chain mints a NEVM transaction twice       *)
(* (MintInv).  Until the first fault, markers and roots are those of the    *)
(* active chain (FollowInv).  Every variable keeps its type over every      *)
(* fault (TypeInv).                                                         *)
(***************************************************************************)
EXTENDS MintReplay, TLAPS

\* More blocks mint more.
LEMMA MintsMonotone ==
  ASSUME NEW S, NEW R, S \subseteq R
  PROVE  MintsOf(S) \subseteq MintsOf(R)
  BY DEF MintsOf

\* What a block mints is a NEVM transaction.
LEMMA MintsTyped ==
  ASSUME NEW S \in SUBSET Blocks
  PROVE  MintsOf(S) \subseteq NEVMTxs
  BY MintConstants DEF MintsOf

\* A chain and its extension by one block.
LEMMA MintChild ==
  ASSUME NEW b \in Blocks \ {Root}
  PROVE  /\ pprev[b] \in Blocks
         /\ Anc[b] = Anc[pprev[b]] \cup {b}
         /\ b \notin Anc[pprev[b]]
         /\ Anc[b] \subseteq Blocks
<1>1. /\ pprev[b] \in Blocks /\ nHeight[b] \in Nat /\ nHeight[pprev[b]] \in Nat
      /\ nHeight[b] = nHeight[pprev[b]] + 1
      /\ Anc[b] = Anc[pprev[b]] \cup {b} /\ Anc[b] \subseteq Blocks
  BY BlockTreeConstants
<1>2. \A a \in Anc[pprev[b]] : nHeight[a] <= nHeight[pprev[b]]
  BY <1>1, AncestryAssumption
<1>3. QED
  BY SMT, Z3, SMTT(10), Z3T(10), <1>1, <1>2

\* Connecting a block: its mint is new on the chain it extends.
LEMMA ConnectKeeps ==
  ASSUME MintInv, NEW b \in Blocks, ConnectTip(b)
  PROVE  MintInv'
<1>0. /\ job.pc = "idle" /\ UNCHANGED <<coins, markersDisk, job, faults>>
      /\ b # Root /\ pprev[b] = tip
  BY DEF ConnectTip, disk
<1>1. CASE UNCHANGED <<tip, markers>>
  BY <1>0, <1>1 DEF MintInv, Heads
<1>2. CASE /\ tip' = b /\ markers' = markers \cup MintsOf({b})
           /\ ~(mintTx[b] # None /\ ExistsTx(mintTx[b]))
  <2>1. Anc[b] = Anc[tip] \cup {b} /\ Anc[tip] \subseteq Blocks
    BY <1>0, MintChild, BlockTreeConstants DEF MintInv
  <2>2. mintTx[b] # None => mintTx[b] \notin MintsOf(Anc[tip])
    BY <1>0, <1>2 DEF MintInv, ExistsTx
  <2>3. MintsOnce(Anc[b])
    BY SMT, Z3, SMTT(10), Z3T(10), <2>1, <2>2 DEF MintInv, MintsOnce, MintsOf
  <2>4. MintsOf(Anc[b]) \subseteq markers' \cup markersDisk'
    BY <1>0, <1>2, <2>1 DEF MintInv, MintsOf
  <2>5. QED
    BY Zenon, <1>0, <1>2, <2>3, <2>4 DEF MintInv, Heads
<1>3. QED
  BY <1>0, <1>1, <1>2 DEF ConnectTip

\* Disconnecting a block: what is about to be erased is minted nowhere else.
LEMMA DisconnectKeeps ==
  ASSUME MintInv, DisconnectTip
  PROVE  MintInv'
<1>0. /\ job.pc = "idle" /\ tip \in Blocks \ {Root} /\ tip' = pprev[tip]
      /\ UNCHANGED <<coins, faults>>
  BY DEF DisconnectTip, disk, MintInv
<1>1. /\ tip' \in Blocks /\ Anc[tip] = Anc[tip'] \cup {tip} /\ tip \notin Anc[tip']
      /\ Anc[tip] \subseteq Blocks
  BY <1>0, MintChild
<1>2. MintsOnce(Anc[tip'])
  BY <1>1 DEF MintInv, MintsOnce
<1>3. MintsOf(Anc[tip']) \subseteq markers \cup markersDisk
  BY <1>0, <1>1, MintsMonotone DEF MintInv
<1>4. MintsOf({tip}) \cap MintsOf(Anc[tip']) = {}
  BY SMT, Z3, SMTT(10), Z3T(10), <1>1 DEF MintInv, MintsOnce, MintsOf
<1>5. CASE UNCHANGED <<markers, markersDisk, job>>
  BY <1>0, <1>1, <1>2, <1>3, <1>5 DEF MintInv, Heads
<1>6. CASE /\ job' = Job("persist", pprev[tip], {tip}, MintsOf({tip}), FALSE)
           /\ UNCHANGED <<markers, markersDisk>>
  <2>1. job' \in Jobs /\ job'.pc = "persist" /\ job'.target = tip'
        /\ job'.doomed = MintsOf({tip})
    BY <1>0, <1>1, <1>6, MintsTyped DEF Job, Jobs
  <2>2. QED
    BY Zenon, <1>0, <1>1, <1>2, <1>3, <1>4, <1>6, <2>1 DEF MintInv, Heads
<1>7. QED
  <2>1. CASE FlushErase({}, {tip}) /\ UNCHANGED job
    BY <1>5, <2>1 DEF FlushErase
  <2>2. QED
    BY Zenon, <1>6, <2>1 DEF DisconnectTip, mintVars

\* A partial batch of coins: every output on disk is of one of the two heads.
LEMMA PartialBatchKeeps ==
  ASSUME MintInv, WritePartialBatch
  PROVE  MintInv'
<1> DEFINE old == IF coins.old = None THEN coins.new ELSE coins.old
<1>0. job.pc = "write" /\ job.target = tip
      /\ UNCHANGED <<tip, markers, markersDisk, job, faults>>
  BY DEF WritePartialBatch, MintInv, memory, mintVars
<1>1. /\ coins'.new = tip /\ coins'.old = old
      /\ coins'.utxo \subseteq coins.utxo \cup Anc[tip]
  BY SMT, Z3, SMTT(10), Z3T(10), <1>0 DEF WritePartialBatch, Written
<1>2. old \in Heads /\ old \in Blocks /\ old # None
  BY BlockTreeConstants DEF Heads, MintInv
<1>3. Heads' = {tip, old} /\ Heads \subseteq {tip, old}
  BY <1>0, <1>1, <1>2 DEF Heads, MintInv
<1>4. coins'.utxo \subseteq UNION {Anc[b] : b \in Heads'}
  BY SMT, Z3, SMTT(10), Z3T(10), <1>1, <1>3 DEF MintInv
<1>5. \A b \in Heads' : MintsOnce(Anc[b]) /\ MintsOf(Anc[b]) \subseteq markersDisk
  BY <1>0, <1>2, <1>3 DEF MintInv
<1>6. QED
  BY <1>0, <1>1, <1>2, <1>4, <1>5 DEF MintInv

\* The last batch of coins.
LEMMA FinalBatchKeeps ==
  ASSUME MintInv, WriteFinalBatch
  PROVE  MintInv'
<1>0. /\ job.pc = "write" /\ job.target = tip
      /\ UNCHANGED <<tip, markers, markersDisk, faults>>
  BY DEF WriteFinalBatch, MintInv, memory, mintVars
<1>1. /\ coins'.new = tip /\ coins'.old = None
      /\ coins'.utxo \subseteq Anc[tip]
  <2>1. coins' = [new |-> tip, old |-> None, utxo |-> Minting(Anc[tip])]
    BY <1>0 DEF WriteFinalBatch, Written
  <2>2. QED
    BY <2>1 DEF Minting
<1>2. Heads' = {tip} /\ tip \in Blocks
  BY <1>1 DEF Heads, MintInv
<1>3. /\ job' \in Jobs /\ job'.pc \in {"erase", "start", "idle"}
      /\ job'.pc = "erase" => job'.target = job.target /\ job'.doomed = job.doomed
  <2>1. job \in Jobs
    BY DEF MintInv
  <2>2. CASE job' = [job EXCEPT !.pc = "erase"]
    BY <2>1, <2>2 DEF Jobs
  <2>3. CASE job' = Startup
    BY <2>3 DEF Startup, Job, Jobs
  <2>4. CASE job' = Idle
    BY <2>4 DEF Idle, Job, Jobs
  <2>5. QED
    BY <2>2, <2>3, <2>4 DEF WriteFinalBatch
<1>4. QED
  BY <1>0, <1>1, <1>2, <1>3 DEF MintInv

\* Replaying an interrupted flush: a marker is erased only when neither the new
\* branch nor what both branches share mints it.
LEMMA ReplayKeeps ==
  ASSUME MintInv, ReplayBlocks
  PROVE  MintInv'
<1> DEFINE back == Anc[coins.old] \ Anc[coins.new]
           forward == Anc[coins.new] \ Anc[coins.old]
<1>0. /\ job.pc = "start" /\ coins.old # None /\ coins.old \in Blocks
      /\ coins.new \in Blocks /\ UNCHANGED <<coins, markersDisk, faults>>
      /\ Heads = {coins.new, coins.old}
  BY DEF ReplayBlocks, MintInv, Heads, disk
<1>1. CASE job' = [Startup EXCEPT !.pc = "stuck"] /\ UNCHANGED <<tip, markers>>
  <2>1. job' \in Jobs /\ job'.pc = "stuck"
    BY Zenon, <1>1 DEF Startup, Job, Jobs
  <2>2. QED
    BY <1>0, <1>1, <2>1 DEF MintInv, Heads
<1>2. CASE /\ tip' = coins.new
           /\ job' = Job("persist", coins.new, back,
                         MintsOf(back) \ MintsOf(forward), FALSE)
  <2>1. back \subseteq Blocks /\ MintsOf(back) \subseteq NEVMTxs
    BY <1>0, MintsTyped, BlockTreeConstants
  <2>2. /\ job' \in Jobs /\ job'.pc = "persist" /\ job'.target = coins.new
        /\ job'.doomed = MintsOf(back) \ MintsOf(forward)
    BY <1>0, <1>2, <2>1 DEF Job, Jobs
  <2>3. (MintsOf(back) \ MintsOf(forward)) \cap MintsOf(Anc[coins.new]) = {}
    <3>1. MintsOnce(Anc[coins.old])
      BY <1>0 DEF MintInv
    <3>2. QED
      BY <3>1 DEF MintsOnce, MintsOf
  <2>4. MintsOnce(Anc[tip']) /\ MintsOf(Anc[tip']) \subseteq markersDisk
    BY <1>0, <1>2 DEF MintInv
  <2>5. QED
    BY Zenon, <1>0, <1>2, <2>2, <2>3, <2>4 DEF MintInv, Heads
<1>3. QED
  BY Zenon, <1>0, <1>1, <1>2 DEF ReplayBlocks

\* The steps that only move markers or restart the process.
LEMMA OtherStepsKeep ==
  ASSUME MintInv,
         \/ PeriodicWrite \/ FlushCacheToDisk \/ EraseMarkers \/ Crash
         \/ LoadChainTip \/ \E exit \in BOOLEAN : FlushStateToDisk(exit)
  PROVE  MintInv'
<1>1. CASE PeriodicWrite
  BY <1>1 DEF PeriodicWrite, MintInv, Heads, memory, disk, mintVars
<1>2. CASE FlushCacheToDisk
  <2>1. job' \in Jobs /\ job'.pc = "write" /\ job'.target = job.target
        /\ job'.doomed = job.doomed
    BY <1>2 DEF FlushCacheToDisk, MintInv, Jobs
  <2>2. QED
    BY <1>2, <2>1 DEF FlushCacheToDisk, MintInv, Heads, memory, disk
<1>3. CASE EraseMarkers
  <2>1. job' \in Jobs /\ job'.pc = "idle"
    BY <1>3 DEF EraseMarkers, Idle, Job, Jobs
  <2>2. /\ Heads = {tip} /\ UNCHANGED <<tip, coins, faults>>
        /\ MintsOf(Anc[tip]) \subseteq markersDisk'
    BY <1>3 DEF EraseMarkers, FlushErase, MintInv, Heads, memory, disk
  <2>3. QED
    BY <1>3, <2>1, <2>2 DEF EraseMarkers, MintInv, Heads
<1>4. CASE Crash
  <2>1. job' \in Jobs /\ job'.pc = "start"
    BY <1>4 DEF Crash, Stop, Startup, Job, Jobs
  <2>2. faults' \in [crash : Nat, power : Nat, write : Nat, reindex : Nat]
    BY SMT, Z3, SMTT(10), Z3T(10), <1>4 DEF Crash, Fault, MintInv
  <2>3. UNCHANGED <<tip, coins, markersDisk>>
    BY <1>4 DEF Crash, Stop, disk
  <2>4. QED
    BY <2>1, <2>2, <2>3 DEF MintInv, Heads
<1>5. CASE LoadChainTip
  <2>1. job' \in Jobs /\ job'.pc = "idle"
    BY <1>5 DEF LoadChainTip, Idle, Job, Jobs
  <2>2. QED
    BY <1>5, <2>1 DEF LoadChainTip, MintInv, Heads, disk, mintVars
<1>6. ASSUME NEW exit \in BOOLEAN, FlushStateToDisk(exit)
      PROVE  MintInv'
  <2>1. job' \in Jobs /\ job'.pc = "persist" /\ job'.target = tip /\ job'.doomed = {}
    BY <1>6 DEF FlushStateToDisk, Job, Jobs, MintInv
  <2>2. QED
    BY <1>6, <2>1 DEF FlushStateToDisk, MintInv, Heads, memory, disk, mintVars
<1>7. QED
  BY <1>1, <1>2, <1>3, <1>4, <1>5, <1>6

\* What went wrong is never forgotten.
LEMMA FaultsKept ==
  ASSUME faults \in [crash : Nat, power : Nat, write : Nat, reindex : Nat],
         [Next]_vars
  PROVE  /\ faults' \in [crash : Nat, power : Nat, write : Nat, reindex : Nat]
         /\ OnlyCrashes' => OnlyCrashes
         /\ PowerLoss \/ FlushCacheFails \/ WipeMarkers => ~OnlyCrashes'
<1>1. ASSUME NEW kind \in {"crash", "power", "write", "reindex"}, Fault(kind)
      PROVE  /\ faults' \in [crash : Nat, power : Nat, write : Nat, reindex : Nat]
             /\ OnlyCrashes' => OnlyCrashes
             /\ kind # "crash" => ~OnlyCrashes'
  BY SMT, Z3, SMTT(10), Z3T(10), <1>1 DEF Fault, OnlyCrashes
<1>2. CASE Crash \/ PowerLoss \/ FlushCacheFails \/ WipeMarkers
  BY <1>1, <1>2 DEF Crash, PowerLoss, FlushCacheFails, WipeMarkers
<1>3. CASE ~(Crash \/ PowerLoss \/ FlushCacheFails \/ WipeMarkers)
  <2>1. UNCHANGED faults
    BY Zenon, <1>3 DEF Next, vars, ConnectTip, DisconnectTip, PeriodicWrite, FlushStateToDisk,
                FlushCacheToDisk, WritePartialBatch, WriteFinalBatch, EraseMarkers,
                LoadChainTip, ReplayBlocks, WipeCoins
  <2>2. QED
    BY <1>3, <2>1 DEF OnlyCrashes
<1>4. QED
  BY <1>2, <1>3

\* The invariant of every behaviour.
IInv ==
  /\ faults \in [crash : Nat, power : Nat, write : Nat, reindex : Nat]
  /\ OnlyCrashes => MintInv

\* Every step preserves it.
LEMMA MintStep == IInv /\ [Next]_vars => IInv'
<1> SUFFICES ASSUME IInv, [Next]_vars, OnlyCrashes' PROVE MintInv'
  BY FaultsKept DEF IInv
<1>0. MintInv /\ ~PowerLoss /\ ~FlushCacheFails /\ ~WipeMarkers
  BY FaultsKept DEF IInv
<1>1. CASE UNCHANGED vars
  BY <1>0, <1>1 DEF vars, memory, disk, mintVars, MintInv, Heads
<1>2. ~WipeCoins
  BY <1>0 DEF MintInv, WipeCoins
<1>3. QED
  BY <1>0, <1>1, <1>2, ConnectKeeps, DisconnectKeeps, PartialBatchKeeps, FinalBatchKeeps,
     ReplayKeeps, OtherStepsKeep DEF Next

\* The initial state satisfies the invariant.
LEMMA MintInitial == Init => MintInv
<1> SUFFICES ASSUME Init PROVE MintInv
  OBVIOUS
<1>1. Heads = {Root} /\ Anc[Root] = {Root} /\ MintsOf({Root}) = {}
  BY SMT, Z3, SMTT(10), Z3T(10), BlockTreeConstants, MintConstants DEF Init, Heads, MintsOf
<1>2. job \in Jobs /\ job.pc = "idle"
  BY DEF Init, Idle, Job, Jobs
<1>3. QED
  BY Zenon, <1>1, <1>2, BlockTreeConstants DEF Init, MintInv, MintsOnce

\* MarkerBarrier for every block tree and any number of crashes: as long as every
\* write succeeds and reaches the disk in order, the order "markers, coins,
\* erasures" of FlushStateToDisk, DisconnectTip and ReplayBlocks is enough.
THEOREM MarkersPrecedeCoins == Spec => []MarkerBarrier
<1>1. Init => IInv
  BY SMT, Z3, SMTT(10), Z3T(10), MintInitial DEF IInv, Init
<1>2. IInv => MarkerBarrier
  BY SMT, Z3, SMTT(10), Z3T(10) DEF IInv, MintInv, MarkerBarrier, DurableMintHasMarker, MintsOf
<1>3. QED
  BY <1>1, <1>2, MintStep, PTL DEF Spec

\* NoDoubleMint for every block tree and any number of crashes: no chain mints a
\* NEVM transaction twice, whatever was disconnected, lost and replayed before.
THEOREM NothingMintedTwice == Spec => []NoDoubleMint
<1>1. Init => IInv
  BY SMT, Z3, SMTT(10), Z3T(10), MintInitial DEF IInv, Init
<1>2. IInv => NoDoubleMint
  BY DEF IInv, MintInv, NoDoubleMint, Heads
<1>3. QED
  BY <1>1, <1>2, MintStep, PTL DEF Spec

-----------------------------------------------------------------------------
(***************************************************************************)
(* Without faults: markers and roots are those of the active chain.         *)
(***************************************************************************)

\* Connecting a block stages its marker and its roots.
LEMMA ConnectFollows ==
  ASSUME MintInv, FollowInv, NEW b \in Blocks, ConnectTip(b)
  PROVE  FollowInv'
<1>0. /\ job.pc = "idle" /\ UNCHANGED <<coins, markersDisk, rootsDisk, job>>
      /\ b # Root /\ pprev[b] = tip
  BY DEF ConnectTip, disk
<1>1. CASE UNCHANGED <<tip, markers, roots>>
  BY <1>0, <1>1 DEF FollowInv
<1>2. CASE /\ tip' = b /\ markers' = markers \cup MintsOf({b})
           /\ roots' = roots \cup {b}
  <2>1. Anc[b] = Anc[tip] \cup {b}
    BY <1>0, MintChild
  <2>2. MintsOf(Anc[b]) = MintsOf(Anc[tip]) \cup MintsOf({b})
    BY <2>1 DEF MintsOf
  <2>3. Anc[b] \ {Root} = (Anc[tip] \ {Root}) \cup {b}
    BY <1>0, <2>1
  <2>4. job.undo = {} /\ job.doomed = {}
    BY <1>0 DEF FollowInv
  <2>5. /\ markers' \cup markersDisk = MintsOf(Anc[b])
        /\ roots' \cup rootsDisk = Anc[b] \ {Root}
    BY <1>2, <2>2, <2>3, <2>4 DEF FollowInv
  <2>6. QED
    BY <1>0, <1>2, <2>4, <2>5 DEF FollowInv
<1>3. QED
  BY <1>1, <1>2 DEF ConnectTip

\* Disconnecting a block erases what is of it, at once or at the end of the job.
LEMMA DisconnectFollows ==
  ASSUME MintInv, FollowInv, DisconnectTip
  PROVE  FollowInv'
<1>0. /\ job.pc = "idle" /\ tip \in Blocks \ {Root} /\ tip' = pprev[tip]
      /\ UNCHANGED coins
  BY DEF DisconnectTip, disk, MintInv
<1>1. /\ Anc[tip] = Anc[tip'] \cup {tip} /\ tip \notin Anc[tip']
  BY <1>0, MintChild
<1>2. MintsOf(Anc[tip]) = MintsOf(Anc[tip']) \cup MintsOf({tip})
  BY <1>1 DEF MintsOf
<1>3. Anc[tip] \ {Root} = (Anc[tip'] \ {Root}) \cup {tip}
  BY <1>0, <1>1
<1>4. job.undo = {} /\ job.doomed = {}
  BY <1>0 DEF FollowInv
<1>5. /\ markers \cup markersDisk = MintsOf(Anc[tip']) \cup MintsOf({tip})
      /\ roots \cup rootsDisk = (Anc[tip'] \ {Root}) \cup {tip}
  BY <1>2, <1>3, <1>4 DEF FollowInv
<1>6. CASE Minting({tip}) = {} /\ FlushErase({}, {tip}) /\ UNCHANGED job
  <2>1. MintsOf({tip}) = {}
    BY <1>6 DEF MintsOf, Minting
  <2>2. /\ markers' \cup markersDisk' = MintsOf(Anc[tip'])
        /\ roots' \cup rootsDisk' = Anc[tip'] \ {Root}
    BY <1>1, <1>5, <1>6, <2>1 DEF FlushErase
  <2>3. QED
    BY <1>0, <1>4, <1>6, <2>2 DEF FollowInv
<1>7. CASE /\ job' = Job("persist", pprev[tip], {tip}, MintsOf({tip}), FALSE)
           /\ UNCHANGED <<mintVars, rootVars>>
  <2>1. job'.pc = "persist" /\ job'.undo = {tip} /\ job'.doomed = MintsOf({tip})
    BY <1>7 DEF Job
  <2>2. /\ markers' \cup markersDisk' = MintsOf(Anc[tip']) \cup job'.doomed
        /\ roots' \cup rootsDisk' = (Anc[tip'] \ {Root}) \cup job'.undo
    BY Zenon, <1>5, <1>7, <2>1 DEF mintVars, rootVars
  <2>3. job'.undo \cap Anc[tip'] = {} /\ job'.undo # {}
    BY <1>1, <2>1
  <2>4. QED
    BY <2>1, <2>2, <2>3 DEF FollowInv
<1>8. QED
  BY Zenon, <1>6, <1>7 DEF DisconnectTip

\* The last batch of coins ends a job that disconnects nothing.
LEMMA FinalBatchFollows ==
  ASSUME MintInv, FollowInv, WriteFinalBatch
  PROVE  FollowInv'
<1>0. /\ job.pc = "write" /\ job.target = tip /\ job \in Jobs
      /\ UNCHANGED <<tip, markers, markersDisk, roots, rootsDisk>>
  BY DEF WriteFinalBatch, MintInv, memory, mintVars, rootVars
<1>1. coins'.new = tip /\ coins'.old = None
  BY <1>0 DEF WriteFinalBatch, Written
<1>2. CASE job' = [job EXCEPT !.pc = "erase"]
  <2>1. job'.pc = "erase" /\ job'.undo = job.undo /\ job'.doomed = job.doomed
    BY <1>0, <1>2 DEF Jobs
  <2>2. QED
    BY <1>0, <2>1 DEF FollowInv
<1>3. CASE job.undo = {} /\ (job' = Startup \/ job' = Idle)
  <2>1. job'.pc \in {"start", "idle"} /\ job'.undo = {} /\ job'.doomed = {}
    BY SMT, Z3, SMTT(10), Z3T(10), <1>3 DEF Startup, Idle, Job
  <2>2. QED
    BY <1>0, <1>1, <1>3, <2>1 DEF FollowInv
<1>4. QED
  BY <1>2, <1>3 DEF WriteFinalBatch

\* The steps that move markers and roots between memory and disk, and the end of
\* a job.
LEMMA OtherStepsFollow ==
  ASSUME MintInv, FollowInv,
         \/ PeriodicWrite \/ FlushCacheToDisk \/ WritePartialBatch
         \/ EraseMarkers \/ LoadChainTip
         \/ \E exit \in BOOLEAN : FlushStateToDisk(exit)
  PROVE  FollowInv'
<1>1. CASE PeriodicWrite
  BY <1>1 DEF PeriodicWrite, FollowInv, memory, disk, mintVars
<1>2. CASE FlushCacheToDisk
  <2>1. job'.pc = "write" /\ job'.undo = job.undo /\ job'.doomed = job.doomed
    BY <1>2 DEF FlushCacheToDisk, MintInv, Jobs
  <2>2. QED
    BY <1>2, <2>1 DEF FlushCacheToDisk, FollowInv, memory, disk, rootVars
<1>3. CASE WritePartialBatch
  BY <1>3 DEF WritePartialBatch, FollowInv, memory, mintVars, rootVars
<1>4. CASE EraseMarkers
  <2>1. job'.pc = "idle" /\ job'.undo = {} /\ job'.doomed = {}
    BY <1>4 DEF EraseMarkers, Idle, Job
  <2>2. job.doomed \cap MintsOf(Anc[tip]) = {} /\ UNCHANGED tip
    BY <1>4 DEF EraseMarkers, MintInv, memory
  <2>3. /\ markers' \cup markersDisk' = MintsOf(Anc[tip])
        /\ roots' \cup rootsDisk' = Anc[tip] \ {Root}
    BY <1>4, <2>2 DEF EraseMarkers, FlushErase, FollowInv
  <2>4. QED
    BY <2>1, <2>2, <2>3 DEF FollowInv
<1>5. CASE LoadChainTip
  <2>1. job'.pc = "idle" /\ job'.undo = {} /\ job'.doomed = {}
    BY <1>5 DEF LoadChainTip, Idle, Job
  <2>2. QED
    BY <1>5, <2>1 DEF LoadChainTip, FollowInv, mintVars, rootVars
<1>6. ASSUME NEW exit \in BOOLEAN, FlushStateToDisk(exit)
      PROVE  FollowInv'
  <2>1. job'.pc = "persist" /\ job'.undo = {} /\ job'.doomed = {}
    BY <1>6 DEF FlushStateToDisk, Job
  <2>2. QED
    BY <1>6, <2>1 DEF FlushStateToDisk, FollowInv, memory, mintVars
<1>7. QED
  BY <1>1, <1>2, <1>3, <1>4, <1>5, <1>6

\* Every step preserves it; the faults excluded, a restart finds no flush to
\* replay.
LEMMA FollowStep ==
  IInv /\ FollowsUnlessFault /\ [Next]_vars => FollowsUnlessFault'
<1> SUFFICES ASSUME IInv, FollowsUnlessFault, [Next]_vars,
                    OnlyCrashes', faults'.crash = 0
             PROVE  FollowInv'
  BY DEF FollowsUnlessFault
<1>1. /\ OnlyCrashes /\ MintInv
      /\ ~PowerLoss /\ ~FlushCacheFails /\ ~WipeMarkers
  BY FaultsKept DEF IInv
<1>2. ~Crash /\ faults.crash = 0
  <2>1. ASSUME Crash PROVE FALSE
    BY SMT, Z3, SMTT(10), Z3T(10), <2>1 DEF Crash, Fault, IInv
  <2>2. CASE UNCHANGED faults
    BY <2>1, <2>2
  <2>3. QED
    BY Zenon, <1>1, <2>1, <2>2
       DEF Next, vars, ConnectTip, DisconnectTip, PeriodicWrite, FlushStateToDisk,
           FlushCacheToDisk, WritePartialBatch, WriteFinalBatch, EraseMarkers,
           LoadChainTip, ReplayBlocks, WipeCoins
<1>3. FollowInv
  BY <1>1, <1>2 DEF FollowsUnlessFault
<1>4. ~ReplayBlocks /\ ~WipeCoins
  BY Zenon, <1>3 DEF FollowInv, ReplayBlocks, WipeCoins
<1>5. CASE UNCHANGED vars
  BY <1>3, <1>5 DEF vars, memory, disk, mintVars, rootVars, FollowInv
<1>6. QED
  BY <1>1, <1>2, <1>3, <1>4, <1>5, ConnectFollows, DisconnectFollows,
     FinalBatchFollows, OtherStepsFollow DEF Next

\* It holds in every behaviour.
LEMMA FollowInvariant == Spec => []FollowsUnlessFault
<1>1. Init => IInv
  BY SMT, Z3, SMTT(10), Z3T(10), MintInitial DEF IInv, Init
<1>2. Init => FollowsUnlessFault
  <2> SUFFICES ASSUME Init PROVE FollowInv
    BY DEF FollowsUnlessFault
  <2>1. Anc[Root] = {Root} /\ MintsOf({Root}) = {}
    BY SMT, Z3, SMTT(10), Z3T(10), BlockTreeConstants, MintConstants DEF MintsOf
  <2>2. job.pc = "idle" /\ job.undo = {} /\ job.doomed = {}
    BY DEF Init, Idle, Job
  <2>3. QED
    BY <2>1, <2>2 DEF Init, FollowInv
<1>3. QED
  BY <1>1, <1>2, MintStep, FollowStep, PTL DEF Spec

\* MarkersFollowChain for every block tree: over connections, disconnections,
\* flushes and clean restarts the markers are exactly the mints of the active
\* chain, so that what a reorganisation undoes can be minted again.
THEOREM MarkersMatchChain == Spec => []MarkersFollowChain
<1>1. FollowsUnlessFault => MarkersFollowChain
  BY DEF FollowsUnlessFault, FollowInv, MarkersFollowChain
<1>2. QED
  BY <1>1, FollowInvariant, PTL

\* RootsFollowChain for every block tree: the same of the roots that mints are
\* checked against.
THEOREM RootsMatchChain == Spec => []RootsFollowChain
<1>1. FollowsUnlessFault => RootsFollowChain
  BY DEF FollowsUnlessFault, FollowInv, RootsFollowChain
<1>2. QED
  BY <1>1, FollowInvariant, PTL

-----------------------------------------------------------------------------
(***************************************************************************)
(* Type correctness, over every fault.                                      *)
(***************************************************************************)

\* A job that writes coins writes them for a block.
TypeInv ==
  /\ TypeOK
  /\ job.pc \in {"persist", "write"} => job.target \in Blocks

\* A coins database, and what a batch leaves.
CoinsDBs == [new : Blocks, old : Blocks \cup {None}, utxo : SUBSET Minting(Blocks)]

LEMMA WrittenTyped ==
  ASSUME coins \in CoinsDBs, synced \in CoinsDBs, NEW c \in CoinsDBs, Written(c)
  PROVE  {coins', synced'} \subseteq CoinsDBs
  BY DEF Written

\* What goes wrong stays within its bound.
LEMMA FaultTyped ==
  ASSUME TypeOK, NEW kind \in {"crash", "power", "write", "reindex"}, Fault(kind)
  PROVE  faults' \in [crash : 0..MaxFaults, power : 0..MaxFaults,
                      write : 0..MaxFaults, reindex : 0..MaxFaults]
<1>1. /\ faults.crash \in Nat /\ faults.power \in Nat /\ faults.write \in Nat
      /\ faults.reindex \in Nat /\ MaxFaults \in Nat
  BY SMT, Z3, SMTT(10), Z3T(10), MintConstants DEF TypeOK
<1>2. faults[kind] + 1 \in 0..MaxFaults
  <2>1. faults.crash + 1 \in 0..MaxFaults /\ faults.power + 1 \in 0..MaxFaults
    BY SMT, Z3, SMTT(10), Z3T(10), <1>1 DEF Fault
  <2>2. faults.write + 1 \in 0..MaxFaults /\ faults.reindex + 1 \in 0..MaxFaults
    BY SMT, Z3, SMTT(10), Z3T(10), <1>1 DEF Fault
  <2>3. QED
    BY <2>1, <2>2
<1>3. QED
  BY <1>2 DEF Fault, TypeOK

\* The steps of the running node.
LEMMA ChainTyped ==
  ASSUME TypeInv, \/ \E b \in Blocks : ConnectTip(b)
                  \/ DisconnectTip \/ PeriodicWrite
                  \/ \E exit \in BOOLEAN : FlushStateToDisk(exit)
                  \/ FlushCacheToDisk \/ FlushCacheFails \/ EraseMarkers
  PROVE  TypeInv'
<1>1. ASSUME NEW b \in Blocks, ConnectTip(b) PROVE TypeInv'
  <2>1. MintsOf({b}) \subseteq NEVMTxs
    BY MintsTyped
  <2>2. /\ tip' \in Blocks /\ failed' \subseteq Blocks
        /\ markers' \subseteq NEVMTxs /\ roots' \subseteq Blocks
    BY <1>1, <2>1 DEF ConnectTip, TypeInv, TypeOK
  <2>3. QED
    BY <1>1, <2>2 DEF ConnectTip, TypeInv, TypeOK, disk
<1>2. CASE DisconnectTip
  <2>1. tip' \in Blocks
    BY <1>2, BlockTreeConstants DEF DisconnectTip, TypeInv, TypeOK
  <2>2. MintsOf({tip}) \subseteq NEVMTxs
    BY MintsTyped DEF TypeInv, TypeOK
  <2>3. job' \in Jobs /\ (job'.pc \in {"persist", "write"} => job'.target \in Blocks)
    <3>1. CASE UNCHANGED job
      BY <3>1 DEF TypeInv, TypeOK
    <3>2. CASE job' = Job("persist", tip', {tip}, MintsOf({tip}), FALSE)
      BY <2>1, <2>2, <3>2 DEF TypeInv, TypeOK, Job, Jobs
    <3>3. QED
      BY Zenon, <1>2, <3>1, <3>2 DEF DisconnectTip
  <2>4. /\ markers' \subseteq NEVMTxs /\ markersDisk' \subseteq NEVMTxs
        /\ roots' \subseteq Blocks /\ rootsDisk' \subseteq Blocks
    BY Zenon, <1>2 DEF DisconnectTip, FlushErase, TypeInv, TypeOK, mintVars, rootVars
  <2>5. QED
    BY <1>2, <2>1, <2>3, <2>4 DEF DisconnectTip, TypeInv, TypeOK, disk
<1>3. CASE PeriodicWrite
  BY <1>3 DEF PeriodicWrite, TypeInv, TypeOK, memory, disk, mintVars
<1>4. ASSUME NEW exit \in BOOLEAN, FlushStateToDisk(exit) PROVE TypeInv'
  <2>1. job' \in Jobs /\ job'.target \in Blocks
    BY <1>4 DEF FlushStateToDisk, TypeInv, TypeOK, Job, Jobs
  <2>2. QED
    BY <1>4, <2>1 DEF FlushStateToDisk, TypeInv, TypeOK, memory, disk, mintVars
<1>5. CASE FlushCacheToDisk
  <2>1. job' \in Jobs /\ job'.target \in Blocks
    BY <1>5 DEF FlushCacheToDisk, TypeInv, TypeOK, Jobs
  <2>2. QED
    BY <1>5, <2>1 DEF FlushCacheToDisk, TypeInv, TypeOK, memory, disk, rootVars
<1>6. CASE FlushCacheFails
  <2>1. job' \in Jobs /\ job'.target \in Blocks
    BY Zenon, <1>6 DEF FlushCacheFails, TypeInv, TypeOK, Jobs
  <2>2. markers' \subseteq NEVMTxs /\ markersDisk' \subseteq NEVMTxs
    BY <1>6 DEF FlushCacheFails, TypeInv, TypeOK
  <2>3. faults' \in [crash : 0..MaxFaults, power : 0..MaxFaults,
                      write : 0..MaxFaults, reindex : 0..MaxFaults]
    BY <1>6, FaultTyped DEF FlushCacheFails, TypeInv
  <2>4. QED
    BY <1>6, <2>1, <2>2, <2>3 DEF FlushCacheFails, TypeInv, TypeOK, memory, disk, rootVars
<1>7. CASE EraseMarkers
  <2>1. job' \in Jobs /\ job'.pc = "idle"
    BY <1>7 DEF EraseMarkers, Idle, Job, Jobs
  <2>2. QED
    BY <1>7, <2>1 DEF EraseMarkers, FlushErase, TypeInv, TypeOK, memory, disk
<1>8. QED
  BY <1>1, <1>2, <1>3, <1>4, <1>5, <1>6, <1>7

\* The steps that write coins.
LEMMA CoinsTyped ==
  ASSUME TypeInv, WritePartialBatch \/ WriteFinalBatch
  PROVE  TypeInv'
<1>0. coins \in CoinsDBs /\ synced \in CoinsDBs
  BY DEF TypeInv, TypeOK, CoinsDBs
<1>1. CASE WritePartialBatch
  <2> DEFINE old == IF coins.old = None THEN coins.new ELSE coins.old
             changes == Minting((Anc[old] \ Anc[job.target])
                                  \cup (Anc[job.target] \ Anc[old]))
  <2>1. old \in Blocks /\ job.target \in Blocks
    BY <1>0, <1>1 DEF CoinsDBs, WritePartialBatch, TypeInv
  <2>2. changes \subseteq Minting(Blocks)
    BY <2>1, BlockTreeConstants DEF Minting
  <2>3. PICK part \in SUBSET changes :
               Written([new |-> job.target, old |-> old,
                        utxo |-> (coins.utxo \ part) \cup (part \cap Anc[job.target])])
    BY Zenon, <1>1 DEF WritePartialBatch
  <2>4. (coins.utxo \ part) \cup (part \cap Anc[job.target]) \subseteq Minting(Blocks)
    BY <1>0, <2>2 DEF CoinsDBs
  <2>5. [new |-> job.target, old |-> old,
         utxo |-> (coins.utxo \ part) \cup (part \cap Anc[job.target])] \in CoinsDBs
    BY <2>1, <2>4 DEF CoinsDBs
  <2>6. {coins', synced'} \subseteq CoinsDBs
    BY <1>0, <2>3, <2>5, WrittenTyped
  <2>7. QED
    BY <1>1, <2>6 DEF WritePartialBatch, TypeInv, TypeOK, CoinsDBs, memory, mintVars, rootVars
<1>2. CASE WriteFinalBatch
  <2>1. job.target \in Blocks
    BY <1>2 DEF WriteFinalBatch, TypeInv
  <2>2. [new |-> job.target, old |-> None, utxo |-> Minting(Anc[job.target])] \in CoinsDBs
    BY <2>1, BlockTreeConstants DEF CoinsDBs, Minting
  <2>3. {coins', synced'} \subseteq CoinsDBs
    BY <1>0, <1>2, <2>2, WrittenTyped DEF WriteFinalBatch
  <2>4. job' \in Jobs /\ job'.pc \in {"erase", "start", "idle"}
    BY <1>2 DEF WriteFinalBatch, Startup, Idle, Job, Jobs, TypeInv, TypeOK
  <2>5. QED
    BY <1>2, <2>3, <2>4 DEF WriteFinalBatch, TypeInv, TypeOK, CoinsDBs, memory, mintVars, rootVars
<1>3. QED
  BY <1>1, <1>2

\* The steps that stop and start the process.
LEMMA RestartTyped ==
  ASSUME TypeInv, \/ Crash \/ PowerLoss \/ LoadChainTip \/ ReplayBlocks
                  \/ WipeMarkers \/ WipeCoins
  PROVE  TypeInv'
<1>0. /\ Startup \in Jobs /\ Startup.pc = "start" /\ Idle \in Jobs /\ Idle.pc = "idle"
      /\ [Startup EXCEPT !.pc = "stuck"] \in Jobs
      /\ [Startup EXCEPT !.pc = "stuck"].pc = "stuck"
      /\ [Startup EXCEPT !.pc = "wiped"] \in Jobs
      /\ [Startup EXCEPT !.pc = "wiped"].pc = "wiped"
  BY Zenon DEF Startup, Idle, Job, Jobs
<1>1. CASE Crash
  BY <1>0, <1>1, FaultTyped DEF Crash, Stop, TypeInv, TypeOK, disk
<1>2. CASE PowerLoss
  BY <1>0, <1>2, FaultTyped DEF PowerLoss, Stop, TypeInv, TypeOK
<1>3. CASE LoadChainTip
  BY <1>0, <1>3 DEF LoadChainTip, TypeInv, TypeOK, disk, mintVars, rootVars
<1>4. CASE ReplayBlocks
  <2> DEFINE back == Anc[coins.old] \ Anc[coins.new]
             forward == Anc[coins.new] \ Anc[coins.old]
  <2>1. coins.old \in Blocks /\ coins.new \in Blocks
    BY <1>4 DEF ReplayBlocks, TypeInv, TypeOK
  <2>2. back \subseteq Blocks /\ forward \subseteq Blocks
    BY <2>1, BlockTreeConstants
  <2>3. MintsOf(back) \subseteq NEVMTxs /\ MintsOf(forward) \subseteq NEVMTxs
    BY <2>2, MintsTyped
  <2>4. CASE job' = [Startup EXCEPT !.pc = "stuck"] /\ UNCHANGED <<tip, markers, roots>>
    BY <1>0, <1>4, <2>4 DEF ReplayBlocks, TypeInv, TypeOK, disk
  <2>5. CASE /\ tip' = coins.new /\ markers' = MintsOf(forward) /\ roots' = forward
             /\ job' = Job("persist", coins.new, back,
                           MintsOf(back) \ MintsOf(forward), FALSE)
    <3>1. job' \in Jobs /\ job'.target \in Blocks
      BY <2>1, <2>2, <2>3, <2>5 DEF Job, Jobs
    <3>2. /\ tip' \in Blocks /\ markers' \subseteq NEVMTxs /\ roots' \subseteq Blocks
      BY <2>1, <2>2, <2>3, <2>5
    <3>3. QED
      BY <1>4, <3>1, <3>2 DEF ReplayBlocks, TypeInv, TypeOK, disk
  <2>6. QED
    BY Zenon, <1>4, <2>4, <2>5 DEF ReplayBlocks
<1>5. CASE WipeMarkers
  BY <1>0, <1>5, FaultTyped DEF WipeMarkers, TypeInv, TypeOK, memory, disk
<1>6. CASE WipeCoins
  <2>1. [new |-> Root, old |-> None, utxo |-> {}] \in CoinsDBs
    BY BlockTreeConstants DEF CoinsDBs
  <2>2. QED
    BY <1>0, <1>6, <2>1, BlockTreeConstants
       DEF WipeCoins, TypeInv, TypeOK, CoinsDBs, mintVars, rootVars
<1>7. QED
  BY <1>1, <1>2, <1>3, <1>4, <1>5, <1>6

\* Every variable keeps its type through every fault: in particular a job always
\* has a block to write the coins for, and a start a block to resume at.
THEOREM MintTyped == Spec => []TypeOK
<1>1. Init => TypeInv
  <2>1. Idle \in Jobs /\ Idle.pc = "idle"
    BY DEF Idle, Job, Jobs
  <2>2. QED
    BY SMT, Z3, SMTT(10), Z3T(10), <2>1, BlockTreeConstants, MintConstants DEF Init, TypeInv, TypeOK
<1>2. TypeInv /\ [Next]_vars => TypeInv'
  <2> SUFFICES ASSUME TypeInv, [Next]_vars PROVE TypeInv'
    OBVIOUS
  <2>1. CASE UNCHANGED vars
    BY <2>1 DEF vars, memory, disk, mintVars, rootVars, TypeInv, TypeOK
  <2>2. QED
    BY <2>1, ChainTyped, CoinsTyped, RestartTyped DEF Next
<1>3. TypeInv => TypeOK
  BY DEF TypeInv
<1>4. QED
  BY <1>1, <1>2, <1>3, PTL DEF Spec
=============================================================================
