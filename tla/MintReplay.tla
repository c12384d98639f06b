----------------------------- MODULE MintReplay -----------------------------
(***************************************************************************)
(* The replay protection of the NEVM bridge: a NEVM transaction may be      *)
(* minted once.  CNEVMMintedTxDB (src/src/services/assetconsensus.cpp) keeps *)
(* a marker for every minted transaction and CNEVMTxRootsDB the roots that   *)
(* proofs are checked against; ConnectTip, DisconnectTip, FlushStateToDisk   *)
(* and ReplayBlocks (src/src/validation.cpp) keep the two in step with the   *)
(* coins, in memory and on disk, with a crash possible between any two       *)
(* writes.                                                                  *)
(*                                                                         *)
(* Everything runs under cs_main, so that a flush is a job of several steps  *)
(* which only a crash interrupts.  A block stands for what it mints and for  *)
(* its NEVM block.  The coins database is [new, old, utxo]: DB_BEST_BLOCK    *)
(* is `new' when old = None, and otherwise DB_HEAD_BLOCKS is <<new, old>>;   *)
(* utxo is the set of blocks whose minted outputs are stored.               *)
(***************************************************************************)
EXTENDS BlockTree, FiniteSets

CONSTANTS
  NEVMTxs,           \* NEVM transactions
  mintTx,            \* per block: the NEVM transaction that it mints, or None
  nNexusStartBlock,  \* from this height on blocks have quorum commitments
  MaxFaults          \* bound on how often something goes wrong

ASSUME MintConstants ==
  /\ None \notin NEVMTxs
  /\ mintTx \in [Blocks -> NEVMTxs \cup {None}]
  /\ mintTx[Root] = None
  /\ nNexusStartBlock \in Nat /\ MaxFaults \in Nat

VARIABLES
  tip,                   \* CoinsTip().GetBestBlock()
  failed,                \* blocks with BLOCK_FAILED_VALID
  coins,                 \* the coins database
  synced,                \* what a power loss may leave of it
  markers, markersDisk,  \* CNEVMMintedTxDB: mapCache, and the database
  roots, rootsDisk,      \* CNEVMTxRootsDB: mapCache, and the database
  job,                   \* what holds cs_main is doing
  faults                 \* how often each thing went wrong

memory == <<tip, failed>>
disk == <<coins, synced>>
mintVars == <<markers, markersDisk>>
rootVars == <<roots, rootsDisk>>
vars == <<memory, disk, mintVars, rootVars, job, faults>>

\* The NEVM transactions minted in a set of blocks, and the blocks of a set
\* that mint one.
MintsOf(S) == {mintTx[b] : b \in S} \ {None}
Minting(S) == {b \in S : mintTx[b] # None}

\* A job: its next step, the block the coins are written for, the blocks that
\* it disconnects, the markers to erase at its end, and whether the process
\* exits after it.
Job(pc, target, undo, doomed, exit) ==
  [pc |-> pc, target |-> target, undo |-> undo, doomed |-> doomed, exit |-> exit]
Idle == Job("idle", None, {}, {}, FALSE)
Startup == Job("start", None, {}, {}, FALSE)

Init ==
  /\ tip = Root /\ failed = {}
  /\ coins = [new |-> Root, old |-> None, utxo |-> {}]
  /\ synced = coins
  /\ markers = {} /\ markersDisk = {}
  /\ roots = {} /\ rootsDisk = {}
  /\ job = Idle
  /\ faults = [crash |-> 0, power |-> 0, write |-> 0, reindex |-> 0]

\* Something goes wrong once more.
Fault(kind) ==
  /\ faults.crash + faults.power + faults.write + faults.reindex < MaxFaults
  /\ faults' = [faults EXCEPT ![kind] = @ + 1]

-----------------------------------------------------------------------------
(* Connecting and disconnecting blocks. *)

\* Faulty variant: the lookup misses what is not on disk yet.
ExistsTxOnDisk(T) == T \in markersDisk

\* CNEVMMintedTxDB::ExistsTx.
ExistsTx(T) == T \in markers \/ T \in markersDisk

\* ConnectTip: CheckSyscoinMint rejects what is marked; otherwise the marker and
\* the roots are staged in the caches.
ConnectTip(b) ==
  LET T == mintTx[b]
  IN /\ job.pc = "idle"
     /\ b # Root /\ pprev[b] = tip /\ b \notin failed
     /\ IF T # None /\ ExistsTx(T)
        THEN failed' = failed \cup {b} /\ UNCHANGED <<tip, markers, roots>>
        ELSE /\ tip' = b
             /\ markers' = markers \cup MintsOf({b})
             /\ roots' = roots \cup {b}
             /\ UNCHANGED failed
     /\ UNCHANGED <<disk, markersDisk, rootsDisk, job, faults>>

\* Faulty variant: a cached entry survives its erasure.
FlushEraseDiskOnly(doomed, undo) ==
  /\ markersDisk' = markersDisk \ doomed /\ UNCHANGED markers
  /\ rootsDisk' = rootsDisk \ undo /\ UNCHANGED roots

\* CNEVMMintedTxDB::FlushErase and CNEVMTxRootsDB::FlushErase, both synced.
FlushErase(doomed, undo) ==
  /\ markers' = markers \ doomed /\ markersDisk' = markersDisk \ doomed
  /\ roots' = roots \ undo /\ rootsDisk' = rootsDisk \ undo

\* Faulty variant: the marker is erased before the coins are written.
DisconnectTipEraseFirst ==
  /\ job.pc = "idle" /\ tip # Root
  /\ tip' = pprev[tip]
  /\ FlushErase(MintsOf({tip}), {tip})
  /\ job' = IF Minting({tip}) = {} THEN Idle
            ELSE Job("persist", pprev[tip], {tip}, {}, FALSE)
  /\ UNCHANGED <<failed, disk, faults>>

\* DisconnectTip: a block that mints makes the coins without it durable before
\* its marker is erased; for another block there is nothing to wait for.
DisconnectTip ==
  /\ job.pc = "idle" /\ tip # Root
  /\ tip' = pprev[tip]
  /\ IF Minting({tip}) = {}
     THEN FlushErase({}, {tip}) /\ UNCHANGED job
     ELSE /\ job' = Job("persist", pprev[tip], {tip}, MintsOf({tip}), FALSE)
          /\ UNCHANGED <<mintVars, rootVars>>
  /\ UNCHANGED <<failed, disk, faults>>

-----------------------------------------------------------------------------
(* The steps of a flush. *)

\* The part of FlushStateToDisk that every periodic write does.
PeriodicWrite ==
  /\ job.pc = "idle"
  /\ rootsDisk' = rootsDisk \cup roots /\ roots' = {}
  /\ UNCHANGED <<memory, disk, mintVars, job, faults>>

\* A full flush, which is the last thing that Shutdown does.
FlushStateToDisk(exit) ==
  /\ job.pc = "idle"
  /\ rootsDisk' = rootsDisk \cup roots /\ roots' = {}
  /\ job' = Job("persist", tip, {}, {}, exit)
  /\ UNCHANGED <<memory, disk, mintVars, faults>>

\* CNEVMMintedTxDB::FlushCacheToDisk, before any coin is written.
FlushCacheToDisk ==
  /\ job.pc = "persist"
  /\ markersDisk' = markersDisk \cup markers /\ markers' = {}
  /\ job' = [job EXCEPT !.pc = "write"]
  /\ UNCHANGED <<memory, disk, rootVars, faults>>

\* The same when WriteBatch fails: entries leave the cache as they enter the
\* batch.  FlushStateToDisk turns this into FatalError, and Shutdown flushes
\* again.
FlushCacheFails ==
  /\ job.pc = "persist" /\ job.undo = {} /\ coins.old = None /\ ~job.exit
  /\ \E written \in SUBSET markers : \E lost \in SUBSET (markers \ written) :
       /\ markersDisk' = markersDisk \cup written
       /\ markers' = markers \ (written \cup lost)
  /\ job' = [job EXCEPT !.exit = TRUE]
  /\ Fault("write")
  /\ UNCHANGED <<memory, disk, rootVars>>

\* A coins batch is not synced: until the system writes it out, a power loss
\* takes it back.
Written(c) ==
  /\ coins' = c
  /\ synced' \in {synced, c}

\* CCoinsViewDB::BatchWrite: a partial batch, the first of which records the
\* transition...
WritePartialBatch ==
  LET old == IF coins.old = None THEN coins.new ELSE coins.old
      changes == Minting((Anc[old] \ Anc[job.target]) \cup (Anc[job.target] \ Anc[old]))
  IN /\ job.pc = "write"
     /\ \E part \in SUBSET changes :
          Written([new |-> job.target, old |-> old,
                   utxo |-> (coins.utxo \ part) \cup (part \cap Anc[job.target])])
     /\ UNCHANGED <<memory, mintVars, rootVars, job, faults>>

\* Faulty variant: the job ends with the coins.
WriteFinalBatchNoErase ==
  /\ job.pc = "write"
  /\ Written([new |-> job.target, old |-> None, utxo |-> Minting(Anc[job.target])])
  /\ job' = IF job.exit THEN Startup ELSE Idle
  /\ UNCHANGED <<memory, mintVars, rootVars, faults>>

\* ... and the last batch, which completes it.
WriteFinalBatch ==
  /\ job.pc = "write"
  /\ Written([new |-> job.target, old |-> None, utxo |-> Minting(Anc[job.target])])
  /\ job' = IF job.undo # {} THEN [job EXCEPT !.pc = "erase"]
            ELSE IF job.exit THEN Startup ELSE Idle
  /\ UNCHANGED <<memory, mintVars, rootVars, faults>>

\* The end of DisconnectTip and of ReplayBlocks.
EraseMarkers ==
  /\ job.pc = "erase"
  /\ FlushErase(job.doomed, job.undo)
  /\ job' = Idle
  /\ UNCHANGED <<memory, disk, faults>>

-----------------------------------------------------------------------------
(* Stopping and starting. *)

\* The process ends at any point: what was in memory is gone, BLOCK_FAILED_VALID
\* marks that were not written among it.
Stop ==
  /\ job.pc # "start"
  /\ failed' \in SUBSET failed
  /\ markers' = {} /\ roots' = {}
  /\ job' = Startup
  /\ UNCHANGED <<tip, markersDisk, rootsDisk>>

Crash ==
  /\ Stop /\ Fault("crash")
  /\ UNCHANGED disk

\* The system stops too, and with it go the coins that were not synced.
PowerLoss ==
  /\ Stop /\ Fault("power")
  /\ coins' = synced
  /\ UNCHANGED synced

\* Faulty variant: the other head.
LoadChainTipOldHead ==
  /\ job.pc = "start" /\ coins.old = None
  /\ tip' = coins.old
  /\ job' = Idle
  /\ UNCHANGED <<failed, disk, mintVars, rootVars, faults>>

\* LoadChainTip: the active chain resumes at the best block of the coins.
LoadChainTip ==
  /\ job.pc = "start" /\ coins.old = None
  /\ tip' = coins.new
  /\ job' = Idle
  /\ UNCHANGED <<failed, disk, mintVars, rootVars, faults>>

\* Faulty variant: the replayed state is never flushed.
ReplayBlocksUnflushed ==
  /\ job.pc = "start" /\ coins.old # None
  /\ tip' = coins.new
  /\ UNCHANGED <<failed, disk, mintVars, rootVars, job, faults>>

\* ReplayBlocks: undo the old branch, roll the new one forward and flush.
\* ProcessBlock returns false without an active tip, so that no block with
\* quorum commitments is rolled forward; the roots are erased by then.
ReplayBlocks ==
  LET back == Anc[coins.old] \ Anc[coins.new]
      forward == Anc[coins.new] \ Anc[coins.old]
  IN /\ job.pc = "start" /\ coins.old # None
     /\ rootsDisk' = rootsDisk \ back
     /\ IF \E b \in forward : nHeight[b] >= nNexusStartBlock
        THEN job' = [Startup EXCEPT !.pc = "stuck"] /\ UNCHANGED <<tip, markers, roots>>
        ELSE /\ tip' = coins.new
             /\ markers' = MintsOf(forward) /\ roots' = forward
             /\ job' = Job("persist", coins.new, back,
                           MintsOf(back) \ MintsOf(forward), FALSE)
     /\ UNCHANGED <<failed, disk, markersDisk, faults>>

\* -reindex-chainstate: CompleteChainstateInitialization empties the NEVM
\* databases, loads the block index and then empties the coins database.
WipeMarkers ==
  /\ job.pc \in {"start", "stuck"} /\ Fault("reindex")
  /\ markersDisk' = {} /\ rootsDisk' = {}
  /\ job' = [Startup EXCEPT !.pc = "wiped"]
  /\ UNCHANGED <<memory, disk, markers, roots>>

WipeCoins ==
  /\ job.pc = "wiped"
  /\ coins' = [new |-> Root, old |-> None, utxo |-> {}] /\ synced' = coins'
  /\ tip' = Root
  /\ job' = Idle
  /\ UNCHANGED <<failed, mintVars, rootVars, faults>>

Next ==
  \/ \E b \in Blocks : ConnectTip(b)
  \/ DisconnectTip
  \/ PeriodicWrite
  \/ \E exit \in BOOLEAN : FlushStateToDisk(exit)
  \/ FlushCacheToDisk
  \/ FlushCacheFails
  \/ WritePartialBatch
  \/ WriteFinalBatch
  \/ EraseMarkers
  \/ Crash
  \/ PowerLoss
  \/ LoadChainTip
  \/ ReplayBlocks
  \/ WipeMarkers
  \/ WipeCoins

Spec == Init /\ [][Next]_vars

\* What has been begun is carried on until the process stops: the steps of a
\* job are consecutive statements of one thread.
FairSpec ==
  /\ Spec
  /\ WF_vars(FlushCacheToDisk) /\ WF_vars(WriteFinalBatch) /\ WF_vars(EraseMarkers)
  /\ WF_vars(LoadChainTip) /\ WF_vars(ReplayBlocks) /\ WF_vars(WipeCoins)

-----------------------------------------------------------------------------
(* Properties. *)

Jobs ==
  [pc : {"idle", "start", "persist", "write", "erase", "stuck", "wiped"},
   target : Blocks \cup {None}, undo : SUBSET Blocks, doomed : SUBSET NEVMTxs,
   exit : BOOLEAN]

\* Every variable has its type.
TypeOK ==
  /\ tip \in Blocks /\ failed \subseteq Blocks
  /\ {coins, synced} \subseteq
       [new : Blocks, old : Blocks \cup {None}, utxo : SUBSET Minting(Blocks)]
  /\ markers \subseteq NEVMTxs /\ markersDisk \subseteq NEVMTxs
  /\ roots \subseteq Blocks /\ rootsDisk \subseteq Blocks
  /\ job \in Jobs
  /\ faults \in [crash : 0..MaxFaults, power : 0..MaxFaults,
                 write : 0..MaxFaults, reindex : 0..MaxFaults]

\* Nothing went wrong but crashes of the process: every write succeeded and
\* reached the disk in order.
OnlyCrashes == faults.power = 0 /\ faults.write = 0 /\ faults.reindex = 0

\* "durable UTXO mint(T) => durable replay marker(T)" (DisconnectTip); only while
\* both databases are being emptied one is ahead of the other.
DurableMintHasMarker ==
  job.pc # "wiped" => MintsOf(coins.utxo) \subseteq markersDisk

\* It holds at every moment of a flush, of a replay and of the next crash, as long
\* as the process only crashes.
MarkerBarrier == OnlyCrashes => DurableMintHasMarker

\* No chain mints a NEVM transaction twice: neither the active one nor the one
\* the coins database is at, whatever was disconnected and lost in between.
MintsOnce(S) ==
  \A a, b \in S : mintTx[a] # None /\ mintTx[a] = mintTx[b] => a = b

NoDoubleMint ==
  OnlyCrashes => MintsOnce(Anc[tip]) /\ MintsOnce(Anc[coins.new])

\* Without a crash the markers are those of the active chain, neither more nor
\* less, so that a mint undone by a reorganisation can be mined again.
MarkersFollowChain ==
  job.pc = "idle" /\ OnlyCrashes /\ faults.crash = 0 =>
    markers \cup markersDisk = MintsOf(Anc[tip])

\* Without a crash the roots of exactly the blocks of the active chain can be
\* read (ReadTxRoots), over reorganisations and flushes.
RootsFollowChain ==
  job.pc = "idle" /\ OnlyCrashes /\ faults.crash = 0 =>
    roots \cup rootsDisk = Anc[tip] \ {Root}

\* Whatever went wrong, the process gets back to work, or stops with the error
\* that asks for -reindex-chainstate (ReplayBlocks, LoadChainTip).
StartupEnds ==
  (job.pc # "idle") ~> (job.pc \in {"idle", "stuck"})

\* The blocks the coins database is at, or between.
Heads == {coins.new} \cup ({coins.old} \ {None})

\* Inductive as long as the process only crashes: the chains in memory and on
\* disk mint nothing twice, the markers precede the coins, and what is about to
\* be erased is minted nowhere.
MintInv ==
  /\ tip \in Blocks /\ coins.new \in Blocks /\ coins.old \in Blocks \cup {None}
  /\ \A b \in Heads \cup {tip} : MintsOnce(Anc[b])
  /\ \A b \in Heads : MintsOf(Anc[b]) \subseteq markersDisk
  /\ coins.utxo \subseteq UNION {Anc[b] : b \in Heads}
  /\ job \in Jobs /\ job.pc # "wiped"
  /\ faults \in [crash : Nat, power : Nat, write : Nat, reindex : Nat]
  /\ job.pc \in {"idle", "erase"} => coins.old = None
  /\ job.pc \notin {"start", "stuck"} => MintsOf(Anc[tip]) \subseteq markers \cup markersDisk
  /\ job.pc \in {"persist", "write", "erase"} =>
       /\ job.target = tip
       /\ coins.old # None => coins.new = tip
       /\ job.doomed \cap MintsOf(Anc[tip]) = {}
  /\ job.pc = "write" => MintsOf(Anc[tip]) \subseteq markersDisk
  /\ job.pc = "erase" => coins.new = tip

\* Inductive as long as nothing goes wrong: markers and roots are those of the
\* active chain and, until a job ends, of what it disconnects.  A shutdown leaves
\* the coins at the tip, so that the next start has nothing to replay.
FollowInv ==
  /\ job.pc \in {"idle", "start", "persist", "write", "erase"}
  /\ markers \cup markersDisk = MintsOf(Anc[tip]) \cup job.doomed
  /\ roots \cup rootsDisk = (Anc[tip] \ {Root}) \cup job.undo
  /\ job.undo \cap Anc[tip] = {}
  /\ job.undo = {} => job.doomed = {}
  /\ job.pc \in {"idle", "start"} => job.undo = {}
  /\ job.pc = "start" => coins.old = None /\ coins.new = tip

FollowsUnlessFault == OnlyCrashes /\ faults.crash = 0 => FollowInv

\* "skip these checks when replaying blocks after the crash" (ProcessBlock): an
\* interrupted flush can be replayed.
ReplaySkipsChecks == job.pc # "stuck"
=============================================================================
