# Syscoin: TLA+ models, checks and proofs

Syscoin is Bitcoin Core with a layer of deterministic masternodes on top:
quorums of masternodes (LLMQ) run a distributed key generation (DKG), mine the
resulting commitments in blocks, sign threshold signatures and lock blocks of
the active chain with them (ChainLocks).  Blocks also carry transactions that
mint assets burnt on the NEVM side chain; each may be minted once.

This directory models the parts where threads, crashes and reorganisations meet
the state that the node relies on.  The C++ code is under `src/src/`;
`PROJECT.json` maps every definition to its lines, lists the hazards of the code
and gives each property a mutant of the code that breaks it.

## Parts of the system

| Part (under `src/src/`) | Module | Status |
|---|---|---|
| `evo/evodb.h`: key-value store with write and read caches | `EvoDB` | modelled |
| `llmq/quorums_chainlocks.cpp`: ChainLocks | `ChainLocks` | partly |
| `llmq/quorums_blockprocessor.cpp`, `evo/specialtx.cpp`: quorum commitments in blocks | `QuorumBlockProcessor` | modelled |
| `services/assetconsensus.cpp`, `validation.cpp`: mint replay markers, NEVM roots, coins flush and replay | `MintReplay` | partly |
| `validation.cpp`: choice of the active chain, status flags, invalidation | `Chainstate` | partly |
| `validation.cpp`: what connecting, disconnecting and flushing do to other parts | inside the modules of those parts | partly |
| `llmq/quorums_signing.cpp`: recovered signatures, their database and caches | `SigningManager`; votes inside `ChainLocks` | partly |
| `llmq/quorums_dkgsession.cpp`, `quorums_dkgsessionhandler.cpp`: distributed key generation | `DKGSession` | partly |
| `llmq/quorums.cpp`: choice of quorums | inside `ChainLocks` | partly |
| `llmq/quorums_signing_shares.cpp` | what it asks of `SigningManager` | partly |
| `evo/deterministicmns.cpp`, `providertx.cpp`; `governance/`; `spork.cpp` | store, spork 19 and superblock flag only | partly |
| `llmq/quorums_btccheckpoints.cpp`; `masternode/`; NEVM data blobs and RLP decoding; network; mempool; wallet; cryptography | none | not modelled, see below |

How they interact: a DKG round (`DKGSession`) ends with a final commitment, which
`QuorumBlockProcessor` takes in through `FinalizeCommitments`; the quorums mined there
sign requests, whose recovered signatures `SigningManager` stores and announces to
listeners, the ChainLocks handler among them (`HandleNewRecoveredSig` in `ChainLocks`).
`ConnectTip` and `DisconnectTip` call the quorum block
processor and the mint databases inside one block; `FlushStateToDisk` writes
their caches and then the coins; the ChainLocks handler reads the active chain
and the mined quorums and makes the chainstate mark siblings of a locked block as
conflicting, and the chainstate checks every header and block against the lock.
Each module contains the share of the validation code that touches its state, so that
the order of the steps is that of the callers.

`BlockTree` is the shared context of four of the models: a finite tree of
blocks with parents, heights and ancestor sets.  The tree is a constant; what
varies is which blocks are connected, valid or known.

## Models

### EvoDB

State: `mapCache`/`fifoList` (pending writes in order), `mapReadCache`/
`readFifoList`, `setEraseCache`, `bFlushOnNextRead`, `disk`, the place of a flush
(`flush`, which writes in batches of `CHUNK_ITEMS`) and a reader that waits for it
(`waiting`).  Actions: `WriteCache`, `EraseCache`, `SetReadCacheSize`,
`BeginRead`/`EndRead` (`ReadCache` and `ExistsCache`), `FlushCacheToDisk` with its
batches, `ResetDB`, `Crash`.  A bounded cache (`maxCacheSize > 0`) silently drops
its oldest write, as the code does.  Left out: a `WriteBatch` that fails
(`evodb.h:196`, `207`, `219`, `226`).  The code takes entries out of the cache as they enter a
batch (line 209), so that a failing write would lose them; `MintReplay` has such failures for the
database with the same scheme that the coins depend on (finding 4).

`KeyValueStore` is the promise: a map with `Put`, `Del`, `Sync`, `Forget` (only with
a bounded cache), `Wipe` and `Crash`.  LevelDB is external: a map with atomic
batches.

### ChainLocks

One node.  State: the winner (`bestChainLockWithKnownBlock`,
`bestChainLockBlockIndex`), candidates and shares at their heights, recent locks,
signed request ids, seen CLSIGs, the last signed target, votes and recovered
signatures, `isEnforced` and spork 19, and of the chainstate the tip, the failed,
conflicting, script-valid and governance-validated blocks.  `call[t]` is
what thread `t` is doing: its place in the code and everything it read under a
lock it has since released.

`ProcessNewChainLock` is cut exactly where the code gives up `cs` or `cs_main`:
`CheckHeight`, `ReadBestIndex`, `CheckTarget`, `CheckConflict`,
`VerificationContext`, `Verify`, `PublicationContext`, `PublishShare` or
`PublishAggregate` (which repeat the admissibility checks), `Match`.  Then come
`CheckActiveState` (spork), `ReadBest` and `EnforceBestChainLock`.
`TrySignChainTip` runs from `Cleanup` to `SignDone`, including the alternative
target of another quorum's share, `AsyncSignIfMember` and `WriteVoteForId`.
Recovered signatures, the scheduled job, late headers, connected, disconnected
and invalidated blocks and spork changes are actions of their own.

Two steps are coarser than the locks.  `SignShares` reads the shares of the target's
height and advances the attempt in one step, and `ProcessRecoveredSig` stores a recovered
signature and looks it up in `mapSignedRequestIds` (`HandleNewRecoveredSig`, line 1455) in one.  What
the gap of the second can do to a signature is in `SigningManager`.

A quorum is a base height and the block that mined its commitment; a signature
is the set of quorums whose recovered signatures it aggregates, and verifies when
these are the quorums expected.  `OneSignaturePerRequest` assumes that a quorum
signs at most one block of a height, which threshold signing gives, and
`OneQuorumPerSession` that a chain mines one commitment per session, which
`QuorumBlockProcessor` shows.

`ChainLockWinner` is the promise: the winner moves only to a descendant and is
dropped only when enforcement is switched on.

Left out: relay, RPC getters, `mostRecentChainLockShare`, the 24 hour cache of
rejected CLSIGs, expiry of single cache entries, and `masternodeSync` (taken as
synced).

### SigningManager

One node: the worker thread `signingman` and the threads that call in.  State: the
database (`recs` the stored signature of a request id, `index` its message, hash and
session keys, `times` the write times), the three verdict caches (`cache`), the
signatures that wait (`pending` by peer, `reconstructed`), where each thread is
(`thr`: place, signature at hand, stage of a lookup), the worker's round (`wphase`,
`todo`, `batch`) and clean-up (`del`, `left`, `doomed`), the clock, and what the
listeners were told.

No lock spans an operation, so every step between two locks or database calls is an
action: `LookupCache`, `LookupDb`, `LookupInsert` are `HasRecoveredSigForId`, `ForHash`
and `ForSession`; `CheckBlock`, `GetRecoveredSigById`, `WriteRecoveredSig`,
`CacheRecoveredSig`, `ErasePending`, `TellListeners` are `ProcessRecoveredSig`;
`SwapReconstructed` to `VerifyBatch` are `ProcessPendingRecoveredSigs`; `StartCleanup`
to `WriteRemovals` are `Cleanup`.  `Call` starts what other threads do: a `QSIGREC`
message, an inventory question, a session question, a signature reconstructed from a
CLSIG, a recovery from shares, a request to sign.  A signature is one value; whether it
verifies (`Forged`) and whether its block passes the checks (`Unsound`) are constants,
and two genuine signatures of one request id are equal, which threshold signing gives.

Left out: `CleanupOldVotes`, eviction from the caches (an evicted verdict is looked up
again, as after a restart), relay, RPC questions, and `TruncateRecoveredSig`, which
nothing calls.

### DKGSession

All members of one quorum at once, each with its handler thread.  State: the phase that
the height gives, the phase each thread is in and whether its start function has run,
by kind of message what was sent, can be had from peers and was received, the contents
of the messages, and of each member's session the bad members, complaints, verified
shares, votes and validated commitments (`kept`).  Actions: `UpdatedBlockTip`, `WaitForNextPhase`, `Abort`; the start
functions `Contribute`, `VerifyAndComplain`, `VerifyAndJustify`, `VerifyAndCommit` and
`FinalizeCommitments` with the message each sends; the four `ReceiveMessage` handlers and
`ReceiveFurther`; `InitNewQuorum`.  A start function does not look at the phase again once its sleep is
over, and the batch under way when a phase ends is still processed, as in the code.

Shares are right or wrong (`lieTo`, `just.lies`); the quorum key is a function of the
valid members' verification vectors, so a commitment is its set of valid members.  The
faults are those of `DKGError` (omit or lie in a contribution or justification,
complain without reason, omit a commitment), bad connections (`Topologies`), further
commitments, and whatever does not happen in time; `late` counts the last.  A lying
commitment fails its sender's own check and is an omitted one.

`ReceiveFurther` is a further commitment of a faulty member, to another set of valid
members whose shares it holds.  `PreVerifyMessage` drops a commitment once two of its sender
were received, but a whole batch is pre-verified before any of it is received, and
`ReceiveMessage` keeps what passes without holding the sender for bad.  So the model
bounds their number only by the sets to choose from (`Further`), and a commitment that is
dropped is one that is not received.

Left out: second contributions, complaints and justifications of one member (which make
it bad at everybody they reach), non-members that watch, limits of queues and batches, a reorganisation
back into the same round, and stored contributions of older rounds.  One height gives the
phase of all members: a node that sees a block later than another is one whose thread is
behind, not one with an earlier phase.

### QuorumBlockProcessor

State: `mined` and `minedDisk` (the mined-commitment store, an instance of
`KeyValueStore`), `minableCommitments`, `minableCommitmentsByQuorum`, the message each
thread is processing, the tip, the coins' best block.  Actions:
`ProcessMessage`, `CheckBetter`, `AddVerified` (the locks of `ProcessMessage`),
`FinalizeCommitments` (the local DKG session), `ConnectTip` with `ProcessBlock`,
`DisconnectTip` with `UndoBlock`, `PeriodicWrite`, `FullFlush`,
`CrashAndRestart`.  What `CFinalCommitment::Verify` says is a field of the
commitment; the shortcut that skips it during initial download is not used.  The code
also skips the check of the signatures where scripts are not checked (`fBLSChecks` is `fScriptChecks`,
`validation.cpp:3015`), that is for blocks below `-assumevalid`; the model always checks.

### MintReplay

State: marker and root caches and their databases, the coins database with its
one or two head blocks and the outputs written so far, and `job`, the place
inside a flush, a disconnection or a start.  Actions: `ConnectTip`,
`DisconnectTip` (marker erasure after a forced coins flush), `PeriodicWrite`,
`FlushStateToDisk`, `FlushCacheToDisk`, `WritePartialBatch`, `WriteFinalBatch`,
`EraseMarkers`, `LoadChainTip`, `ReplayBlocks`, the two steps of
`-reindex-chainstate`, and the faults: a crash of the process at any point, a
power loss that also takes the coins not yet synced (`synced`), and a failing
write.  Writes fail in `FlushStateToDisk` only, not in the flushes that `DisconnectTip`
(`validation.cpp:3625`) and `ReplayBlocks` (line 5829) make.  `faults` counts them, so that a property can say what it assumes
(`OnlyCrashes`).

### Chainstate

State: the tip, which blocks are known, received, linked and script-valid, the
flags `BLOCK_FAILED_VALID`, `BLOCK_FAILED_CHILD` and `BLOCK_CONFLICT_CHAINLOCK`,
`m_failed_blocks`, `m_blocks_unlinked`, `setBlockIndexCandidates`, sequence ids, the
published lock, and `job`: what the holder of `m_chainstate_mutex` is doing.
`ActivateBestChain` is one action per step of its loops (`FindMostWorkChain`,
`NothingToDo`, `DisconnectToFork`, `ConnectTip`, `ConnectTipFails`, `NextRound`) and
gives up `cs_main` only in `NextRound` and at its ends; `InvalidateBlock` gives it up after each block.  Headers,
blocks, `reconsiderblock`, `preciousblock` and a new lock come in wherever `cs_main` is
free, `EnforceBestChainLock` wherever the mutex is.  `owed` records that a handler has still to call
`ActivateBestChain`.  Two history variables say that the tip came to sort worse than
before, so that blocks dropped from the candidates may be as good: `slipped` (`cs_main`
was released on a worse chain) and `demoted` (`preciousblock` gave the tip a higher
sequence id).

Sequence ids only order blocks of equal work, so the model counts them from
one for each amount of work.  The lock only moves to descendants, which is what
`ChainLocks` promises (`ChainLockWinner`); sporks are left to that module.  Left out: pruning,
snapshots, `m_best_header`, `ResetLastBlock`, shutdown and restarts, system
errors, and blocks refused as mutated.

## Runs

| Run | Checks | Result |
|---|---|---|
| `evodb` | `CachesOK`, `ReadsSeeErasures`, `ImplementsStore` | holds |
| `chainlocks_spork` | `WinnerSlot`, `GovernanceProvenance`, `EnforceWithinWindow`, `ImplementsWinner`, `WinnerBecomesActive` | holds |
| `chainlocks_sign` | `TypeOK`, `WinnerCertified`, `GovernanceProvenance` | holds |
| `chainlocks_votes` | `OneVotePerRequest` | violated |
| `qc_reorg` | `TypeOK`, `MinedMatchesChain`, `SessionRules`, `MinableResolves`, `TemplateConnects`, `CommitmentNotForgotten`, `BestCommitmentKept` | holds |
| `qc_crash` | `WindowFollowsChain` | violated |
| `mint_faults` | `TypeOK`, `MarkerBarrier`, `NoDoubleMint`, `MarkersFollowChain`, `RootsFollowChain`, `StartupEnds` | holds |
| `mint_replay` | `ReplaySkipsChecks` | violated |
| `mint_failure` | `DurableMintHasMarker` | violated |
| `chainstate` | `FlagsRight`, `CandidatesRight`, `RestsOnBest`, `LockedStaysActive`, `SettlesOnBest` | holds |
| `signing` | `KeysMatchRecords`, `VerifiedOnly`, `KnownIsTold`, `NeverDropped`, `ReconstructedIsTold` | holds |
| `dkg` | `TypeOK`, `FinalAgreement`, `SignersHoldShares`, `HonestKept`, `RoundSucceeds` | holds |

Run one with `tlc -config MCChainLocks_sign.cfg MCChainLocks`; most take less
than two minutes, `dkg`, `mint_faults` and `signing` up to four.

What some of them say that the names do not:

* `KnownIsTold`: lookups cache answers that may be stale when they are cached, and
  a duplicate is dropped wherever a verdict says "known".  This never drops the only
  copy of a signature: whatever any verdict calls known has been announced to the
  listeners or a thread is on its way to announce it.  A crash between the write and
  the listeners breaks it, so it is stated up to the first crash.
* `NeverDropped`: a good signature that waits to be processed, or that a thread is
  processing, is let go of only by telling the listeners, also where two threads
  process the same one.  It covers signatures from shares and peers besides the
  reconstructed ones of `ReconstructedIsTold`.
* `RestsOnBest`: a linked block better than the tip has an invalid or conflicting block in its
  chain whenever `ActivateBestChain` is neither running nor owed.
* `FinalAgreement`: a member may sign two commitments, and the code counts it for both.
  Final commitments with different valid members are therefore possible, and the run
  reaches them.  What holds is that they have signers in common: only faulty members,
  and at least `2 * minSize - size` of them, which is one for `llmq_test` (3 members, 2
  needed) and 200 for `llmq_400_60` (400, 300 needed).
* `HonestKept`, `RoundSucceeds`: while everybody keeps up, no honest and connected
  member is given up, and the round ends with a final commitment that keeps all of them.
  There is one exception, `Unanswered`: `VerifyAndJustify` passes over a complaint whose
  sender its own node already holds for bad.  Nothing else settles a complaint, so it stays open
  at every member, those that hold its sender for bad included, and all of them give up the honest target when
  they commit.  Such a target is not `Secure`, and both properties are about secure
  members: if at least `minSize` are left, the round succeeds with them.
  `FinalAgreement` and `SignersHoldShares` hold regardless.

### Bounds

* `evodb`: three keys, two values, a write cache of two, a read cache of one,
  batches of one item.  Three keys overflow the write cache and one item per
  batch lets a crash fall between any two of them.  The cache unbounded case is
  covered by the proofs.
* `chainlocks_*`: a tree of at most six blocks in two branches of different
  length.  `spork` has one thread, two spork changes (off and on again), one block to invalidate and one
  superblock.  `sign` has one thread that is message thread and scheduler at
  once, three quorums (majority two), one of them its own.  `votes` needs two
  threads.  A window of one block (`SIGN_HEIGHT_OFFSET = 1`) makes depth two
  already too deep.  That two message threads race a publication is left to the
  proofs, which are for any number of threads.  `RECENT_CHAINLOCKS_MAX = 1` makes eviction happen.
* `qc_*`: sessions of three blocks with a mining window of two, two branches that
  mine different commitments in different blocks of the window, an invalid one
  with more signers, a block that fails late, a block with a mint, a second session (in
  `reorg`) and one crash.  One message thread and the local session offer commitments at
  the same time; any number of threads, and a store that drops entries
  (`Lossy`), are covered by the proofs.
* `signing`: a genuine signature and a forged one of the same request id, the worker and
  one other thread, which may be at any place of any call, one peer, batches of two, one tick of the
  clock (which makes a signature old), a batch of removals written early after one,
  and one crash.  More threads and signatures are covered by the proofs.
* `dkg`: the sizes of `llmq_test`, three members of which two are needed, one of them
  faulty, with and without a bad connection, and one thing that is not done in time.
  The faulty member may depart from the protocol in every phase of a round, and commit a
  second time to the two honest members (`Further`), which is enough for two final commitments
  with different valid members.  Any size, any number of faulty members, any further
  commitments and any delays are covered by the proofs.
* `mint_*`: `replay` and `failure` have two branches of three blocks that mint two
  transactions in opposite order, and one block that mints again what its branch
  minted.  `faults` has the first branch, with that block, and one block of the second, and two faults of any
  kind: the second may fall into the replay or the rebuild after the first.  It has no
  deadlock check because the process may stop with an error.
* `chainstate`: a branch of three blocks whose last does not connect, and a
  rival of its second; two operator calls, which is what it takes to
  invalidate and reconsider.  The tip is `demoted` only by a third, so the run does not
  reach that; with `MaxCalls = 3` the same configuration passes too (1,089,480 states
  instead of 160,661, about five minutes), and the proofs are for any number of calls.  Three blocks in a row are needed for a header that is
  refused for an ancestor's sake.  The rival is also what a lock, a
  preference or a failed reorganisation moves to.  `Malformed` is empty there:
  a block that fails `ContextualCheckBlock` never gets further than its mark, which the proofs cover.  The run ends
  when all blocks have arrived and the calls are used up, hence no deadlock check.

### Fairness

Only what the code's own scheduling gives.  In `ChainLocks`: a thread inside a
function goes on, the scheduler runs its job again and again, and
`ActivateBestChain` connects what can be connected.  Nothing is assumed of
peers, of reorganisations or of sporks; `WinnerBecomesActive` is conditional on
reorganisations coming to an end and on a spork that stays.  In `MintReplay`: a
flush or a start that has begun is carried on, its steps being consecutive
statements of one thread; crashes are never forced.  In `Chainstate`: who holds
`m_chainstate_mutex` goes on and releases it, a handler that owes a call of
`ActivateBestChain` makes it, and enforcement, which the ChainLocks scheduler repeats,
takes place; nothing is assumed of arriving blocks or operators.  In
`SigningManager`: a call that has begun runs to its end and the worker loops for
ever.  A caller waits for `cs_pending` while the worker collects; the worker gives it up
in every round and sleeps, so a waiting thread gets it, which is strong fairness
of the caller's steps.  Nobody has to call and the clock need not move.  `DKGSession`
needs none: its properties speak of what has been done when a phase ends.

## Findings

1. `chainlocks_votes`: `AsyncSignIfMember` checks `HasVotedOnId` and later writes the
   vote with no lock over both, and two `TrySignChainTip` calls may run in parallel: one of a
   message thread, in `ProcessNewChainLock` (`quorums_chainlocks.cpp:1034`), and one of the
   scheduler.  One masternode then votes for two
   blocks under one request id, against the comment in `quorums_signing.cpp:665`.
2. `qc_crash`: the periodic write makes mined commitments durable without the
   coins.  After a crash the chain resumes at an older block while the store says
   the session is mined, and the block that mined it is refused
   (`bad-qc-not-allowed`).
3. `mint_replay`: `ReplayBlocks` runs before there is an active tip, and
   `ProcessBlock` then fails for every block from the Nexus height on, although
   its comment says the checks are skipped in a replay.  An interrupted flush
   ends with "Unable to replay blocks".
4. `mint_failure`: `CNEVMMintedTxDB::FlushCacheToDisk` drops entries from its cache
   when they enter the batch.  If writing the batch fails, the flush at shutdown
   writes the coins without their markers.

`PROJECT.json` lists further places as hazards without a property: among
them conflict marks that survive switching spork 19 off and on, the power
loss of unsynced coins batches, a recovered signature that is known after a
crash and never announced, what a block that fails late leaves in the store of mined
commitments, overridden commitments that stay in `minableCommitments`, complaints that
`VerifyAndJustify` passes over, and `ActivateBestChain` releasing `cs_main` on a
chain with less work than before when a new lock forbids the way back
(`slipped`; `CandidatesRight` and `LockedStaysActive` are stated for behaviours
without it, and `SettlesOnBest` shows that enforcement repairs it).  `demoted` is another:
`PreciousBlock` restarts its counter of ids when the tip has more work than at the last
call (`validation.cpp:4207`), and may then give the tip, if called for the tip itself, a
higher id than it had.  A rival of the same work that was dropped before can
sort above the tip without being a candidate; the two properties exclude this, and
`SettlesOnBest` allows it among chains of equal work.

## Proofs

Each is for every block tree, set of threads, quorums, keys and size, subject to
the named assumptions of the modules: a well-formed tree (finite in `Chainstate`, whose
`preciousblock` takes the least of the ids in use), positive sizes, a mining window that
starts after the session's first block, an `ATTEMPT_START` that is at most the number
of active quorums, one commitment per session and chain, and what threshold signing
gives.  TLC evaluates them in every run.

Every component is proved to keep the types of its variables, which for the larger ones is
itself an invariant over what each thread carries from one lock to the next.  For `Chainstate` and
`SigningManager` this is proved only and not a property of a run: `ChainstateTyped`, which adds that the tip
and the ancestors of linked blocks are linked, and `SigningTyped`, which adds that a thread between two locks
has the signature it works on in hand.

A leaf that only the SMT solver proves names it in several forms (`SMT, Z3, SMTT(10), Z3T(10)`): late in a
long module `tlapm` may use up its time preparing the problem, and then tries the next form.

* `EvoDBProofs`.  `StoreInv` is inductive (`StoreInvariant`).  It says that caches
  and their orders hold the same keys, that no key is both written and erased,
  that a pending erasure is flagged or being flushed, and what an entry of the
  read cache may differ from.  The last two are the strengthening: without them
  neither `ReadsCorrect` (`ReadsSeeErasures`) nor the step of `Refinement` for reads and
  flushes holds.  `Refinement` maps every action to a step or stutter of
  `KeyValueStore` under `kv <- View`.  `CachesStayInStep` is `CachesOK`.
* `ChainLocksProofs`.  `WinnerInv` adds to `WinnerSlot` the types that the heights
  need; one step per action shows that only publications and spork changes touch the
  slot.  `WinnerRefinement` uses it to show that a publication moves the winner to a
  descendant and that a late header never does: no candidate is above the winner.
  `EnforcementBounded` (`EnforceWithinWindow`) needs `NearWinner`: the chain leaves the
  enforced winner's chain at most one sign window below it.  It is stated for a winner
  that is still in force when a thread enforces what it read: over a change of
  spork 19 a second thread may enforce a lock that is no longer the winner's.
* `ChainLocksThreadProofs`.  `ThreadInv` (defined at the end of `ChainLocksProofs`) says, for every place in the code, what the thread
  there knows of the CLSIG, the share or the target in its hands (`CallOK`), and that
  everything cached or published was verified (`SharedOK`).  It is needed because a
  thread publishes what it verified under locks it has given up.  From it
  `HandlerTyped`, `WinnerIsCertified` (also for an aggregate that `TryUpdateBestChainLock`
  puts together from shares, which rests on the order of quorums by age: lemmas on
  ranks begin `ChainLocksProofs`) and `SuperblocksGoverned`.  `OneVoteWithoutRace` has a hypothesis that
  the code does not ensure, `OneWriter`: no two threads are between the look for an
  earlier vote and the write.  Finding 1 is what happens otherwise; the theorem says that
  this race is the only way to a second vote.
* `QuorumBlockProcessorProofs`.  `MinableInv`: everything offered, being added or
  carried by a block of the two chains is valid and of its quorum.  The part about
  the chains is needed because `UndoBlock` offers what a block carried.  From it
  `MinableAlwaysResolves` and `TemplatesAlwaysConnect`, with crashes, evictions and
  late failures; and `BestIsKept` and `NothingForgotten`, one step at a time, for any number of
  message threads.  `MinedInv` adds that no session is mined twice on the chain, without which
  `UndoBlock` could erase the wrong entry; `MinedFollowsChain` assumes a store that drops
  nothing and speaks of the time before the first crash or late failure, each of which
  breaks it in the code.  On the same assumptions `SessionsFollowRules` shows `SessionRules`:
  the store that `ProcessBlock` asks is the one that the chain below the block would
  give.  Its invariant `SessionInv` judges every block on its own chain, so that a
  disconnection cannot disturb the blocks that stay.
* `MintReplayProofs`.  `MintInv`: every head of the coins database has its markers
  on disk, outputs belong to heads, and what is about to be erased is minted on no
  chain in use.  From it `MarkersPrecedeCoins` and `NothingMintedTwice`, for any
  number of crashes, but as long as no write fails, nothing is rebuilt and no power is lost
  (finding 4 and the hazards show why).  `FollowInv`: markers and roots, in cache or on disk,
  are those of the active chain and of what the running job has disconnected and not yet
  erased; from it `MarkersMatchChain` and `RootsMatchChain`, until the first fault.
* `ChainstateProofs`.  `FlagsInvariant` (`FlagsRight`) from
  `FlagInv`.  `DataInv`: linked blocks have linked ancestors, and no candidate is below
  the tip; without it the step towards a candidate could have nothing to connect.
  `MarkInv`: the blocks between a `FAILED_CHILD` block and its cause are all marked; it is what makes
  `ResetBlockFailureFlags` right, which moves the cause to the block where a chain
  leaves the cleared one.  `ChainInv`: the chain that `ActivateBestChain` works towards is
  unmarked even while `cs_main` is free (`MostWorkUnmarked`).  Lemmas about the tree (forks, children
  on the way to a block, work) and about the order of the candidates come first.
  `CandidatesInvariant` (`CandidatesRight`) needs two things more (`CandInv`).  `FreeInv` speaks of
  all blocks that are not marked themselves: `reconsiderblock` leaves blocks unmarked
  whose ancestors are marked, and these must already be candidates when the mark below
  them goes.  `HeldInv` is what holds while `ActivateBestChain` keeps `cs_main` and the
  tip is for a while worse than the one it started from.  `LockedStays` (`LockedStaysActive`)
  adds `LockInv`: the chain with the locked block can be connected again, and what
  `FindMostWorkChain` chooses is no worse.  Both are stated while neither
  `slipped` nor `demoted`.  So is `AtRestOnBest` (`RestsOnBest`), the part of `SettlesOnBest` that is not
  about time: whenever the node rests, it rests on its best chain.  `BestInv` carries this through the
  releases of `cs_main`: nothing is better than the chain that is worked towards, unless a call is owed by
  then, and no candidate is worse than the tip the round started from.  What is left to TLC is that
  the node does come to rest.
* `SigningManagerProofs`.  `IInv` has what a thread at a place in the code knows of its
  signature (`ThreadsInv`) and how the keys of the database belong together while a clean-up runs
  (`DbInv`): the record of an old key is doomed, has a newer key or is still to be
  handled.  Without the last, a write that overtakes the clean-up could leave a
  record no later clean-up finds.  From it `RecoveredSigsSafe` (`KeysMatchRecords`) and
  `OnlyVerifiedStored` (`VerifiedOnly`), with any number of crashes, and
  `KnownSignaturesTold`.  `SignaturesNeverDropped` (`NeverDropped`) follows from the latter: where
  `ProcessRecoveredSig` returns early the signature is known, so it has been told or another
  thread holds it.  It also needs that the worker's list is empty whenever it is filled anew
  (`TodoInv`).  Of `ReconstructedIsTold`, what is left to TLC is that the threads keep running.
* `DKGSessionProofs`.  `SentInv`: a message goes out only after its sender's start
  function.  `ShareInv`: a verified share was right, or a justification made it right.
  `CommitInv`: a commitment, the first or a further one, rests on verified shares; what a session
  keeps was committed to, by an honest member only once; and the signers of a final
  commitment committed to its valid members.  `DKGAgreement` (`FinalAgreement`) then follows by counting: two
  sets of `minSize` signers share at least `2 * minSize - size` members, and who committed to two
  sets is not honest.  `DKGOneKey` is its consequence for fewer faulty members than that: one valid
  set, and so one key.  Neither assumes that `minSize` is a majority; where it is not, the
  bound says nothing.  `DKGShares` is the other half.
  `HonestAreKept` (`HonestKept`) and `RoundsSucceed` (`RoundSucceeds`) are about rounds where nothing is late and
  members about whom no complaint was passed over (`Secure`), from
  `TimelyInv`: nobody is more than a step behind the chain and has by then every message
  of the phases before (`InStep`), each session's votes, complaints and answers are a function of those
  messages, and everybody who commits holds the same members for bad (`SameBad`).

Only model-checked: the liveness properties (`WinnerBecomesActive`,
`StartupEnds`, `SettlesOnBest`, `ReconstructedIsTold`), which need fairness, and that is out of
the prover's reach.  The four violations are counterexamples of TLC.

## Not modelled

* Signature shares (`quorums_signing_shares.cpp`): sessions, announcements and batched
  verification between many nodes.  `SigningManager` takes their result, a genuine
  signature at any moment.
* BTC checkpoints: they publish under a lock and verify without it, as ChainLocks do,
  and add rules about Bitcoin headers that are external.
* The deterministic masternode list, provider transactions, payments and governance
  objects: functions of the blocks, evaluated under `cs_main` one block at a time.
  What concurrency and crashes do to them is what they do to their store, which is
  `EvoDB`; the functions themselves are better served by tests on real blocks.
* The network layer, `MNAUTH` and masternode sync: the models let any message arrive at
  any time and take a node that is synced.
* NEVM: the side chain's process, data blobs and RLP decoding are external or pure.
  In particular a block refused for missing blob data, which is not marked as
  failed, is not in `Chainstate`.
* Restarts of the block index: `Chainstate` has none, so that marks that were not written
  and blocks that are linked only at the next start are out of its sight.
* Roots of the NEVM after a crash: `RootsFollowChain` is about runs without one.
* The 24 hour cache of refused CLSIGs.
* Wallet, RPC, GUI, mempool, scripts and cryptography: Bitcoin Core's, or libraries.
