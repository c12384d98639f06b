----------------------------- MODULE Chainstate -----------------------------
(***************************************************************************)
(* How a node chooses its active chain (src/src/validation.cpp): the status *)
(* flags of the block index, setBlockIndexCandidates, ActivateBestChain,    *)
(* InvalidateBlock, reconsidering and preferring blocks, and the ChainLock  *)
(* that blocks are checked against.                                         *)
(*                                                                         *)
(* ActivateBestChain, InvalidateBlock and EnforceBlock exclude each other   *)
(* (m_chainstate_mutex) but release cs_main between their steps; headers,   *)
(* blocks, reconsiderblock and preciousblock need cs_main only.             *)
(*                                                                         *)
(* No block is pruned, no snapshot is loaded, and connecting or             *)
(* disconnecting a block never ends in a system error.                      *)
(***************************************************************************)
EXTENDS BlockTree, FiniteSets

CONSTANTS
  nChainWork,    \* total work of the chain that ends in a block
  Address,       \* the last tie-breaker of CBlockIndexWorkComparator
  Malformed,     \* blocks that fail ContextualCheckBlock
  Unconnectable, \* blocks that fail ConnectBlock
  MaxCalls       \* bound on calls of invalidateblock, reconsiderblock, preciousblock

ASSUME ChainstateConstants ==
  /\ IsFiniteSet(Blocks)
  /\ nChainWork \in [Blocks -> Nat]
  /\ \A b \in Blocks \ {Root} : nChainWork[pprev[b]] < nChainWork[b]
  /\ Address \in [Blocks -> Nat]
  /\ \A a, b \in Blocks : Address[a] = Address[b] => a = b
  /\ Malformed \subseteq Blocks \ {Root}
  /\ Unconnectable \subseteq Blocks \ {Root}
  /\ MaxCalls \in Nat

VARIABLES
  tip,                      \* m_chain.Tip()
  index,                    \* m_block_index: headers known
  data,                     \* BLOCK_HAVE_DATA, BLOCK_VALID_TRANSACTIONS
  scripts,                  \* BLOCK_VALID_SCRIPTS
  linked,                   \* HaveNumChainTxs()
  unlinked,                 \* second components of m_blocks_unlinked
  failedValid, failedChild, \* BLOCK_FAILED_VALID, BLOCK_FAILED_CHILD
  conflict,                 \* BLOCK_CONFLICT_CHAINLOCK
  m_failed_blocks,
  setBlockIndexCandidates,
  nSequenceId,
  nLastPreciousChainwork, nBlockReverseSequenceId,
  lock,                     \* bestChainLockBlockIndex while enforced
  job,                      \* what the holder of m_chainstate_mutex does
  owed,                     \* a caller has still to call ActivateBestChain
  calls,                    \* operator calls so far
  slipped,                  \* history: cs_main was released on a worse chain
  demoted                   \* history: preciousblock gave the tip a higher id

flags == <<failedValid, failedChild, conflict, m_failed_blocks>>
received == <<index, data, linked, unlinked, nSequenceId>>
precious == <<nLastPreciousChainwork, nBlockReverseSequenceId, demoted>>
vars == <<tip, received, scripts, flags, setBlockIndexCandidates, precious,
          lock, job, owed, calls, slipped>>

-----------------------------------------------------------------------------
failed == failedValid \cup failedChild
InActiveChain(b) == b \in Anc[tip]
Descendants(b) == {d \in Blocks : b \in Anc[d]}

\* CBlockIndexWorkComparator: a sorts before (is worse than) b.
Worse(a, b, seq) ==
  \/ nChainWork[a] < nChainWork[b]
  \/ nChainWork[a] = nChainWork[b] /\ seq[a] > seq[b]
  \/ nChainWork[a] = nChainWork[b] /\ seq[a] = seq[b] /\ Address[a] > Address[b]

\* A block may become a candidate: IsValid(BLOCK_VALID_TRANSACTIONS), linked and,
\* except for InvalidateBlock's first look, not conflicting.
Usable(b, bad) == b \in (data \cap linked) \ bad

\* Those that are no worse than the block t.
NotWorse(t, bad) == {b \in index : Usable(b, bad) /\ ~Worse(b, t, nSequenceId)}

\* PruneBlockIndexCandidates, with b as tip.
PruneBlockIndexCandidates(S, b, seq) == {c \in S : ~Worse(c, b, seq)}

\* Faulty variant: a sibling of the locked block passes.
HasConflictBelow(b) ==
  lock # None /\ nHeight[b] < nHeight[lock] /\ b \notin Anc[lock]

HasConflictingChainLock(b) ==
  lock # None /\ nHeight[b] <= nHeight[lock] /\ b \notin Anc[lock]

\* m_chainstate_mutex is free; cs_main is held.
NoJob == [pc |-> "idle", most |-> None, start |-> None, old |-> None,
          pindex |-> None, mark |-> None, byWork |-> {}]
MutexFree == job.pc = "idle"
Held == job.pc \in {"find", "step", "connect"}

Init ==
  /\ tip = Root /\ index = {Root} /\ data = {Root} /\ scripts = {Root}
  /\ linked = {Root} /\ unlinked = {}
  /\ failedValid = {} /\ failedChild = {} /\ conflict = {} /\ m_failed_blocks = {}
  /\ setBlockIndexCandidates = {Root}
  /\ nSequenceId = [b \in Blocks |-> IF b = Root THEN 1 ELSE 0]
  /\ nLastPreciousChainwork = 0 /\ nBlockReverseSequenceId = -1
  /\ lock = None /\ job = NoJob /\ owed = FALSE /\ calls = 0
  /\ slipped = FALSE /\ demoted = FALSE

-----------------------------------------------------------------------------
(* Headers and blocks arrive; each handler holds cs_main throughout. *)

\* AcceptBlockHeader finds b's parent good enough to add b.
HeaderAccepted(b) ==
  /\ b # Root /\ pprev[b] \in index \ (failed \cup conflict)
  /\ pprev[b] \in scripts \/ m_failed_blocks \cap Anc[pprev[b]] = {}

\* The flag AddToBlockIndex gives a new block.
NewConflict(b) == IF b \notin index /\ HasConflictingChainLock(b) THEN {b} ELSE {}

\* ProcessNewBlockHeaders for one header.
AcceptBlockHeader(b) ==
  /\ ~Held /\ b \notin index /\ HeaderAccepted(b)
  /\ index' = index \cup {b}
  /\ conflict' = conflict \cup NewConflict(b)
  /\ UNCHANGED <<tip, data, scripts, linked, unlinked, failedValid, failedChild,
                 m_failed_blocks, setBlockIndexCandidates, nSequenceId, precious,
                 lock, job, owed, calls, slipped>>

\* A header that descends from a known invalid block: the blocks between are
\* marked and the header is refused.
AcceptBlockHeaderRefused(b) ==
  /\ ~Held /\ b \notin index /\ b # Root
  /\ pprev[b] \in index \ (failed \cup conflict \cup scripts)
  /\ \E f \in m_failed_blocks \cap Anc[pprev[b]] :
       failedChild' = failedChild \cup (Anc[pprev[b]] \ Anc[f])
  /\ UNCHANGED <<tip, received, scripts, failedValid, conflict, m_failed_blocks,
                 setBlockIndexCandidates, precious, lock, job, owed, calls, slipped>>

\* Sequence ids only order blocks of equal work, so they count from 1 for each
\* amount of work.  The blocks of S, linked in one call, come after the others.
NextIds(S) ==
  LET Like(b, R) == {c \in R : nChainWork[c] = nChainWork[b]}
      turns == {f \in [S -> 1..Cardinality(S)] : \A b, c \in S : f[b] = f[c] => b = c}
  IN {[b \in S |-> Cardinality(Like(b, linked))
                     + Cardinality({c \in Like(b, S) : f[c] <= f[b]})] : f \in turns}

\* ReceivedBlockTransactions, with hard as the blocks that conflict.
ReceivedBlockTransactions(b, hard) ==
  /\ data' = data \cup {b}
  /\ IF pprev[b] \in linked
     THEN LET S == {d \in Descendants(b) : (Anc[d] \ Anc[b]) \subseteq unlinked}
          IN \E f \in NextIds(S) :
               /\ linked' = linked \cup S
               /\ unlinked' = unlinked \ S
               /\ nSequenceId' = [c \in Blocks |-> IF c \in S THEN f[c] ELSE nSequenceId[c]]
               /\ setBlockIndexCandidates' = setBlockIndexCandidates \cup
                    {c \in S \ hard : ~Worse(c, tip, nSequenceId')}
     ELSE /\ unlinked' = unlinked \cup (IF pprev[b] \in failed THEN {} ELSE {b})
          /\ UNCHANGED <<linked, nSequenceId, setBlockIndexCandidates>>

\* ProcessNewBlock up to ActivateBestChain.
AcceptBlock(b) ==
  /\ ~Held /\ b \notin data \cup failed \cup conflict
  /\ b \in index \/ HeaderAccepted(b)
  /\ index' = index \cup {b}
  /\ conflict' = conflict \cup NewConflict(b)
  /\ IF b \in Malformed
     THEN /\ failedValid' = failedValid \cup {b}
          /\ UNCHANGED <<data, linked, unlinked, nSequenceId, setBlockIndexCandidates, owed>>
     ELSE /\ ReceivedBlockTransactions(b, conflict')
          /\ owed' = TRUE
          /\ UNCHANGED failedValid
  /\ UNCHANGED <<tip, scripts, failedChild, m_failed_blocks, precious, lock, job, calls, slipped>>

-----------------------------------------------------------------------------
(* ActivateBestChain.  cs_main is held in "find", "step" and "connect" and free *)
(* in "rest", at the end of the outer loop.                                  *)

\* The outer loop begins, with pindexMostWork from an earlier round or None.
Enter(most) ==
  job' = [NoJob EXCEPT !.pc = IF most = None THEN "find" ELSE "step",
                       !.most = most, !.start = tip, !.old = None]

ActivateBestChain ==
  /\ MutexFree /\ owed
  /\ owed' = FALSE
  /\ Enter(None)
  /\ UNCHANGED <<tip, received, scripts, flags, setBlockIndexCandidates, precious, lock, calls, slipped>>

\* One round of FindMostWorkChain, for the last element of setBlockIndexCandidates.
\* Walking back from it, the first failed or conflicting block makes all blocks
\* above it unusable.
FindMostWorkChain ==
  /\ job.pc = "find"
  /\ \E new \in setBlockIndexCandidates :
       /\ \A c \in setBlockIndexCandidates : ~Worse(new, c, nSequenceId)
       /\ LET bad == (Anc[new] \ Anc[tip]) \cap (failed \cup conflict)
              test == CHOOSE t \in bad : \A u \in bad : nHeight[u] <= nHeight[t]
              above == Anc[new] \ Anc[test]
          IN IF bad = {}
             THEN /\ job' = [job EXCEPT !.pc = "step", !.most = new]
                  /\ UNCHANGED <<failedChild, conflict, setBlockIndexCandidates>>
             ELSE /\ setBlockIndexCandidates' =
                       setBlockIndexCandidates \ (above \cup {test})
                  /\ failedChild' = failedChild \cup (IF test \in failed THEN above ELSE {})
                  /\ conflict' = conflict \cup (IF test \in failed THEN {} ELSE above)
                  /\ UNCHANGED job
  /\ UNCHANGED <<tip, received, scripts, failedValid, m_failed_blocks, precious, lock,
                 owed, calls, slipped>>

\* Nothing to do: the function returns, or ends this round of the outer loop
\* when blocks were connected in it (old is set then).
NothingToDo ==
  /\ \/ job.pc = "find" /\ setBlockIndexCandidates = {}
     \/ job.pc = "step" /\ job.most = tip
  /\ job' = IF job.old = None THEN NoJob ELSE [job EXCEPT !.pc = "rest"]
  /\ slipped' = (slipped \/ Worse(tip, job.start, nSequenceId))
  /\ UNCHANGED <<tip, received, scripts, flags, setBlockIndexCandidates, precious, lock,
                 owed, calls>>

\* ActivateBestChainStep disconnects down to the fork.
DisconnectToFork ==
  /\ job.pc = "step" /\ job.most # tip
  /\ tip' = Fork(tip, job.most)
  /\ job' = [job EXCEPT !.pc = "connect", !.old = tip]
  /\ UNCHANGED <<received, scripts, flags, setBlockIndexCandidates, precious, lock, owed, calls, slipped>>

\* Where the inner loop goes after ActivateBestChainStep left the tip at t.
AfterStep(t, most) ==
  IF Worse(t, job.start, nSequenceId)
  THEN [job EXCEPT !.pc = IF most = None THEN "find" ELSE "step", !.most = most]
  ELSE [job EXCEPT !.pc = "rest", !.most = most]

\* The block to connect next.
ToConnect == CHOOSE b \in Anc[job.most] : b # Root /\ pprev[b] = tip

\* ActivateBestChainStep connects one block; it stops at pindexMostWork or with
\* more work than before.
ConnectTip ==
  /\ job.pc = "connect"
  /\ LET b == ToConnect
     IN /\ b \notin Unconnectable /\ ~HasConflictingChainLock(b)
        /\ tip' = b
        /\ scripts' = scripts \cup {b}
        /\ setBlockIndexCandidates' =
             PruneBlockIndexCandidates(setBlockIndexCandidates, b, nSequenceId)
        /\ job' = IF b = job.most \/ nChainWork[b] > nChainWork[job.old]
                  THEN AfterStep(b, job.most) ELSE job
  /\ UNCHANGED <<received, flags, precious, lock, owed, calls, slipped>>

\* ConnectBlock refuses the block (InvalidBlockFound); another branch is needed.
ConnectTipFails ==
  /\ job.pc = "connect"
  /\ LET b == ToConnect
     IN /\ b \in Unconnectable \/ HasConflictingChainLock(b)
        /\ failedValid' = failedValid \cup {b}
        /\ m_failed_blocks' = m_failed_blocks \cup {b}
        /\ setBlockIndexCandidates' = setBlockIndexCandidates \ {b}
        /\ job' = AfterStep(tip, None)
  /\ UNCHANGED <<tip, received, scripts, failedChild, conflict, precious, lock, owed, calls, slipped>>

\* Faulty variant: one round only.
OneRound ==
  /\ job.pc = "rest"
  /\ job' = NoJob
  /\ UNCHANGED <<tip, received, scripts, flags, setBlockIndexCandidates, precious, lock,
                 owed, calls, slipped>>

\* Faulty variant: a block that does not connect ends the loop.
NextRoundUnlessFailed ==
  /\ job.pc = "rest"
  /\ IF job.most \in {tip, None} THEN job' = NoJob ELSE Enter(job.most)
  /\ UNCHANGED <<tip, received, scripts, flags, setBlockIndexCandidates, precious, lock,
                 owed, calls, slipped>>

\* The end of the outer loop: done, or cs_main is taken again.
NextRound ==
  /\ job.pc = "rest"
  /\ IF job.most = tip THEN job' = NoJob ELSE Enter(job.most)
  /\ UNCHANGED <<tip, received, scripts, flags, setBlockIndexCandidates, precious, lock,
                 owed, calls, slipped>>

-----------------------------------------------------------------------------
(* invalidateblock: InvalidateBlock, which releases cs_main after each block. *)

InvalidateBlock(b) ==
  /\ MutexFree /\ b \in index \ {Root} /\ calls < MaxCalls
  /\ calls' = calls + 1
  /\ job' = [NoJob EXCEPT !.pc = "invalidate", !.pindex = b, !.mark = b,
                          !.byWork = NotWorse(pprev[b], failed) \ Anc[tip]]
  /\ UNCHANGED <<tip, received, scripts, flags, setBlockIndexCandidates, precious, lock, owed, slipped>>

InvalidateTip ==
  /\ job.pc = "invalidate" /\ InActiveChain(job.pindex)
  /\ tip' = pprev[tip]
  /\ LET child == pprev[tip] = job.mark /\ job.mark \in failedValid
         again == {c \in job.byWork : ~Worse(c, pprev[tip], nSequenceId)}
     IN /\ failedValid' = (failedValid \cup {tip}) \ (IF child THEN {job.mark} ELSE {})
        /\ failedChild' = failedChild \cup (IF child THEN {job.mark} ELSE {})
        /\ setBlockIndexCandidates' =
             (setBlockIndexCandidates \ {tip}) \cup {pprev[tip]} \cup again
        /\ job' = [job EXCEPT !.mark = tip, !.byWork = @ \ again]
  /\ UNCHANGED <<received, scripts, conflict, m_failed_blocks, precious, lock, owed, calls, slipped>>

\* Faulty variant: what arrived in between is not looked for.
InvalidateDoneNoRescan ==
  /\ job.pc = "invalidate" /\ ~InActiveChain(job.pindex)
  /\ failedValid' = failedValid \cup {job.mark}
  /\ m_failed_blocks' = m_failed_blocks \cup {job.mark}
  /\ setBlockIndexCandidates' = setBlockIndexCandidates \ {job.mark}
  /\ job' = NoJob
  /\ owed' = TRUE
  /\ UNCHANGED <<tip, received, scripts, failedChild, conflict, precious, lock, calls, slipped>>

\* The last part; the RPC then calls ActivateBestChain.
InvalidateDone ==
  /\ job.pc = "invalidate" /\ ~InActiveChain(job.pindex)
  /\ failedValid' = failedValid \cup {job.mark}
  /\ m_failed_blocks' = m_failed_blocks \cup {job.mark}
  /\ setBlockIndexCandidates' = (setBlockIndexCandidates \ {job.mark})
       \cup NotWorse(tip, failed \cup {job.mark} \cup conflict)
  /\ job' = NoJob
  /\ owed' = TRUE
  /\ UNCHANGED <<tip, received, scripts, failedChild, conflict, precious, lock, calls, slipped>>

-----------------------------------------------------------------------------
(* Calls that need cs_main only. *)

\* Faulty variant: a child keeps a mark whose cause is gone.
ResetWithoutChildren(b) ==
  /\ ~Held /\ b \in index /\ calls < MaxCalls
  /\ calls' = calls + 1
  /\ LET clear == (Descendants(b) \cup Anc[b]) \cap failed
     IN /\ failedValid' = failedValid \ clear
        /\ failedChild' = failedChild \ clear
        /\ m_failed_blocks' = m_failed_blocks \ clear
        /\ setBlockIndexCandidates' = setBlockIndexCandidates \cup
             {c \in clear : Usable(c, conflict) /\ Worse(tip, c, nSequenceId)}
  /\ owed' = TRUE
  /\ UNCHANGED <<tip, received, scripts, conflict, precious, lock, job, slipped>>

\* reconsiderblock: ResetBlockFailureFlags clears descendants and ancestors; a
\* child that was only marked for an ancestor's sake is now marked itself.
ResetBlockFailureFlags(b) ==
  /\ ~Held /\ b \in index /\ calls < MaxCalls
  /\ calls' = calls + 1
  /\ LET above == (Anc[b] \ {b}) \cap failed
         clear == (Descendants(b) \cap failed) \cup above
         orphan == {c \in failedChild \ clear : pprev[c] \in above}
     IN /\ failedValid' = (failedValid \ clear) \cup orphan
        /\ failedChild' = failedChild \ clear
        /\ m_failed_blocks' = (m_failed_blocks \ clear) \cup orphan
        /\ setBlockIndexCandidates' = (setBlockIndexCandidates \cup
             {c \in clear : Usable(c, conflict) /\ Worse(tip, c, nSequenceId)}) \ orphan
  /\ owed' = TRUE
  /\ UNCHANGED <<tip, received, scripts, conflict, precious, lock, job, slipped>>

\* preciousblock.  The counter starts again at -1 with a new amount of work, so the
\* tip itself may get a higher id than an earlier call gave it.
PreciousBlock(b) ==
  /\ ~Held /\ b \in index /\ calls < MaxCalls
  /\ nChainWork[b] >= nChainWork[tip]
  /\ calls' = calls + 1
  /\ LET id == IF nChainWork[tip] > nLastPreciousChainwork THEN -1 ELSE nBlockReverseSequenceId
         seq == [nSequenceId EXCEPT ![b] = id]
     IN /\ nLastPreciousChainwork' = nChainWork[tip]
        /\ nBlockReverseSequenceId' = id - 1
        /\ nSequenceId' = seq
        /\ setBlockIndexCandidates' =
             IF Usable(b, failed \cup conflict)
             THEN PruneBlockIndexCandidates(setBlockIndexCandidates \cup {b}, tip, seq)
             ELSE setBlockIndexCandidates \ {b}
        /\ demoted' = (demoted \/ (b = tip /\ id > nSequenceId[tip]))
  /\ owed' = TRUE
  /\ UNCHANGED <<tip, index, data, linked, unlinked, scripts, flags, lock, job, slipped>>

-----------------------------------------------------------------------------
(* ChainLocks. *)

\* CChainLocksHandler publishes a new winner (ChainLockWinner).
Lock(b) ==
  /\ ~Held /\ b \in scripts \ (failed \cup {Root})
  /\ lock = None \/ lock \in Anc[b] \ {b}
  /\ lock' = b
  /\ UNCHANGED <<tip, received, scripts, flags, setBlockIndexCandidates, precious, job,
                 owed, calls, slipped>>

\* What MarkConflictingBlock marks, called for the siblings of the winner's
\* branch above fork: them, and the active blocks it has to disconnect.
Conflicting(fork) ==
  (UNION {Siblings(b) \cap index : b \in Anc[lock] \ Anc[fork]}) \cup (Anc[tip] \ Anc[fork])

\* EnforceBestChainLock, which leaves the tip at the fork.
EnforceBestChainLock ==
  /\ MutexFree /\ lock \in data \ failed /\ lock \in scripts /\ ~InActiveChain(lock)
  /\ LET fork == Fork(lock, tip)
         marked == Conflicting(fork)
     IN /\ conflict' = conflict \cup marked
        /\ tip' = fork
        /\ setBlockIndexCandidates' =
             IF marked = {} THEN setBlockIndexCandidates
             ELSE (setBlockIndexCandidates \cup
                     {c \in index : Usable(c, failed \cup conflict)
                                    /\ ~Worse(c, fork, nSequenceId)}) \ marked
  /\ owed' = TRUE
  /\ UNCHANGED <<received, scripts, failedValid, failedChild, m_failed_blocks, precious,
                 lock, job, calls, slipped>>

-----------------------------------------------------------------------------
Activate ==
  \/ ActivateBestChain \/ FindMostWorkChain \/ NothingToDo \/ DisconnectToFork
  \/ ConnectTip \/ ConnectTipFails \/ NextRound

Next ==
  \/ \E b \in Blocks :
       \/ AcceptBlockHeader(b) \/ AcceptBlockHeaderRefused(b) \/ AcceptBlock(b)
       \/ InvalidateBlock(b) \/ ResetBlockFailureFlags(b) \/ PreciousBlock(b)
       \/ Lock(b)
  \/ Activate
  \/ InvalidateTip \/ InvalidateDone
  \/ EnforceBestChainLock

Spec == Init /\ [][Next]_vars

\* Who holds m_chainstate_mutex goes on, and every handler that owes a call of
\* ActivateBestChain or of EnforceBestChainLock makes it.
FairSpec ==
  /\ Spec
  /\ WF_vars(Activate \/ InvalidateTip \/ InvalidateDone)
  /\ WF_vars(EnforceBestChainLock)

-----------------------------------------------------------------------------
Jobs ==
  [pc : {"idle", "find", "step", "connect", "rest", "invalidate"},
   most : Blocks \cup {None}, start : Blocks \cup {None}, old : Blocks \cup {None},
   pindex : Blocks \cup {None}, mark : Blocks \cup {None}, byWork : SUBSET Blocks]

\* Every variable has its type.
TypeOK ==
  /\ tip \in index /\ index \subseteq Blocks /\ data \subseteq index
  /\ scripts \subseteq linked /\ linked \subseteq data /\ unlinked \subseteq data \ linked
  /\ failed \cup conflict \subseteq index
  /\ setBlockIndexCandidates \subseteq linked
  /\ nSequenceId \in [Blocks -> Int]
  /\ lock \in Blocks \cup {None}
  /\ job \in Jobs
  /\ owed \in BOOLEAN /\ calls \in 0..MaxCalls /\ slipped \in BOOLEAN /\ demoted \in BOOLEAN

\* CheckBlockIndex, for the candidates: whenever cs_main is free, a linked block
\* without invalid or conflicting ancestors that sorts at least as good as the
\* tip is in setBlockIndexCandidates; nothing worse is.  (InvalidateBlock may
\* miss blocks that arrive while it runs; it adds them at its end.  Not so once
\* the tip sorts worse than before: what was dropped for it may then be as good.)
CandidatesRight ==
  ~Held /\ ~slipped /\ ~demoted =>
    /\ \A b \in linked :
         Anc[b] \cap (failedValid \cup conflict) = {} /\ ~Worse(b, tip, nSequenceId)
           => b \in setBlockIndexCandidates \/ (job.pc = "invalidate" /\ b # tip)
    /\ \A b \in setBlockIndexCandidates : ~Worse(b, tip, nSequenceId)

\* CheckBlockIndex and AcceptBlockHeader, for the failure flags: a block is marked
\* only if it or an ancestor is marked for its own sake, and the blocks of
\* m_failed_blocks are; a block of the active chain is not marked at all.
FlagsRight ==
  /\ \A b \in failedChild : Anc[b] \cap failedValid # {}
  /\ m_failed_blocks \subseteq failedValid
  /\ Anc[tip] \subseteq scripts \ (failed \cup conflict)

\* The tip when cs_main was last free.
Seen == IF Held THEN job.start ELSE tip

\* A ChainLocked block that is active stays active, whatever blocks arrive and
\* whatever ActivateBestChain tries, unless the operator invalidates it.
LockedStaysActive ==
  [][lock # None /\ ~slipped /\ ~demoted /\ lock \in Anc[Seen] /\ job.pc # "invalidate"
       => lock \in Anc[Seen']]_vars

\* The node settles on its best chain: no linked block that it could connect is
\* better than the tip, except for one with the same work that was dropped before
\* preciousblock gave the tip a higher id.
Connectable(b) ==
  /\ b \in linked
  /\ Anc[b] \cap (failed \cup conflict \cup Unconnectable) = {}
  /\ \A a \in Anc[b] : ~HasConflictingChainLock(a)

SettlesOnBest ==
  <>[](\A b \in Blocks : Connectable(b) =>
         ~Worse(tip, b, nSequenceId) \/ (demoted /\ nChainWork[b] = nChainWork[tip]))

\* Linked blocks with no invalid or conflicting block in their chain, and that none
\* of them is better than t.
Clean == {b \in linked : Anc[b] \cap (failed \cup conflict) = {}}
NoneBetter(t) == \A b \in Clean : ~Worse(t, b, nSequenceId)

\* ActivateBestChain returns only when nothing better is left: while nobody is in it
\* or owes a call, every linked block that is better than the tip has an invalid or
\* conflicting block in its chain, whatever arrived or was marked while it had
\* released cs_main.
RestsOnBest == MutexFree /\ ~owed /\ ~slipped /\ ~demoted => NoneBetter(tip)

-----------------------------------------------------------------------------
(* The inductive form of FlagsRight. *)

\* Blocks are linked from the root on, and only linked blocks that are not below
\* the tip are candidates.
DataInv ==
  /\ index \subseteq Blocks /\ data \subseteq index /\ unlinked \subseteq data
  /\ tip \in linked /\ linked \subseteq data
  /\ \A b \in linked : Anc[b] \subseteq linked
  /\ setBlockIndexCandidates \subseteq linked
  /\ setBlockIndexCandidates \cap Anc[tip] \subseteq {tip}

\* The blocks between a marked block and the one it is marked for are all marked.
MarkInv ==
  /\ failed \subseteq Blocks
  /\ m_failed_blocks \subseteq failedValid
  /\ \A b \in failedChild :
       \E f \in failedValid \cap Anc[b] : Anc[b] \ Anc[f] \subseteq failedChild

\* The active chain is not marked, nor is the one ActivateBestChain works towards,
\* also while cs_main is free; InvalidateBlock marks nothing below its block.
ChainInv ==
  /\ job \in Jobs
  /\ Anc[tip] \subseteq scripts \ (failed \cup conflict)
  /\ job.pc = "find" => job.most = None
  /\ job.pc \in {"step", "connect"} => job.most # None
  /\ job.pc \in {"step", "connect", "rest"} /\ job.most # None =>
       job.most \in linked /\ Anc[job.most] \cap (failed \cup conflict) = {}
  /\ job.pc \in {"step", "rest"} => job.most \notin Anc[tip] \ {tip}
  /\ job.pc = "connect" => tip \in Anc[job.most] \ {job.most}
  /\ job.pc = "invalidate" =>
       /\ job.pindex \in Blocks \ {Root} /\ job.mark \in Blocks
       /\ job.pindex \in Anc[job.mark] /\ job.byWork \subseteq linked

FlagInv == DataInv /\ MarkInv /\ ChainInv

-----------------------------------------------------------------------------
(* The inductive forms of TypeOK, CandidatesRight and LockedStaysActive. *)

\* What TypeOK asks for beyond DataInv and ChainInv, and what it rests on: the
\* ancestors of a known header are known, and what was connected can be.
KindInv ==
  /\ \A b \in index : Anc[b] \subseteq index
  /\ scripts \subseteq linked \ Unconnectable /\ unlinked \cap linked = {}
  /\ failed \cup conflict \subseteq index
  /\ nSequenceId \in [Blocks -> Int]
  /\ nLastPreciousChainwork \in Nat /\ nBlockReverseSequenceId \in Int
  /\ lock \in Blocks \cup {None}
  /\ job.pc \in {"find", "step", "connect"} => job.start \in Blocks
  /\ job.pc = "rest" /\ job.most # None => tip \in Anc[job.most]
  /\ job.pc = "invalidate" => job.mark \in index
  /\ owed \in BOOLEAN /\ calls \in 0..MaxCalls /\ slipped \in BOOLEAN /\ demoted \in BOOLEAN

\* Linked blocks that are not marked themselves; an ancestor may be, until
\* FindMostWorkChain looks at the block.
Unmarked == linked \ (failed \cup conflict)

\* While cs_main is free: CandidatesRight, for all of these blocks.
FreeInv ==
  /\ \A b \in Unmarked : ~Worse(b, tip, nSequenceId) =>
       b \in setBlockIndexCandidates \/ (job.pc = "invalidate" /\ b # tip)
  /\ \A b \in setBlockIndexCandidates : ~Worse(b, tip, nSequenceId)

\* While ActivateBestChain holds cs_main it loses no candidate that is as good as
\* the tip it found and the blocks it connects; it lets cs_main go with a tip as
\* good as that one.
HeldInv ==
  /\ \A b \in Unmarked :
       /\ ~Worse(b, job.start, nSequenceId)
       /\ job.pc = "connect" => ~Worse(b, tip, nSequenceId)
       => b \in setBlockIndexCandidates
  /\ ~Worse(tip, job.start, nSequenceId) =>
       \A b \in setBlockIndexCandidates : ~Worse(b, tip, nSequenceId)
  /\ job.pc # "connect" => tip = job.start \/ Worse(tip, job.start, nSequenceId)

CandInv == ~slipped /\ ~demoted => IF Held THEN HeldInv ELSE FreeInv

\* A locked block that was active when ActivateBestChain took cs_main: the chain
\* it was in can be connected again, the tip never leaves the locked chain for
\* another branch, and the chain worked towards is no worse.
LockInv ==
  Held /\ ~slipped /\ ~demoted /\ lock # None /\ lock \in Anc[job.start] =>
    /\ Anc[job.start] \subseteq scripts \ (failed \cup conflict)
    /\ tip \in Anc[lock] \/ lock \in Anc[tip]
    /\ job.pc \in {"step", "connect"} => ~Worse(job.most, job.start, nSequenceId)

\* The inductive form of RestsOnBest: also the chain that ActivateBestChain works
\* towards has no better one, unless a call is owed by now, and no candidate is worse
\* than the tip it started from.
BestInv ==
  ~slipped /\ ~demoted =>
    /\ Held => \A c \in setBlockIndexCandidates : ~Worse(c, job.start, nSequenceId)
    /\ MutexFree /\ ~owed => NoneBetter(tip)
    /\ job.pc \in {"step", "connect", "rest"} /\ job.most # None /\ ~owed => NoneBetter(job.most)
=============================================================================
