----------------------------- MODULE ChainLocks -----------------------------
(***************************************************************************)
(* CChainLocksHandler (src/src/llmq/quorums_chainlocks.cpp) of one node:    *)
(* CLSIG messages and recovered signatures are processed by several threads *)
(* that hold cs_main and cs only for parts of ProcessNewChainLock, while    *)
(* the active chain moves, sporks change and other threads publish.         *)
(*                                                                         *)
(* A thread's record holds its place in the code and the values it read     *)
(* under an earlier lock.  A signature is the set of quorums whose          *)
(* recovered signatures it aggregates.                                      *)
(***************************************************************************)
EXTENDS BlockTree, Sequences, FiniteSets

CONSTANTS
  MessageThreads,           \* threads that process CLSIGs and recovered signatures
  SchedulerThreads,         \* cl-schdlr
  Quorums,                  \* (base block, mined block, commitment) identities
  BaseHeight,               \* height of a quorum's base block
  MinedIn,                  \* block that mined its commitment
  Superblocks,              \* blocks at a superblock height
  Signed,                   \* Signed[q]: the blocks quorum q produces a signature for
  PeerCLSigs,               \* the CLSIGs that peers send
  MemberOf,                 \* quorums this masternode is a valid member of
  fMasternodeMode,
  signingActiveQuorumCount, SIGN_HEIGHT_OFFSET,
  dkgInterval, dkgMiningWindowStart, dkgMiningWindowEnd,
  RECENT_CHAINLOCKS_MAX, ATTEMPT_START,
  InitTips, InitScripts,    \* where a behaviour may start
  Invalidatable,            \* blocks an operator may invalidate
  MaxSporkChanges           \* bound on changes of spork 19

Threads == MessageThreads \cup SchedulerThreads
Indexes == 1..signingActiveQuorumCount
CLSig == [block : Blocks, signers : SUBSET Indexes, sig : SUBSET Quorums]

ASSUME ChainLocksConstants ==
  /\ IsFiniteSet(Quorums) /\ None \notin Quorums
  /\ BaseHeight \in [Quorums -> Int]
  /\ MinedIn \in [Quorums -> Blocks]
  /\ Superblocks \subseteq Blocks
  /\ Signed \in [Quorums -> SUBSET Blocks]
  /\ PeerCLSigs \subseteq CLSig
  /\ MemberOf \subseteq Quorums
  /\ fMasternodeMode \in BOOLEAN
  /\ signingActiveQuorumCount \in Nat \ {0}
  /\ SIGN_HEIGHT_OFFSET \in Nat \ {0}
  /\ dkgInterval \in Nat \ {0}
  /\ dkgMiningWindowStart \in Nat
  /\ dkgMiningWindowEnd \in Nat /\ dkgMiningWindowStart <= dkgMiningWindowEnd
  /\ RECENT_CHAINLOCKS_MAX \in Nat \ {0}
  /\ ATTEMPT_START \in Int /\ ATTEMPT_START <= signingActiveQuorumCount
  /\ InitTips \subseteq Blocks /\ InitScripts \subseteq Blocks
  /\ \A b \in InitTips : Anc[b] \subseteq InitScripts
  /\ Invalidatable \subseteq Blocks \ {Root}
  /\ MaxSporkChanges \in Nat

\* A session has at most one commitment in a chain (SessionRules of
\* QuorumBlockProcessor): the quorums mined in one chain differ in their bases.
ASSUME OneQuorumPerSession ==
  \A b \in Blocks : \A p, q \in {r \in Quorums : MinedIn[r] \in Anc[b]} :
    BaseHeight[p] = BaseHeight[q] => p = q

\* Every member votes once per request id, and a request id names a height and
\* a quorum: a quorum has a signature for at most one block of a height.  A
\* signature that is not of its quorums ({} stands for one) verifies nowhere.
ASSUME OneSignaturePerRequest ==
  /\ \A q \in Quorums : \A a, b \in Signed[q] : nHeight[a] = nHeight[b] => a = b
  /\ \A c \in PeerCLSigs : \A q \in c.sig : c.block \in Signed[q]

VARIABLES
  \* the active chain and the flags of the block index
  tip, validScripts, failed, conflict, governance,
  \* spork 19, and how often it changed
  spork, sporkChanges,
  \* CChainLocksHandler, guarded by cs (isEnabled always equals isEnforced)
  isEnforced, bestChainLockWithKnownBlock, bestChainLockBlockIndex,
  bestChainLockCandidates, bestChainLockShares, recentChainLocks,
  mapSignedRequestIds, seenChainLocks, sigChecked,
  \* static SigningState signingState
  attempt, lastSigned,
  \* CSigningManager, as far as the handler uses it
  recovered, voted,
  \* the call each thread is in
  call

chainVars == <<tip, validScripts, failed, conflict, governance>>
sporkVars == <<spork, sporkChanges>>
bestVars == <<bestChainLockWithKnownBlock, bestChainLockBlockIndex,
              bestChainLockCandidates, bestChainLockShares>>
winnerVars == <<bestVars, recentChainLocks>>
cacheVars == <<seenChainLocks, sigChecked>>
signVars == <<mapSignedRequestIds, attempt, lastSigned, recovered, voted>>
shared == <<chainVars, sporkVars, isEnforced, winnerVars, cacheVars, signVars>>
vars == <<shared, call>>

-----------------------------------------------------------------------------
(* CLSIG objects. *)

NoSig == [block |-> None, signers |-> {}, sig |-> {}]
threshold == signingActiveQuorumCount \div 2 + 1
HeightOf(clsig) == IF clsig.block = None THEN -1 ELSE nHeight[clsig.block]

\* A map from heights to CLSIGs is the set of its values.
AtHeight(clsigs, h) == {c \in clsigs : HeightOf(c) = h}
Put(clsigs, c) == (clsigs \ AtHeight(clsigs, HeightOf(c))) \cup {c}

-----------------------------------------------------------------------------
(* The active chain and the quorums, as the handler reads them. *)

InActiveChain(b) == b \in Anc[tip]
ActiveChain(h) == GetAncestor(tip, h)

\* The height whose block may be signed now; % of C++ rounds towards zero.
SignHeight ==
  LET h == nHeight[tip] - SIGN_HEIGHT_OFFSET
  IN IF h >= 0 THEN h - (h % SIGN_HEIGHT_OFFSET) ELSE h + ((-h) % SIGN_HEIGHT_OFFSET)

\* Faulty variant: a target may fork off anywhere.
SharesAnchorUnchecked(b) == TRUE

\* The block one sign window below b is on the active chain (below Root the
\* two chains are one).
SharesAnchor(b) ==
  LET anchor_height == nHeight[b] - SIGN_HEIGHT_OFFSET
  IN anchor_height > nHeight[Root] =>
       ActiveChain(anchor_height) \in Anc[b]

\* CQuorumManager::ScanQuorums: the newest quorums mined in the chain of b.
\* The commitment database knows the commitments mined in the active chain.
ScanQuorums(b) ==
  LET mined == {q \in Quorums : MinedIn[q] \in Anc[b] \cap Anc[tip]}
      rank(q) == Cardinality({p \in mined : BaseHeight[p] >= BaseHeight[q]})
      found == {q \in mined : rank(q) <= signingActiveQuorumCount}
  IN [i \in 1..Cardinality(found) |-> CHOOSE q \in found : rank(q) = i]

\* No quorum's commitment may be mined between the fork and the target.
IsAlternativeCommitmentWindowStable(height, common_height) ==
  \A base \in {b \in 0..height : b % dkgInterval = 0} :
    LET end == base + dkgMiningWindowEnd
    IN ~ /\ end > common_height
         /\ height >= base + dkgMiningWindowStart
         /\ common_height < (IF height < end THEN height ELSE end)

\* BuildQuorumContext after its look at the active chain: `active' and
\* `common' were read under cs_main, the quorums are read without it.
StableContext(b, active, common, quorums) ==
  /\ Len(quorums) = signingActiveQuorumCount
  /\ active # None /\ active # b => ScanQuorums(active) = quorums
  /\ active # b => IsAlternativeCommitmentWindowStable(nHeight[b], common)

HasChainLockTargetDataAndValidity(b) == b \in validScripts /\ b \notin failed

\* Faulty variant: the flag a superblock gets in ConnectBlock is not looked at.
IsCandidateStillAdmissibleUngoverned(b) ==
  /\ HasChainLockTargetDataAndValidity(b)
  /\ bestChainLockWithKnownBlock # NoSig =>
       /\ nHeight[b] > HeightOf(bestChainLockWithKnownBlock)
       /\ bestChainLockWithKnownBlock.block \in Anc[b]
  /\ SharesAnchor(b)

IsCandidateStillAdmissible(b) ==
  /\ HasChainLockTargetDataAndValidity(b)
  /\ b \in Superblocks => b \in governance
  /\ bestChainLockWithKnownBlock # NoSig =>
       /\ nHeight[b] > HeightOf(bestChainLockWithKnownBlock)
       /\ bestChainLockWithKnownBlock.block \in Anc[b]
  /\ SharesAnchor(b)

HasRequiredGovernanceProvenance(b) ==
  LET committed == IF bestChainLockWithKnownBlock = NoSig
                   THEN nHeight[b] - SIGN_HEIGHT_OFFSET - 1
                   ELSE HeightOf(bestChainLockWithKnownBlock)
  IN \A a \in Anc[b] : nHeight[a] > committed /\ a \in Superblocks => a \in governance

InternalHasConflictingChainLock(b) ==
  LET best == bestChainLockBlockIndex
  IN /\ isEnforced
     /\ best # None
     /\ nHeight[b] <= nHeight[best]
     /\ b \notin Anc[best]

-----------------------------------------------------------------------------
(* Verification of CLSIGs against a quorum vector. *)

\* The position VerifyChainLockShare checks the signature at: the quorum of the
\* request id (HandleNewRecoveredSig) or the one signer bit (peers).
SharePosition(c, id, quorums) ==
  {i \in DOMAIN quorums : /\ id = None \/ quorums[i] = id
                          /\ c.signers = {} \/ i \in c.signers}

VerifyChainLockShare(c, id, quorums) ==
  /\ Cardinality(c.signers) <= 1
  /\ SharePosition(c, id, quorums) # {}
  /\ \/ <<c, quorums>> \in sigChecked
     \/ \E i \in SharePosition(c, id, quorums) : c.sig = {quorums[i]}

VerifyAggregatedChainLock(c, quorums) ==
  /\ Cardinality(c.signers) >= threshold
  /\ \/ <<c, quorums>> \in sigChecked
     \/ c.sig = {quorums[i] : i \in c.signers}

-----------------------------------------------------------------------------
(* The winner slot. *)

AddRecentChainLock(c) ==
  LET all == Put(recentChainLocks, c)
  IN {d \in all : Cardinality({e \in all : HeightOf(e) >= HeightOf(d)})
                     <= RECENT_CHAINLOCKS_MAX}

\* Faulty variant: one share short of a majority is enough.
AggregateOneShort(b, quorums, shares) ==
  LET usable == {i \in DOMAIN quorums :
                   \E s \in shares : s = [block |-> b, quorum |-> quorums[i], index |-> i]}
  IN IF Cardinality(usable) >= threshold - 1
     THEN {[block |-> b, signers |-> usable, sig |-> {quorums[i] : i \in usable}]}
     ELSE {}

\* The aggregate of the first `threshold' shares for b, in the quorums' order.
Aggregate(b, quorums, shares) ==
  LET usable == {i \in DOMAIN quorums :
                   \E s \in shares : s = [block |-> b, quorum |-> quorums[i], index |-> i]}
      first == {i \in usable : Cardinality({j \in usable : j <= i}) <= threshold}
  IN IF Cardinality(usable) >= threshold
     THEN {[block |-> b, signers |-> first, sig |-> {quorums[i] : i \in first}]}
     ELSE {}

\* The ChainLock that becomes the best one, if any does.
NewBest(b, quorums, candidates, shares) ==
  LET known == AtHeight(candidates, nHeight[b])
  IN IF nHeight[b] <= HeightOf(bestChainLockWithKnownBlock) THEN {}
     ELSE IF known # {} THEN {c \in known : c.block = b}
     ELSE Aggregate(b, quorums, shares)

TryUpdateBestChainLock(b, quorums, candidates, shares) ==
  /\ bestChainLockShares' = shares
  /\ \/ \E c \in NewBest(b, quorums, candidates, shares) :
          /\ bestChainLockWithKnownBlock' = c
          /\ bestChainLockBlockIndex' = b
          /\ bestChainLockCandidates' = Put(candidates, c)
          /\ recentChainLocks' = AddRecentChainLock(c)
     \/ /\ NewBest(b, quorums, candidates, shares) = {}
        /\ bestChainLockCandidates' = candidates
        /\ UNCHANGED <<bestChainLockWithKnownBlock, bestChainLockBlockIndex,
                       recentChainLocks>>

-----------------------------------------------------------------------------
(* Threads.  pc names the next piece of code that runs under one lock. *)

Idle == [pc |-> "idle", next |-> "idle", job |-> FALSE, todo |-> {},
         clsig |-> NoSig, id |-> None, best |-> None,
         active |-> None, common |-> 0, quorums |-> <<>>,
         target |-> None, alt |-> None, altActive |-> None, shares |-> {}, i |-> 0]

At(t, pc) == call[t].pc = pc
Set(t, record) == call' = [call EXCEPT ![t] = record]
Goto(t, pc) == Set(t, [call[t] EXCEPT !.pc = pc])
Local(t, record) == Set(t, record) /\ UNCHANGED shared
Jump(t, pc) == Goto(t, pc) /\ UNCHANGED shared

\* ProcessNewChainLock returns: to the loop of
\* ProcessPendingRecoveredChainLockSigs, or out of the handler.
Returned(t) ==
  IF call[t].job
  THEN [Idle EXCEPT !.pc = "Pending", !.job = TRUE, !.todo = call[t].todo]
  ELSE Idle
Return(t) == Set(t, Returned(t)) /\ UNCHANGED shared

\* CheckActiveState reads the spork before it takes cs.
CheckActiveState(t) ==
  /\ At(t, "CheckActiveState")
  /\ Jump(t, IF spork THEN "SporkActive" ELSE "SporkInactive")

InSetActiveState(t) == At(t, "SporkActive") \/ At(t, "SporkInactive")

\* Faulty variant: candidates outlive the winner they were stored with.
SetActiveStateKeepCandidates(t) ==
  /\ InSetActiveState(t)
  /\ isEnforced' = At(t, "SporkActive")
  /\ IF ~isEnforced /\ At(t, "SporkActive")
     THEN /\ bestChainLockWithKnownBlock' = NoSig
          /\ bestChainLockBlockIndex' = None
          /\ bestChainLockShares' = {}
          /\ UNCHANGED bestChainLockCandidates
     ELSE UNCHANGED bestVars
  /\ Set(t, [call[t] EXCEPT !.pc = call[t].next, !.next = "idle"])
  /\ UNCHANGED <<chainVars, sporkVars, recentChainLocks, cacheVars, signVars>>

\* Faulty variant: the winner is dropped when enforcement ends.
SetActiveStateDropAtEnd(t) ==
  /\ InSetActiveState(t)
  /\ isEnforced' = At(t, "SporkActive")
  /\ IF isEnforced # At(t, "SporkActive")
     THEN /\ bestChainLockWithKnownBlock' = NoSig
          /\ bestChainLockBlockIndex' = None
          /\ bestChainLockCandidates' = {}
          /\ bestChainLockShares' = {}
     ELSE UNCHANGED bestVars
  /\ Set(t, [call[t] EXCEPT !.pc = call[t].next, !.next = "idle"])
  /\ UNCHANGED <<chainVars, sporkVars, recentChainLocks, cacheVars, signVars>>

SetActiveState(t) ==
  /\ InSetActiveState(t)
  /\ isEnforced' = At(t, "SporkActive")
  /\ IF ~isEnforced /\ At(t, "SporkActive")
     THEN /\ bestChainLockWithKnownBlock' = NoSig
          /\ bestChainLockBlockIndex' = None
          /\ bestChainLockCandidates' = {}
          /\ bestChainLockShares' = {}
     ELSE UNCHANGED bestVars
  /\ Set(t, [call[t] EXCEPT !.pc = call[t].next, !.next = "idle"])
  /\ UNCHANGED <<chainVars, sporkVars, recentChainLocks, cacheVars, signVars>>

-----------------------------------------------------------------------------
(* ProcessNewChainLock. *)

EnterProcessNewChainLock(t, record, c, id) ==
  Set(t, [record EXCEPT !.pc = "CheckActiveState", !.next = "CheckHeight",
                        !.clsig = c, !.id = id])

ProcessMessage(t) ==
  /\ At(t, "idle")
  /\ spork
  /\ \E c \in PeerCLSigs : EnterProcessNewChainLock(t, Idle, c, None)
  /\ UNCHANGED shared

CheckHeight(t) ==
  LET c == call[t].clsig
      ok == /\ c \notin seenChainLocks
            /\ nHeight[c.block] > HeightOf(bestChainLockWithKnownBlock)
            /\ nHeight[c.block] = SignHeight
  IN /\ At(t, "CheckHeight")
     /\ \/ ok /\ Jump(t, "ReadBestIndex")
        \/ ~ok /\ Return(t)

ReadBestIndex(t) ==
  /\ At(t, "ReadBestIndex")
  /\ Local(t, [call[t] EXCEPT !.pc = "CheckTarget", !.best = bestChainLockBlockIndex])

\* The best ChainLock that was read is active and fully valid.
Confirmed(best) == best # None => InActiveChain(best) /\ best \in validScripts \ failed

CheckTarget(t) ==
  LET b == call[t].clsig.block
      ok == /\ nHeight[b] % SIGN_HEIGHT_OFFSET = 0
            /\ SharesAnchor(b)
            /\ HasChainLockTargetDataAndValidity(b)
            /\ Confirmed(call[t].best)
  IN /\ At(t, "CheckTarget")
     /\ \/ ok /\ Local(t, [call[t] EXCEPT !.pc = "CheckConflict", !.best = None])
        \/ ~ok /\ Return(t)

CheckConflict(t) ==
  LET c == call[t].clsig
      ok == /\ ~InternalHasConflictingChainLock(c.block)
            /\ call[t].id = None => c.signers # {}
  IN /\ At(t, "CheckConflict")
     /\ \/ ok /\ Jump(t, "VerificationContext")
        \/ ~ok /\ Return(t)

\* BuildQuorumContext, its part under cs_main.
Snapshot(record, b) ==
  [record EXCEPT !.active = ActiveChain(nHeight[b]), !.common = nHeight[Fork(b, tip)]]

VerificationContext(t) ==
  /\ At(t, "VerificationContext")
  /\ Local(t, [Snapshot(call[t], call[t].clsig.block) EXCEPT !.pc = "Verify"])

IsShare(record) == record.id # None \/ Cardinality(record.clsig.signers) = 1

\* The rest of BuildQuorumContext, and the signature check.
Verify(t) ==
  LET r == call[t]
      quorums == ScanQuorums(r.clsig.block)
      ok == /\ StableContext(r.clsig.block, r.active, r.common, quorums)
            /\ IF IsShare(r) THEN VerifyChainLockShare(r.clsig, r.id, quorums)
                             ELSE VerifyAggregatedChainLock(r.clsig, quorums)
  IN /\ At(t, "Verify")
     /\ \/ /\ ok
           /\ sigChecked' = sigChecked \cup {<<r.clsig, quorums>>}
           /\ Set(t, [r EXCEPT !.pc = "PublicationContext", !.quorums = quorums])
           /\ UNCHANGED <<chainVars, sporkVars, isEnforced, winnerVars, seenChainLocks, signVars>>
        \/ ~ok /\ Return(t)

PublicationContext(t) ==
  /\ At(t, "PublicationContext")
  /\ Local(t, [Snapshot(call[t], call[t].clsig.block) EXCEPT !.pc = "SameContext"])

SameContext(t) ==
  LET r == call[t]
      quorums == ScanQuorums(r.clsig.block)
      ok == /\ StableContext(r.clsig.block, r.active, r.common, quorums)
            /\ quorums = r.quorums
  IN /\ At(t, "SameContext")
     /\ \/ ok /\ Local(t, [r EXCEPT !.pc = "Publish", !.common = 0])
        \/ ~ok /\ Return(t)

\* Faulty variant: the winner and the anchor are not looked at again after the
\* verification.
StillPublishableContextOnly(r) == ActiveChain(nHeight[r.clsig.block]) = r.active

StillPublishable(r) ==
  /\ ActiveChain(nHeight[r.clsig.block]) = r.active
  /\ IsCandidateStillAdmissible(r.clsig.block)

\* A share takes its quorum's slot of the height unless that is taken.
WithShare(r) ==
  LET i == CHOOSE i \in SharePosition(r.clsig, r.id, r.quorums) : TRUE
      share == [block |-> r.clsig.block, quorum |-> r.quorums[i], index |-> i]
      taken == \E s \in bestChainLockShares :
                 s.quorum = share.quorum /\ nHeight[s.block] = nHeight[share.block]
  IN IF taken THEN bestChainLockShares ELSE bestChainLockShares \cup {share}

PublishShare(t) ==
  LET r == call[t]
      b == r.clsig.block
  IN /\ At(t, "Publish")
     /\ IsShare(r)
     /\ StillPublishable(r)
     /\ TryUpdateBestChainLock(b, r.quorums, bestChainLockCandidates, WithShare(r))
     /\ Set(t, [r EXCEPT !.active = None, !.quorums = <<>>,
                         !.pc = IF bestChainLockWithKnownBlock' # bestChainLockWithKnownBlock
                                THEN "Match" ELSE "Cleanup"])
     /\ UNCHANGED <<chainVars, sporkVars, isEnforced, cacheVars, signVars>>

PublishAggregate(t) ==
  LET r == call[t]
  IN /\ At(t, "Publish")
     /\ ~IsShare(r)
     /\ StillPublishable(r)
     /\ TryUpdateBestChainLock(r.clsig.block, <<>>,
                               Put(bestChainLockCandidates, r.clsig), bestChainLockShares)
     /\ Set(t, [r EXCEPT !.active = None, !.quorums = <<>>, !.pc = "Match"])
     /\ UNCHANGED <<chainVars, sporkVars, isEnforced, cacheVars, signVars>>

StaleAfterVerify(t) ==
  /\ At(t, "Publish")
  /\ ~StillPublishable(call[t])
  /\ Return(t)

Match(t) ==
  /\ At(t, "Match")
  /\ \/ /\ bestChainLockBlockIndex = call[t].clsig.block
        /\ Local(t, [call[t] EXCEPT !.pc = "CheckActiveState", !.next = "ReadBest"])
     \/ /\ bestChainLockBlockIndex # call[t].clsig.block
        /\ Jump(t, "Seen")

InProcessNewChainLock(r) == r.clsig # NoSig

\* The end of ProcessNewChainLock and the scheduled job both read the winner
\* under cs and enforce it later.
ReadBest(t) ==
  /\ At(t, "ReadBest")
  /\ \/ /\ isEnforced
        /\ Local(t, [call[t] EXCEPT !.pc = "Enforce", !.best = bestChainLockBlockIndex])
     \/ /\ ~isEnforced
        /\ IF InProcessNewChainLock(call[t]) THEN Jump(t, "Seen") ELSE Local(t, Idle)

AfterEnforce(r, ok) ==
  IF InProcessNewChainLock(r) THEN [r EXCEPT !.pc = "Seen", !.best = None]
  ELSE IF ok THEN [r EXCEPT !.pc = "Cleanup", !.best = None]
  ELSE Idle

Enforceable(b) ==
  /\ HasChainLockTargetDataAndValidity(b)
  /\ b \in Superblocks => b \in governance

\* Faulty variant: the conflicting blocks are marked but stay connected.
EnforceBestChainLockMarkOnly(t) ==
  LET b == call[t].best
      inactive == Anc[b] \ Anc[tip]
  IN /\ At(t, "Enforce")
     /\ \/ /\ b # None
           /\ Enforceable(b)
           /\ Set(t, AfterEnforce(call[t], TRUE))
           /\ conflict' = conflict \cup UNION {Siblings(a) : a \in inactive}
           /\ UNCHANGED <<tip, validScripts, failed, governance, sporkVars, isEnforced,
                          winnerVars, cacheVars, signVars>>
        \/ /\ b = None
           /\ Local(t, AfterEnforce(call[t], TRUE))
        \/ /\ b # None
           /\ ~Enforceable(b)
           /\ Local(t, AfterEnforce(call[t], FALSE))

\* EnforceBlock and the MarkConflictingBlock calls it makes, under cs_main: the
\* siblings of every inactive block of the locked chain are in conflict, and so
\* is what has to be disconnected.  ActivateBestChain then runs as the
\* ConnectTip steps below.
EnforceBestChainLock(t) ==
  LET b == call[t].best
      inactive == Anc[b] \ Anc[tip]
      fork == Fork(b, tip)
  IN /\ At(t, "Enforce")
     /\ \/ /\ b # None
           /\ Enforceable(b)
           /\ Set(t, AfterEnforce(call[t], TRUE))
           /\ \/ /\ inactive = {}
                 /\ UNCHANGED <<tip, conflict>>
              \/ /\ inactive # {}
                 /\ tip' = fork
                 /\ conflict' = conflict \cup (Anc[tip] \ Anc[fork])
                                        \cup UNION {Siblings(a) : a \in inactive}
           /\ UNCHANGED <<validScripts, failed, governance, sporkVars, isEnforced,
                          winnerVars, cacheVars, signVars>>
        \/ /\ b = None
           /\ Local(t, AfterEnforce(call[t], TRUE))
        \/ /\ b # None
           /\ ~Enforceable(b)
           /\ Local(t, AfterEnforce(call[t], FALSE))

Seen(t) ==
  /\ At(t, "Seen")
  /\ seenChainLocks' = seenChainLocks \cup {call[t].clsig}
  /\ Set(t, IF call[t].id = None THEN Returned(t) ELSE [call[t] EXCEPT !.pc = "Erase"])
  /\ UNCHANGED <<chainVars, sporkVars, isEnforced, winnerVars, sigChecked, signVars>>

-----------------------------------------------------------------------------
(* Recovered signatures and the scheduled job.  A request id is a height and a *)
(* quorum; mapSignedRequestIds is a set of <<quorum, block>>.                  *)

IdsAt(pairs, q, h) == {p \in pairs : p[1] = q /\ nHeight[p[2]] = h}

\* HandleNewRecoveredSig goes on to ProcessNewChainLock.
Handled(q, b) ==
  /\ isEnforced
  /\ <<q, b>> \in mapSignedRequestIds
  /\ nHeight[b] > HeightOf(bestChainLockWithKnownBlock)

RecoveredCLSig(q, b) == [block |-> b, signers |-> {}, sig |-> {q}]

\* CSigningManager::ProcessRecoveredSig: the first valid one of an id is stored
\* and given to the listeners (a node that signs nothing ignores all of them).
ProcessRecoveredSig(t, q, b) ==
  /\ At(t, "idle")
  /\ fMasternodeMode
  /\ b \in Signed[q]
  /\ b \in validScripts \ failed
  /\ nHeight[b] % SIGN_HEIGHT_OFFSET = 0
  /\ IdsAt(recovered, q, nHeight[b]) = {}
  /\ recovered' = recovered \cup {<<q, b>>}
  /\ \/ Handled(q, b) /\ EnterProcessNewChainLock(t, Idle, RecoveredCLSig(q, b), q)
     \/ ~Handled(q, b) /\ UNCHANGED call
  /\ UNCHANGED <<chainVars, sporkVars, isEnforced, winnerVars, cacheVars,
                 mapSignedRequestIds, attempt, lastSigned, voted>>

EraseSignedRequest(t) ==
  LET r == call[t]
  IN /\ At(t, "Erase")
     /\ mapSignedRequestIds' =
          mapSignedRequestIds \ IdsAt(mapSignedRequestIds, r.id, nHeight[r.clsig.block])
     /\ Set(t, Returned(t))
     /\ UNCHANGED <<chainVars, sporkVars, isEnforced, winnerVars, cacheVars,
                    attempt, lastSigned, recovered, voted>>

\* The job UpdatedBlockTip schedules, and the periodic one of Start (which does
\* not look at pending recovered signatures).
ScheduledJob(t) ==
  /\ At(t, "idle")
  /\ \E next \in {"PendingIds", "ReadBest"} :
       Local(t, [Idle EXCEPT !.pc = "CheckActiveState", !.next = next])

PendingIds(t) ==
  /\ At(t, "PendingIds")
  /\ Local(t, [call[t] EXCEPT !.pc = "Pending", !.job = TRUE,
                              !.todo = {<<p[1], nHeight[p[2]]>> : p \in mapSignedRequestIds}])

ProcessPendingRecoveredChainLockSigs(t) ==
  /\ At(t, "Pending")
  /\ \/ \E id \in call[t].todo :
          LET rest == [call[t] EXCEPT !.todo = @ \ {id}]
              found == IdsAt(recovered, id[1], id[2])
          IN \/ \E p \in found : /\ Handled(p[1], p[2])
                                 /\ EnterProcessNewChainLock(t, rest,
                                       RecoveredCLSig(p[1], p[2]), p[1])
             \/ /\ \A p \in found : ~Handled(p[1], p[2])
                /\ Set(t, rest)
     \/ /\ call[t].todo = {}
        /\ Set(t, [Idle EXCEPT !.pc = "ReadBest"])
  /\ UNCHANGED shared

\* A header that arrives after its ChainLock.
NotifyHeaderTip(b) ==
  /\ \E c \in bestChainLockCandidates : c.block = b
  /\ TryUpdateBestChainLock(b, <<>>, bestChainLockCandidates, bestChainLockShares)
  /\ UNCHANGED <<chainVars, sporkVars, isEnforced, cacheVars, signVars, call>>

-----------------------------------------------------------------------------
(* TrySignChainTip. *)

SignReturned(r) ==
  IF InProcessNewChainLock(r)
  THEN [Idle EXCEPT !.pc = "Match", !.clsig = r.clsig, !.id = r.id,
                    !.job = r.job, !.todo = r.todo]
  ELSE Idle
SignReturn(t) == Set(t, SignReturned(call[t])) /\ UNCHANGED shared

\* A map keeps what is not below the best height, if it has an entry at it.
Pruned(entries, Height(_)) ==
  LET h == nHeight[bestChainLockBlockIndex]
  IN IF \E e \in entries : Height(e) = h
     THEN {e \in entries : Height(e) >= h}
     ELSE entries

AfterCleanup(r) == IF fMasternodeMode THEN [r EXCEPT !.pc = "SignTarget"] ELSE SignReturned(r)

\* At most once in CLEANUP_INTERVAL; entries of the caches expire after a day,
\* here all of them or none.
Cleanup(t) ==
  /\ At(t, "Cleanup")
  /\ Set(t, AfterCleanup(call[t]))
  /\ \/ UNCHANGED shared
     \/ /\ \/ seenChainLocks' = {} /\ sigChecked' = {}
           \/ UNCHANGED cacheVars
        /\ IF bestChainLockBlockIndex = None
           THEN UNCHANGED <<bestChainLockCandidates, bestChainLockShares, recentChainLocks>>
           ELSE /\ bestChainLockCandidates' = Pruned(bestChainLockCandidates, HeightOf)
                /\ bestChainLockShares' = Pruned(bestChainLockShares, HeightOf)
                /\ recentChainLocks' =
                     {c \in recentChainLocks :
                        HeightOf(c) >= nHeight[bestChainLockBlockIndex] - RECENT_CHAINLOCKS_MAX}
        /\ UNCHANGED <<chainVars, sporkVars, isEnforced, bestChainLockWithKnownBlock,
                       bestChainLockBlockIndex, signVars>>

SignTarget(t) ==
  LET b == ActiveChain(SignHeight)
      ok == b # None /\ b # Root /\ b \in validScripts \ failed
  IN /\ At(t, "SignTarget")
     /\ \/ ok /\ Local(t, [call[t] EXCEPT !.pc = "SignReadBest", !.target = b])
        \/ ~ok /\ SignReturn(t)

SignReadBest(t) ==
  /\ At(t, "SignReadBest")
  /\ Local(t, [call[t] EXCEPT !.pc = "SignConfirmed", !.best = bestChainLockBlockIndex])

SignConfirmed(t) ==
  /\ At(t, "SignConfirmed")
  /\ \/ Confirmed(call[t].best) /\ Local(t, [call[t] EXCEPT !.pc = "SignCheck", !.best = None])
     \/ ~Confirmed(call[t].best) /\ SignReturn(t)

\* Faulty variant: a new target starts before ATTEMPT_START.
SetLastSignedEarlier(b) == lastSigned' = b /\ attempt' = ATTEMPT_START - 1

\* SigningState::SetLastSigned
SetLastSigned(b) == lastSigned' = b /\ attempt' = ATTEMPT_START

SignCheck(t) ==
  LET b == call[t].target
      better == HeightOf(bestChainLockWithKnownBlock) >= nHeight[b]
      skip == ~isEnforced \/ lastSigned = b
  IN /\ At(t, "SignCheck")
     /\ \/ /\ skip \/ (~better /\ InternalHasConflictingChainLock(b))
           /\ SignReturn(t)
        \/ /\ ~skip /\ better
           /\ SetLastSigned(bestChainLockWithKnownBlock.block)
           /\ Set(t, SignReturned(call[t]))
           /\ UNCHANGED <<chainVars, sporkVars, isEnforced, winnerVars, cacheVars,
                          mapSignedRequestIds, recovered, voted>>
        \/ /\ ~skip /\ ~better /\ ~InternalHasConflictingChainLock(b)
           /\ mapSignedRequestIds' = {}
           /\ Goto(t, "SigningContext")
           /\ UNCHANGED <<chainVars, sporkVars, isEnforced, winnerVars, cacheVars,
                          attempt, lastSigned, recovered, voted>>

SigningContext(t) ==
  /\ At(t, "SigningContext")
  /\ Local(t, [Snapshot(call[t], call[t].target) EXCEPT !.pc = "SigningQuorums"])

SigningQuorums(t) ==
  LET r == call[t]
      quorums == ScanQuorums(r.target)
      ok == StableContext(r.target, r.active, r.common, quorums)
  IN /\ At(t, "SigningQuorums")
     /\ \/ ok /\ Local(t, [r EXCEPT !.pc = "SignShares", !.common = 0, !.quorums = quorums])
        \/ ~ok /\ SignReturn(t)

\* The shares of the height, and BumpAttempt: the code compares attempts with
\* numbers up to the number of quorums only, so they stop there.
SignShares(t) ==
  LET r == call[t]
  IN /\ At(t, "SignShares")
     /\ attempt' = IF attempt < Len(r.quorums) THEN attempt + 1 ELSE attempt
     /\ Set(t, [r EXCEPT !.pc = "SignLoop",
                         !.shares = {s \in bestChainLockShares : nHeight[s.block] = nHeight[r.target]}])
     /\ UNCHANGED <<chainVars, sporkVars, isEnforced, winnerVars, cacheVars,
                    mapSignedRequestIds, lastSigned, recovered, voted>>

\* Positions count from 1 here and from 0 in the code.
Position(r, i) == ((nHeight[r.target] + i) % Len(r.quorums)) + 1
After(p, n) == (p % n) + 1
ShareOf(r, p) == {s \in r.shares : s.quorum = r.quorums[p]}

\* The share of the quorum after p, or with `deeper' of the next one that has a
\* share, p itself included.
PreviousShare(r, p, deeper) ==
  LET n == Len(r.quorums)
      distance(k) == (k + n - After(p, n)) % n
      have == {k \in 1..n : ShareOf(r, k) # {}}
      nearest == {k \in have : \A m \in have : distance(k) <= distance(m)}
  IN IF deeper THEN UNION {ShareOf(r, k) : k \in nearest} ELSE ShareOf(r, After(p, n))

SignLoop(t) ==
  LET r == call[t]
      p == Position(r, r.i)
      member == r.quorums[p] \in MemberOf
      late == attempt > r.i
      previous == IF r.i = 0 THEN {} ELSE PreviousShare(r, p, late)
      other == {s \in previous : s.block # r.target}
  IN /\ At(t, "SignLoop")
     /\ r.i < Len(r.quorums)
     /\ \/ ~member /\ Local(t, [r EXCEPT !.i = @ + 1])
        \/ /\ member /\ r.i > 0 /\ previous = {} /\ ~late
           /\ SignReturn(t)
        \/ /\ member /\ other = {}
           /\ r.i = 0 \/ previous # {} \/ late
           /\ Jump(t, "SignVote")
        \/ /\ member
           /\ \E s \in other : Local(t, [r EXCEPT !.pc = "SignAlternative", !.alt = s.block])

\* SelectAlternativeSigningTarget: both targets have one quorum base block.
SelectAlternativeSigningTarget(current, alternative) ==
  LET base == nHeight[current] - (nHeight[current] % dkgInterval)
  IN /\ nHeight[alternative] = nHeight[current]
     /\ HasChainLockTargetDataAndValidity(alternative)
     /\ base > nHeight[Root] =>
          GetAncestor(current, base) = GetAncestor(alternative, base)

\* Too early to go on with the node's own target.
KeepTarget(t) ==
  IF attempt <= call[t].i
  THEN SignReturn(t)
  ELSE Local(t, [call[t] EXCEPT !.pc = "SignVote", !.alt = None, !.altActive = None, !.common = 0])

SignAlternative(t) ==
  LET r == call[t]
      ok == SelectAlternativeSigningTarget(r.target, r.alt)
  IN /\ At(t, "SignAlternative")
     /\ \/ /\ ok
           /\ Local(t, [r EXCEPT !.pc = "AlternativeQuorums",
                                 !.altActive = ActiveChain(nHeight[r.alt]),
                                 !.common = nHeight[Fork(r.alt, tip)]])
        \/ ~ok /\ KeepTarget(t)

AlternativeQuorums(t) ==
  LET r == call[t]
      quorums == ScanQuorums(r.alt)
      ok == StableContext(r.alt, r.altActive, r.common, quorums) /\ quorums = r.quorums
  IN /\ At(t, "AlternativeQuorums")
     /\ \/ /\ ok
           /\ Local(t, [r EXCEPT !.pc = "SignVote", !.target = r.alt, !.active = r.altActive,
                                 !.alt = None, !.altActive = None, !.common = 0])
        \/ ~ok /\ KeepTarget(t)

\* Faulty variant: the target is not looked at again before the vote.
SignVoteUnchecked(t) ==
  LET r == call[t]
      q == r.quorums[Position(r, r.i)]
  IN /\ At(t, "SignVote")
     /\ mapSignedRequestIds' = IF IdsAt(mapSignedRequestIds, q, nHeight[r.target]) = {}
                               THEN mapSignedRequestIds \cup {<<q, r.target>>}
                               ELSE mapSignedRequestIds
     /\ Goto(t, "AsyncSign")
     /\ UNCHANGED <<chainVars, sporkVars, isEnforced, winnerVars, cacheVars,
                    attempt, lastSigned, recovered, voted>>

\* The slot of the request is taken only for a target that could be published.
SignVote(t) ==
  LET r == call[t]
      q == r.quorums[Position(r, r.i)]
      b == r.target
      ok == /\ ActiveChain(nHeight[b]) = r.active
            /\ IsCandidateStillAdmissible(b)
            /\ HasRequiredGovernanceProvenance(b)
  IN /\ At(t, "SignVote")
     /\ \/ /\ ok
           /\ mapSignedRequestIds' = IF IdsAt(mapSignedRequestIds, q, nHeight[b]) = {}
                                     THEN mapSignedRequestIds \cup {<<q, b>>}
                                     ELSE mapSignedRequestIds
           /\ Goto(t, "AsyncSign")
           /\ UNCHANGED <<chainVars, sporkVars, isEnforced, winnerVars, cacheVars,
                          attempt, lastSigned, recovered, voted>>
        \/ ~ok /\ SignReturn(t)

NextQuorum(r) == [r EXCEPT !.pc = "SignLoop", !.i = @ + 1]

\* CSigningManager::AsyncSignIfMember looks for a vote and for a recovered
\* signature of the id, then writes its vote; no lock spans the two.
AsyncSignIfMember(t) ==
  LET r == call[t]
      q == r.quorums[Position(r, r.i)]
      h == nHeight[r.target]
      skip == IdsAt(voted, q, h) # {} \/ IdsAt(recovered, q, h) # {}
  IN /\ At(t, "AsyncSign")
     /\ \/ skip /\ Local(t, NextQuorum(r))
        \/ ~skip /\ Jump(t, "WriteVote")

WriteVoteForId(t) ==
  LET r == call[t]
  IN /\ At(t, "WriteVote")
     /\ voted' = voted \cup {<<r.quorums[Position(r, r.i)], r.target>>}
     /\ Set(t, NextQuorum(r))
     /\ UNCHANGED <<chainVars, sporkVars, isEnforced, winnerVars, cacheVars,
                    mapSignedRequestIds, attempt, lastSigned, recovered>>

SignDone(t) ==
  LET r == call[t]
      member == \E i \in DOMAIN r.quorums : r.quorums[i] \in MemberOf
  IN /\ At(t, "SignLoop")
     /\ r.i = Len(r.quorums)
     /\ IF ~member \/ attempt >= Len(r.quorums)
        THEN SetLastSigned(r.target)
        ELSE UNCHANGED <<lastSigned, attempt>>
     /\ Set(t, SignReturned(r))
     /\ UNCHANGED <<chainVars, sporkVars, isEnforced, winnerVars, cacheVars,
                    mapSignedRequestIds, recovered, voted>>

-----------------------------------------------------------------------------
(* The rest of the node. *)

\* ConnectTip: a block in conflict with the winner fails for good.
ConnectTip(b) ==
  /\ b # Root
  /\ pprev[b] = tip
  /\ b \notin failed \cup conflict
  /\ \/ /\ InternalHasConflictingChainLock(b)
        /\ failed' = failed \cup {b}
        /\ UNCHANGED <<tip, validScripts, governance>>
     \/ /\ ~InternalHasConflictingChainLock(b)
        /\ tip' = b
        /\ validScripts' = validScripts \cup {b}
        /\ governance' \in {governance, governance \cup ({b} \cap Superblocks)}
        /\ UNCHANGED failed
  /\ UNCHANGED <<conflict, sporkVars, isEnforced, winnerVars, cacheVars, signVars, call>>

\* ActivateBestChainStep leaves the tip for a chain with more work.
DisconnectTip ==
  /\ tip # Root
  /\ tip' = pprev[tip]
  /\ UNCHANGED <<validScripts, failed, conflict, governance, sporkVars, isEnforced,
                 winnerVars, cacheVars, signVars, call>>

\* The invalidateblock RPC; descendants that are not active keep their flags.
InvalidateBlock(b) ==
  /\ b \in Invalidatable \ failed
  /\ IF InActiveChain(b)
     THEN /\ tip' = pprev[b]
          /\ failed' = failed \cup (Anc[tip] \ Anc[pprev[b]])
     ELSE /\ failed' = failed \cup {b}
          /\ UNCHANGED tip
  /\ UNCHANGED <<validScripts, conflict, governance, sporkVars, isEnforced,
                 winnerVars, cacheVars, signVars, call>>

SporkChange ==
  /\ sporkChanges < MaxSporkChanges
  /\ sporkChanges' = sporkChanges + 1
  /\ spork' = ~spork
  /\ UNCHANGED <<chainVars, isEnforced, winnerVars, cacheVars, signVars, call>>

-----------------------------------------------------------------------------
Init ==
  /\ tip \in InitTips
  /\ validScripts = InitScripts
  /\ failed = {} /\ conflict = {}
  /\ governance \in SUBSET (Superblocks \cap InitScripts)
  /\ spork = TRUE /\ sporkChanges = 0
  /\ isEnforced = FALSE
  /\ bestChainLockWithKnownBlock = NoSig
  /\ bestChainLockBlockIndex = None
  /\ bestChainLockCandidates = {} /\ bestChainLockShares = {} /\ recentChainLocks = {}
  /\ mapSignedRequestIds = {}
  /\ seenChainLocks = {} /\ sigChecked = {}
  /\ attempt = ATTEMPT_START /\ lastSigned = None
  /\ recovered = {} /\ voted = {}
  /\ call = [t \in Threads |-> Idle]

Process(t) ==
  \/ CheckActiveState(t) \/ SetActiveState(t) \/ CheckHeight(t) \/ ReadBestIndex(t)
  \/ CheckTarget(t) \/ CheckConflict(t) \/ VerificationContext(t) \/ Verify(t)
  \/ PublicationContext(t) \/ SameContext(t) \/ PublishShare(t) \/ PublishAggregate(t)
  \/ StaleAfterVerify(t) \/ Match(t) \/ ReadBest(t) \/ EnforceBestChainLock(t)
  \/ Seen(t) \/ EraseSignedRequest(t) \/ PendingIds(t)
  \/ ProcessPendingRecoveredChainLockSigs(t)

TrySignChainTip(t) ==
  \/ Cleanup(t) \/ SignTarget(t) \/ SignReadBest(t) \/ SignConfirmed(t) \/ SignCheck(t)
  \/ SigningContext(t) \/ SigningQuorums(t) \/ SignShares(t) \/ SignLoop(t)
  \/ SignAlternative(t) \/ AlternativeQuorums(t) \/ SignVote(t) \/ AsyncSignIfMember(t)
  \/ WriteVoteForId(t) \/ SignDone(t)

Next ==
  \/ \E t \in Threads : Process(t) \/ TrySignChainTip(t)
  \/ \E t \in MessageThreads : ProcessMessage(t)
  \/ \E t \in SchedulerThreads : ScheduledJob(t)
  \/ \E t \in MessageThreads, q \in Quorums, b \in Blocks : ProcessRecoveredSig(t, q, b)
  \/ \E b \in Blocks : NotifyHeaderTip(b)
  \/ \E b \in Blocks : ConnectTip(b)
  \/ DisconnectTip
  \/ \E b \in Blocks : InvalidateBlock(b)
  \/ SporkChange

Spec == Init /\ [][Next]_vars

\* A thread that runs goes on, the scheduler runs its jobs again and again, and
\* ActivateBestChain connects what can be connected.
Fairness ==
  /\ \A t \in Threads : WF_vars(Process(t) \/ TrySignChainTip(t))
  /\ \A t \in SchedulerThreads : WF_vars(ScheduledJob(t))
  /\ \A b \in Blocks : WF_vars(ConnectTip(b))

FairSpec == Spec /\ Fairness

-----------------------------------------------------------------------------
\* Type invariant of the handler's state and of the threads' records.
TypeOK ==
  /\ tip \in Blocks
  /\ validScripts \subseteq Blocks /\ failed \subseteq Blocks /\ conflict \subseteq Blocks
  /\ governance \subseteq Superblocks
  /\ spork \in BOOLEAN /\ sporkChanges \in 0..MaxSporkChanges
  /\ isEnforced \in BOOLEAN
  /\ bestChainLockWithKnownBlock \in CLSig \cup {NoSig}
  /\ bestChainLockBlockIndex \in Blocks \cup {None}
  /\ bestChainLockCandidates \subseteq CLSig /\ recentChainLocks \subseteq CLSig
  /\ bestChainLockShares \subseteq [block : Blocks, quorum : Quorums, index : Indexes]
  /\ mapSignedRequestIds \subseteq Quorums \X Blocks
  /\ seenChainLocks \subseteq CLSig
  /\ attempt \in ATTEMPT_START..signingActiveQuorumCount
  /\ lastSigned \in Blocks \cup {None}
  /\ recovered \subseteq Quorums \X Blocks /\ voted \subseteq Quorums \X Blocks
  /\ \A t \in Threads :
       /\ call[t].clsig \in CLSig \cup {NoSig}
       /\ call[t].best \in Blocks \cup {None}
       /\ call[t].quorums \in Seq(Quorums)

\* The winner slot is consistent: bestChainLockBlockIndex is the block of
\* bestChainLockWithKnownBlock, and no candidate is above it, so that a late
\* header (NotifyHeaderTip) never moves the winner to a block that was not
\* checked for admissibility.
WinnerSlot ==
  /\ bestChainLockBlockIndex = bestChainLockWithKnownBlock.block
  /\ \A c \in bestChainLockCandidates :
       HeightOf(c) <= HeightOf(bestChainLockWithKnownBlock)

\* The inductive form of it.
WinnerInv ==
  /\ validScripts \subseteq Blocks
  /\ isEnforced \in BOOLEAN
  /\ bestChainLockBlockIndex \in Blocks \cup {None}
  /\ \A c \in bestChainLockCandidates : c.block \in Blocks
  /\ WinnerSlot

\* The winner carries signatures of a majority of quorums, each of which signed
\* this very block, whether it came as an aggregate or was put together from
\* shares that several threads verified and stored one by one.
WinnerCertified ==
  bestChainLockWithKnownBlock # NoSig =>
    /\ Cardinality(bestChainLockWithKnownBlock.sig) >= threshold
    /\ \A q \in bestChainLockWithKnownBlock.sig :
         bestChainLockWithKnownBlock.block \in Signed[q]

Winner == INSTANCE ChainLockWinner
            WITH winner <- bestChainLockBlockIndex, enforced <- isEnforced

\* The handler implements ChainLockWinner: publication by any interleaving of
\* threads moves the winner only to a descendant, and nothing but switching
\* enforcement on drops it ("Enforcement never revokes this winner").
ImplementsWinner == Winner!Spec

\* Inductive, for the next one: the active chain leaves the enforced winner's
\* chain, if at all, at most one sign window below the winner.
NearWinner ==
  isEnforced /\ bestChainLockBlockIndex # None =>
    \/ tip \in Anc[bestChainLockBlockIndex]
    \/ \E a \in Anc[bestChainLockBlockIndex] \cap Anc[tip] :
         nHeight[a] >= nHeight[bestChainLockBlockIndex] - SIGN_HEIGHT_OFFSET

\* Enforcement never disconnects the block one sign window below the ChainLock
\* it enforces ("Bound ChainLocks-induced reorgs to one sign window"), though
\* the winner was read under a lock that is no longer held and other threads
\* may have moved it on.  (Spork 19 may also have ended its enforcement since.)
EnforceWithinWindow ==
  [][\A t \in Threads :
       /\ EnforceBestChainLock(t) /\ tip' # tip
       /\ isEnforced /\ bestChainLockBlockIndex # None
       /\ call[t].best \in Anc[bestChainLockBlockIndex]
       => nHeight[tip'] >= nHeight[call[t].best] - SIGN_HEIGHT_OFFSET]_vars

\* A superblock is ChainLocked, and signed by this node, only after it passed the
\* exact governance validation ("The ChainLocked block itself must pass exact
\* governance validation").
GovernanceProvenance ==
  \A b \in Superblocks :
    b = bestChainLockBlockIndex \/ (\E q \in Quorums : <<q, b>> \in voted) => b \in governance

\* When reorganisations stop, an enforced winner ends up in the active chain and
\* stays there: marking conflicting blocks never leaves the node without a way
\* to the block it is told to follow.  (The marks outlive a winner that spork 19
\* drops, so this is about a spork that stays.)
WinnerBecomesActive ==
  [](sporkChanges = 0) /\ <>[][~DisconnectTip]_vars =>
    <>[](isEnforced /\ bestChainLockBlockIndex # None => InActiveChain(bestChainLockBlockIndex))

\* Comment in ProcessRecoveredSig: "each masternode is participating in only one
\* vote" per request id.
OneVotePerRequest ==
  \A p \in voted : IdsAt(voted, p[1], nHeight[p[2]]) = {p}
=============================================================================
