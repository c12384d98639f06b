----------------------- MODULE ChainLocksThreadProofs -----------------------
(***************************************************************************)
(* What the threads of CChainLocksHandler carry from one lock to the next,  *)
(* for every block tree, every set of threads, quorums and messages: every  *)
(* variable keeps its type, the winner is signed by a majority of quorums,  *)
(* superblocks are locked and voted for only after their governance         *)
(* validation, and a node that signs in one thread votes once per request.  *)
(* The invariant is defined in ChainLocksProofs.                            *)
(***************************************************************************)
EXTENDS ChainLocksProofs

-----------------------------------------------------------------------------
(* ProcessNewChainLock, place by place. *)

LEMMA CheckHeightStep ==
  ASSUME ThreadInv, NEW t \in Threads, CheckHeight(t)
  PROVE  Moves(t)
<1>0. At(t, "CheckHeight")
  BY Zenon DEF CheckHeight
<1>1. PICK c : c = call[t] /\ CallOK(c, governance) /\ Call(c) /\ c.pc = "CheckHeight"
  BY Zenon, <1>0, ThreadCall
<1>2. PICK r : r = [c EXCEPT !.pc = "ReadBestIndex"]
  BY Zenon
<1>3. c.clsig # NoSig
  BY Zenon, <1>1 DEF CallOK, Processing
<1>4. call' = [call EXCEPT ![t] = r] \/ call' = [call EXCEPT ![t] = Returned(t)]
  BY Zenon, <1>1, <1>2 DEF CheckHeight, Jump, Goto, Return, Set
<1>5. Call(r) /\ r.pc = "ReadBestIndex" /\ r.clsig = c.clsig /\ r.id = c.id
  BY Zenon, <1>1, <1>2 DEF Call
<1>6. CallOK(r, governance) /\ r.pc # "WriteVote"
  BY Zenon, <1>1, <1>3, <1>5, ProcessingOK DEF Keeps
<1>7. QED
  BY Zenon, <1>4, <1>6, ReturnMoves DEF Moves

LEMMA ReadBestIndexStep ==
  ASSUME ThreadInv, NEW t \in Threads, ReadBestIndex(t)
  PROVE  Moves(t)
<1>1. PICK c : c = call[t] /\ CallOK(c, governance) /\ Call(c) /\ c.pc = "ReadBestIndex"
  BY SMT, Z3, SMTT(10), Z3T(10), ThreadAt DEF ReadBestIndex
<1>2. PICK r : r = [c EXCEPT !.pc = "CheckTarget", !.best = bestChainLockBlockIndex]
  BY Zenon
<1>3. c.clsig # NoSig /\ bestChainLockBlockIndex \in Blocks \cup {None}
  BY Zenon, <1>1 DEF CallOK, Processing, ThreadInv, SharedOK
<1>4. call' = [call EXCEPT ![t] = r]
  BY Zenon, <1>1, <1>2 DEF ReadBestIndex, Local, Set
<1>5. Call(r) /\ r.pc = "CheckTarget" /\ r.clsig = c.clsig /\ r.id = c.id
  BY Zenon, <1>1, <1>2, <1>3 DEF Call
<1>6. CallOK(r, governance) /\ r.pc # "WriteVote"
  BY Zenon, <1>1, <1>3, <1>5, ProcessingOK DEF Keeps
<1>7. QED
  BY Zenon, <1>4, <1>6 DEF Moves

LEMMA CheckTargetStep ==
  ASSUME ThreadInv, NEW t \in Threads, CheckTarget(t)
  PROVE  Moves(t)
<1>1. PICK c : c = call[t] /\ CallOK(c, governance) /\ Call(c) /\ c.pc = "CheckTarget"
  BY SMT, Z3, SMTT(10), Z3T(10), ThreadAt DEF CheckTarget
<1>2. PICK r : r = [c EXCEPT !.pc = "CheckConflict", !.best = None]
  BY Zenon
<1>3. c.clsig # NoSig
  BY Zenon, <1>1 DEF CallOK, Processing
<1>4. call' = [call EXCEPT ![t] = r] \/ call' = [call EXCEPT ![t] = Returned(t)]
  BY Zenon, <1>1, <1>2 DEF CheckTarget, Local, Return, Set
<1>5. Call(r) /\ r.pc = "CheckConflict" /\ r.clsig = c.clsig /\ r.id = c.id
  BY Zenon, <1>1, <1>2 DEF Call
<1>6. CallOK(r, governance) /\ r.pc # "WriteVote"
  BY Zenon, <1>1, <1>3, <1>5, ProcessingOK DEF Keeps
<1>7. QED
  BY Zenon, <1>4, <1>6, ReturnMoves DEF Moves

LEMMA PublicationContextStep ==
  ASSUME ThreadInv, NEW t \in Threads, PublicationContext(t)
  PROVE  Moves(t)
<1>1. PICK c : c = call[t] /\ CallOK(c, governance) /\ Call(c) /\ c.pc = "PublicationContext"
  BY SMT, Z3, SMTT(10), Z3T(10), ThreadAt DEF PublicationContext
<1>2. PICK r : r = [Snapshot(c, c.clsig.block) EXCEPT !.pc = "SameContext"]
  BY Zenon
<1>3. c.clsig # NoSig /\ (c.id = None => c.clsig.signers # {}) /\ Proven(c)
  BY Zenon, <1>1 DEF CallOK, Processing, Verified
<1>4. call' = [call EXCEPT ![t] = r]
  BY Zenon, <1>1, <1>2 DEF PublicationContext, Local, Set
<1>5. Call(r) /\ r.pc = "SameContext" /\ r.quorums = c.quorums /\ r.clsig = c.clsig /\ r.id = c.id
  BY Zenon, <1>1, <1>2 DEF Call, Snapshot
<1>6. CallOK(r, governance) /\ r.pc # "WriteVote"
  <2>1. Proven(r)
    BY Zenon, <1>3, <1>5 DEF Proven
  <2>2. QED
    BY Zenon, <1>1, <1>3, <1>5, <2>1, VerifiedOK DEF Keeps, Verified
<1>7. QED
  BY Zenon, <1>4, <1>6 DEF Moves

LEMMA SameContextStep ==
  ASSUME ThreadInv, NEW t \in Threads, SameContext(t)
  PROVE  Moves(t)
<1>1. PICK c : c = call[t] /\ CallOK(c, governance) /\ Call(c) /\ c.pc = "SameContext"
  BY Zenon, ThreadAt DEF SameContext
<1>2. PICK r : r = [c EXCEPT !.pc = "Publish", !.common = 0]
  BY Zenon
<1>3. c.clsig # NoSig /\ (c.id = None => c.clsig.signers # {}) /\ Proven(c)
  BY Zenon, <1>1 DEF CallOK, Processing, Verified
<1>4. call' = [call EXCEPT ![t] = r] \/ call' = [call EXCEPT ![t] = Returned(t)]
  BY Zenon, <1>1, <1>2 DEF SameContext, Local, Return, Set
<1>5. Call(r) /\ r.pc = "Publish" /\ r.quorums = c.quorums /\ r.clsig = c.clsig /\ r.id = c.id
  BY Zenon, <1>1, <1>2 DEF Call, Snapshot
<1>6. CallOK(r, governance) /\ r.pc # "WriteVote"
  <2>1. Proven(r)
    BY Zenon, <1>3, <1>5 DEF Proven
  <2>2. QED
    BY Zenon, <1>1, <1>3, <1>5, <2>1, VerifiedOK DEF Keeps, Verified
<1>7. QED
  BY Zenon, <1>4, <1>6, ReturnMoves DEF Moves

LEMMA VerificationContextStep ==
  ASSUME ThreadInv, NEW t \in Threads, VerificationContext(t)
  PROVE  Moves(t)
<1>1. PICK c : c = call[t] /\ CallOK(c, governance) /\ Call(c) /\ c.pc = "VerificationContext"
  BY SMT, Z3, SMTT(10), Z3T(10), ThreadAt DEF VerificationContext
<1>2. PICK r : r = [Snapshot(c, c.clsig.block) EXCEPT !.pc = "Verify"]
  BY Zenon
<1>3. c.clsig # NoSig /\ (c.id = None => c.clsig.signers # {})
  BY Zenon, <1>1 DEF CallOK, Processing, Checked
<1>4. call' = [call EXCEPT ![t] = r]
  BY Zenon, <1>1, <1>2 DEF VerificationContext, Local, Set
<1>5. Call(r) /\ r.pc = "Verify" /\ r.clsig = c.clsig /\ r.id = c.id
  BY Zenon, <1>1, <1>2 DEF Call, Snapshot
<1>6. CallOK(r, governance) /\ r.pc # "WriteVote"
  BY Zenon, <1>1, <1>3, <1>5, CheckedOK DEF Keeps, Checked
<1>7. QED
  BY Zenon, <1>4, <1>6 DEF Moves

LEMMA CheckActiveStateStep ==
  ASSUME ThreadInv, NEW t \in Threads, CheckActiveState(t)
  PROVE  Moves(t)
<1>1. PICK c : c = call[t] /\ CallOK(c, governance) /\ Call(c) /\ c.pc = "CheckActiveState"
  BY SMT, Z3, SMTT(10), Z3T(10), ThreadAt DEF CheckActiveState
<1>2. PICK pc \in {"SporkActive", "SporkInactive"} : call' = [call EXCEPT ![t] = [c EXCEPT !.pc = pc]]
  BY Zenon, <1>1 DEF CheckActiveState, Jump, Goto, Set
<1>3. PICK r : r = [c EXCEPT !.pc = pc]
  BY Zenon
<1>4. Call(r) /\ r.pc = pc /\ r.next = c.next /\ r.clsig = c.clsig /\ r.id = c.id
  BY SMT, Z3, SMTT(10), Z3T(10), <1>1, <1>3, GotoFacts
<1>5. c.next \in {"CheckHeight", "ReadBest", "PendingIds"} /\ (c.next = "CheckHeight" => c.clsig # NoSig)
  <2>1. c.pc \in Entering
    BY Zenon, <1>1 DEF Entering
  <2>2. QED
    BY Zenon, <1>1, <2>1 DEF CallOK
<1>6. CallOK(r, governance) /\ r.pc # "WriteVote"
  BY Zenon, <1>1, <1>4, <1>5, EnteringOK DEF Keeps, Entering
<1>7. QED
  BY Zenon, <1>2, <1>3, <1>6 DEF Moves

LEMMA SetActiveStateStep ==
  ASSUME ThreadInv, NEW t \in Threads, SetActiveState(t)
  PROVE  Moves(t)
<1>1. PICK c : c = call[t] /\ CallOK(c, governance) /\ Call(c) /\ c.pc \in {"SporkActive", "SporkInactive"}
  BY SMT, Z3, SMTT(10), Z3T(10), ThreadAt DEF SetActiveState, InSetActiveState
<1>2. PICK r : r = [c EXCEPT !.pc = c.next, !.next = "idle"]
  BY Zenon
<1>3. call' = [call EXCEPT ![t] = r]
  BY Zenon, <1>1, <1>2 DEF SetActiveState, Set
<1>4. Call(r) /\ r.pc = c.next /\ r.clsig = c.clsig /\ r.id = c.id
  BY Zenon, <1>1, <1>2 DEF Call
<1>5. c.next \in {"CheckHeight", "ReadBest", "PendingIds"} /\ (c.next = "CheckHeight" => c.clsig # NoSig)
  <2>1. c.pc \in Entering
    BY Zenon, <1>1 DEF Entering
  <2>2. QED
    BY Zenon, <1>1, <2>1 DEF CallOK
<1>6. CallOK(r, governance) /\ r.pc # "WriteVote"
  BY Zenon, <1>1, <1>4, <1>5, PlainOK, ProcessingOK DEF Keeps
<1>7. QED
  BY Zenon, <1>3, <1>6 DEF Moves

LEMMA CheckConflictStep ==
  ASSUME ThreadInv, NEW t \in Threads, CheckConflict(t)
  PROVE  Moves(t)
<1>1. PICK c : c = call[t] /\ CallOK(c, governance) /\ Call(c) /\ c.pc = "CheckConflict"
  BY Zenon, ThreadAt DEF CheckConflict
<1>2. PICK r : r = [c EXCEPT !.pc = "VerificationContext"]
  BY Zenon
<1>3. \/ call' = [call EXCEPT ![t] = r] /\ (c.id = None => c.clsig.signers # {})
      \/ call' = [call EXCEPT ![t] = Returned(t)]
  BY Zenon, <1>1, <1>2 DEF CheckConflict, Jump, Goto, Return, Set
<1>4. c.clsig # NoSig
  BY Zenon, <1>1 DEF CallOK, Processing
<1>5. Call(r) /\ r.pc = "VerificationContext" /\ r.clsig = c.clsig /\ r.id = c.id
  BY SMT, Z3, SMTT(10), Z3T(10), <1>1, <1>2, GotoFacts
<1>6. (c.id = None => c.clsig.signers # {}) => CallOK(r, governance) /\ r.pc # "WriteVote"
  BY Zenon, <1>1, <1>4, <1>5, CheckedOK DEF Keeps, Checked
<1>7. QED
  BY Zenon, <1>3, <1>6, ReturnMoves DEF Moves

\* The signature check, made with the quorums of the context or taken from the
\* cache, establishes Proven.
LEMMA CheckProves ==
  ASSUME ThreadInv, NEW c, Source(c), c.clsig # NoSig, c.id = None => c.clsig.signers # {},
         NEW quorums, Vector(quorums),
         IF IsShare(c) THEN VerifyChainLockShare(c.clsig, c.id, quorums)
                       ELSE VerifyAggregatedChainLock(c.clsig, quorums)
  PROVE  /\ c.id # None => \E i \in Indexes : quorums[i] = c.id
         /\ c.id = None =>
              /\ Cardinality(c.clsig.signers) = 1 \/ Cardinality(c.clsig.signers) >= threshold
              /\ c.clsig.sig = {quorums[i] : i \in c.clsig.signers}
<1>1. DOMAIN quorums = Indexes
  BY Zenon, VectorFacts
<1>2. c.clsig.signers # {} /\ <<c.clsig, quorums>> \in sigChecked
        => c.clsig.sig = {quorums[i] : i \in c.clsig.signers}
  BY ZenonT(40) DEF ThreadInv, SharedOK
<1>3. CASE c.id # None
  <2>1. SharePosition(c.clsig, c.id, quorums) # {}
    BY Zenon, <1>3 DEF IsShare, VerifyChainLockShare
  <2>2. QED
    BY Zenon, <1>1, <1>3, <2>1 DEF SharePosition
<1>4. CASE c.id = None /\ Cardinality(c.clsig.signers) = 1
  <2>1. c.clsig.signers \in SUBSET Indexes /\ IsFiniteSet(c.clsig.signers)
    BY Zenon, ThresholdFacts DEF Source, Genuine, CLSig
  <2>2. PICK k : c.clsig.signers = {k}
    BY Zenon, <1>4, <2>1, FS_Singleton
  <2>3. SharePosition(c.clsig, c.id, quorums) = {k}
    BY Zenon, <1>1, <1>4, <2>1, <2>2 DEF SharePosition
  <2>4. \/ <<c.clsig, quorums>> \in sigChecked
        \/ c.clsig.sig = {quorums[k]}
    BY Zenon, <1>4, <2>3 DEF IsShare, VerifyChainLockShare
  <2>5. {quorums[i] : i \in c.clsig.signers} = {quorums[k]}
    BY Zenon, <2>2
  <2>6. QED
    BY Zenon, <1>2, <1>4, <2>2, <2>4, <2>5
<1>5. CASE c.id = None /\ Cardinality(c.clsig.signers) # 1
  BY Zenon, <1>2, <1>5 DEF IsShare, VerifyAggregatedChainLock
<1>6. QED
  BY Zenon, <1>3, <1>4, <1>5

LEMMA VerifyStep ==
  ASSUME ThreadInv, NEW t \in Threads, Verify(t)
  PROVE  /\ Moves(t)
         /\ \A x \in sigChecked' :
              x[1].signers # {} => x[1].sig = {x[2][i] : i \in x[1].signers}
<1>1. PICK c : c = call[t] /\ CallOK(c, governance) /\ Call(c) /\ c.pc = "Verify"
  BY SMT, Z3, SMTT(10), Z3T(10), ThreadAt DEF Verify
<1>2. PICK quorums : quorums = ScanQuorums(c.clsig.block)
  BY Zenon
<1>3. PICK r : r = [c EXCEPT !.pc = "PublicationContext", !.quorums = quorums]
  BY Zenon
<1>4. Source(c) /\ c.clsig # NoSig /\ (c.id = None => c.clsig.signers # {})
  BY Zenon, <1>1 DEF CallOK, Processing, Checked
<1>5. \A x \in sigChecked : x[1].signers # {} => x[1].sig = {x[2][i] : i \in x[1].signers}
  BY Zenon DEF ThreadInv, SharedOK
<1>6. \/ /\ StableContext(c.clsig.block, c.active, c.common, quorums)
         /\ IF IsShare(c) THEN VerifyChainLockShare(c.clsig, c.id, quorums)
                          ELSE VerifyAggregatedChainLock(c.clsig, quorums)
         /\ sigChecked' = sigChecked \cup {<<c.clsig, quorums>>}
         /\ call' = [call EXCEPT ![t] = r]
      \/ call' = [call EXCEPT ![t] = Returned(t)] /\ UNCHANGED sigChecked
  BY Zenon, <1>1, <1>2, <1>3 DEF Verify, Set, Return, shared, cacheVars
<1>7. CASE call' = [call EXCEPT ![t] = Returned(t)] /\ UNCHANGED sigChecked
  BY Zenon, <1>5, <1>7, ReturnMoves
<1>8. CASE /\ StableContext(c.clsig.block, c.active, c.common, quorums)
           /\ IF IsShare(c) THEN VerifyChainLockShare(c.clsig, c.id, quorums)
                            ELSE VerifyAggregatedChainLock(c.clsig, quorums)
           /\ sigChecked' = sigChecked \cup {<<c.clsig, quorums>>}
           /\ call' = [call EXCEPT ![t] = r]
  <2>1. tip \in Blocks /\ c.clsig.block \in Blocks
    BY Zenon, <1>4 DEF ThreadInv, SharedOK, Source, Genuine, CLSig
  <2>2. Vector(quorums)
    BY Zenon, <1>2, <1>8, <2>1, StableVector
  <2>3. /\ c.id # None => \E i \in Indexes : quorums[i] = c.id
        /\ c.id = None =>
             /\ Cardinality(c.clsig.signers) = 1 \/ Cardinality(c.clsig.signers) >= threshold
             /\ c.clsig.sig = {quorums[i] : i \in c.clsig.signers}
    BY ZenonT(40), <1>4, <1>8, <2>2, CheckProves
  <2>4. quorums \in Seq(Quorums)
    BY Zenon, <2>2, VectorFacts
  <2>5. Call(r) /\ r.pc = "PublicationContext" /\ r.clsig = c.clsig /\ r.id = c.id /\ r.quorums = quorums
    BY Zenon, <1>1, <1>3, <2>4 DEF Call
  <2>6. Proven(r)
    BY Zenon, <2>2, <2>3, <2>5 DEF Proven
  <2>7. CallOK(r, governance) /\ r.pc # "WriteVote"
    BY Zenon, <1>1, <1>4, <2>5, <2>6, VerifiedOK DEF Keeps, Verified
  <2>8. c.clsig.signers # {} => c.clsig.sig = {quorums[i] : i \in c.clsig.signers}
    BY Zenon, <1>4, <2>3 DEF Source
  <2>9. \A x \in sigChecked' : x[1].signers # {} => x[1].sig = {x[2][i] : i \in x[1].signers}
    <3>1. \A x \in sigChecked : x[1].signers # {} => x[1].sig = {x[2][i] : i \in x[1].signers}
      BY Zenon, <1>5 DEF ThreadInv, SharedOK
    <3>2. PICK x : /\ x = <<c.clsig, quorums>> /\ x[1] = c.clsig /\ x[2] = quorums
                   /\ sigChecked' = sigChecked \cup {x}
      BY Zenon, <1>8
    <3>3. x[1].signers # {} => x[1].sig = {x[2][i] : i \in x[1].signers}
      BY Zenon, <2>8, <3>2
    <3>4. QED
      BY SMT, Z3, SMTT(10), Z3T(10), <3>1, <3>2, <3>3
  <2>10. QED
    BY Zenon, <1>8, <2>7, <2>9 DEF Moves
<1>9. QED
  BY Zenon, <1>6, <1>7, <1>8

\* The share that is stored is of a block its quorum signed.
LEMMA WithShareGenuine ==
  ASSUME NEW c, Source(c), c.clsig # NoSig, Proven(c), IsShare(c),
         \A s \in bestChainLockShares : GenuineShare(s)
  PROVE  \A s \in WithShare(c) : GenuineShare(s)
<1> DEFINE position == SharePosition(c.clsig, c.id, c.quorums)
           k == CHOOSE i \in position : TRUE
           share == [block |-> c.clsig.block, quorum |-> c.quorums[k], index |-> k]
<1>1. /\ DOMAIN c.quorums = Indexes /\ c.quorums \in [Indexes -> Quorums]
      /\ Genuine(c.clsig) /\ c.clsig.block \in Blocks /\ c.clsig.signers \in SUBSET Indexes
  BY Zenon, VectorFacts DEF Proven, Vector, Source, Genuine, CLSig
<1>2. \A i \in position : i \in Indexes /\ c.clsig.block \in Signed[c.quorums[i]]
  <2>1. CASE c.id # None
    BY Zenon, <1>1, <2>1 DEF SharePosition, Source
  <2>2. CASE c.id = None
    <3>1. PICK j : c.clsig.signers = {j}
      <4>1. Cardinality(c.clsig.signers) = 1 /\ IsFiniteSet(c.clsig.signers)
        BY Zenon, <1>1, <2>2, ThresholdFacts DEF IsShare
      <4>2. QED
        BY Zenon, <4>1, FS_Singleton
    <3>2. c.quorums[j] \in c.clsig.sig
      BY SMT, Z3, SMTT(10), Z3T(10), <2>2, <3>1 DEF Proven
    <3>3. position = {j} /\ j \in Indexes
      BY Zenon, <1>1, <2>2, <3>1 DEF SharePosition
    <3>4. QED
      BY Zenon, <1>1, <3>2, <3>3 DEF Genuine
  <2>3. QED
    BY Zenon, <2>1, <2>2
<1>3. position # {}
  <2>1. CASE c.id # None
    <3>1. PICK i \in Indexes : c.quorums[i] = c.id
      BY Zenon, <2>1 DEF Proven
    <3>2. i \in position
      BY Zenon, <1>1, <2>1, <3>1 DEF SharePosition, Source
    <3>3. QED
      BY Zenon, <3>2
  <2>2. CASE c.id = None
    <3>1. PICK j : c.clsig.signers = {j}
      <4>1. Cardinality(c.clsig.signers) = 1 /\ IsFiniteSet(c.clsig.signers)
        BY Zenon, <1>1, <2>2, ThresholdFacts DEF IsShare
      <4>2. QED
        BY Zenon, <4>1, FS_Singleton
    <3>2. j \in position
      BY Zenon, <1>1, <2>2, <3>1 DEF SharePosition
    <3>3. QED
      BY Zenon, <3>2
  <2>3. QED
    BY Zenon, <2>1, <2>2
<1>4. k \in position
  BY Zenon, <1>3
<1> HIDE DEF position, k
<1>5. GenuineShare(share)
  BY Zenon, <1>1, <1>2, <1>4 DEF GenuineShare
<1>6. WithShare(c) = bestChainLockShares \/ WithShare(c) = bestChainLockShares \cup {share}
  BY Zenon DEF WithShare, k, position
<1>7. QED
  BY Zenon, <1>5, <1>6

\* A CLSIG of a peer that is not a share is certified.
LEMMA AggregateProven ==
  ASSUME NEW c, Source(c), c.clsig # NoSig, Proven(c), ~IsShare(c)
  PROVE  Certified(c.clsig)
<1> DEFINE signers == c.clsig.signers
<1>1. c.id = None /\ Cardinality(signers) # 1
  BY Zenon DEF IsShare
<1>2. Cardinality(signers) >= threshold /\ c.clsig.sig = {c.quorums[i] : i \in signers}
  BY Zenon, <1>1 DEF Proven
<1>3. Genuine(c.clsig) /\ signers \in SUBSET Indexes /\ IsFiniteSet(signers)
  BY Zenon, ThresholdFacts DEF Source, Genuine, CLSig
<1>4. Cardinality({c.quorums[i] : i \in signers}) = Cardinality(signers)
  <2>1. DOMAIN c.quorums = Indexes /\ \A x, y \in Indexes : c.quorums[x] = c.quorums[y] => x = y
    BY Zenon, VectorFacts DEF Proven, Vector
  <2> HIDE DEF signers
  <2>2. QED
    BY SMT, Z3, SMTT(10), Z3T(10), <1>3, <2>1, ImageSize
<1>5. QED
  BY Zenon, <1>2, <1>3, <1>4 DEF Certified

\* What TryUpdateBestChainLock puts into the winner slot is certified.
LEMMA TryUpdateCertified ==
  ASSUME NEW b \in Blocks, NEW quorums, quorums = <<>> \/ Vector(quorums),
         NEW candidates, \A c \in candidates : Certified(c),
         NEW shares, \A s \in shares : GenuineShare(s),
         bestChainLockWithKnownBlock # NoSig => Certified(bestChainLockWithKnownBlock),
         recentChainLocks \subseteq CLSig,
         TryUpdateBestChainLock(b, quorums, candidates, shares)
  PROVE  /\ bestChainLockWithKnownBlock' # NoSig => Certified(bestChainLockWithKnownBlock')
         /\ \A c \in bestChainLockCandidates' : Certified(c)
         /\ \A s \in bestChainLockShares' : GenuineShare(s)
         /\ recentChainLocks' \subseteq CLSig
         /\ bestChainLockBlockIndex' = b \/ UNCHANGED bestChainLockBlockIndex
<1>1. \A c \in NewBest(b, quorums, candidates, shares) : Certified(c)
  <2>1. SUFFICES ASSUME NEW c \in NewBest(b, quorums, candidates, shares)
                 PROVE  Certified(c)
    BY Zenon
  <2>2. c \in candidates \/ c \in Aggregate(b, quorums, shares)
    BY Zenon, <2>1 DEF NewBest, AtHeight
  <2>3. CASE c \in candidates
    BY Zenon, <2>3
  <2>4. CASE c \in Aggregate(b, quorums, shares)
    <3>1. Vector(quorums)
      BY Zenon, <2>4, AggregateNothing
    <3>2. QED
      BY Zenon, <2>4, <3>1, AggregateCertified
  <2>5. QED
    BY Zenon, <2>2, <2>3, <2>4
<1>2. \A c \in NewBest(b, quorums, candidates, shares) :
        /\ \A d \in Put(candidates, c) : Certified(d)
        /\ AddRecentChainLock(c) \subseteq CLSig
  <2>1. \A c : Certified(c) => c \in CLSig
    BY Zenon DEF Certified, Genuine
  <2>2. QED
    BY Zenon, <1>1, <2>1 DEF Put, AddRecentChainLock
<1>3. bestChainLockShares' = shares
  BY Zenon DEF TryUpdateBestChainLock
<1>4. CASE NewBest(b, quorums, candidates, shares) = {}
  BY Zenon, <1>3, <1>4 DEF TryUpdateBestChainLock
<1>5. CASE NewBest(b, quorums, candidates, shares) # {}
  BY Zenon, <1>1, <1>2, <1>3, <1>5 DEF TryUpdateBestChainLock
<1>6. QED
  BY Zenon, <1>4, <1>5

\* A step that leaves all but the winner and the shares alone.
LEMMA PublishShared ==
  ASSUME SharedOK, NEW b \in Blocks, b \in Superblocks => b \in governance,
         NEW quorums, quorums = <<>> \/ Vector(quorums),
         NEW candidates, \A c \in candidates : Certified(c),
         NEW shares, \A s \in shares : GenuineShare(s),
         TryUpdateBestChainLock(b, quorums, candidates, shares),
         UNCHANGED <<chainVars, sporkVars, isEnforced, cacheVars, signVars>>
  PROVE  SharedOK' /\ UNCHANGED <<governance, voted>>
<1>1. /\ bestChainLockWithKnownBlock # NoSig => Certified(bestChainLockWithKnownBlock)
      /\ recentChainLocks \subseteq CLSig
  BY Zenon DEF SharedOK
<1>2. /\ bestChainLockWithKnownBlock' # NoSig => Certified(bestChainLockWithKnownBlock')
      /\ \A c \in bestChainLockCandidates' : Certified(c)
      /\ \A s \in bestChainLockShares' : GenuineShare(s)
      /\ recentChainLocks' \subseteq CLSig
      /\ bestChainLockBlockIndex' = b \/ UNCHANGED bestChainLockBlockIndex
  BY Zenon, <1>1, TryUpdateCertified
<1>3. /\ UNCHANGED <<tip, validScripts, failed, conflict, governance, spork, sporkChanges,
                     isEnforced, seenChainLocks, sigChecked>>
      /\ UNCHANGED <<mapSignedRequestIds, attempt, lastSigned, recovered, voted>>
  BY Zenon DEF chainVars, sporkVars, cacheVars, signVars
<1>4. QED
  BY Zenon, <1>2, <1>3 DEF SharedOK

\* The record after a publication.
LEMMA PublishedOK ==
  ASSUME NEW c, CallOK(c, governance), Call(c), c.clsig # NoSig, NEW pc \in {"Match", "Cleanup"},
         NEW r, r = [c EXCEPT !.active = None, !.quorums = <<>>, !.pc = pc]
  PROVE  CallOK(r, governance) /\ r.pc # "WriteVote"
<1>1. PICK none : none = <<>>
  BY Zenon
<1>2. none \in Seq(Quorums) /\ r = [c EXCEPT !.active = None, !.quorums = none, !.pc = pc]
  BY SMT, Z3, SMTT(10), Z3T(10), <1>1
<1>3. Call(r) /\ r.pc = pc /\ r.clsig = c.clsig /\ r.id = c.id
  BY Zenon, <1>2 DEF Call
<1>4. QED
  BY ZenonT(40), <1>3, PlainOK, ProcessingOK DEF Keeps

LEMMA PublishShareStep ==
  ASSUME ThreadInv, NEW t \in Threads, PublishShare(t)
  PROVE  Moves(t) /\ SharedOK' /\ UNCHANGED <<governance, voted>>
<1>1. PICK c : c = call[t] /\ CallOK(c, governance) /\ Call(c) /\ c.pc = "Publish"
  BY SMT, Z3, SMTT(10), Z3T(10), ThreadAt DEF PublishShare
<1>2. Source(c) /\ c.clsig # NoSig /\ Proven(c) /\ c.clsig.block \in Blocks
  BY Zenon, <1>1 DEF CallOK, Processing, Verified, Source, Genuine, CLSig
<1>3. PICK pc \in {"Match", "Cleanup"} :
        call' = [call EXCEPT ![t] = [c EXCEPT !.active = None, !.quorums = <<>>, !.pc = pc]]
  BY Zenon, <1>1 DEF PublishShare, Set
<1>4. PICK r : r = [c EXCEPT !.active = None, !.quorums = <<>>, !.pc = pc]
  BY Zenon
<1>5. CallOK(r, governance) /\ r.pc # "WriteVote"
  BY Zenon, <1>1, <1>2, <1>4, PublishedOK
<1>6. Moves(t)
  BY Zenon, <1>3, <1>4, <1>5 DEF Moves
<1>7. /\ IsShare(c) /\ (c.clsig.block \in Superblocks => c.clsig.block \in governance)
      /\ TryUpdateBestChainLock(c.clsig.block, c.quorums, bestChainLockCandidates, WithShare(c))
      /\ UNCHANGED <<chainVars, sporkVars, isEnforced, cacheVars, signVars>>
  BY Zenon, <1>1 DEF PublishShare, StillPublishable, IsCandidateStillAdmissible
<1>8. /\ \A d \in bestChainLockCandidates : Certified(d)
      /\ \A s \in bestChainLockShares : GenuineShare(s)
      /\ SharedOK
  BY Zenon DEF ThreadInv, SharedOK
<1>9. \A s \in WithShare(c) : GenuineShare(s)
  BY Zenon, <1>2, <1>7, <1>8, WithShareGenuine
<1>10. Vector(c.quorums)
  BY Zenon, <1>2 DEF Proven
<1>11. SharedOK' /\ UNCHANGED <<governance, voted>>
  BY Zenon, <1>2, <1>7, <1>8, <1>9, <1>10, PublishShared
<1>12. QED
  BY Zenon, <1>6, <1>11

LEMMA PublishAggregateStep ==
  ASSUME ThreadInv, NEW t \in Threads, PublishAggregate(t)
  PROVE  Moves(t) /\ SharedOK' /\ UNCHANGED <<governance, voted>>
<1>1. PICK c : c = call[t] /\ CallOK(c, governance) /\ Call(c) /\ c.pc = "Publish"
  BY SMT, Z3, SMTT(10), Z3T(10), ThreadAt DEF PublishAggregate
<1>2. Source(c) /\ c.clsig # NoSig /\ Proven(c) /\ c.clsig.block \in Blocks
  BY Zenon, <1>1 DEF CallOK, Processing, Verified, Source, Genuine, CLSig
<1>3. call' = [call EXCEPT ![t] = [c EXCEPT !.active = None, !.quorums = <<>>, !.pc = "Match"]]
  BY Zenon, <1>1 DEF PublishAggregate, Set
<1>4. PICK r : r = [c EXCEPT !.active = None, !.quorums = <<>>, !.pc = "Match"]
  BY Zenon
<1>5. CallOK(r, governance) /\ r.pc # "WriteVote"
  BY Zenon, <1>1, <1>2, <1>4, PublishedOK
<1>6. Moves(t)
  BY Zenon, <1>3, <1>4, <1>5 DEF Moves
<1>7. /\ ~IsShare(c) /\ (c.clsig.block \in Superblocks => c.clsig.block \in governance)
      /\ TryUpdateBestChainLock(c.clsig.block, <<>>, Put(bestChainLockCandidates, c.clsig),
                                bestChainLockShares)
      /\ UNCHANGED <<chainVars, sporkVars, isEnforced, cacheVars, signVars>>
  BY Zenon, <1>1 DEF PublishAggregate, StillPublishable, IsCandidateStillAdmissible
<1>8. /\ \A d \in bestChainLockCandidates : Certified(d)
      /\ \A s \in bestChainLockShares : GenuineShare(s)
      /\ SharedOK
  BY Zenon DEF ThreadInv, SharedOK
<1>9. \A d \in Put(bestChainLockCandidates, c.clsig) : Certified(d)
  BY Zenon, <1>2, <1>7, <1>8, AggregateProven DEF Put
<1>10. SharedOK' /\ UNCHANGED <<governance, voted>>
  BY Zenon, <1>2, <1>7, <1>8, <1>9, PublishShared
<1>11. QED
  BY Zenon, <1>6, <1>10

LEMMA MatchStep ==
  ASSUME ThreadInv, NEW t \in Threads, Match(t)
  PROVE  Moves(t)
<1>1. PICK c : c = call[t] /\ CallOK(c, governance) /\ Call(c) /\ c.pc = "Match"
  BY Zenon, ThreadAt DEF Match
<1>2. c.clsig # NoSig
  BY Zenon, <1>1 DEF CallOK, Processing
<1>3. PICK r : r = [c EXCEPT !.pc = "CheckActiveState", !.next = "ReadBest"]
  BY Zenon
<1>4. PICK s : s = [c EXCEPT !.pc = "Seen"]
  BY Zenon
<1>5. call' = [call EXCEPT ![t] = r] \/ call' = [call EXCEPT ![t] = s]
  BY Zenon, <1>1, <1>3, <1>4 DEF Match, Local, Jump, Goto, Set
<1>6. Call(r) /\ r.pc = "CheckActiveState" /\ r.next = "ReadBest" /\ r.clsig = c.clsig /\ r.id = c.id
  BY Zenon, <1>1, <1>3 DEF Call
<1>7. CallOK(r, governance) /\ r.pc # "WriteVote"
  BY Zenon, <1>1, <1>6, EnteringOK DEF Keeps, Entering
<1>8. Call(s) /\ s.pc = "Seen" /\ s.clsig = c.clsig /\ s.id = c.id
  BY SMT, Z3, SMTT(10), Z3T(10), <1>1, <1>4, GotoFacts
<1>9. CallOK(s, governance) /\ s.pc # "WriteVote"
  BY Zenon, <1>1, <1>2, <1>8, ProcessingOK DEF Keeps
<1>10. QED
  BY Zenon, <1>5, <1>7, <1>9 DEF Moves

LEMMA ReadBestStep ==
  ASSUME ThreadInv, NEW t \in Threads, ReadBest(t)
  PROVE  Moves(t)
<1>1. PICK c : c = call[t] /\ CallOK(c, governance) /\ Call(c) /\ c.pc = "ReadBest"
  BY SMT, Z3, SMTT(10), Z3T(10), ThreadAt DEF ReadBest
<1>2. PICK r : r = [c EXCEPT !.pc = "Enforce", !.best = bestChainLockBlockIndex]
  BY Zenon
<1>3. PICK s : s = [c EXCEPT !.pc = "Seen"]
  BY Zenon
<1>4. \/ call' = [call EXCEPT ![t] = r]
      \/ call' = [call EXCEPT ![t] = s] /\ c.clsig # NoSig
      \/ call' = [call EXCEPT ![t] = Idle]
  BY Zenon, <1>1, <1>2, <1>3 DEF ReadBest, Local, Jump, Goto, Set, InProcessNewChainLock
<1>5. bestChainLockBlockIndex \in Blocks \cup {None}
  BY Zenon DEF ThreadInv, SharedOK
<1>6. Call(r) /\ r.pc = "Enforce" /\ r.clsig = c.clsig /\ r.id = c.id
  BY Zenon, <1>1, <1>2, <1>5 DEF Call
<1>7. CallOK(r, governance) /\ r.pc # "WriteVote"
  BY Zenon, <1>1, <1>6, PlainOK DEF Keeps
<1>8. Call(s) /\ s.pc = "Seen" /\ s.clsig = c.clsig /\ s.id = c.id
  BY SMT, Z3, SMTT(10), Z3T(10), <1>1, <1>3, GotoFacts
<1>9. c.clsig # NoSig => CallOK(s, governance) /\ s.pc # "WriteVote"
  BY Zenon, <1>1, <1>8, ProcessingOK DEF Keeps
<1>10. QED
  BY Zenon, <1>4, <1>7, <1>9, IdleOK DEF Moves

LEMMA EnforceMoves ==
  ASSUME ThreadInv, NEW t \in Threads, EnforceBestChainLock(t)
  PROVE  Moves(t)
<1>0. At(t, "Enforce")
  BY Zenon DEF EnforceBestChainLock
<1>1. PICK c : c = call[t] /\ CallOK(c, governance) /\ Call(c) /\ c.pc = "Enforce"
  BY Zenon, <1>0, ThreadCall
<1>2. PICK ok \in BOOLEAN : call' = [call EXCEPT ![t] = AfterEnforce(c, ok)]
  BY Zenon, <1>1 DEF EnforceBestChainLock, Local, Set
<1>3. PICK r : r = [c EXCEPT !.pc = "Seen", !.best = None]
  BY Zenon
<1>4. PICK s : s = [c EXCEPT !.pc = "Cleanup", !.best = None]
  BY Zenon
<1>5. \/ call' = [call EXCEPT ![t] = r] /\ c.clsig # NoSig
      \/ call' = [call EXCEPT ![t] = s]
      \/ call' = [call EXCEPT ![t] = Idle]
  BY Zenon, <1>2, <1>3, <1>4 DEF AfterEnforce, InProcessNewChainLock
<1>6. Call(r) /\ r.pc = "Seen" /\ r.clsig = c.clsig /\ r.id = c.id
  BY Zenon, <1>1, <1>3 DEF Call
<1>7. c.clsig # NoSig => CallOK(r, governance) /\ r.pc # "WriteVote"
  BY Zenon, <1>1, <1>6, ProcessingOK DEF Keeps
<1>8. Call(s) /\ s.pc = "Cleanup" /\ s.clsig = c.clsig /\ s.id = c.id
  BY Zenon, <1>1, <1>4 DEF Call
<1>9. CallOK(s, governance) /\ s.pc # "WriteVote"
  BY Zenon, <1>1, <1>8, PlainOK DEF Keeps
<1>10. QED
  BY Zenon, <1>5, <1>7, <1>9, IdleOK DEF Moves

LEMMA EnforceShared ==
  ASSUME ThreadInv, NEW t \in Threads, EnforceBestChainLock(t)
  PROVE  SharedOK' /\ UNCHANGED <<governance, voted>>
<1>1. SharedOK /\ Call(call[t])
  BY Zenon, ThreadAt DEF ThreadInv, EnforceBestChainLock
<1>2. CASE UNCHANGED shared
  BY Zenon, <1>1, <1>2 DEF SharedOK, shared, chainVars, sporkVars, winnerVars, bestVars, cacheVars, signVars
<1>3. CASE ~UNCHANGED shared
  <2> DEFINE b == call[t].best
             inactive == Anc[b] \ Anc[tip]
  <2>1. /\ UNCHANGED <<validScripts, failed, governance, sporkVars, isEnforced,
                       winnerVars, cacheVars, signVars>>
        /\ b # None
        /\ \/ UNCHANGED <<tip, conflict>>
           \/ /\ tip' = Fork(b, tip)
              /\ conflict' = conflict \cup (Anc[tip] \ Anc[Fork(b, tip)])
                                      \cup UNION {Siblings(a) : a \in inactive}
    BY Zenon, <1>3 DEF EnforceBestChainLock, Local
  <2>2. b \in Blocks /\ tip \in Blocks /\ conflict \in SUBSET Blocks
    BY Zenon, <1>1, <2>1 DEF Call, SharedOK
  <2>3. Fork(b, tip) \in Blocks /\ Anc[tip] \in SUBSET Blocks
    BY SMT, Z3, SMTT(10), Z3T(10), <2>2, ForkFacts, BlockTreeConstants
  <2>4. \A a \in inactive : Siblings(a) \subseteq Blocks
    BY Zenon DEF Siblings
  <2>5. tip' \in Blocks /\ conflict' \subseteq Blocks
    BY Zenon, <2>1, <2>2, <2>3, <2>4
  <2>6. UNCHANGED <<bestChainLockWithKnownBlock, bestChainLockBlockIndex, bestChainLockCandidates,
                    bestChainLockShares, recentChainLocks, spork, sporkChanges, seenChainLocks,
                    sigChecked, mapSignedRequestIds, attempt, lastSigned, recovered, voted>>
    BY Zenon, <2>1 DEF sporkVars, winnerVars, bestVars, cacheVars, signVars
  <2>7. QED
    BY Zenon, <1>1, <2>1, <2>5, <2>6 DEF SharedOK
<1>4. QED
  BY Zenon, <1>2, <1>3

LEMMA SeenStep ==
  ASSUME ThreadInv, NEW t \in Threads, Seen(t)
  PROVE  Moves(t) /\ SharedOK' /\ UNCHANGED <<governance, voted>>
<1>1. PICK c : c = call[t] /\ CallOK(c, governance) /\ Call(c) /\ c.pc = "Seen"
  BY SMT, Z3, SMTT(10), Z3T(10), ThreadAt DEF Seen
<1>2. c.clsig # NoSig /\ c.clsig \in CLSig
  BY Zenon, <1>1 DEF CallOK, Processing, Source, Genuine
<1>3. PICK r : r = [c EXCEPT !.pc = "Erase"]
  BY Zenon
<1>4. call' = [call EXCEPT ![t] = r] \/ call' = [call EXCEPT ![t] = Returned(t)]
  BY Zenon, <1>1, <1>3 DEF Seen, Set
<1>5. Call(r) /\ r.pc = "Erase" /\ r.clsig = c.clsig /\ r.id = c.id
  BY SMT, Z3, SMTT(10), Z3T(10), <1>1, <1>3, GotoFacts
<1>6. CallOK(r, governance) /\ r.pc # "WriteVote"
  BY Zenon, <1>1, <1>2, <1>5, ProcessingOK DEF Keeps
<1>7. Moves(t)
  BY Zenon, <1>4, <1>6, ReturnMoves DEF Moves
<1>8. seenChainLocks' = seenChainLocks \cup {c.clsig}
      /\ UNCHANGED <<chainVars, sporkVars, isEnforced, winnerVars, sigChecked, signVars>>
  BY Zenon, <1>1 DEF Seen
<1>9. SharedOK' /\ UNCHANGED <<governance, voted>>
  BY Zenon, <1>2, <1>8 DEF ThreadInv, SharedOK, chainVars, sporkVars, winnerVars, bestVars, signVars
<1>10. QED
  BY Zenon, <1>7, <1>9

LEMMA EraseStep ==
  ASSUME ThreadInv, NEW t \in Threads, EraseSignedRequest(t)
  PROVE  Moves(t) /\ SharedOK' /\ UNCHANGED <<governance, voted>>
<1>1. Moves(t)
  BY Zenon, ReturnMoves DEF EraseSignedRequest, Set
<1>2. mapSignedRequestIds' \subseteq mapSignedRequestIds
      /\ UNCHANGED <<chainVars, sporkVars, isEnforced, winnerVars, cacheVars,
                     attempt, lastSigned, recovered, voted>>
  BY Zenon DEF EraseSignedRequest
<1>3. SharedOK' /\ UNCHANGED <<governance, voted>>
  BY Zenon, <1>2 DEF ThreadInv, SharedOK, chainVars, sporkVars, winnerVars, bestVars, cacheVars
<1>4. QED
  BY Zenon, <1>1, <1>3

LEMMA PendingIdsStep ==
  ASSUME ThreadInv, NEW t \in Threads, PendingIds(t)
  PROVE  Moves(t)
<1>1. PICK c : c = call[t] /\ CallOK(c, governance) /\ Call(c) /\ c.pc = "PendingIds"
  BY SMT, Z3, SMTT(10), Z3T(10), ThreadAt DEF PendingIds
<1>2. PICK todo : todo = {<<p[1], nHeight[p[2]]>> : p \in mapSignedRequestIds}
  BY Zenon
<1>3. PICK r : r = [c EXCEPT !.pc = "Pending", !.job = TRUE, !.todo = todo]
  BY Zenon
<1>4. call' = [call EXCEPT ![t] = r]
  BY Zenon, <1>1, <1>2, <1>3 DEF PendingIds, Local, Set
<1>5. Call(r) /\ r.pc = "Pending" /\ r.clsig = c.clsig /\ r.id = c.id
  BY Zenon, <1>1, <1>3 DEF Call
<1>6. CallOK(r, governance) /\ r.pc # "WriteVote"
  BY Zenon, <1>1, <1>5, PlainOK DEF Keeps
<1>7. QED
  BY Zenon, <1>4, <1>6 DEF Moves

\* ProcessNewChainLock starts with a genuine CLSIG.
LEMMA EnterOK ==
  ASSUME NEW c, Call(c), NEW sig, Genuine(sig), NEW id,
         id # None => sig.signers = {} /\ sig.block \in Signed[id],
         NEW r, r = [c EXCEPT !.pc = "CheckActiveState", !.next = "CheckHeight",
                              !.clsig = sig, !.id = id]
  PROVE  CallOK(r, governance) /\ r.pc # "WriteVote"
<1>1. Call(r) /\ r.pc = "CheckActiveState" /\ r.next = "CheckHeight" /\ r.clsig = sig /\ r.id = id
  BY Zenon DEF Call
<1>2. sig # NoSig
  BY SMT, Z3, SMTT(10), Z3T(10), BlockTreeConstants DEF Genuine, CLSig, NoSig
<1>3. QED
  BY Zenon, <1>1, <1>2 DEF CallOK, Source, Processing, Checked, Verified, Entering, Signing,
    Looping, Voting, Alternative

LEMMA RecoveredGenuine ==
  ASSUME NEW q \in Quorums, NEW b \in Blocks, b \in Signed[q]
  PROVE  /\ Genuine(RecoveredCLSig(q, b))
         /\ RecoveredCLSig(q, b).signers = {} /\ RecoveredCLSig(q, b).block = b
BY Zenon DEF Genuine, RecoveredCLSig, CLSig

LEMMA PendingStep ==
  ASSUME ThreadInv, NEW t \in Threads, ProcessPendingRecoveredChainLockSigs(t)
  PROVE  Moves(t)
<1>1. PICK c : c = call[t] /\ CallOK(c, governance) /\ Call(c) /\ c.pc = "Pending"
  BY Zenon, ThreadAt DEF ProcessPendingRecoveredChainLockSigs
<1>2. ASSUME NEW id \in c.todo, NEW p \in IdsAt(recovered, id[1], id[2]),
             EnterProcessNewChainLock(t, [c EXCEPT !.todo = @ \ {id}],
                                      RecoveredCLSig(p[1], p[2]), p[1])
      PROVE  Moves(t)
  <2>1. p \in recovered
    BY Zenon DEF IdsAt
  <2>2. PICK q \in Quorums, b \in Blocks : p = <<q, b>> /\ b \in Signed[q]
    <3>1. p \in Quorums \X Blocks /\ p[2] \in Signed[p[1]]
      BY Zenon, <2>1 DEF ThreadInv, SharedOK
    <3>2. QED
      BY SMT, Z3, SMTT(10), Z3T(10), <3>1
  <2>3. PICK rest : rest = [c EXCEPT !.todo = @ \ {id}]
    BY Zenon
  <2>4. Call(rest)
    BY Zenon, <1>1, <2>3 DEF Call
  <2>5. PICK sig : sig = RecoveredCLSig(q, b)
    BY Zenon
  <2>6. Genuine(sig) /\ sig.signers = {} /\ sig.block = b
    BY ZenonT(40), <2>2, <2>5, RecoveredGenuine
  <2>7. PICK r : r = [rest EXCEPT !.pc = "CheckActiveState", !.next = "CheckHeight",
                                  !.clsig = sig, !.id = q]
    BY Zenon
  <2>8. call' = [call EXCEPT ![t] = r]
    BY Zenon, <1>2, <2>2, <2>3, <2>5, <2>7 DEF EnterProcessNewChainLock, Set
  <2>9. CallOK(r, governance) /\ r.pc # "WriteVote"
    BY Zenon, <2>2, <2>4, <2>6, <2>7, EnterOK
  <2>10. QED
    BY Zenon, <2>8, <2>9 DEF Moves
<1>3. ASSUME NEW id \in c.todo, call' = [call EXCEPT ![t] = [c EXCEPT !.todo = @ \ {id}]]
      PROVE  Moves(t)
  <2>1. PICK r : r = [c EXCEPT !.todo = @ \ {id}]
    BY Zenon
  <2>2. Call(r) /\ r.pc = c.pc /\ r.clsig = c.clsig /\ r.id = c.id
    BY Zenon, <1>1, <2>1 DEF Call
  <2>3. CallOK(r, governance) /\ r.pc # "WriteVote"
    BY Zenon, <1>1, <2>2, PlainOK DEF Keeps
  <2>4. QED
    BY Zenon, <1>3, <2>1, <2>3 DEF Moves
<1>4. CASE call' = [call EXCEPT ![t] = [Idle EXCEPT !.pc = "ReadBest"]]
  <2>1. PICK r : r = [Idle EXCEPT !.pc = "ReadBest"]
    BY Zenon
  <2>2. Call(r) /\ r.pc = "ReadBest" /\ r.clsig = Idle.clsig /\ r.id = Idle.id
    BY Zenon, <2>1, IdleOK DEF Call
  <2>3. CallOK(r, governance) /\ r.pc # "WriteVote"
    BY Zenon, <2>2, IdleOK, PlainOK DEF Keeps
  <2>4. QED
    BY Zenon, <1>4, <2>1, <2>3 DEF Moves
<1>5. QED
  BY Zenon, <1>1, <1>2, <1>3, <1>4 DEF ProcessPendingRecoveredChainLockSigs, Set

LEMMA ProcessMessageStep ==
  ASSUME ThreadInv, NEW t \in Threads, ProcessMessage(t)
  PROVE  Moves(t)
<1>1. PICK c \in PeerCLSigs : EnterProcessNewChainLock(t, Idle, c, None)
  BY Zenon DEF ProcessMessage
<1>2. Genuine(c)
  BY Zenon, ChainLocksConstants, OneSignaturePerRequest DEF Genuine
<1>3. PICK r : r = [Idle EXCEPT !.pc = "CheckActiveState", !.next = "CheckHeight",
                                !.clsig = c, !.id = None]
  BY Zenon
<1>4. call' = [call EXCEPT ![t] = r]
  BY Zenon, <1>1, <1>3 DEF EnterProcessNewChainLock, Set
<1>5. CallOK(r, governance) /\ r.pc # "WriteVote"
  BY ZenonT(40), <1>2, <1>3, IdleOK, EnterOK
<1>6. QED
  BY Zenon, <1>4, <1>5 DEF Moves

LEMMA ScheduledJobStep ==
  ASSUME ThreadInv, NEW t \in Threads, ScheduledJob(t)
  PROVE  Moves(t)
<1>1. PICK next \in {"PendingIds", "ReadBest"} :
        call' = [call EXCEPT ![t] = [Idle EXCEPT !.pc = "CheckActiveState", !.next = next]]
  BY Zenon DEF ScheduledJob, Local, Set
<1>2. PICK r : r = [Idle EXCEPT !.pc = "CheckActiveState", !.next = next]
  BY Zenon
<1>3. /\ Call(r) /\ r.pc = "CheckActiveState" /\ r.next = next
      /\ r.clsig = Idle.clsig /\ r.id = Idle.id
  BY Zenon, <1>2, IdleOK DEF Call
<1>4. CallOK(r, governance) /\ r.pc # "WriteVote"
  BY Zenon, <1>3, IdleOK, EnteringOK DEF Keeps, Entering
<1>5. QED
  BY Zenon, <1>1, <1>2, <1>4 DEF Moves

LEMMA ProcessRecoveredSigStep ==
  ASSUME ThreadInv, NEW t \in Threads, NEW q \in Quorums, NEW b \in Blocks,
         ProcessRecoveredSig(t, q, b)
  PROVE  /\ Moves(t) \/ UNCHANGED call
         /\ SharedOK' /\ UNCHANGED <<governance, voted>>
<1>1. b \in Signed[q] /\ recovered' = recovered \cup {<<q, b>>}
      /\ UNCHANGED <<chainVars, sporkVars, isEnforced, winnerVars, cacheVars,
                     mapSignedRequestIds, attempt, lastSigned, voted>>
  BY Zenon DEF ProcessRecoveredSig
<1>2. SharedOK' /\ UNCHANGED <<governance, voted>>
  <2>1. recovered \subseteq Quorums \X Blocks /\ \A p \in recovered : p[2] \in Signed[p[1]]
    BY Zenon DEF ThreadInv, SharedOK
  <2>2. recovered' \subseteq Quorums \X Blocks /\ \A p \in recovered' : p[2] \in Signed[p[1]]
    <3>1. <<q, b>> \in Quorums \X Blocks /\ <<q, b>>[1] = q /\ <<q, b>>[2] = b
      BY Zenon
    <3>2. QED
      BY Zenon, <1>1, <2>1, <3>1
  <2>3. QED
    BY Zenon, <1>1, <2>2 DEF ThreadInv, SharedOK, chainVars, sporkVars, winnerVars, bestVars,
      cacheVars
<1>3. CASE EnterProcessNewChainLock(t, Idle, RecoveredCLSig(q, b), q)
  <2>1. PICK sig : sig = RecoveredCLSig(q, b)
    BY Zenon
  <2>2. Genuine(sig) /\ sig.signers = {} /\ sig.block = b
    BY Zenon, <1>1, <2>1, RecoveredGenuine
  <2>3. PICK r : r = [Idle EXCEPT !.pc = "CheckActiveState", !.next = "CheckHeight",
                                  !.clsig = sig, !.id = q]
    BY Zenon
  <2>4. call' = [call EXCEPT ![t] = r]
    BY Zenon, <1>3, <2>1, <2>3 DEF EnterProcessNewChainLock, Set
  <2>5. CallOK(r, governance) /\ r.pc # "WriteVote"
    BY Zenon, <1>1, <2>2, <2>3, IdleOK, EnterOK
  <2>6. QED
    BY Zenon, <1>2, <2>4, <2>5 DEF Moves
<1>4. QED
  BY Zenon, <1>2, <1>3 DEF ProcessRecoveredSig

-----------------------------------------------------------------------------
(* TrySignChainTip, place by place. *)

LEMMA CleanupStep ==
  ASSUME ThreadInv, NEW t \in Threads, Cleanup(t)
  PROVE  Moves(t) /\ SharedOK' /\ UNCHANGED <<governance, voted>>
<1>1. PICK c : c = call[t] /\ CallOK(c, governance) /\ Call(c) /\ c.pc = "Cleanup"
  BY SMT, Z3, SMTT(10), Z3T(10), ThreadAt DEF Cleanup
<1>2. PICK r : r = [c EXCEPT !.pc = "SignTarget"]
  BY Zenon
<1>3. call' = [call EXCEPT ![t] = r] \/ call' = [call EXCEPT ![t] = SignReturned(call[t])]
  BY Zenon, <1>1, <1>2 DEF Cleanup, AfterCleanup, Set
<1>4. Call(r) /\ r.pc = "SignTarget" /\ r.clsig = c.clsig /\ r.id = c.id
  BY SMT, Z3, SMTT(10), Z3T(10), <1>1, <1>2, GotoFacts
<1>5. CallOK(r, governance) /\ r.pc # "WriteVote"
  BY Zenon, <1>1, <1>4, PlainOK DEF Keeps
<1>6. Moves(t)
  BY Zenon, <1>3, <1>5, SignReturnMoves DEF Moves
<1>7. /\ seenChainLocks' \subseteq seenChainLocks /\ sigChecked' \subseteq sigChecked
      /\ bestChainLockCandidates' \subseteq bestChainLockCandidates
      /\ bestChainLockShares' \subseteq bestChainLockShares
      /\ recentChainLocks' \subseteq recentChainLocks
  BY Zenon DEF Cleanup, shared, cacheVars, winnerVars, bestVars, Pruned
<1>8. UNCHANGED <<chainVars, sporkVars, isEnforced, bestChainLockWithKnownBlock,
                  bestChainLockBlockIndex, signVars>>
  BY Zenon DEF Cleanup, shared, winnerVars, bestVars
<1>9. SharedOK' /\ UNCHANGED <<governance, voted>>
  BY Zenon, <1>7, <1>8 DEF ThreadInv, SharedOK, chainVars, sporkVars, signVars
<1>10. QED
  BY Zenon, <1>6, <1>9

LEMMA SignTargetStep ==
  ASSUME ThreadInv, NEW t \in Threads, SignTarget(t)
  PROVE  Moves(t)
<1>1. PICK c : c = call[t] /\ CallOK(c, governance) /\ Call(c) /\ c.pc = "SignTarget"
  BY SMT, Z3, SMTT(10), Z3T(10), ThreadAt DEF SignTarget
<1>2. PICK b : b = ActiveChain(SignHeight)
  BY Zenon
<1>3. PICK r : r = [c EXCEPT !.pc = "SignReadBest", !.target = b]
  BY Zenon
<1>4. \/ call' = [call EXCEPT ![t] = r] /\ b \in validScripts
      \/ call' = [call EXCEPT ![t] = SignReturned(call[t])]
  BY Zenon, <1>1, <1>2, <1>3 DEF SignTarget, Local, SignReturn, Set
<1>5. validScripts \subseteq Blocks
  BY Zenon DEF ThreadInv, SharedOK
<1>6. Call(r) /\ r.pc = "SignReadBest" /\ r.clsig = c.clsig /\ r.id = c.id /\ r.target = b
  BY Zenon, <1>1, <1>3 DEF Call
<1>7. b \in validScripts => CallOK(r, governance) /\ r.pc # "WriteVote"
  BY Zenon, <1>1, <1>5, <1>6, SigningOK DEF Keeps
<1>8. QED
  BY Zenon, <1>4, <1>7, SignReturnMoves DEF Moves

LEMMA SignReadBestStep ==
  ASSUME ThreadInv, NEW t \in Threads, SignReadBest(t)
  PROVE  Moves(t)
<1>1. PICK c : c = call[t] /\ CallOK(c, governance) /\ Call(c) /\ c.pc = "SignReadBest"
  BY SMT, Z3, SMTT(10), Z3T(10), ThreadAt DEF SignReadBest
<1>2. PICK r : r = [c EXCEPT !.pc = "SignConfirmed", !.best = bestChainLockBlockIndex]
  BY Zenon
<1>3. c.target \in Blocks /\ bestChainLockBlockIndex \in Blocks \cup {None}
  BY Zenon, <1>1 DEF CallOK, Signing, ThreadInv, SharedOK
<1>4. call' = [call EXCEPT ![t] = r]
  BY Zenon, <1>1, <1>2 DEF SignReadBest, Local, Set
<1>5. Call(r) /\ r.pc = "SignConfirmed" /\ r.clsig = c.clsig /\ r.id = c.id /\ r.target = c.target
  BY Zenon, <1>1, <1>2, <1>3 DEF Call
<1>6. CallOK(r, governance) /\ r.pc # "WriteVote"
  BY Zenon, <1>1, <1>3, <1>5, SigningOK DEF Keeps
<1>7. QED
  BY Zenon, <1>4, <1>6 DEF Moves

LEMMA SignConfirmedStep ==
  ASSUME ThreadInv, NEW t \in Threads, SignConfirmed(t)
  PROVE  Moves(t)
<1>1. PICK c : c = call[t] /\ CallOK(c, governance) /\ Call(c) /\ c.pc = "SignConfirmed"
  BY SMT, Z3, SMTT(10), Z3T(10), ThreadAt DEF SignConfirmed
<1>2. PICK r : r = [c EXCEPT !.pc = "SignCheck", !.best = None]
  BY Zenon
<1>3. c.target \in Blocks
  BY Zenon, <1>1 DEF CallOK, Signing
<1>4. call' = [call EXCEPT ![t] = r] \/ call' = [call EXCEPT ![t] = SignReturned(call[t])]
  BY Zenon, <1>1, <1>2 DEF SignConfirmed, Local, SignReturn, Set
<1>5. Call(r) /\ r.pc = "SignCheck" /\ r.clsig = c.clsig /\ r.id = c.id /\ r.target = c.target
  BY Zenon, <1>1, <1>2 DEF Call
<1>6. CallOK(r, governance) /\ r.pc # "WriteVote"
  BY Zenon, <1>1, <1>3, <1>5, SigningOK DEF Keeps
<1>7. QED
  BY Zenon, <1>4, <1>6, SignReturnMoves DEF Moves

LEMMA SignCheckStep ==
  ASSUME ThreadInv, NEW t \in Threads, SignCheck(t)
  PROVE  Moves(t) /\ SharedOK' /\ UNCHANGED <<governance, voted>>
<1>0. At(t, "SignCheck")
  BY Zenon DEF SignCheck
<1>1. PICK c : c = call[t] /\ CallOK(c, governance) /\ Call(c) /\ c.pc = "SignCheck"
  BY Zenon, <1>0, ThreadCall
<1>2. PICK r : r = [c EXCEPT !.pc = "SigningContext"]
  BY Zenon
<1>3. c.target \in Blocks
  BY Zenon, <1>1 DEF CallOK, Signing
<1>4. call' = [call EXCEPT ![t] = r] \/ call' = [call EXCEPT ![t] = SignReturned(call[t])]
  BY Zenon, <1>1, <1>2 DEF SignCheck, Goto, SignReturn, Set
<1>5. Call(r) /\ r.pc = "SigningContext" /\ r.clsig = c.clsig /\ r.id = c.id /\ r.target = c.target
  BY SMT, Z3, SMTT(10), Z3T(10), <1>1, <1>2, GotoFacts
<1>6. CallOK(r, governance) /\ r.pc # "WriteVote"
  BY Zenon, <1>1, <1>3, <1>5, SigningOK DEF Keeps
<1>7. Moves(t)
  BY Zenon, <1>4, <1>6, SignReturnMoves DEF Moves
<1>8. UNCHANGED <<chainVars, sporkVars, isEnforced, winnerVars, cacheVars, recovered, voted>>
  BY Zenon DEF SignCheck, SignReturn, shared, signVars
<1>9. /\ mapSignedRequestIds' \subseteq mapSignedRequestIds
      /\ \/ UNCHANGED <<attempt, lastSigned>>
         \/ attempt' = ATTEMPT_START /\ lastSigned' = bestChainLockWithKnownBlock.block
  BY Zenon DEF SignCheck, SignReturn, SetLastSigned, shared, signVars
<1>10. bestChainLockWithKnownBlock.block \in Blocks \cup {None}
  <2>1. bestChainLockWithKnownBlock # NoSig => bestChainLockWithKnownBlock \in CLSig
    BY Zenon DEF ThreadInv, SharedOK, Certified, Genuine
  <2>2. NoSig.block = None /\ \A sig \in CLSig : sig.block \in Blocks
    BY Zenon DEF CLSig, NoSig
  <2>3. QED
    BY Zenon, <2>1, <2>2
<1>11. attempt' \in ATTEMPT_START..signingActiveQuorumCount /\ lastSigned' \in Blocks \cup {None}
  <2>1. /\ attempt \in ATTEMPT_START..signingActiveQuorumCount
        /\ lastSigned \in Blocks \cup {None}
    BY Zenon DEF ThreadInv, SharedOK
  <2>2. QED
    BY Zenon, <1>9, <1>10, <2>1, StartInRange
<1>12. SharedOK' /\ UNCHANGED <<governance, voted>>
  BY Zenon, <1>8, <1>9, <1>11 DEF ThreadInv, SharedOK, chainVars, sporkVars, winnerVars, bestVars, cacheVars
<1>13. QED
  BY Zenon, <1>7, <1>12

LEMMA SigningContextStep ==
  ASSUME ThreadInv, NEW t \in Threads, SigningContext(t)
  PROVE  Moves(t)
<1>1. PICK c : c = call[t] /\ CallOK(c, governance) /\ Call(c) /\ c.pc = "SigningContext"
  BY SMT, Z3, SMTT(10), Z3T(10), ThreadAt DEF SigningContext
<1>2. PICK r : r = [Snapshot(c, c.target) EXCEPT !.pc = "SigningQuorums"]
  BY Zenon
<1>3. c.target \in Blocks
  BY Zenon, <1>1 DEF CallOK, Signing
<1>4. call' = [call EXCEPT ![t] = r]
  BY Zenon, <1>1, <1>2 DEF SigningContext, Local, Set
<1>5. Call(r) /\ r.pc = "SigningQuorums" /\ r.clsig = c.clsig /\ r.id = c.id /\ r.target = c.target
  BY Zenon, <1>1, <1>2 DEF Call, Snapshot
<1>6. CallOK(r, governance) /\ r.pc # "WriteVote"
  BY Zenon, <1>1, <1>3, <1>5, SigningOK DEF Keeps
<1>7. QED
  BY Zenon, <1>4, <1>6 DEF Moves

LEMMA SigningQuorumsStep ==
  ASSUME ThreadInv, NEW t \in Threads, SigningQuorums(t)
  PROVE  Moves(t)
<1>1. PICK c : c = call[t] /\ CallOK(c, governance) /\ Call(c) /\ c.pc = "SigningQuorums"
  BY SMT, Z3, SMTT(10), Z3T(10), ThreadAt DEF SigningQuorums
<1>2. PICK quorums : quorums = ScanQuorums(c.target)
  BY Zenon
<1>3. PICK r : r = [c EXCEPT !.pc = "SignShares", !.common = 0, !.quorums = quorums]
  BY Zenon
<1>4. c.target \in Blocks /\ tip \in Blocks
  BY Zenon, <1>1 DEF CallOK, Signing, ThreadInv, SharedOK
<1>5. \/ call' = [call EXCEPT ![t] = r] /\ StableContext(c.target, c.active, c.common, quorums)
      \/ call' = [call EXCEPT ![t] = SignReturned(call[t])]
  BY Zenon, <1>1, <1>2, <1>3 DEF SigningQuorums, Local, SignReturn, Set
<1>6. CASE call' = [call EXCEPT ![t] = r] /\ StableContext(c.target, c.active, c.common, quorums)
  <2>1. Vector(quorums)
    BY Zenon, <1>2, <1>4, <1>6, StableVector
  <2>2. quorums \in Seq(Quorums)
    BY Zenon, <2>1, VectorFacts
  <2>3. /\ Call(r) /\ r.pc = "SignShares" /\ r.clsig = c.clsig /\ r.id = c.id
        /\ r.target = c.target /\ r.quorums = quorums
    BY ZenonT(40), <1>1, <1>3, <2>2 DEF Call
  <2>4. CallOK(r, governance)
    BY Zenon, <1>1, <1>4, <2>1, <2>3, LoopingOK DEF Keeps, Looping, Alternative, Voting
  <2>5. QED
    BY Zenon, <1>6, <2>3, <2>4 DEF Moves
<1>7. QED
  BY Zenon, <1>5, <1>6, SignReturnMoves

LEMMA SignSharesStep ==
  ASSUME ThreadInv, NEW t \in Threads, SignShares(t)
  PROVE  Moves(t) /\ SharedOK' /\ UNCHANGED <<governance, voted>>
<1>1. PICK c : c = call[t] /\ CallOK(c, governance) /\ Call(c) /\ c.pc = "SignShares"
  BY SMT, Z3, SMTT(10), Z3T(10), ThreadAt DEF SignShares
<1>2. PICK shares : shares = {s \in bestChainLockShares : nHeight[s.block] = nHeight[c.target]}
  BY Zenon
<1>3. PICK r : r = [c EXCEPT !.pc = "SignLoop", !.shares = shares]
  BY Zenon
<1>4. c.target \in Blocks /\ Vector(c.quorums)
  BY Zenon, <1>1 DEF CallOK, Signing, Looping
<1>5. \A s \in shares : GenuineShare(s)
  BY Zenon, <1>2 DEF ThreadInv, SharedOK
<1>6. call' = [call EXCEPT ![t] = r]
  BY Zenon, <1>1, <1>2, <1>3 DEF SignShares, Set
<1>7. /\ Call(r) /\ r.pc = "SignLoop" /\ r.clsig = c.clsig /\ r.id = c.id
      /\ r.target = c.target /\ r.quorums = c.quorums
  BY Zenon, <1>1, <1>3, <1>5 DEF Call
<1>8. CallOK(r, governance)
  BY Zenon, <1>1, <1>4, <1>7, LoopingOK DEF Keeps, Looping, Alternative, Voting
<1>9. Moves(t)
  BY Zenon, <1>6, <1>7, <1>8 DEF Moves
<1>10. /\ attempt' = IF attempt < Len(c.quorums) THEN attempt + 1 ELSE attempt
       /\ UNCHANGED <<chainVars, sporkVars, isEnforced, winnerVars, cacheVars,
                      mapSignedRequestIds, lastSigned, recovered, voted>>
  BY Zenon, <1>1 DEF SignShares
<1>11. Len(c.quorums) = signingActiveQuorumCount /\ signingActiveQuorumCount \in Nat
  BY Zenon, <1>4, VectorFacts
<1>12. attempt' \in ATTEMPT_START..signingActiveQuorumCount
  <2>1. attempt \in ATTEMPT_START..signingActiveQuorumCount
    BY Zenon DEF ThreadInv, SharedOK
  <2>2. QED
    BY SMT, Z3, SMTT(10), Z3T(10), <1>10, <1>11, <2>1, StartInRange
<1>13. SharedOK' /\ UNCHANGED <<governance, voted>>
  BY Zenon, <1>10, <1>12 DEF ThreadInv, SharedOK, chainVars, sporkVars, winnerVars, bestVars, cacheVars
<1>14. QED
  BY Zenon, <1>9, <1>13

\* The quorum whose turn it is.
LEMMA PositionFacts ==
  ASSUME NEW c, Call(c), c.target \in Blocks, Vector(c.quorums)
  PROVE  Position(c, c.i) \in Indexes /\ c.quorums[Position(c, c.i)] \in Quorums
<1>1. /\ Len(c.quorums) = signingActiveQuorumCount /\ signingActiveQuorumCount \in Nat \ {0}
      /\ c.i \in Nat /\ nHeight[c.target] \in Nat
  BY Zenon, VectorFacts, BlockTreeConstants DEF Call
<1>2. Position(c, c.i) \in Indexes
  <2>1. PICK n \in Nat \ {0} : n = signingActiveQuorumCount
    BY Zenon, <1>1
  <2>2. PICK m \in Nat : m = nHeight[c.target] + c.i
    BY SMT, Z3, SMTT(10), Z3T(10), <1>1
  <2>3. m % n \in 0..(n - 1)
    BY SMT, Z3, SMTT(10), Z3T(10)
  <2>4. Position(c, c.i) = (m % n) + 1
    BY Zenon, <1>1, <2>1, <2>2 DEF Position
  <2>5. QED
    BY SMT, Z3, SMTT(10), Z3T(10), <2>1, <2>3, <2>4 DEF Indexes
<1>3. QED
  BY Zenon, <1>2 DEF Vector

LEMMA SignLoopStep ==
  ASSUME ThreadInv, NEW t \in Threads, SignLoop(t)
  PROVE  Moves(t)
<1>0. At(t, "SignLoop")
  BY Zenon DEF SignLoop
<1>1. PICK c : c = call[t] /\ CallOK(c, governance) /\ Call(c) /\ c.pc = "SignLoop"
  BY SMT, Z3, SMTT(10), Z3T(10), <1>0, ThreadAt
<1>2. c.target \in Blocks /\ Vector(c.quorums)
  BY Zenon, <1>1 DEF CallOK, Signing, Looping
<1>3. CASE call' = [call EXCEPT ![t] = [c EXCEPT !.i = @ + 1]]
  <2>1. PICK r : r = [c EXCEPT !.i = @ + 1]
    BY Zenon
  <2>2. /\ Call(r) /\ r.pc = "SignLoop" /\ r.clsig = c.clsig /\ r.id = c.id
        /\ r.target = c.target /\ r.quorums = c.quorums
    BY SMT, Z3, SMTT(10), Z3T(10), <1>1, <2>1 DEF Call
  <2>3. CallOK(r, governance)
    BY Zenon, <1>1, <1>2, <2>2, LoopingOK DEF Keeps, Looping, Alternative, Voting
  <2>4. QED
    BY Zenon, <1>3, <2>1, <2>2, <2>3 DEF Moves
<1>4. CASE call' = [call EXCEPT ![t] = [c EXCEPT !.pc = "SignVote"]]
  <2>1. PICK r : r = [c EXCEPT !.pc = "SignVote"]
    BY Zenon
  <2>2. /\ Call(r) /\ r.pc = "SignVote" /\ r.clsig = c.clsig /\ r.id = c.id
        /\ r.target = c.target /\ r.quorums = c.quorums
    BY SMT, Z3, SMTT(10), Z3T(10), <1>1, <2>1, GotoFacts
  <2>3. CallOK(r, governance)
    BY Zenon, <1>1, <1>2, <2>2, LoopingOK DEF Keeps, Looping, Alternative, Voting
  <2>4. QED
    BY Zenon, <1>4, <2>1, <2>2, <2>3 DEF Moves
<1>5. ASSUME NEW s \in c.shares,
             call' = [call EXCEPT ![t] = [c EXCEPT !.pc = "SignAlternative", !.alt = s.block]]
      PROVE  Moves(t)
  <2>1. s.block \in Blocks
    BY Zenon, <1>1 DEF Call, GenuineShare
  <2>2. PICK r : r = [c EXCEPT !.pc = "SignAlternative", !.alt = s.block]
    BY Zenon
  <2>3. /\ Call(r) /\ r.pc = "SignAlternative" /\ r.clsig = c.clsig /\ r.id = c.id
        /\ r.target = c.target /\ r.quorums = c.quorums /\ r.alt = s.block
    BY Zenon, <1>1, <2>2 DEF Call
  <2>4. CallOK(r, governance)
    BY Zenon, <1>1, <1>2, <2>1, <2>3, LoopingOK DEF Keeps, Looping, Alternative, Voting
  <2>5. QED
    BY Zenon, <1>5, <2>2, <2>3, <2>4 DEF Moves
<1>6. \A p, deeper : PreviousShare(c, p, deeper) \subseteq c.shares
  BY Zenon DEF PreviousShare, ShareOf
<1>7. \/ call' = [call EXCEPT ![t] = [c EXCEPT !.i = @ + 1]]
      \/ call' = [call EXCEPT ![t] = SignReturned(call[t])]
      \/ call' = [call EXCEPT ![t] = [c EXCEPT !.pc = "SignVote"]]
      \/ \E s \in c.shares :
           call' = [call EXCEPT ![t] = [c EXCEPT !.pc = "SignAlternative", !.alt = s.block]]
  <2> DEFINE previous == IF c.i = 0 THEN {} ELSE PreviousShare(c, Position(c, c.i), attempt > c.i)
             other == {s \in previous : s.block # c.target}
  <2>1. other \subseteq c.shares
    BY Zenon, <1>6
  <2>2. \/ Local(t, [c EXCEPT !.i = @ + 1])
        \/ SignReturn(t)
        \/ Jump(t, "SignVote")
        \/ \E s \in other : Local(t, [c EXCEPT !.pc = "SignAlternative", !.alt = s.block])
    BY Zenon, <1>1 DEF SignLoop
  <2> HIDE DEF other
  <2>3. QED
    BY Zenon, <1>1, <2>1, <2>2 DEF Local, SignReturn, Jump, Goto, Set
<1>8. QED
  BY Zenon, <1>3, <1>4, <1>5, <1>7, SignReturnMoves

LEMMA KeepTargetStep ==
  ASSUME ThreadInv, NEW t \in Threads, call[t].pc \in Alternative, KeepTarget(t)
  PROVE  Moves(t)
<1>1. PICK c : c = call[t] /\ CallOK(c, governance) /\ Call(c) /\ c.pc \in Alternative
  BY Zenon DEF ThreadInv, CallOK
<1>2. c.target \in Blocks /\ Vector(c.quorums)
  BY Zenon, <1>1 DEF CallOK, Signing, Looping
<1>3. PICK r : r = [c EXCEPT !.pc = "SignVote", !.alt = None, !.altActive = None, !.common = 0]
  BY Zenon
<1>4. call' = [call EXCEPT ![t] = r] \/ call' = [call EXCEPT ![t] = SignReturned(call[t])]
  BY Zenon, <1>1, <1>3 DEF KeepTarget, SignReturn, Local, Set
<1>5. /\ Call(r) /\ r.pc = "SignVote" /\ r.clsig = c.clsig /\ r.id = c.id
      /\ r.target = c.target /\ r.quorums = c.quorums
  BY Zenon, <1>1, <1>3 DEF Call
<1>6. CallOK(r, governance)
  BY Zenon, <1>1, <1>2, <1>5, LoopingOK DEF Keeps, Looping, Alternative, Voting
<1>7. QED
  BY Zenon, <1>4, <1>5, <1>6, SignReturnMoves DEF Moves

LEMMA SignAlternativeStep ==
  ASSUME ThreadInv, NEW t \in Threads, SignAlternative(t)
  PROVE  Moves(t)
<1>1. PICK c : c = call[t] /\ CallOK(c, governance) /\ Call(c) /\ c.pc = "SignAlternative"
  BY SMT, Z3, SMTT(10), Z3T(10), ThreadAt DEF SignAlternative
<1>2. c.target \in Blocks /\ Vector(c.quorums) /\ c.alt \in Blocks
  BY Zenon, <1>1 DEF CallOK, Signing, Looping, Alternative
<1>3. PICK active, common : active = ActiveChain(nHeight[c.alt]) /\ common = nHeight[Fork(c.alt, tip)]
  BY Zenon
<1>4. PICK r : r = [c EXCEPT !.pc = "AlternativeQuorums", !.altActive = active, !.common = common]
  BY Zenon
<1>5. call' = [call EXCEPT ![t] = r] \/ KeepTarget(t)
  BY Zenon, <1>1, <1>3, <1>4 DEF SignAlternative, Local, Set
<1>6. /\ Call(r) /\ r.pc = "AlternativeQuorums" /\ r.clsig = c.clsig /\ r.id = c.id
      /\ r.target = c.target /\ r.quorums = c.quorums /\ r.alt = c.alt
  BY Zenon, <1>1, <1>4 DEF Call
<1>7. CallOK(r, governance)
  BY Zenon, <1>1, <1>2, <1>6, LoopingOK DEF Keeps, Looping, Alternative, Voting
<1>8. CASE KeepTarget(t)
  BY Zenon, <1>1, <1>8, KeepTargetStep DEF Alternative
<1>9. QED
  BY Zenon, <1>5, <1>6, <1>7, <1>8 DEF Moves

LEMMA AlternativeQuorumsStep ==
  ASSUME ThreadInv, NEW t \in Threads, AlternativeQuorums(t)
  PROVE  Moves(t)
<1>1. PICK c : c = call[t] /\ CallOK(c, governance) /\ Call(c) /\ c.pc = "AlternativeQuorums"
  BY Zenon, ThreadAt DEF AlternativeQuorums
<1>2. c.target \in Blocks /\ Vector(c.quorums) /\ c.alt \in Blocks
  BY Zenon, <1>1 DEF CallOK, Signing, Looping, Alternative
<1>3. PICK r : r = [c EXCEPT !.pc = "SignVote", !.target = c.alt, !.active = c.altActive,
                             !.alt = None, !.altActive = None, !.common = 0]
  BY Zenon
<1>4. call' = [call EXCEPT ![t] = r] \/ KeepTarget(t)
  BY Zenon, <1>1, <1>3 DEF AlternativeQuorums, Local, Set
<1>5. /\ Call(r) /\ r.pc = "SignVote" /\ r.clsig = c.clsig /\ r.id = c.id
      /\ r.target = c.alt /\ r.quorums = c.quorums
  BY Zenon, <1>1, <1>3 DEF Call
<1>6. CallOK(r, governance)
  BY Zenon, <1>1, <1>2, <1>5, LoopingOK DEF Keeps, Looping, Alternative, Voting
<1>7. CASE KeepTarget(t)
  BY Zenon, <1>1, <1>7, KeepTargetStep DEF Alternative
<1>8. QED
  BY Zenon, <1>4, <1>5, <1>6, <1>7 DEF Moves

LEMMA SignVoteStep ==
  ASSUME ThreadInv, NEW t \in Threads, SignVote(t)
  PROVE  Moves(t) /\ SharedOK' /\ UNCHANGED <<governance, voted>>
<1>0. At(t, "SignVote")
  BY Zenon DEF SignVote
<1>1. PICK c : c = call[t] /\ CallOK(c, governance) /\ Call(c) /\ c.pc = "SignVote"
  BY Zenon, <1>0, ThreadCall
<1>2. c.target \in Blocks /\ Vector(c.quorums)
  BY Zenon, <1>1 DEF CallOK, Signing, Looping
<1>3. PICK q : q = c.quorums[Position(c, c.i)]
  BY Zenon
<1>4. q \in Quorums
  BY Zenon, <1>1, <1>2, <1>3, PositionFacts
<1>5. PICK r : r = [c EXCEPT !.pc = "AsyncSign"]
  BY Zenon
<1>6. \/ /\ IsCandidateStillAdmissible(c.target)
         /\ mapSignedRequestIds' \subseteq mapSignedRequestIds \cup {<<q, c.target>>}
         /\ call' = [call EXCEPT ![t] = r]
         /\ UNCHANGED <<chainVars, sporkVars, isEnforced, winnerVars, cacheVars,
                        attempt, lastSigned, recovered, voted>>
      \/ call' = [call EXCEPT ![t] = SignReturned(call[t])] /\ UNCHANGED shared
  BY Zenon, <1>1, <1>3, <1>5 DEF SignVote, Goto, SignReturn, Set
<1>7. CASE call' = [call EXCEPT ![t] = SignReturned(call[t])] /\ UNCHANGED shared
  BY Zenon, <1>7, SignReturnMoves DEF ThreadInv, SharedOK, shared, chainVars, sporkVars, winnerVars,
     bestVars, cacheVars, signVars
<1>8. CASE /\ IsCandidateStillAdmissible(c.target)
           /\ mapSignedRequestIds' \subseteq mapSignedRequestIds \cup {<<q, c.target>>}
           /\ call' = [call EXCEPT ![t] = r]
           /\ UNCHANGED <<chainVars, sporkVars, isEnforced, winnerVars, cacheVars,
                          attempt, lastSigned, recovered, voted>>
  <2>1. c.target \in Superblocks => c.target \in governance
    BY Zenon, <1>8 DEF IsCandidateStillAdmissible
  <2>2. /\ Call(r) /\ r.pc = "AsyncSign" /\ r.clsig = c.clsig /\ r.id = c.id
        /\ r.target = c.target /\ r.quorums = c.quorums
    BY SMT, Z3, SMTT(10), Z3T(10), <1>1, <1>5, GotoFacts
  <2>3. CallOK(r, governance)
    BY Zenon, <1>1, <1>2, <2>1, <2>2, LoopingOK DEF Keeps, Looping, Alternative, Voting
  <2>4. mapSignedRequestIds' \subseteq Quorums \X Blocks
    <3>1. mapSignedRequestIds \subseteq Quorums \X Blocks
      BY Zenon DEF ThreadInv, SharedOK
    <3>2. QED
      BY SMT, Z3, SMTT(10), Z3T(10), <1>2, <1>4, <1>8, <3>1
  <2>5. SharedOK' /\ UNCHANGED <<governance, voted>>
    BY Zenon, <1>8, <2>4 DEF ThreadInv, SharedOK, chainVars, sporkVars, winnerVars, bestVars, cacheVars
  <2>6. QED
    BY Zenon, <1>8, <2>2, <2>3, <2>5 DEF Moves
<1>9. QED
  BY Zenon, <1>6, <1>7, <1>8

\* The quorum that is asked for a signature, and the request's height.
Asked(r) == r.quorums[Position(r, r.i)]

\* The record with which the loop goes on to the next quorum.
LEMMA NextQuorumFacts ==
  ASSUME NEW c, Call(c), NEW r, r = NextQuorum(c)
  PROVE  /\ Call(r) /\ r.pc = "SignLoop" /\ r.clsig = c.clsig /\ r.id = c.id
         /\ r.target = c.target /\ r.quorums = c.quorums
<1>1. PICK i : i = c.i + 1
  BY Zenon
<1>2. i \in Nat
  BY SMT, Z3, SMTT(10), Z3T(10), <1>1 DEF Call
<1>3. r = [c EXCEPT !.pc = "SignLoop", !.i = i]
  BY Zenon, <1>1 DEF NextQuorum
<1>4. QED
  BY Zenon, <1>2, <1>3 DEF Call

LEMMA AsyncSignStep ==
  ASSUME ThreadInv, NEW t \in Threads, AsyncSignIfMember(t)
  PROVE  /\ Moves(t) /\ UNCHANGED shared
         /\ \E r : /\ call' = [call EXCEPT ![t] = r]
                   /\ r.pc = "WriteVote" => IdsAt(voted, Asked(r), nHeight[r.target]) = {}
<1>0. At(t, "AsyncSign")
  BY Zenon DEF AsyncSignIfMember
<1>1. PICK c : c = call[t] /\ CallOK(c, governance) /\ Call(c) /\ c.pc = "AsyncSign"
  BY Zenon, <1>0, ThreadCall
<1>2. /\ c.target \in Blocks /\ Vector(c.quorums)
      /\ c.target \in Superblocks => c.target \in governance
  BY Zenon, <1>1 DEF CallOK, Signing, Looping, Voting
<1>3. PICK r : r = NextQuorum(c)
  BY Zenon
<1>4. PICK s : s = [c EXCEPT !.pc = "WriteVote"]
  BY Zenon
<1>5. /\ UNCHANGED shared
      /\ \/ call' = [call EXCEPT ![t] = r]
         \/ /\ call' = [call EXCEPT ![t] = s]
            /\ IdsAt(voted, c.quorums[Position(c, c.i)], nHeight[c.target]) = {}
  BY Zenon, <1>1, <1>3, <1>4 DEF AsyncSignIfMember, Local, Jump, Goto, Set
<1>6. /\ Call(r) /\ r.pc = "SignLoop" /\ r.clsig = c.clsig /\ r.id = c.id
      /\ r.target = c.target /\ r.quorums = c.quorums
  BY ZenonT(40), <1>1, <1>3, NextQuorumFacts
<1>7. CallOK(r, governance)
  BY Zenon, <1>1, <1>2, <1>6, LoopingOK DEF Keeps, Looping, Alternative, Voting
<1>8. /\ Call(s) /\ s.pc = "WriteVote" /\ s.clsig = c.clsig /\ s.id = c.id
      /\ s.target = c.target /\ s.quorums = c.quorums /\ s.i = c.i
  BY SMT, Z3, SMTT(10), Z3T(10), <1>1, <1>4, GotoFacts
<1>9. CallOK(s, governance)
  BY Zenon, <1>1, <1>2, <1>8, LoopingOK DEF Keeps, Looping, Alternative, Voting
<1>10. At(t, "AsyncSign")
  BY Zenon DEF AsyncSignIfMember
<1>11. Moves(t)
  BY Zenon, <1>5, <1>6, <1>7, <1>9, <1>10 DEF Moves
<1>12. Asked(s) = c.quorums[Position(c, c.i)]
  BY Zenon, <1>8 DEF Asked, Position
<1>13. QED
  BY Zenon, <1>5, <1>6, <1>8, <1>11, <1>12

LEMMA WriteVoteStep ==
  ASSUME ThreadInv, NEW t \in Threads, WriteVoteForId(t)
  PROVE  Moves(t) /\ SharedOK' /\ UNCHANGED governance
<1>0. At(t, "WriteVote")
  BY Zenon DEF WriteVoteForId
<1>1. PICK c : c = call[t] /\ CallOK(c, governance) /\ Call(c) /\ c.pc = "WriteVote"
  BY Zenon, <1>0, ThreadCall
<1>2. /\ c.target \in Blocks /\ Vector(c.quorums)
      /\ c.target \in Superblocks => c.target \in governance
  BY Zenon, <1>1 DEF CallOK, Signing, Looping, Voting
<1>3. PICK r : r = NextQuorum(c)
  BY Zenon
<1>4. PICK q : q = c.quorums[Position(c, c.i)] /\ q \in Quorums
  BY Zenon, <1>1, <1>2, PositionFacts
<1>5. /\ call' = [call EXCEPT ![t] = r]
      /\ voted' = voted \cup {<<q, c.target>>}
      /\ UNCHANGED <<chainVars, sporkVars, isEnforced, winnerVars, cacheVars,
                     mapSignedRequestIds, attempt, lastSigned, recovered>>
  BY Zenon, <1>1, <1>3, <1>4 DEF WriteVoteForId, Set
<1>6. /\ Call(r) /\ r.pc = "SignLoop" /\ r.clsig = c.clsig /\ r.id = c.id
      /\ r.target = c.target /\ r.quorums = c.quorums
  BY ZenonT(40), <1>1, <1>3, NextQuorumFacts
<1>7. CallOK(r, governance)
  BY Zenon, <1>1, <1>2, <1>6, LoopingOK DEF Keeps, Looping, Alternative, Voting
<1>8. Moves(t)
  BY Zenon, <1>5, <1>6, <1>7 DEF Moves
<1>9. UNCHANGED governance
  BY Zenon, <1>5 DEF chainVars
<1>10. voted' \subseteq Quorums \X Blocks /\ \A p \in voted' : p[2] \in Superblocks => p[2] \in governance
  <2>1. /\ voted \subseteq Quorums \X Blocks
        /\ \A p \in voted : p[2] \in Superblocks => p[2] \in governance
    BY Zenon DEF ThreadInv, SharedOK
  <2>2. PICK x : x = <<q, c.target>>
    BY Zenon
  <2>3. x \in Quorums \X Blocks /\ x[2] = c.target
    BY Zenon, <1>2, <1>4, <2>2
  <2>4. x[2] \in Superblocks => x[2] \in governance
    BY Zenon, <1>2, <2>3
  <2>5. voted' = voted \cup {x}
    BY Zenon, <1>5, <2>2
  <2>6. QED
    BY Zenon, <2>1, <2>3, <2>4, <2>5
<1>11. SharedOK'
  BY Zenon, <1>5, <1>9, <1>10 DEF ThreadInv, SharedOK, chainVars, sporkVars, winnerVars, bestVars, cacheVars
<1>12. QED
  BY Zenon, <1>8, <1>9, <1>11

LEMMA SignDoneStep ==
  ASSUME ThreadInv, NEW t \in Threads, SignDone(t)
  PROVE  Moves(t) /\ SharedOK' /\ UNCHANGED <<governance, voted>>
<1>0. At(t, "SignLoop")
  BY Zenon DEF SignDone
<1>1. PICK c : c = call[t] /\ CallOK(c, governance) /\ c.pc = "SignLoop"
  BY Zenon, <1>0, ThreadCall
<1>2. c.target \in Blocks
  BY Zenon, <1>1 DEF CallOK, Signing, Looping
<1>3. Moves(t)
  BY Zenon, SignReturnMoves DEF SignDone, Set
<1>4. /\ \/ UNCHANGED <<attempt, lastSigned>>
         \/ attempt' = ATTEMPT_START /\ lastSigned' = c.target
      /\ UNCHANGED <<chainVars, sporkVars, isEnforced, winnerVars, cacheVars,
                     mapSignedRequestIds, recovered, voted>>
  BY Zenon, <1>1 DEF SignDone, SetLastSigned
<1>5. attempt' \in ATTEMPT_START..signingActiveQuorumCount /\ lastSigned' \in Blocks \cup {None}
  <2>1. /\ attempt \in ATTEMPT_START..signingActiveQuorumCount
        /\ lastSigned \in Blocks \cup {None}
    BY Zenon DEF ThreadInv, SharedOK
  <2>2. QED
    BY Zenon, <1>2, <1>4, <2>1, StartInRange
<1>6. SharedOK' /\ UNCHANGED <<governance, voted>>
  BY Zenon, <1>4, <1>5 DEF ThreadInv, SharedOK, chainVars, sporkVars, winnerVars, bestVars, cacheVars
<1>7. QED
  BY Zenon, <1>3, <1>6

-----------------------------------------------------------------------------
(* The whole step. *)

LEMMA QuietShared ==
  ASSUME ThreadInv, UNCHANGED shared
  PROVE  SharedOK' /\ UNCHANGED <<governance, voted>>
BY Zenon DEF ThreadInv, SharedOK, shared, chainVars, sporkVars, winnerVars, bestVars, cacheVars, signVars

\* What any step of a thread that is in the handler comes to.
Advances(t) ==
  /\ Moves(t) /\ SharedOK' /\ UNCHANGED governance
  /\ UNCHANGED voted \/ WriteVoteForId(t)

LEMMA SetActiveStateShared ==
  ASSUME ThreadInv, NEW t \in Threads, SetActiveState(t)
  PROVE  SharedOK' /\ UNCHANGED <<governance, voted>>
<1>1. /\ isEnforced' \in BOOLEAN
      /\ UNCHANGED <<chainVars, sporkVars, recentChainLocks, cacheVars, signVars>>
  BY Zenon DEF SetActiveState, At
<1>2. \/ /\ bestChainLockWithKnownBlock' = NoSig /\ bestChainLockBlockIndex' = None
         /\ bestChainLockCandidates' = {} /\ bestChainLockShares' = {}
      \/ UNCHANGED bestVars
  BY Zenon DEF SetActiveState
<1>3. None \notin Superblocks
  BY Zenon, BlockTreeConstants, ChainLocksConstants
<1>4. QED
  BY Zenon, <1>1, <1>2, <1>3 DEF ThreadInv, SharedOK, chainVars, sporkVars, bestVars, cacheVars, signVars

LEMMA ProcessStep ==
  ASSUME ThreadInv, NEW t \in Threads, Process(t)
  PROVE  Advances(t)
<1>1. CASE CheckActiveState(t)
  BY Zenon, <1>1, CheckActiveStateStep, QuietShared DEF Advances, CheckActiveState, Jump
<1>2. CASE SetActiveState(t)
  BY Zenon, <1>2, SetActiveStateStep, SetActiveStateShared DEF Advances
<1>3. CASE CheckHeight(t)
  BY Zenon, <1>3, CheckHeightStep, QuietShared DEF Advances, CheckHeight, Jump, Return
<1>4. CASE ReadBestIndex(t)
  BY Zenon, <1>4, ReadBestIndexStep, QuietShared DEF Advances, ReadBestIndex, Local
<1>5. CASE CheckTarget(t)
  BY Zenon, <1>5, CheckTargetStep, QuietShared DEF Advances, CheckTarget, Local, Return
<1>6. CASE CheckConflict(t)
  BY Zenon, <1>6, CheckConflictStep, QuietShared DEF Advances, CheckConflict, Jump, Return
<1>7. CASE VerificationContext(t)
  BY Zenon, <1>7, VerificationContextStep, QuietShared DEF Advances, VerificationContext, Local
<1>8. CASE Verify(t)
  <2>1. Moves(t) /\ \A x \in sigChecked' :
          x[1].signers # {} => x[1].sig = {x[2][i] : i \in x[1].signers}
    BY ZenonT(40), <1>8, VerifyStep
  <2>2. UNCHANGED <<chainVars, sporkVars, isEnforced, winnerVars, seenChainLocks, signVars>>
    BY Zenon, <1>8 DEF Verify, Return, shared, cacheVars
  <2>3. SharedOK' /\ UNCHANGED <<governance, voted>>
    BY Zenon, <2>1, <2>2 DEF ThreadInv, SharedOK, chainVars, sporkVars, winnerVars, bestVars, signVars
  <2>4. QED
    BY Zenon, <2>1, <2>3 DEF Advances
<1>9. CASE PublicationContext(t)
  BY Zenon, <1>9, PublicationContextStep, QuietShared DEF Advances, PublicationContext, Local
<1>10. CASE SameContext(t)
  BY Zenon, <1>10, SameContextStep, QuietShared DEF Advances, SameContext, Local, Return
<1>11. CASE PublishShare(t)
  BY Zenon, <1>11, PublishShareStep DEF Advances
<1>12. CASE PublishAggregate(t)
  BY Zenon, <1>12, PublishAggregateStep DEF Advances
<1>13. CASE StaleAfterVerify(t)
  BY Zenon, <1>13, ReturnMoves, QuietShared DEF Advances, StaleAfterVerify, Return, Set
<1>14. CASE Match(t)
  BY Zenon, <1>14, MatchStep, QuietShared DEF Advances, Match, Local, Jump
<1>15. CASE ReadBest(t)
  BY Zenon, <1>15, ReadBestStep, QuietShared DEF Advances, ReadBest, Local, Jump
<1>16. CASE EnforceBestChainLock(t)
  BY Zenon, <1>16, EnforceMoves, EnforceShared DEF Advances
<1>17. CASE Seen(t) \/ EraseSignedRequest(t)
  BY Zenon, <1>17, SeenStep, EraseStep DEF Advances
<1>18. CASE PendingIds(t)
  BY Zenon, <1>18, PendingIdsStep, QuietShared DEF Advances, PendingIds, Local
<1>19. CASE ProcessPendingRecoveredChainLockSigs(t)
  BY Zenon, <1>19, PendingStep, QuietShared DEF Advances, ProcessPendingRecoveredChainLockSigs
<1>20. QED
  BY Zenon, <1>1, <1>2, <1>3, <1>4, <1>5, <1>6, <1>7, <1>8, <1>9, <1>10, <1>11, <1>12, <1>13, <1>14,
     <1>15, <1>16, <1>17, <1>18, <1>19 DEF Process

LEMMA TrySignStep ==
  ASSUME ThreadInv, NEW t \in Threads, TrySignChainTip(t)
  PROVE  Advances(t)
<1>1. CASE Cleanup(t) \/ SignCheck(t) \/ SignShares(t) \/ SignVote(t) \/ SignDone(t)
  BY Zenon, <1>1, CleanupStep, SignCheckStep, SignSharesStep, SignVoteStep, SignDoneStep DEF Advances
<1>2. CASE SignTarget(t)
  BY Zenon, <1>2, SignTargetStep, QuietShared DEF Advances, SignTarget, Local, SignReturn
<1>3. CASE SignReadBest(t)
  BY Zenon, <1>3, SignReadBestStep, QuietShared DEF Advances, SignReadBest, Local
<1>4. CASE SignConfirmed(t)
  BY Zenon, <1>4, SignConfirmedStep, QuietShared DEF Advances, SignConfirmed, Local, SignReturn
<1>5. CASE SigningContext(t)
  BY Zenon, <1>5, SigningContextStep, QuietShared DEF Advances, SigningContext, Local
<1>6. CASE SigningQuorums(t)
  BY Zenon, <1>6, SigningQuorumsStep, QuietShared DEF Advances, SigningQuorums, Local, SignReturn
<1>7. CASE SignLoop(t)
  BY Zenon, <1>7, SignLoopStep, QuietShared DEF Advances, SignLoop, Local, Jump, SignReturn
<1>8. CASE SignAlternative(t)
  BY Zenon, <1>8, SignAlternativeStep, QuietShared DEF Advances, SignAlternative, KeepTarget, Local, SignReturn
<1>9. CASE AlternativeQuorums(t)
  BY Zenon, <1>9, AlternativeQuorumsStep, QuietShared DEF Advances, AlternativeQuorums, KeepTarget, Local, SignReturn
<1>10. CASE AsyncSignIfMember(t)
  BY Zenon, <1>10, AsyncSignStep, QuietShared DEF Advances
<1>11. CASE WriteVoteForId(t)
  BY Zenon, <1>11, WriteVoteStep DEF Advances
<1>12. QED
  BY Zenon, <1>1, <1>2, <1>3, <1>4, <1>5, <1>6, <1>7, <1>8, <1>9, <1>10, <1>11 DEF TrySignChainTip

\* The other threads stay where they are.
LEMMA MovesKeeps ==
  ASSUME ThreadInv, NEW t \in Threads, Moves(t), SharedOK', UNCHANGED governance
  PROVE  ThreadInv'
<1>1. PICK r : call' = [call EXCEPT ![t] = r] /\ CallOK(r, governance)
  BY Zenon DEF Moves
<1>2. DOMAIN call' = Threads /\ \A u \in Threads : call'[u] = IF u = t THEN r ELSE call[u]
  BY Zenon, <1>1 DEF ThreadInv
<1>3. \A u \in Threads : CallOK(call'[u], governance)
  BY Zenon, <1>1, <1>2 DEF ThreadInv
<1>4. QED
  BY Zenon, <1>2, <1>3 DEF ThreadInv

\* A step of the rest of the node; governance only grows.
LEMMA OutsideKeeps ==
  ASSUME ThreadInv, UNCHANGED call, SharedOK', governance \subseteq governance'
  PROVE  ThreadInv'
<1>1. \A u \in Threads : CallOK(call[u], governance')
  BY Zenon DEF ThreadInv, CallOK
<1>2. QED
  BY Zenon, <1>1 DEF ThreadInv

LEMMA ConnectTipShared ==
  ASSUME ThreadInv, NEW b \in Blocks, ConnectTip(b)
  PROVE  SharedOK' /\ governance \subseteq governance' /\ UNCHANGED <<call, voted>>
<1>1. /\ governance' \subseteq governance \cup ({b} \cap Superblocks)
      /\ governance \subseteq governance'
  BY Zenon DEF ConnectTip
<1>2. /\ tip' \in {tip, b} /\ validScripts' \subseteq validScripts \cup {b}
      /\ failed' \subseteq failed \cup {b}
      /\ UNCHANGED <<conflict, sporkVars, isEnforced, winnerVars, cacheVars, signVars, call>>
  BY Zenon DEF ConnectTip
<1>3. QED
  BY Zenon, <1>1, <1>2 DEF ThreadInv, SharedOK, sporkVars, winnerVars, bestVars, cacheVars, signVars

LEMMA InvalidateShared ==
  ASSUME ThreadInv, NEW b \in Blocks, InvalidateBlock(b)
  PROVE  SharedOK' /\ UNCHANGED <<governance, call, voted>>
<1>1. b \in Blocks \ {Root} /\ pprev[b] \in Blocks /\ tip \in Blocks /\ Anc[tip] \subseteq Blocks
  BY Zenon, BlockTreeConstants, ChainLocksConstants DEF InvalidateBlock, ThreadInv, SharedOK
<1>2. /\ tip' \in {tip, pprev[b]} /\ failed' \subseteq failed \cup Anc[tip] \cup {b}
      /\ UNCHANGED <<validScripts, conflict, governance, sporkVars, isEnforced,
                     winnerVars, cacheVars, signVars, call>>
  BY Zenon DEF InvalidateBlock
<1>3. QED
  BY Zenon, <1>1, <1>2 DEF ThreadInv, SharedOK, sporkVars, winnerVars, bestVars, cacheVars, signVars

\* A late header: the winner slot's own invariant keeps the winner where it is,
\* so that no block is locked here that was not looked at.
LEMMA NotifyShared ==
  ASSUME ThreadInv, WinnerInv, NEW b \in Blocks, NotifyHeaderTip(b)
  PROVE  SharedOK' /\ UNCHANGED <<governance, call, voted>>
<1>1. nHeight[b] <= HeightOf(bestChainLockWithKnownBlock)
  <2>1. \A c \in bestChainLockCandidates :
          c.block \in Blocks /\ HeightOf(c) <= HeightOf(bestChainLockWithKnownBlock)
    BY Zenon DEF WinnerInv, WinnerSlot
  <2>2. QED
    BY Zenon, <2>1, HeightOfFacts DEF NotifyHeaderTip
<1>2. /\ UNCHANGED <<bestChainLockWithKnownBlock, bestChainLockBlockIndex,
                     bestChainLockCandidates, bestChainLockShares, recentChainLocks>>
      /\ UNCHANGED <<chainVars, sporkVars, isEnforced, cacheVars, signVars, call>>
  BY Zenon, <1>1 DEF NotifyHeaderTip, TryUpdateBestChainLock, NewBest
<1>3. QED
  BY Zenon, <1>2 DEF ThreadInv, SharedOK, chainVars, sporkVars, cacheVars, signVars

LEMMA DisconnectShared ==
  ASSUME ThreadInv, DisconnectTip
  PROVE  SharedOK' /\ UNCHANGED <<governance, call, voted>>
<1>1. tip' \in Blocks
  BY Zenon, BlockTreeConstants DEF DisconnectTip, ThreadInv, SharedOK
<1>2. UNCHANGED <<validScripts, failed, conflict, governance, sporkVars, isEnforced,
                  winnerVars, cacheVars, signVars, call>>
  BY Zenon DEF DisconnectTip
<1>3. QED
  BY Zenon, <1>1, <1>2 DEF ThreadInv, SharedOK, sporkVars, winnerVars, bestVars, cacheVars, signVars

LEMMA SporkShared ==
  ASSUME ThreadInv, SporkChange
  PROVE  SharedOK' /\ UNCHANGED <<governance, call, voted>>
<1>1. spork' \in BOOLEAN /\ sporkChanges' \in 0..MaxSporkChanges
  <2>1. spork \in BOOLEAN /\ sporkChanges \in 0..MaxSporkChanges /\ MaxSporkChanges \in Nat
    BY Zenon, ChainLocksConstants DEF ThreadInv, SharedOK
  <2>2. /\ sporkChanges < MaxSporkChanges /\ sporkChanges' = sporkChanges + 1
        /\ spork' = ~spork
    BY Zenon DEF SporkChange
  <2>3. sporkChanges' \in 0..MaxSporkChanges
    BY SMT, Z3, SMTT(10), Z3T(10), <2>1, <2>2
  <2>4. QED
    BY Zenon, <2>1, <2>2, <2>3
<1>2. UNCHANGED <<chainVars, isEnforced, winnerVars, cacheVars, signVars, call>>
  BY Zenon DEF SporkChange
<1>3. QED
  BY ZenonT(40), <1>1, <1>2 DEF ThreadInv, SharedOK, chainVars, winnerVars, bestVars, cacheVars, signVars

\* What a step does to the calls and the votes.
CallStep ==
  \/ UNCHANGED <<call, voted>>
  \/ \E t \in Threads : Moves(t) /\ UNCHANGED voted /\ ~At(t, "AsyncSign")
  \/ \E t \in Threads : AsyncSignIfMember(t) /\ UNCHANGED voted
  \/ \E t \in Threads : WriteVoteForId(t)

LEMMA AdvancesStep ==
  ASSUME ThreadInv, NEW t \in Threads, Process(t) \/ TrySignChainTip(t)
  PROVE  ThreadInv' /\ CallStep
<1>1. Advances(t)
  BY Zenon, ProcessStep, TrySignStep
<1>2. ThreadInv'
  BY Zenon, <1>1, MovesKeeps DEF Advances
<1>3. At(t, "AsyncSign") => AsyncSignIfMember(t)
  <2> SUFFICES ASSUME call[t].pc = "AsyncSign" PROVE AsyncSignIfMember(t)
    BY Zenon DEF At
  <2>1. ~Process(t)
    BY Zenon DEF Process, At, CheckActiveState, SetActiveState, InSetActiveState, CheckHeight,
       ReadBestIndex, CheckTarget, CheckConflict, VerificationContext, Verify,
       PublicationContext, SameContext, PublishShare, PublishAggregate, StaleAfterVerify, Match,
       ReadBest, EnforceBestChainLock, Seen, EraseSignedRequest, PendingIds,
       ProcessPendingRecoveredChainLockSigs
  <2>2. QED
    BY Zenon, <2>1 DEF TrySignChainTip, At, Cleanup, SignTarget, SignReadBest, SignConfirmed, SignCheck,
       SigningContext, SigningQuorums, SignShares, SignLoop, SignAlternative, AlternativeQuorums,
       SignVote, WriteVoteForId, SignDone
<1>4. WriteVoteForId(t) \/ UNCHANGED voted
  BY Zenon, <1>1 DEF Advances
<1>5. QED
  BY Zenon, <1>1, <1>2, <1>3, <1>4 DEF Advances, CallStep

LEMMA ThreadNext ==
  ASSUME ThreadInv, WinnerInv, [Next]_vars
  PROVE  ThreadInv' /\ CallStep
<1>1. CASE UNCHANGED vars
  <2>1. UNCHANGED <<call, shared>>
    BY Zenon, <1>1 DEF vars
  <2>2. SharedOK' /\ UNCHANGED <<governance, voted>>
    BY Zenon, <2>1, QuietShared
  <2>3. QED
    BY Zenon, <2>1, <2>2, OutsideKeeps DEF CallStep
<1>2. ASSUME NEW t \in Threads, ProcessMessage(t) \/ ScheduledJob(t)
      PROVE  ThreadInv' /\ CallStep
  <2>1. Moves(t) /\ UNCHANGED shared /\ ~At(t, "AsyncSign")
    BY Zenon, <1>2, ProcessMessageStep, ScheduledJobStep DEF ProcessMessage, ScheduledJob, Local, At
  <2>2. SharedOK' /\ UNCHANGED <<governance, voted>>
    BY Zenon, <2>1, QuietShared
  <2>3. QED
    BY Zenon, <2>1, <2>2, MovesKeeps DEF CallStep
<1>3. ASSUME NEW t \in Threads, NEW q \in Quorums, NEW b \in Blocks, ProcessRecoveredSig(t, q, b)
      PROVE  ThreadInv' /\ CallStep
  <2>1. /\ Moves(t) \/ UNCHANGED call
        /\ SharedOK' /\ UNCHANGED <<governance, voted>> /\ ~At(t, "AsyncSign")
    BY Zenon, <1>3, ProcessRecoveredSigStep DEF ProcessRecoveredSig, At
  <2>2. QED
    BY Zenon, <2>1, MovesKeeps, OutsideKeeps DEF CallStep
<1>4. ASSUME NEW b \in Blocks, ConnectTip(b) \/ InvalidateBlock(b) \/ NotifyHeaderTip(b)
      PROVE  ThreadInv' /\ CallStep
  <2>1. SharedOK' /\ governance \subseteq governance' /\ UNCHANGED <<call, voted>>
    BY Zenon, <1>4, ConnectTipShared, InvalidateShared, NotifyShared
  <2>2. QED
    BY Zenon, <2>1, OutsideKeeps DEF CallStep
<1>5. CASE DisconnectTip \/ SporkChange
  <2>1. SharedOK' /\ governance \subseteq governance' /\ UNCHANGED <<call, voted>>
    BY Zenon, <1>5, DisconnectShared, SporkShared
  <2>2. QED
    BY Zenon, <2>1, OutsideKeeps DEF CallStep
<1>6. MessageThreads \subseteq Threads /\ SchedulerThreads \subseteq Threads
  BY Zenon DEF Threads
<1>7. QED
  BY Zenon, <1>1, <1>2, <1>3, <1>4, <1>5, <1>6, AdvancesStep DEF Next

-----------------------------------------------------------------------------
LEMMA InitThreads ==
  ASSUME Init
  PROVE  ThreadInv
<1>1. SharedOK
  <2>1. None \notin Superblocks /\ tip \in Blocks /\ InitScripts \subseteq Blocks
    BY Zenon, BlockTreeConstants, ChainLocksConstants DEF Init
  <2>2. 0 \in 0..MaxSporkChanges
    <3>1. MaxSporkChanges \in Nat
      BY Zenon, ChainLocksConstants
    <3>2. QED
      BY SMT, Z3, SMTT(10), Z3T(10), <3>1
  <2>3. QED
    BY Zenon, <2>1, <2>2, StartInRange DEF Init, SharedOK
<1>2. DOMAIN call = Threads /\ \A t \in Threads : call[t] = Idle
  BY Zenon DEF Init
<1>3. \A t \in Threads : CallOK(call[t], governance)
  BY Zenon, <1>2, IdleOK
<1>4. QED
  BY Zenon, <1>1, <1>2, <1>3 DEF ThreadInv

LEMMA ThreadInvariant == Spec => [](ThreadInv /\ WinnerInv)
<1>1. Init => ThreadInv /\ WinnerInv
  BY Zenon, InitThreads, InitWinner
<1>2. ThreadInv /\ WinnerInv /\ [Next]_vars => (ThreadInv /\ WinnerInv)'
  BY Zenon, ThreadNext, NextPreserves DEF Preserved
<1>3. QED
  BY <1>1, <1>2, PTL DEF Spec

\* The handler's state and the threads' records keep their types: in particular
\* bestChainLockCandidates and seenChainLocks never hold the empty CLSIG, and
\* BumpAttempt never passes the number of quorums.
THEOREM HandlerTyped == Spec => []TypeOK
<1>1. ThreadInv => TypeOK
  <2> SUFFICES ASSUME ThreadInv PROVE TypeOK
    BY Zenon
  <2>1. \A c : Certified(c) => c \in CLSig
    BY Zenon DEF Certified, Genuine
  <2>2. \A t \in Threads :
          /\ call[t].clsig \in CLSig \cup {NoSig}
          /\ call[t].best \in Blocks \cup {None}
          /\ call[t].quorums \in Seq(Quorums)
    BY Zenon DEF ThreadInv, CallOK, Call, Source, Genuine
  <2>3. bestChainLockShares \subseteq [block : Blocks, quorum : Quorums, index : Indexes]
    BY Zenon DEF ThreadInv, SharedOK, GenuineShare
  <2>4. QED
    BY Zenon, <2>1, <2>2, <2>3 DEF ThreadInv, SharedOK, TypeOK
<1>2. QED
  BY <1>1, ThreadInvariant, PTL

\* Whatever the interleaving of the threads, the winner carries signatures of a
\* majority of quorums that signed this very block: the aggregate of a peer was
\* checked against the quorums in force, or TryUpdateBestChainLock put it
\* together from shares each of which was.
THEOREM WinnerIsCertified == Spec => []WinnerCertified
<1>1. ThreadInv => WinnerCertified
  BY Zenon DEF ThreadInv, SharedOK, Certified, Genuine, WinnerCertified
<1>2. QED
  BY <1>1, ThreadInvariant, PTL

\* No superblock becomes the winner, and this node votes for none, before
\* ConnectBlock has marked it as having passed exact governance validation.
THEOREM SuperblocksGoverned == Spec => []GovernanceProvenance
<1>1. ThreadInv => GovernanceProvenance
  BY Zenon DEF ThreadInv, SharedOK, GovernanceProvenance
<1>2. QED
  BY <1>1, ThreadInvariant, PTL

-----------------------------------------------------------------------------
(* Votes.  AsyncSignIfMember looks for an earlier vote and writes its own, and *)
(* no lock spans the two.                                                      *)

\* No two threads are between the look and the write.
OneWriter == \A t, u \in Threads : At(t, "WriteVote") /\ At(u, "WriteVote") => t = u

\* What was looked for is still not there.
VoteInv ==
  /\ OneVotePerRequest
  /\ \A t \in Threads :
       At(t, "WriteVote") => IdsAt(voted, Asked(call[t]), nHeight[call[t].target]) = {}

LEMMA VoteNext ==
  ASSUME ThreadInv, VoteInv, OneWriter, CallStep
  PROVE  VoteInv'
<1>1. DOMAIN call = Threads
  BY Zenon DEF ThreadInv
<1>2. CASE UNCHANGED <<call, voted>>
  BY Zenon, <1>2 DEF VoteInv, OneVotePerRequest, IdsAt, At, Asked, Position
<1>3. ASSUME NEW t \in Threads, Moves(t), UNCHANGED voted, ~At(t, "AsyncSign")
      PROVE  VoteInv'
  <2>1. PICK r : call' = [call EXCEPT ![t] = r] /\ r.pc # "WriteVote"
    BY Zenon, <1>3 DEF Moves
  <2>2. \A u \in Threads : call'[u] = IF u = t THEN r ELSE call[u]
    BY Zenon, <1>1, <2>1
  <2>3. \A u \in Threads : call'[u].pc = "WriteVote" => call'[u] = call[u]
    BY Zenon, <2>1, <2>2
  <2>4. \A u \in Threads :
          call'[u].pc = "WriteVote" => IdsAt(voted, Asked(call'[u]), nHeight[call'[u].target]) = {}
    BY Zenon, <2>3 DEF VoteInv, At
  <2>5. QED
    BY Zenon, <1>3, <2>4 DEF VoteInv, OneVotePerRequest, IdsAt, At, Asked, Position
<1>4. ASSUME NEW t \in Threads, AsyncSignIfMember(t), UNCHANGED voted
      PROVE  VoteInv'
  <2>1. PICK r : /\ call' = [call EXCEPT ![t] = r]
                 /\ r.pc = "WriteVote" => IdsAt(voted, Asked(r), nHeight[r.target]) = {}
    BY Zenon, <1>4, AsyncSignStep
  <2>2. \A u \in Threads : call'[u] = IF u = t THEN r ELSE call[u]
    BY Zenon, <1>1, <2>1
  <2>3. \A u \in Threads :
          call'[u].pc = "WriteVote" => IdsAt(voted, Asked(call'[u]), nHeight[call'[u].target]) = {}
    BY Zenon, <2>1, <2>2 DEF VoteInv, At
  <2>4. QED
    BY Zenon, <1>4, <2>3 DEF VoteInv, OneVotePerRequest, IdsAt, At, Asked, Position
<1>5. ASSUME NEW t \in Threads, WriteVoteForId(t)
      PROVE  VoteInv'
  <2>1. PICK c : c = call[t] /\ Call(c) /\ c.pc = "WriteVote" /\ CallOK(c, governance)
    BY Zenon, <1>5, ThreadAt DEF WriteVoteForId
  <2>2. PICK r : r = NextQuorum(c)
    BY Zenon
  <2>3. r.pc = "SignLoop"
    BY Zenon, <2>1, <2>2, NextQuorumFacts
  <2>4. call' = [call EXCEPT ![t] = r] /\ voted' = voted \cup {<<Asked(c), c.target>>}
    BY Zenon, <1>5, <2>1, <2>2 DEF WriteVoteForId, Set, Asked
  <2>5. \A u \in Threads : call'[u] = IF u = t THEN r ELSE call[u]
    BY Zenon, <1>1, <2>4
  <2>6. \A u \in Threads : call'[u].pc # "WriteVote"
    BY Zenon, <2>1, <2>3, <2>5 DEF OneWriter, At
  <2>7. IdsAt(voted, Asked(c), nHeight[c.target]) = {}
    BY Zenon, <2>1 DEF VoteInv, At
  <2>8. OneVotePerRequest'
    <3> DEFINE new == <<Asked(c), c.target>>
    <3>1. \A p \in voted : ~(p[1] = new[1] /\ nHeight[p[2]] = nHeight[new[2]])
      BY Zenon, <2>7 DEF IdsAt
    <3>2. \A p \in voted : IdsAt(voted, p[1], nHeight[p[2]]) = {p}
      BY Zenon DEF VoteInv, OneVotePerRequest
    <3> HIDE DEF new
    <3>3. \A p \in voted \cup {new} : IdsAt(voted \cup {new}, p[1], nHeight[p[2]]) = {p}
      BY Zenon, <3>1, <3>2 DEF IdsAt
    <3>4. QED
      BY Zenon, <2>4, <3>3 DEF OneVotePerRequest, new
  <2>9. QED
    BY Zenon, <2>6, <2>8 DEF VoteInv, At
<1>6. QED
  BY Zenon, <1>2, <1>3, <1>4, <1>5 DEF CallStep

\* "Each masternode is participating in only one vote" per request id as long as
\* no two threads are inside AsyncSignIfMember between the look for an earlier
\* vote and the write at the same time; with one thread that signs, always.
THEOREM OneVoteWithoutRace == Spec /\ []OneWriter => []OneVotePerRequest
<1>1. Init => VoteInv
  <2> SUFFICES ASSUME Init PROVE VoteInv
    BY Zenon
  <2>1. voted = {} /\ \A t \in Threads : call[t].pc # "WriteVote"
    BY Zenon, IdleOK DEF Init
  <2>2. QED
    BY Zenon, <2>1 DEF VoteInv, OneVotePerRequest, At
<1>2. ThreadInv /\ WinnerInv /\ VoteInv /\ OneWriter /\ [Next]_vars => VoteInv'
  BY Zenon, ThreadNext, VoteNext
<1>3. VoteInv => OneVotePerRequest
  BY Zenon DEF VoteInv
<1>4. QED
  BY <1>1, <1>2, <1>3, ThreadInvariant, PTL DEF Spec
=============================================================================
