---------------------- MODULE QuorumBlockProcessorProofs ----------------------
(***************************************************************************)
(* For every block tree, set of commitments and number of message threads:  *)
(* block templates connect, over crashes, invalid blocks and a store that   *)
(* loses entries; no step trades a commitment for a worse one or forgets    *)
(* one; and the mined commitments match the active chain as long as no      *)
(* block fails late, nothing crashes and nothing is evicted.                *)
(***************************************************************************)
EXTENDS QuorumBlockProcessor, TLAPS

\* The first height of a session is a multiple of the interval.
LEMMA SessionStart ==
  ASSUME NEW h \in Nat
  PROVE  /\ h - (h % dkgInterval) \in Nat
         /\ (h - (h % dkgInterval)) % dkgInterval = 0
<1> DEFINE k == h \div dkgInterval
<1>1. dkgInterval \in Nat \ {0}
  BY CommitmentConstants
<1>2. /\ h = dkgInterval * k + (h % dkgInterval)
      /\ h % dkgInterval \in 0..(dkgInterval - 1)
      /\ k \in Nat
  BY <1>1, Z3
<1>3. dkgInterval * k \in Nat /\ (dkgInterval * k) % dkgInterval = 0
  <2> HIDE DEF k
  <2>1. QED
    BY <1>1, <1>2, Z3
<1>4. h - (h % dkgInterval) = dkgInterval * k
  <2> DEFINE m == dkgInterval * k
             r == h % dkgInterval
  <2>1. m \in Nat /\ r \in Nat /\ h = m + r
    BY SMT, Z3, SMTT(10), Z3T(10), <1>1, <1>2, <1>3
  <2> HIDE DEF m, r
  <2>2. h - r = m
    BY SMT, Z3, SMTT(10), Z3T(10), <2>1
  <2>3. QED
    BY <2>2 DEF m, r
<1>5. QED
  BY <1>3, <1>4

\* GetQuorumBlockHash returns the first block of a session, or nothing.
LEMMA QuorumOfHeight ==
  ASSUME tip \in Blocks, NEW h \in Nat
  PROVE  GetQuorumBlockHash(h) \in Quorums \cup {None}
<1> DEFINE start == h - (h % dkgInterval)
<1>1. start \in Nat /\ start % dkgInterval = 0
  BY SessionStart
<1> HIDE DEF start
<1>2. CASE \E a \in Anc[tip] : nHeight[a] = start
  <2>1. PICK a \in Anc[tip] : a = GetAncestor(tip, start) /\ nHeight[a] = start
    BY <1>2 DEF GetAncestor
  <2>2. a \in Quorums
    BY <1>1, <2>1, BlockTreeConstants DEF Quorums
  <2>3. QED
    BY <2>1, <2>2 DEF GetQuorumBlockHash, start
<1>3. CASE ~\E a \in Anc[tip] : nHeight[a] = start
  BY <1>3 DEF GetQuorumBlockHash, GetAncestor, start
<1>4. QED
  BY <1>2, <1>3

-----------------------------------------------------------------------------
(* Templates. *)

\* The invariant makes what GetMinableCommitment returns acceptable.
LEMMA TemplateFollows ==
  ASSUME MinableInv
  PROVE  TemplateConnects
<1> DEFINE h == nHeight[tip] + 1
           q == GetQuorumBlockHash(h)
           known == minableCommitmentsByQuorum[q]
<1>1. h \in Nat
  BY SMT, Z3, SMTT(10), Z3T(10), BlockTreeConstants DEF MinableInv
<1> HIDE DEF h
<1>2. CASE ~IsCommitmentRequired(h)
  <2>1. GetMinableCommitment(h) = {} /\ ProcessBlockAccepts(h, None)
    BY <1>2 DEF GetMinableCommitment, ProcessBlockAccepts
  <2>2. QED
    BY <2>1 DEF TemplateConnects, h
<1>3. CASE IsCommitmentRequired(h)
  <2>1. q \in Quorums /\ q \in Blocks /\ ~HasMinedCommitment(q)
    BY <1>1, <1>3, QuorumOfHeight DEF MinableInv, IsCommitmentRequired, Quorums
  <2> DEFINE qc == IF known = None THEN NullCommitment(q) ELSE known
  <2>2. GetMinableCommitment(h) = {qc}
    BY <1>3 DEF GetMinableCommitment
  <2>3. ProcessBlockAccepts(h, NullCommitment(q))
    BY <1>3, <2>1, CommitmentConstants
       DEF ProcessBlockAccepts, NullCommitment, IsNull
  <2>4. ASSUME known # None
        PROVE  ProcessBlockAccepts(h, known)
    <3>1. known \in Commitments /\ known.quorumHash = q /\ known.valid
      BY <2>1, <2>4 DEF MinableInv, Good
    <3>2. QED
      BY <1>3, <2>1, <2>4, <3>1 DEF ProcessBlockAccepts
  <2>5. ProcessBlockAccepts(h, qc)
    BY <2>3, <2>4
  <2>6. QED
    BY <2>2, <2>5 DEF TemplateConnects, h
<1>4. QED
  BY <1>2, <1>3

\* AddMineableCommitment keeps the two maps in step.
LEMMA AddPreserves ==
  ASSUME MinableInv, NEW qc, Good(qc), AddMineableCommitment(qc)
  PROVE  /\ minableCommitmentsByQuorum' \in [Quorums -> Commitments \cup {None}]
         /\ \A q \in Quorums : minableCommitmentsByQuorum'[q] # None =>
              /\ Good(minableCommitmentsByQuorum'[q])
              /\ minableCommitmentsByQuorum'[q].quorumHash = q
              /\ minableCommitmentsByQuorum'[q] \in minableCommitments'
<1>1. CASE UNCHANGED minableVars
  BY <1>1 DEF MinableInv, minableVars
<1>2. CASE /\ minableCommitmentsByQuorum' =
                [minableCommitmentsByQuorum EXCEPT ![qc.quorumHash] = qc]
           /\ minableCommitments \ {qc} \subseteq minableCommitments'
           /\ qc \in minableCommitments'
  <2>1. minableCommitmentsByQuorum' \in [Quorums -> Commitments \cup {None}]
    BY <1>2 DEF MinableInv, Good
  <2>2. ASSUME NEW q \in Quorums, minableCommitmentsByQuorum'[q] # None
        PROVE  /\ Good(minableCommitmentsByQuorum'[q])
               /\ minableCommitmentsByQuorum'[q].quorumHash = q
               /\ minableCommitmentsByQuorum'[q] \in minableCommitments'
    BY <1>2, <2>2 DEF MinableInv
  <2>3. QED
    BY <2>1, <2>2
<1>3. QED
  BY <1>1, <1>2 DEF AddMineableCommitment

\* Connecting a block: what it carries was accepted, and leaves the maps.
LEMMA ConnectPreserves ==
  ASSUME MinableInv, NEW b \in Blocks, ConnectTip(b)
  PROVE  MinableInv'
<1> DEFINE qc == qcTx[b]
<1>0. /\ b # Root /\ pprev[b] = tip
      /\ nHeight[b] \in Nat
      /\ Anc[b] = Anc[tip] \cup {b}
      /\ qc \in Commitments \cup {None}
      /\ None \notin Commitments
  BY BlockTreeConstants, CommitmentConstants DEF ConnectTip
<1>1. CASE UNCHANGED minableVars
  <2>1. \/ UNCHANGED tip
        \/ tip' = b /\ ProcessBlockAccepts(nHeight[b], qc)
    BY DEF ConnectTip
  <2>2. Carries(b) /\ ProcessBlockAccepts(nHeight[b], qc) => Good(qc)
    <3>1. ASSUME Carries(b), ProcessBlockAccepts(nHeight[b], qc)
          PROVE  Good(qc)
      <4>1. /\ qc \in Commitments /\ qc.valid
            /\ qc.quorumHash \in Blocks
            /\ qc.quorumHash = GetQuorumBlockHash(nHeight[b])
        BY SMT, Z3, SMTT(10), Z3T(10), <1>0, <3>1, CommitmentConstants DEF Carries, ProcessBlockAccepts
      <4>2. QED
        BY SMT, Z3, SMTT(10), Z3T(10), <1>0, <4>1, QuorumOfHeight, BlockTreeConstants DEF MinableInv, Good
    <3>2. QED
      BY <3>1
  <2>3. UNCHANGED <<coinsTip, message>>
    BY DEF ConnectTip
  <2>4. QED
    BY SMT, Z3, ZenonT(40), <1>0, <1>1, <2>1, <2>2, <2>3 DEF MinableInv, minableVars, Good, Carries
<1>2. CASE /\ Carries(b) /\ ProcessBlockAccepts(nHeight[b], qc)
           /\ ProcessCommitment(b, qc)
  <2>1. /\ qc \in Commitments /\ qc.valid
        /\ qc.quorumHash \in Blocks
        /\ qc.quorumHash = GetQuorumBlockHash(nHeight[b])
    BY SMT, Z3, SMTT(10), Z3T(10), <1>0, <1>2, CommitmentConstants DEF Carries, ProcessBlockAccepts
  <2>2. Good(qc)
    BY SMT, Z3, SMTT(10), Z3T(10), <1>0, <2>1, QuorumOfHeight, BlockTreeConstants DEF MinableInv, Good
  <2>3. /\ minableCommitmentsByQuorum' =
             [minableCommitmentsByQuorum EXCEPT ![qc.quorumHash] = None]
        /\ minableCommitments' = minableCommitments \ {qc}
    BY <1>2 DEF ProcessCommitment
  <2>4. minableCommitmentsByQuorum' \in [Quorums -> Commitments \cup {None}]
    BY Zenon, <2>3 DEF MinableInv
  <2>5. ASSUME NEW q \in Quorums, minableCommitmentsByQuorum'[q] # None
        PROVE  /\ Good(minableCommitmentsByQuorum'[q])
               /\ minableCommitmentsByQuorum'[q].quorumHash = q
               /\ minableCommitmentsByQuorum'[q] \in minableCommitments'
    <3>1. q # qc.quorumHash /\ minableCommitmentsByQuorum'[q] = minableCommitmentsByQuorum[q]
      BY <2>3, <2>5 DEF MinableInv
    <3>2. QED
      BY <2>3, <2>5, <3>1 DEF MinableInv
  <2>6. /\ tip' \in {tip, b}
        /\ UNCHANGED <<coinsTip, message>>
    BY DEF ConnectTip
  <2>7. QED
    BY SMT, Z3, SMTT(10), Z3T(10), <1>0, <2>2, <2>4, <2>5, <2>6 DEF MinableInv, Good, Carries
<1>3. QED
  BY <1>1, <1>2 DEF ConnectTip, Carries, minableVars

\* Disconnecting a block: what it carried was good when it was connected.
LEMMA DisconnectPreserves ==
  ASSUME MinableInv, DisconnectTip
  PROVE  MinableInv'
<1>0. /\ tip # Root /\ tip' = pprev[tip]
      /\ tip' \in Blocks /\ coinsTip' \in {coinsTip, tip'}
      /\ Anc[tip'] \subseteq Anc[tip] /\ tip \in Anc[tip]
      /\ UNCHANGED message
  BY SMT, Z3, SMTT(10), Z3T(10), BlockTreeConstants, AncestryAssumption DEF DisconnectTip, MinableInv
<1>1. \A b \in Anc[tip'] \cup Anc[coinsTip'] : Carries(b) => Good(qcTx[b])
  BY <1>0 DEF MinableInv
<1>2. coinsTip' \in Blocks
  BY <1>0 DEF MinableInv
<1>3. CASE UNCHANGED minableVars
  BY <1>0, <1>1, <1>2, <1>3 DEF MinableInv, minableVars, Good, Carries
<1>4. CASE Carries(tip) /\ AddMineableCommitment(qcTx[tip])
  <2>1. Good(qcTx[tip])
    BY <1>0, <1>4 DEF MinableInv
  <2>2. QED
    BY <1>0, <1>1, <1>2, <1>4, <2>1, AddPreserves DEF MinableInv, Good, Carries
<1>5. CASE nHeight[tip] < nNexusStartBlock \/ qcTx[tip] = None \/ IsNull(qcTx[tip])
  <2>1. UNCHANGED minableVars
    BY <1>5 DEF DisconnectTip, UndoBlock
  <2>2. QED
    BY <1>3, <2>1
<1>6. CASE ~(nHeight[tip] < nNexusStartBlock \/ qcTx[tip] = None \/ IsNull(qcTx[tip]))
  <2>1. Carries(tip)
    BY SMT, Z3, SMTT(10), Z3T(10), <1>6, BlockTreeConstants, CommitmentConstants DEF Carries, MinableInv
  <2>2. AddMineableCommitment(qcTx[tip])
    BY <1>6 DEF DisconnectTip, UndoBlock
  <2>3. QED
    BY <1>4, <2>1, <2>2
<1>7. QED
  BY <1>5, <1>6

\* Every step preserves the invariant.
LEMMA MinableStep == MinableInv /\ [Next]_vars => MinableInv'
<1> SUFFICES ASSUME MinableInv, [Next]_vars PROVE MinableInv'
  OBVIOUS
<1>1. ASSUME NEW t \in Threads, NEW qc \in Commitments, ProcessMessage(t, qc)
      PROVE  MinableInv'
  BY SMT, Z3, SMTT(10), Z3T(10), <1>1 DEF MinableInv, ProcessMessage, chainVars, minableVars, Good, Carries
<1>2. ASSUME NEW t \in Threads, CheckBetter(t)
      PROVE  MinableInv'
  <2>1. UNCHANGED <<tip, coinsTip, minableCommitments, minableCommitmentsByQuorum>>
    BY <1>2 DEF CheckBetter, chainVars, minableVars
  <2>2. \A u \in Threads : message'[u].pc # "idle" =>
          message'[u].qc \in Commitments /\ message'[u].qc.quorumHash \in Quorums
    BY SMT, Z3, SMTT(10), Z3T(10), <1>2 DEF CheckBetter, MinableInv, NoMessage
  <2>3. \A u \in Threads : message'[u].pc = "verified" => message'[u].qc.valid
    BY SMT, Z3, SMTT(10), Z3T(10), <1>2 DEF CheckBetter, MinableInv, NoMessage
  <2>4. QED
    BY <2>1, <2>2, <2>3 DEF MinableInv, Good, Carries
<1>3. ASSUME NEW t \in Threads, AddVerified(t)
      PROVE  MinableInv'
  <2>1. Good(message[t].qc)
    BY <1>3 DEF AddVerified, MinableInv, Good
  <2>2. /\ UNCHANGED <<tip, coinsTip>>
        /\ message' = [message EXCEPT ![t] = NoMessage]
    BY <1>3 DEF AddVerified, chainVars
  <2>3. \A u \in Threads : message'[u].pc # "idle" => message'[u] = message[u]
    BY SMT, Z3, SMTT(10), Z3T(10), <2>2 DEF NoMessage, MinableInv
  <2>4. AddMineableCommitment(message[t].qc)
    BY <1>3 DEF AddVerified
  <2>5. QED
    BY SMT, Z3, ZenonT(40), <2>1, <2>2, <2>3, <2>4, AddPreserves DEF MinableInv, Good, Carries
<1>4. ASSUME NEW qc \in Commitments, FinalizeCommitments(qc)
      PROVE  MinableInv'
  <2>1. Good(qc) /\ AddMineableCommitment(qc)
    BY <1>4 DEF FinalizeCommitments, Good
  <2>2. UNCHANGED <<tip, coinsTip, message>>
    BY <1>4 DEF FinalizeCommitments, chainVars
  <2>3. QED
    BY <2>1, <2>2, AddPreserves DEF MinableInv, Good, Carries
<1>5. ASSUME NEW b \in Blocks, ConnectTip(b)
      PROVE  MinableInv'
  BY <1>5, ConnectPreserves
<1>6. CASE DisconnectTip
  BY <1>6, DisconnectPreserves
<1>7. CASE PeriodicWrite
  BY <1>7 DEF MinableInv, PeriodicWrite, chainVars, minableVars, Good, Carries
<1>8. CASE FullFlush
  BY <1>8 DEF MinableInv, FullFlush, minableVars, Good, Carries
<1>9. CASE CrashAndRestart
  <2>1. /\ tip' = coinsTip /\ UNCHANGED coinsTip
        /\ minableCommitmentsByQuorum' = [q \in Quorums |-> None]
        /\ message' = [t \in Threads |-> NoMessage]
    BY <1>9 DEF CrashAndRestart
  <2>2. QED
    BY <2>1 DEF MinableInv, NoMessage, Good, Carries
<1>10. CASE UNCHANGED vars
  BY <1>10 DEF MinableInv, vars, chainVars, minableVars, Good, Carries
<1>11. QED
  BY <1>1, <1>2, <1>3, <1>4, <1>5, <1>6, <1>7, <1>8, <1>9, <1>10 DEF Next

\* The invariant holds initially.
LEMMA MinableInit == Init => MinableInv
BY SMT, Z3, SMTT(10), Z3T(10), BlockTreeConstants, CommitmentConstants
   DEF Init, MinableInv, NoMessage, Carries

\* A block template built with GetMinableCommitment always passes ProcessBlock
\* on the tip it was built for, whatever commitments the network sends, over
\* reorganisations, invalid blocks, evictions and crashes.
THEOREM TemplatesAlwaysConnect == Spec => []TemplateConnects
<1>1. Spec => []MinableInv
  BY MinableInit, MinableStep, PTL DEF Spec
<1>2. QED
  BY <1>1, TemplateFollows, PTL

\* minableCommitments.at() never throws.
THEOREM MinableAlwaysResolves == Spec => []MinableResolves
<1>1. Spec => []MinableInv
  BY MinableInit, MinableStep, PTL DEF Spec
<1>2. MinableInv => MinableResolves
  BY DEF MinableInv, MinableResolves
<1>3. QED
  BY <1>1, <1>2, PTL
-----------------------------------------------------------------------------
(* What is offered for mining over a step. *)

\* AddMineableCommitment never takes a commitment away, and compares before it
\* replaces one.
LEMMA AddKeeps ==
  ASSUME MinableInv, NEW qc, Good(qc), AddMineableCommitment(qc)
  PROVE  /\ minableCommitmentsByQuorum'[qc.quorumHash] # None
         /\ \A q \in Quorums : minableCommitmentsByQuorum[q] # None =>
              /\ minableCommitmentsByQuorum'[q] # None
              /\ minableCommitmentsByQuorum'[q].signers
                   >= minableCommitmentsByQuorum[q].signers
<1> DEFINE known == minableCommitmentsByQuorum[qc.quorumHash]
<1>0. /\ qc # None /\ qc.quorumHash \in Quorums
      /\ \A q \in Quorums : minableCommitmentsByQuorum[q] # None =>
           minableCommitmentsByQuorum[q].signers \in Nat
  BY CommitmentConstants DEF Good, MinableInv
<1>1. CASE known # None /\ UNCHANGED minableVars
  BY SMT, Z3, SMTT(10), Z3T(10), <1>0, <1>1 DEF minableVars
<1>2. CASE /\ known # None => qc.signers > known.signers
           /\ minableCommitmentsByQuorum' =
                [minableCommitmentsByQuorum EXCEPT ![qc.quorumHash] = qc]
  <2>1. \A q \in Quorums :
          minableCommitmentsByQuorum'[q] =
            IF q = qc.quorumHash THEN qc ELSE minableCommitmentsByQuorum[q]
    BY <1>2 DEF MinableInv
  <2>2. qc.signers \in Nat
    BY CommitmentConstants DEF Good
  <2>3. QED
    BY SMT, Z3, SMTT(10), Z3T(10), <1>0, <1>2, <2>1, <2>2
<1>3. QED
  BY <1>1, <1>2 DEF AddMineableCommitment

\* What a step does to the offers.  Either they stay and the chain with them,
\* or a commitment is added (under another tip: the one the old tip carried), or
\* a block takes its own, or the process restarts.
LEMMA OfferSteps ==
  ASSUME MinableInv, [Next]_vars
  PROVE  \/ UNCHANGED <<tip, minableCommitmentsByQuorum>>
         \/ \E qc : Good(qc) /\ AddMineableCommitment(qc) /\ UNCHANGED tip
         \/ \E b \in Blocks : ConnectTip(b)
         \/ DisconnectTip
         \/ crashes' # crashes /\ minableCommitmentsByQuorum' = [q \in Quorums |-> None]
<1>1. ASSUME NEW t \in Threads, NEW qc \in Commitments, ProcessMessage(t, qc)
      PROVE  UNCHANGED <<tip, minableCommitmentsByQuorum>>
  BY <1>1 DEF ProcessMessage, chainVars, minableVars
<1>2. ASSUME NEW t \in Threads, CheckBetter(t)
      PROVE  UNCHANGED <<tip, minableCommitmentsByQuorum>>
  BY <1>2 DEF CheckBetter, chainVars, minableVars
<1>3. ASSUME NEW t \in Threads, AddVerified(t)
      PROVE  Good(message[t].qc) /\ AddMineableCommitment(message[t].qc) /\ UNCHANGED tip
  BY <1>3 DEF AddVerified, MinableInv, Good, chainVars
<1>4. ASSUME NEW qc \in Commitments, FinalizeCommitments(qc)
      PROVE  Good(qc) /\ AddMineableCommitment(qc) /\ UNCHANGED tip
  BY <1>4 DEF FinalizeCommitments, Good, chainVars
<1>5. CASE PeriodicWrite \/ FullFlush \/ UNCHANGED vars
  BY <1>5 DEF PeriodicWrite, FullFlush, vars, chainVars, minableVars
<1>6. CASE CrashAndRestart
  <2>1. crashes' = crashes + 1 /\ minableCommitmentsByQuorum' = [q \in Quorums |-> None]
    BY <1>6 DEF CrashAndRestart
  <2>2. crashes < MaxCrashes /\ MaxCrashes \in Nat
    BY <1>6, CommitmentConstants DEF CrashAndRestart
  <2>3. QED
    BY SMT, Z3, SMTT(10), Z3T(10), <2>1, <2>2
<1>7. QED
  BY <1>1, <1>2, <1>3, <1>4, <1>5, <1>6 DEF Next

\* Connecting a block takes only the offer for the quorum it mines.
LEMMA ConnectOffers ==
  ASSUME MinableInv, NEW b \in Blocks, ConnectTip(b)
  PROVE  \/ /\ UNCHANGED minableCommitmentsByQuorum
            /\ tip' = tip \/ Anc[tip] \subseteq Anc[tip']
         \/ /\ Carries(b)
            /\ minableCommitmentsByQuorum' =
                 [minableCommitmentsByQuorum EXCEPT ![qcTx[b].quorumHash] = None]
            /\ \/ tip' = b /\ Anc[tip] \subseteq Anc[b]
               \/ failed' = failed \cup {b} /\ b \in Invalid \ failed
<1>1. b # Root /\ pprev[b] = tip /\ Anc[b] = Anc[tip] \cup {b}
  BY BlockTreeConstants DEF ConnectTip
<1>2. QED
  BY <1>1 DEF ConnectTip, ProcessCommitment, Carries, minableVars

\* A disconnected block offers what it carried.
LEMMA DisconnectOffers ==
  ASSUME MinableInv, DisconnectTip
  PROVE  /\ Anc[tip] = Anc[tip'] \cup {tip}
         /\ \/ ~Carries(tip) /\ UNCHANGED minableCommitmentsByQuorum
            \/ Good(qcTx[tip]) /\ AddMineableCommitment(qcTx[tip])
<1>1. tip \in Blocks \ {Root} /\ tip' = pprev[tip]
  BY DEF DisconnectTip, MinableInv
<1>2. Anc[tip] = Anc[tip'] \cup {tip} /\ tip \in Anc[tip]
  BY <1>1, BlockTreeConstants
<1>3. CASE ~Carries(tip)
  BY SMT, Z3, SMTT(10), Z3T(10), <1>1, <1>2, <1>3, BlockTreeConstants, CommitmentConstants
     DEF DisconnectTip, UndoBlock, Carries, minableVars
<1>4. CASE Carries(tip)
  <2>1. AddMineableCommitment(qcTx[tip])
    BY SMT, Z3, SMTT(10), Z3T(10), <1>1, <1>4, BlockTreeConstants, CommitmentConstants
       DEF DisconnectTip, UndoBlock, Carries
  <2>2. Good(qcTx[tip])
    BY <1>2, <1>4 DEF MinableInv
  <2>3. QED
    BY <1>2, <2>1, <2>2
<1>5. QED
  BY <1>3, <1>4

\* One step: an offer is only replaced by one with at least as many signers.
LEMMA BestStep ==
  ASSUME MinableInv, [Next]_vars, NEW q \in Quorums,
         minableCommitmentsByQuorum[q] # None, minableCommitmentsByQuorum'[q] # None
  PROVE  minableCommitmentsByQuorum'[q].signers >= minableCommitmentsByQuorum[q].signers
<1>0. minableCommitmentsByQuorum[q].signers \in Nat
  BY CommitmentConstants DEF MinableInv, Good
<1>1. CASE UNCHANGED minableCommitmentsByQuorum
  BY SMT, Z3, SMTT(10), Z3T(10), <1>0, <1>1
<1>2. ASSUME NEW qc, Good(qc), AddMineableCommitment(qc)
      PROVE  minableCommitmentsByQuorum'[q].signers >= minableCommitmentsByQuorum[q].signers
  BY <1>2, AddKeeps
<1>3. ASSUME NEW b \in Blocks, ConnectTip(b)
      PROVE  minableCommitmentsByQuorum'[q] = minableCommitmentsByQuorum[q]
  BY <1>3, ConnectOffers DEF MinableInv
<1>4. CASE DisconnectTip
  BY <1>1, <1>2, <1>4, DisconnectOffers
<1>5. QED
  BY SMT, Z3, SMTT(10), Z3T(10), <1>0, <1>1, <1>2, <1>3, <1>4, OfferSteps

\* One step: a known commitment stays known.
LEMMA KnownStep ==
  ASSUME MinableInv, [Next]_vars, NEW q \in Quorums, Known(q),
         crashes' = crashes, failed' \cap Invalid = failed \cap Invalid
  PROVE  minableCommitmentsByQuorum'[q] # None \/ \E b \in Anc[tip'] : Mines(b, q)
<1>1. CASE UNCHANGED minableCommitmentsByQuorum /\ Anc[tip] \subseteq Anc[tip']
  BY <1>1 DEF Known
<1>2. ASSUME NEW qc, Good(qc), AddMineableCommitment(qc), UNCHANGED tip
      PROVE  minableCommitmentsByQuorum'[q] # None \/ \E b \in Anc[tip'] : Mines(b, q)
  BY <1>2, AddKeeps DEF Known
<1>3. ASSUME NEW b \in Blocks, ConnectTip(b)
      PROVE  minableCommitmentsByQuorum'[q] # None \/ \E x \in Anc[tip'] : Mines(x, q)
  <2>1. CASE /\ Carries(b) /\ tip' = b /\ Anc[tip] \subseteq Anc[b]
             /\ minableCommitmentsByQuorum' =
                  [minableCommitmentsByQuorum EXCEPT ![qcTx[b].quorumHash] = None]
    <3>1. b \in Anc[tip']
      BY <2>1, AncestryAssumption
    <3>2. CASE q = qcTx[b].quorumHash
      BY <2>1, <3>1, <3>2 DEF Mines
    <3>3. CASE q # qcTx[b].quorumHash
      BY <2>1, <3>3 DEF Known, MinableInv
    <3>4. QED
      BY <3>2, <3>3
  <2>2. ~(failed' = failed \cup {b} /\ b \in Invalid \ failed)
    OBVIOUS
  <2>3. QED
    BY <1>1, <1>3, <2>1, <2>2, ConnectOffers
<1>4. CASE DisconnectTip
  <2>1. Anc[tip] = Anc[tip'] \cup {tip}
    BY <1>4, DisconnectOffers
  <2>2. CASE ~Carries(tip) /\ UNCHANGED minableCommitmentsByQuorum
    BY <2>1, <2>2 DEF Known, Mines
  <2>3. CASE Good(qcTx[tip]) /\ AddMineableCommitment(qcTx[tip])
    BY <2>1, <2>3, AddKeeps DEF Known, Mines
  <2>4. QED
    BY <1>4, <2>2, <2>3, DisconnectOffers
<1>5. QED
  BY <1>1, <1>2, <1>3, <1>4, OfferSteps

\* Whatever the message threads and the local sessions bring, an offered
\* commitment is never replaced by one with fewer signers: AddMineableCommitment
\* compares again under minableCommitmentsCs.
THEOREM BestIsKept == Spec => BestCommitmentKept
<1>1. Spec => []MinableInv
  BY MinableInit, MinableStep, PTL DEF Spec
<1>2. MinableInv /\ [Next]_vars =>
        [\A q \in Quorums :
           LET old == minableCommitmentsByQuorum[q]
               new == minableCommitmentsByQuorum'[q]
           IN old # None /\ new # None => new.signers >= old.signers]_vars
  BY BestStep
<1>3. QED
  BY <1>1, <1>2, PTL DEF Spec, BestCommitmentKept

\* Whatever is mined, unmined by a reorganisation or brought again, a quorum that
\* has a commitment to offer or mined keeps one of the two (UndoBlock), except
\* over a restart and a block that fails after ProcessBlock accepted it.
THEOREM NothingForgotten == Spec => CommitmentNotForgotten
<1>1. Spec => []MinableInv
  BY MinableInit, MinableStep, PTL DEF Spec
<1>2. MinableInv /\ [Next]_vars =>
        [crashes' = crashes /\ failed' \cap Invalid = failed \cap Invalid =>
           \A q \in Quorums : Known(q) => Known(q)']_vars
  BY KnownStep DEF Known, Mines, Carries
<1>3. QED
  BY <1>1, <1>2, PTL DEF Spec, CommitmentNotForgotten

-----------------------------------------------------------------------------
(* The mined commitments. *)

\* A chain and its extension by one block.
LEMMA ChildChain ==
  ASSUME NEW b \in Blocks \ {Root}
  PROVE  /\ pprev[b] \in Blocks /\ nHeight[b] \in Nat
         /\ Anc[b] = Anc[pprev[b]] \cup {b}
         /\ b \notin Anc[pprev[b]]
<1>1. /\ pprev[b] \in Blocks /\ nHeight[b] \in Nat /\ nHeight[pprev[b]] \in Nat
      /\ nHeight[b] = nHeight[pprev[b]] + 1
      /\ Anc[b] = Anc[pprev[b]] \cup {b}
  BY BlockTreeConstants
<1>2. \A a \in Anc[pprev[b]] : nHeight[a] <= nHeight[pprev[b]]
  BY <1>1, AncestryAssumption
<1>3. QED
  BY SMT, Z3, SMTT(10), Z3T(10), <1>1, <1>2

\* What is stored for a quorum is never mistaken for nothing.
LEMMA MinedIsSomething ==
  ASSUME NEW b \in Blocks, Carries(b)
  PROVE  <<qcTx[b], b>> \in MinedEntries /\ <<qcTx[b], b>> # None
<1>1. qcTx[b] \in Commitments
  BY CommitmentConstants DEF Carries
<1>2. <<qcTx[b], b>> \in Commitments \X Blocks
  BY <1>1
<1>3. QED
  BY <1>2, CommitmentConstants DEF MinedEntries

\* What MinedInv says of an undisturbed store.
MinedRight ==
  /\ \A q \in Quorums :
       \/ \E b \in Anc[tip] : Mines(b, q) /\ mined[q] = <<qcTx[b], b>>
       \/ mined[q] = None /\ \A b \in Anc[tip] : ~Mines(b, q)
  /\ \A q \in Quorums : \A a, b \in Anc[tip] : Mines(a, q) /\ Mines(b, q) => a = b

MinedTypes ==
  /\ tip \in Blocks /\ coinsTip \in Blocks /\ crashes \in Nat
  /\ mined \in [Quorums -> MinedEntries \cup {None}]
  /\ minedDisk \in [Quorums -> MinedEntries \cup {None}]

LEMMA MinedInvParts == MinedInv <=> MinedTypes /\ (Undisturbed => MinedRight)
BY DEF MinedInv, MinedTypes, MinedRight, MinedMatchesChain

\* Connecting a block adds exactly what it mines, if it does not fail late.
LEMMA ConnectMined ==
  ASSUME MinedInv, ~Lossy, NEW b \in Blocks, ConnectTip(b)
  PROVE  MinedInv'
<1> DEFINE qc == qcTx[b]
<1>0. /\ b # Root /\ pprev[b] = tip /\ UNCHANGED <<crashes, coinsTip>>
      /\ Anc[b] = Anc[tip] \cup {b} /\ b \notin Anc[tip] /\ Anc[tip] \subseteq Blocks
      /\ nHeight[b] \in Nat
      /\ qc \in Commitments \cup {None} /\ None \notin Commitments
      /\ failed \subseteq failed'
  BY SMT, Z3, SMTT(10), Z3T(10), ChildChain, BlockTreeConstants, CommitmentConstants DEF ConnectTip, MinedInv
<1>u. Undisturbed' => Undisturbed
  BY <1>0 DEF Undisturbed
<1>t. MinedTypes /\ (Undisturbed => MinedRight) /\ UNCHANGED minedDisk
  BY MinedInvParts DEF ConnectTip, ProcessCommitment, DB!Put
<1>1. CASE UNCHANGED <<tip, mined>>
  <2>1. MinedTypes'
    BY <1>0, <1>1, <1>t DEF MinedTypes
  <2>2. MinedRight => MinedRight'
    BY <1>1 DEF MinedRight, Mines, Carries
  <2>3. QED
    BY <1>u, <1>t, <2>1, <2>2, MinedInvParts DEF MinedInv, MinedTypes, MinedRight, MinedMatchesChain
<1>2. CASE tip' = b /\ UNCHANGED mined /\ ~Carries(b)
  <2>1. MinedTypes'
    BY <1>0, <1>2, <1>t DEF MinedTypes
  <2>2. MinedRight => MinedRight'
    BY <1>0, <1>2 DEF MinedRight, Mines, Carries
  <2>3. QED
    BY <1>u, <1>t, <2>1, <2>2 DEF MinedInv, MinedTypes, MinedRight, MinedMatchesChain
<1>3. CASE /\ Carries(b)
           /\ ProcessBlockAccepts(nHeight[b], qc)
           /\ ProcessCommitment(b, qc)
           /\ tip' = b \/ (tip' = tip /\ b \in Invalid /\ b \in failed')
  <2> DEFINE q0 == qc.quorumHash
  <2>1. qc \in Commitments /\ q0 \in Quorums /\ mined[q0] = None
    <3>1. /\ qc \in Commitments
          /\ q0 \in Blocks /\ ~HasMinedCommitment(q0)
          /\ q0 = GetQuorumBlockHash(nHeight[b])
      BY SMT, Z3, SMTT(10), Z3T(10), <1>0, <1>3, CommitmentConstants DEF Carries, ProcessBlockAccepts
    <3>2. QED
      BY SMT, Z3, SMTT(10), Z3T(10), <1>0, <3>1, QuorumOfHeight, BlockTreeConstants
         DEF MinedInv, HasMinedCommitment
  <2>2. mined' = [mined EXCEPT ![q0] = <<qc, b>>]
    <3>1. DB!Put(q0, <<qc, b>>)
      BY <1>3 DEF ProcessCommitment
    <3>2. mined' = [DB!Fallback({}) EXCEPT ![q0] = <<qc, b>>]
      BY Zenon, <3>1 DEF DB!Put
    <3>3. DB!Fallback({}) = mined
      BY DEF DB!Fallback, MinedInv
    <3>4. QED
      BY <3>2, <3>3
  <2>3. mined' \in [Quorums -> MinedEntries \cup {None}]
    BY Zenon, <1>3, <2>2, MinedIsSomething DEF MinedInv
  <2>4. MinedTypes'
    BY <1>0, <1>3, <1>t, <2>3 DEF MinedTypes
  <2>5. ASSUME Undisturbed' PROVE MinedRight'
    <3>0. tip' = b /\ MinedRight
      BY <1>3, <1>u, <1>t, <2>5 DEF Undisturbed
    <3>1. \A a \in Anc[tip] : ~Mines(a, q0)
      BY Zenon, <1>0, <2>1, <3>0, MinedIsSomething DEF MinedRight, Mines
    <3>2. \A q \in Quorums :
            /\ q = q0 => Mines(b, q) /\ mined'[q] = <<qc, b>>
            /\ q # q0 => ~Mines(b, q) /\ mined'[q] = mined[q]
      BY <1>3, <2>1, <2>2 DEF Mines, MinedInv
    <3>3. \A q \in Quorums : \A x, y \in Anc[b] : Mines(x, q) /\ Mines(y, q) => x = y
      BY SMT, Z3, SMTT(10), Z3T(10), <1>0, <3>0, <3>1, <3>2 DEF MinedRight
    <3>4. \A q \in Quorums :
            \/ \E a \in Anc[b] : Mines(a, q) /\ mined'[q] = <<qcTx[a], a>>
            \/ mined'[q] = None /\ \A a \in Anc[b] : ~Mines(a, q)
      BY <1>0, <3>0, <3>2 DEF MinedRight
    <3>5. QED
      BY <3>0, <3>3, <3>4 DEF MinedRight, Mines, Carries
  <2>6. QED
    BY <2>4, <2>5 DEF MinedInv, MinedTypes, MinedRight, MinedMatchesChain
<1>4. QED
  BY <1>0, <1>1, <1>2, <1>3 DEF ConnectTip, Carries

\* Disconnecting a block removes exactly what it mined.
LEMMA DisconnectMined ==
  ASSUME MinedInv, DisconnectTip
  PROVE  MinedInv'
<1>0. /\ tip \in Blocks \ {Root} /\ tip' = pprev[tip] /\ UNCHANGED <<crashes, failed>>
  BY DEF DisconnectTip, MinedInv
<1>1. /\ tip' \in Blocks /\ coinsTip' \in Blocks
      /\ Anc[tip] = Anc[tip'] \cup {tip} /\ tip \notin Anc[tip']
  BY <1>0, ChildChain DEF DisconnectTip, MinedInv
<1>u. (Undisturbed' => Undisturbed) /\ MinedTypes /\ (Undisturbed => MinedRight)
      /\ UNCHANGED minedDisk
  BY <1>0, MinedInvParts DEF Undisturbed, DisconnectTip, UndoBlock, DB!Del
<1>2. CASE ~Carries(tip)
  <2>1. UNCHANGED mined
    BY SMT, Z3, SMTT(10), Z3T(10), <1>0, <1>2, BlockTreeConstants, CommitmentConstants
       DEF DisconnectTip, UndoBlock, Carries
  <2>2. MinedTypes' /\ (MinedRight => MinedRight')
    BY <1>0, <1>1, <1>2, <1>u, <2>1 DEF MinedTypes, MinedRight, Mines, Carries
  <2>3. QED
    BY <1>u, <2>2 DEF MinedInv, MinedTypes, MinedRight, MinedMatchesChain
<1>3. CASE Carries(tip)
  <2> DEFINE q0 == qcTx[tip].quorumHash
  <2>1. mined' = [mined EXCEPT ![q0] = None]
    BY SMT, Z3, SMTT(10), Z3T(10), <1>0, <1>3, BlockTreeConstants, CommitmentConstants
       DEF DisconnectTip, UndoBlock, Carries, DB!Del
  <2>2. mined' \in [Quorums -> MinedEntries \cup {None}]
    BY Zenon, <2>1 DEF MinedInv
  <2>3. MinedTypes'
    BY <1>0, <1>1, <1>u, <2>2 DEF MinedTypes
  <2>4. ASSUME MinedRight PROVE MinedRight'
    <3>1. \A q \in Quorums :
            /\ q = q0 => mined'[q] = None /\ \A a \in Anc[tip'] : ~Mines(a, q)
            /\ q # q0 => ~Mines(tip, q) /\ mined'[q] = mined[q]
      BY <1>1, <1>3, <2>1, <2>4 DEF MinedRight, MinedInv, Mines
    <3>2. \A q \in Quorums :
            \/ \E a \in Anc[tip'] : Mines(a, q) /\ mined'[q] = <<qcTx[a], a>>
            \/ mined'[q] = None /\ \A a \in Anc[tip'] : ~Mines(a, q)
      BY <1>1, <2>4, <3>1 DEF MinedRight
    <3>3. QED
      BY <1>1, <2>4, <3>2 DEF MinedRight, Mines, Carries
  <2>5. QED
    BY <1>u, <2>3, <2>4 DEF MinedInv, MinedTypes, MinedRight, MinedMatchesChain
<1>4. QED
  BY <1>2, <1>3

\* Every step preserves the invariant when nothing is evicted.
LEMMA MinedStep ==
  ASSUME ~Lossy
  PROVE  MinedInv /\ [Next]_vars => MinedInv'
<1> SUFFICES ASSUME MinedInv, [Next]_vars PROVE MinedInv'
  OBVIOUS
<1>1. CASE /\ UNCHANGED <<tip, failed, mined, crashes>> /\ coinsTip' \in Blocks
           /\ minedDisk' \in [Quorums -> MinedEntries \cup {None}]
  BY <1>1 DEF MinedInv, MinedMatchesChain, Mines, Carries, Undisturbed
<1>2. ASSUME NEW b \in Blocks, ConnectTip(b)
      PROVE  MinedInv'
  BY <1>2, ConnectMined
<1>3. CASE DisconnectTip
  BY <1>3, DisconnectMined
<1>4. CASE CrashAndRestart
  <2>1. crashes' = crashes + 1 /\ crashes \in Nat /\ tip' = coinsTip /\ UNCHANGED coinsTip
        /\ mined' = minedDisk /\ UNCHANGED minedDisk
    BY <1>4 DEF CrashAndRestart, DB!Crash, MinedInv
  <2>2. ~Undisturbed'
    BY SMT, Z3, SMTT(10), Z3T(10), <2>1 DEF Undisturbed
  <2>3. MinedTypes'
    BY SMT, Z3, SMTT(10), Z3T(10), <2>1 DEF MinedInv, MinedTypes
  <2>4. QED
    BY <2>2, <2>3 DEF MinedInv, MinedTypes, MinedMatchesChain
<1>5. CASE PeriodicWrite
  <2>1. UNCHANGED <<tip, coinsTip, failed, mined, crashes>>
    BY <1>5 DEF PeriodicWrite, DB!Sync, chainVars
  <2>2. PICK synced \in SUBSET Quorums :
          minedDisk' = [k \in Quorums |-> IF k \in synced THEN mined[k] ELSE minedDisk[k]]
    BY <1>5 DEF PeriodicWrite, DB!Sync
  <2>3. minedDisk' \in [Quorums -> MinedEntries \cup {None}]
    BY <2>2 DEF MinedInv
  <2>4. QED
    BY <1>1, <2>1, <2>3 DEF MinedInv
<1>6. CASE FullFlush
  BY <1>1, <1>6 DEF FullFlush, MinedInv
<1>7. CASE UNCHANGED <<chainVars, mined, minedDisk, crashes>>
  BY <1>1, <1>7 DEF chainVars, MinedInv
<1>8. QED
  BY <1>2, <1>3, <1>4, <1>5, <1>6, <1>7
     DEF Next, vars, ProcessMessage, CheckBetter, AddVerified, FinalizeCommitments

\* As long as the process does not crash, no block is rejected after ProcessBlock
\* accepted it, and the write cache of the store does not overflow, the store of
\* mined commitments is exactly what the blocks of the active chain mine.
THEOREM MinedFollowsChain ==
  ASSUME ~Lossy
  PROVE  Spec => []MinedMatchesChain
<1>1. Init => MinedInv
  BY SMT, Z3, SMTT(10), Z3T(10), BlockTreeConstants, CommitmentConstants
     DEF Init, MinedInv, MinedMatchesChain, Mines, Carries
<1>2. MinedInv /\ [Next]_vars => MinedInv'
  BY MinedStep
<1>3. MinedInv => MinedMatchesChain
  BY DEF MinedInv
<1>4. QED
  BY <1>1, <1>2, <1>3, PTL DEF Spec

-----------------------------------------------------------------------------
(* The rules of a session, over the whole chain. *)

\* GetAncestor finds the one ancestor of a height, from Root on.
LEMMA AncestorAt ==
  ASSUME NEW b \in Blocks, NEW s \in Nat, s <= nHeight[b]
  PROVE  /\ s >= nHeight[Root] => /\ GetAncestor(b, s) \in Anc[b]
                                  /\ nHeight[GetAncestor(b, s)] = s
         /\ s < nHeight[Root] => GetAncestor(b, s) = None
<1>0. /\ nHeight[b] \in Nat /\ nHeight[Root] \in Nat /\ Anc[b] \subseteq Blocks
      /\ \A a \in Anc[b] : nHeight[a] \in Nat
  BY BlockTreeConstants
<1>1. CASE s >= nHeight[Root]
  <2>1. \E a \in Anc[b] : nHeight[a] = s
    BY SMT, Z3, SMTT(10), Z3T(10), <1>0, <1>1, AncestryAssumption
  <2>2. QED
    BY SMT, Z3, SMTT(10), Z3T(10), <1>0, <1>1, <2>1 DEF GetAncestor
<1>2. CASE s < nHeight[Root]
  <2>1. \A a \in Anc[b] : nHeight[Root] <= nHeight[a]
    BY <1>0, AncestryAssumption
  <2>2. \A a \in Anc[b] : nHeight[a] # s
    BY SMT, Z3, SMTT(10), Z3T(10), <1>0, <1>2, <2>1
  <2>3. QED
    BY SMT, Z3, SMTT(10), Z3T(10), <1>0, <1>2, <2>2 DEF GetAncestor
<1>3. QED
  BY <1>0, <1>1, <1>2

\* It is the same for all blocks of a chain that are high enough.
LEMMA SameAncestor ==
  ASSUME NEW t \in Blocks, NEW b \in Anc[t], NEW s \in Nat, s <= nHeight[b]
  PROVE  GetAncestor(t, s) = GetAncestor(b, s)
<1>0. /\ b \in Blocks /\ Anc[b] \subseteq Anc[t] /\ Anc[t] \subseteq Blocks
      /\ nHeight[b] \in Nat /\ nHeight[t] \in Nat /\ nHeight[b] <= nHeight[t]
      /\ nHeight[Root] \in Nat
  BY BlockTreeConstants, AncestryAssumption
<1>1. s <= nHeight[t]
  BY SMT, Z3, SMTT(10), Z3T(10), <1>0
<1>2. CASE s < nHeight[Root]
  BY <1>0, <1>1, <1>2, AncestorAt
<1>3. CASE s >= nHeight[Root]
  <2> DEFINE x == GetAncestor(t, s)
             y == GetAncestor(b, s)
  <2>1. x \in Anc[t] /\ nHeight[x] = s /\ y \in Anc[t] /\ nHeight[y] = s
    BY <1>0, <1>1, <1>3, AncestorAt
  <2> HIDE DEF x, y
  <2>2. x \in Anc[y] /\ y \in Blocks
    BY <1>0, <2>1, AncestryAssumption
  <2>3. x = y
    BY <2>1, <2>2, AncestryAssumption
  <2>4. QED
    BY <2>3 DEF x, y
<1>4. QED
  BY SMT, Z3, SMTT(10), Z3T(10), <1>0, <1>2, <1>3

\* What SessionRules says of a block, judged on the block's own chain.
SessionOK(b) ==
  LET start == nHeight[b] - (nHeight[b] % dkgInterval)
      q == GetAncestor(b, start)
      earlier == \E a \in Anc[b] \ {b} : Mines(a, q)
  IN qcTx[b] # None <=>
       IsMiningPhase(nHeight[b]) /\ start >= nHeight[Root] /\ ~earlier

SessionInv ==
  Undisturbed => \A b \in Anc[tip] \ {Root} : nHeight[b] >= nNexusStartBlock => SessionOK(b)

\* A block that ProcessBlock accepts on an undisturbed store keeps the rules.
LEMMA AcceptedKeepsRules ==
  ASSUME MinedTypes, MinedRight, NEW b \in Blocks \ {Root}, pprev[b] = tip,
         nHeight[b] >= nNexusStartBlock, ProcessBlockAccepts(nHeight[b], qcTx[b])
  PROVE  SessionOK(b)
<1> DEFINE h == nHeight[b]
           start == h - (h % dkgInterval)
           q == GetAncestor(b, start)
<1>0. /\ h \in Nat /\ nHeight[tip] \in Nat /\ h = nHeight[tip] + 1 /\ tip \in Blocks
      /\ nNexusStartBlock \in Nat /\ nHeight[Root] \in Nat
      /\ Anc[b] = Anc[tip] \cup {b} /\ b \notin Anc[tip] /\ tip \in Anc[b]
      /\ Anc[tip] \subseteq Blocks /\ None \notin Blocks
  BY SMT, Z3, SMTT(10), Z3T(10), ChildChain, BlockTreeConstants, AncestryAssumption, CommitmentConstants
<1>1. start \in Nat /\ start % dkgInterval = 0
  BY <1>0, SessionStart
<1>2. /\ h % dkgInterval \in Nat /\ start <= h
      /\ h % dkgInterval # 0 => start <= nHeight[tip]
  <2>1. h % dkgInterval \in Nat
    BY SMT, Z3, SMTT(10), Z3T(10), <1>0, CommitmentConstants
  <2>2. QED
    <3> DEFINE r == h % dkgInterval
    <3>1. r \in Nat /\ start = h - r
      BY <2>1
    <3> HIDE DEF r, start
    <3>2. start <= h /\ (r # 0 => start <= nHeight[tip])
      BY SMT, Z3, SMTT(10), Z3T(10), <1>0, <3>1
    <3>3. QED
      BY <2>1, <3>2 DEF r
<1>3. IsMiningPhase(h) => h % dkgInterval # 0
  BY SMT, Z3, SMTT(10), Z3T(10), <1>2, CommitmentConstants DEF IsMiningPhase
<1> HIDE DEF h, start
<1>4. qcTx[b] # None <=> IsCommitmentRequired(h)
  BY SMT, Z3, SMTT(10), Z3T(10), <1>0 DEF ProcessBlockAccepts, h
<1>5. CASE ~IsMiningPhase(h)
  BY <1>4, <1>5 DEF IsCommitmentRequired, SessionOK, h, start
<1>6. CASE IsMiningPhase(h) /\ start < nHeight[Root]
  <2>1. start <= nHeight[tip] /\ GetAncestor(tip, start) = None
    BY <1>0, <1>1, <1>2, <1>3, <1>6, AncestorAt
  <2>2. GetQuorumBlockHash(h) = None
    BY <2>1 DEF GetQuorumBlockHash, start
  <2>3. ~IsCommitmentRequired(h)
    BY <2>2 DEF IsCommitmentRequired
  <2>4. ~(start >= nHeight[Root])
    BY SMT, Z3, SMTT(10), Z3T(10), <1>0, <1>1, <1>6
  <2>5. QED
    BY <1>4, <2>3, <2>4 DEF SessionOK, h, start
<1>7. CASE IsMiningPhase(h) /\ start >= nHeight[Root]
  <2>1. start <= nHeight[tip]
    BY <1>2, <1>3, <1>7
  <2>2. /\ GetAncestor(tip, start) \in Anc[tip]
        /\ nHeight[GetAncestor(tip, start)] = start
    BY <1>0, <1>1, <1>7, <2>1, AncestorAt
  <2>3. q = GetAncestor(tip, start)
    BY SMT, Z3, SMTT(10), Z3T(10), <1>0, <1>1, <2>1, SameAncestor
  <2>4. q \in Quorums /\ q # None
    BY <1>0, <1>1, <2>2, <2>3 DEF Quorums
  <2>5. GetQuorumBlockHash(h) = q
    <3>1. ~(start > nHeight[tip])
      BY SMT, Z3, SMTT(10), Z3T(10), <1>0, <1>1, <2>1
    <3>2. QED
      BY <2>3, <3>1 DEF GetQuorumBlockHash, start
  <2> HIDE DEF q
  <2>6. mined[q] = None <=> \A a \in Anc[tip] : ~Mines(a, q)
    BY Zenon, <1>0, <2>4, MinedIsSomething DEF MinedRight, Mines
  <2>7. IsCommitmentRequired(h) <=> \A a \in Anc[tip] : ~Mines(a, q)
    BY <1>7, <2>4, <2>5, <2>6 DEF IsCommitmentRequired, HasMinedCommitment
  <2>8. Anc[b] \ {b} = Anc[tip]
    BY <1>0
  <2>9. QED
    BY <1>4, <1>7, <2>7, <2>8 DEF SessionOK, h, start, q
<1>8. QED
  BY SMT, Z3, SMTT(10), Z3T(10), <1>0, <1>1, <1>5, <1>6, <1>7

\* Every step preserves the rules.
LEMMA SessionStep ==
  ASSUME ~Lossy
  PROVE  MinedInv /\ SessionInv /\ [Next]_vars => SessionInv'
<1> SUFFICES ASSUME MinedInv, SessionInv, [Next]_vars, Undisturbed',
                    NEW b \in Anc[tip'] \ {Root}, nHeight[b] >= nNexusStartBlock
             PROVE  SessionOK(b)
  BY DEF SessionInv, SessionOK, Mines, Carries
<1>0. MinedTypes /\ (Undisturbed => MinedRight) /\ tip \in Blocks
  BY MinedInvParts DEF MinedInv
<1>1. CASE UNCHANGED <<tip, failed, crashes>>
  BY <1>1 DEF SessionInv, Undisturbed
<1>2. ASSUME NEW c \in Blocks, ConnectTip(c)
      PROVE  SessionOK(b)
  <2>1. Undisturbed
    BY <1>2 DEF ConnectTip, Undisturbed
  <2>2. CASE UNCHANGED tip
    BY <2>1, <2>2 DEF SessionInv
  <2>3. CASE tip' = c /\ ProcessBlockAccepts(nHeight[c], qcTx[c])
    <3>1. c # Root /\ pprev[c] = tip /\ Anc[c] = Anc[tip] \cup {c}
      BY <1>2, BlockTreeConstants DEF ConnectTip
    <3>2. CASE b \in Anc[tip]
      BY <2>1, <3>2 DEF SessionInv
    <3>3. CASE b = c
      BY <1>0, <2>1, <2>3, <3>1, <3>3, AcceptedKeepsRules
    <3>4. QED
      BY <2>3, <3>1, <3>2, <3>3
  <2>4. QED
    BY <1>2, <2>2, <2>3 DEF ConnectTip
<1>3. CASE DisconnectTip
  <2>1. Undisturbed /\ Anc[tip'] \subseteq Anc[tip]
    BY <1>0, <1>3, BlockTreeConstants DEF DisconnectTip, Undisturbed
  <2>2. QED
    BY <2>1 DEF SessionInv
<1>4. CASE CrashAndRestart
  <2>1. crashes' = crashes + 1 /\ crashes \in Nat
    BY <1>4 DEF CrashAndRestart, MinedInv
  <2>2. ~Undisturbed'
    BY SMT, Z3, SMTT(10), Z3T(10), <2>1 DEF Undisturbed
  <2>3. QED
    BY <2>2
<1>5. QED
  BY <1>1, <1>2, <1>3, <1>4
     DEF Next, vars, ProcessMessage, CheckBetter, AddVerified, FinalizeCommitments,
         PeriodicWrite, FullFlush, chainVars

\* Under the same conditions a session has, over the whole chain, at most one
\* non-null commitment, a null one in every block of its window before that, and
\* none elsewhere: ProcessBlock, which looks at one block and at the store, gives
\* the rule over all of them, and reorganisations keep it.
THEOREM SessionsFollowRules ==
  ASSUME ~Lossy
  PROVE  Spec => []SessionRules
<1>1. Init => MinedInv
  BY SMT, Z3, SMTT(10), Z3T(10), BlockTreeConstants, CommitmentConstants
     DEF Init, MinedInv, MinedMatchesChain, Mines, Carries
<1>2. MinedInv /\ [Next]_vars => MinedInv'
  BY MinedStep
<1>3. Init => SessionInv
  BY BlockTreeConstants DEF Init, SessionInv
<1>4. MinedInv /\ SessionInv /\ [Next]_vars => SessionInv'
  BY SessionStep
<1>5. MinedInv /\ SessionInv => SessionRules
  <2> SUFFICES ASSUME MinedInv, SessionInv, Undisturbed,
                      NEW b \in Anc[tip] \ {Root}, nHeight[b] >= nNexusStartBlock
               PROVE  LET start == nHeight[b] - (nHeight[b] % dkgInterval)
                          q == GetAncestor(tip, start)
                          earlier == \E a \in Anc[b] \ {b} : Mines(a, q)
                      IN qcTx[b] # None <=>
                           IsMiningPhase(nHeight[b]) /\ start >= nHeight[Root] /\ ~earlier
    BY DEF SessionRules
  <2> DEFINE start == nHeight[b] - (nHeight[b] % dkgInterval)
  <2>1. tip \in Blocks /\ b \in Blocks /\ nHeight[b] \in Nat
    BY BlockTreeConstants DEF MinedInv
  <2>2. start \in Nat /\ start <= nHeight[b]
    <3>1. start \in Nat /\ nHeight[b] % dkgInterval \in Nat
      BY SMT, Z3, SMTT(10), Z3T(10), <2>1, SessionStart, CommitmentConstants
    <3> DEFINE r == nHeight[b] % dkgInterval
    <3>2. r \in Nat /\ start = nHeight[b] - r
      BY <3>1
    <3> HIDE DEF r, start
    <3>3. QED
      BY SMT, Z3, SMTT(10), Z3T(10), <2>1, <3>1, <3>2
  <2> HIDE DEF start
  <2>3. GetAncestor(tip, start) = GetAncestor(b, start)
    BY <2>1, <2>2, SameAncestor
  <2>4. SessionOK(b)
    BY DEF SessionInv
  <2>5. QED
    BY <2>3, <2>4 DEF SessionOK, start
<1>6. QED
  BY <1>1, <1>2, <1>3, <1>4, <1>5, PTL DEF Spec

-----------------------------------------------------------------------------
(* Types. *)

\* What DB!Put leaves, evictions included.
LEMMA PutTyped ==
  ASSUME TypeOK, NEW q, NEW e \in MinedEntries, DB!Put(q, e)
  PROVE  mined' \in [Quorums -> MinedEntries \cup {None}] /\ UNCHANGED minedDisk
<1>1. PICK lost \in SUBSET (Quorums \ {q}) : mined' = [DB!Fallback(lost) EXCEPT ![q] = e]
  BY Zenon DEF DB!Put
<1>2. DB!Fallback(lost) \in [Quorums -> MinedEntries \cup {None}]
  BY DEF DB!Fallback, TypeOK
<1>3. QED
  BY Zenon, <1>1, <1>2 DEF DB!Put

\* What AddMineableCommitment leaves.
LEMMA AddTyped ==
  ASSUME TypeOK, NEW qc \in Commitments, AddMineableCommitment(qc)
  PROVE  /\ minableCommitments' \subseteq Commitments
         /\ minableCommitmentsByQuorum' \in [Quorums -> Commitments \cup {None}]
  BY DEF AddMineableCommitment, TypeOK, minableVars

\* A step of the chain leaves every variable with its type.
LEMMA ChainStepTyped ==
  ASSUME TypeOK, DisconnectTip \/ \E b \in Blocks : ConnectTip(b)
  PROVE  TypeOK'
<1>1. ASSUME NEW b \in Blocks, ConnectTip(b) PROVE TypeOK'
  <2>1. /\ tip' \in Blocks /\ failed' \subseteq Blocks
        /\ UNCHANGED <<coinsTip, message, crashes>>
    BY <1>1 DEF ConnectTip, TypeOK
  <2>2. CASE UNCHANGED <<mined, minedDisk, minableVars>>
    BY <2>1, <2>2 DEF TypeOK, minableVars
  <2>3. CASE qcTx[b] # None /\ ProcessCommitment(b, qcTx[b])
    <3>1. qcTx[b] \in Commitments /\ <<qcTx[b], b>> \in MinedEntries
      BY <2>3, CommitmentConstants DEF MinedEntries
    <3>2. DB!Put(qcTx[b].quorumHash, <<qcTx[b], b>>)
      BY <2>3 DEF ProcessCommitment
    <3>3. mined' \in [Quorums -> MinedEntries \cup {None}] /\ UNCHANGED minedDisk
      BY <3>1, <3>2, PutTyped
    <3>4. /\ minableCommitments' \subseteq Commitments
          /\ minableCommitmentsByQuorum' \in [Quorums -> Commitments \cup {None}]
      BY Zenon, <2>3 DEF ProcessCommitment, TypeOK
    <3>5. QED
      BY <2>1, <3>3, <3>4 DEF TypeOK
  <2>4. QED
    BY <1>1, <2>2, <2>3 DEF ConnectTip
<1>2. CASE DisconnectTip
  <2>1. /\ tip' \in Blocks /\ coinsTip' \in Blocks
        /\ UNCHANGED <<failed, message, crashes>>
    BY <1>2, BlockTreeConstants DEF DisconnectTip, TypeOK
  <2>2. CASE UNCHANGED <<mined, minedDisk, minableVars>>
    BY <2>1, <2>2 DEF TypeOK, minableVars
  <2>3. CASE /\ qcTx[tip] # None /\ DB!Del(qcTx[tip].quorumHash)
             /\ AddMineableCommitment(qcTx[tip])
    <3>1. qcTx[tip] \in Commitments
      BY <2>3, CommitmentConstants DEF TypeOK
    <3>2. mined' \in [Quorums -> MinedEntries \cup {None}] /\ UNCHANGED minedDisk
      BY Zenon, <2>3 DEF DB!Del, TypeOK
    <3>3. QED
      BY <2>1, <2>3, <3>1, <3>2, AddTyped DEF TypeOK
  <2>4. QED
    BY <1>2, <2>2, <2>3 DEF DisconnectTip, UndoBlock
<1>3. QED
  BY <1>1, <1>2

\* Every variable keeps its type, over crashes, late failures and evictions.
THEOREM CommitmentsTyped == Spec => []TypeOK
<1>1. Init => TypeOK
  BY SMT, Z3, SMTT(10), Z3T(10), BlockTreeConstants, CommitmentConstants DEF Init, TypeOK, NoMessage
<1>2. MinableInv /\ TypeOK /\ [Next]_vars => TypeOK'
  <2> SUFFICES ASSUME MinableInv, TypeOK, [Next]_vars PROVE TypeOK'
    OBVIOUS
  <2>1. ASSUME NEW t \in Threads, NEW qc \in Commitments, ProcessMessage(t, qc)
        PROVE  TypeOK'
    BY <2>1 DEF ProcessMessage, TypeOK, chainVars, minableVars
  <2>2. ASSUME NEW t \in Threads, CheckBetter(t)
        PROVE  TypeOK'
    <3>1. message[t].qc \in Commitments
      BY <2>2 DEF CheckBetter, MinableInv
    <3>2. message' \in [Threads -> [qc : Commitments \cup {None},
                                    pc : {"idle", "onChain", "verified"}]]
      BY <2>2, <3>1 DEF CheckBetter, TypeOK, NoMessage
    <3>3. QED
      BY <2>2, <3>2 DEF CheckBetter, TypeOK, chainVars, minableVars
  <2>3. ASSUME NEW t \in Threads, AddVerified(t)
        PROVE  TypeOK'
    <3>1. message[t].qc \in Commitments
      BY <2>3 DEF AddVerified, MinableInv
    <3>2. message' \in [Threads -> [qc : Commitments \cup {None},
                                    pc : {"idle", "onChain", "verified"}]]
      BY <2>3 DEF AddVerified, TypeOK, NoMessage
    <3>3. QED
      BY <2>3, <3>1, <3>2, AddTyped DEF AddVerified, TypeOK, chainVars
  <2>4. ASSUME NEW qc \in Commitments, FinalizeCommitments(qc)
        PROVE  TypeOK'
    BY <2>4, AddTyped DEF FinalizeCommitments, TypeOK, chainVars
  <2>5. CASE DisconnectTip \/ \E b \in Blocks : ConnectTip(b)
    BY <2>5, ChainStepTyped
  <2>6. CASE PeriodicWrite
    <3>1. minedDisk' \in [Quorums -> MinedEntries \cup {None}] /\ UNCHANGED mined
      BY <2>6 DEF PeriodicWrite, DB!Sync, TypeOK
    <3>2. QED
      BY <2>6, <3>1 DEF PeriodicWrite, TypeOK, chainVars, minableVars
  <2>7. CASE FullFlush
    BY <2>7 DEF FullFlush, TypeOK, minableVars
  <2>8. CASE CrashAndRestart
    <3>1. crashes' \in 0..MaxCrashes
      BY SMT, Z3, SMTT(10), Z3T(10), <2>8, CommitmentConstants DEF CrashAndRestart, TypeOK
    <3>2. message' \in [Threads -> [qc : Commitments \cup {None},
                                    pc : {"idle", "onChain", "verified"}]]
      BY <2>8 DEF CrashAndRestart, NoMessage
    <3>3. QED
      BY <2>8, <3>1, <3>2 DEF CrashAndRestart, DB!Crash, TypeOK
  <2>9. CASE UNCHANGED vars
    BY <2>9 DEF vars, TypeOK, chainVars, minableVars
  <2>10. QED
    BY <2>1, <2>2, <2>3, <2>4, <2>5, <2>6, <2>7, <2>8, <2>9 DEF Next
<1>3. QED
  BY <1>1, <1>2, MinableInit, MinableStep, PTL DEF Spec
=============================================================================
