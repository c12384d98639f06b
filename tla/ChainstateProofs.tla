-------------------------- MODULE ChainstateProofs --------------------------
(***************************************************************************)
(* Proofs about Chainstate: on every block tree, with any number of calls   *)
(* and ChainLocks, the failure flags of the block index are consistent and  *)
(* no block of the active chain is marked (FlagInv); every variable keeps   *)
(* its type (KindInv); setBlockIndexCandidates has exactly the blocks that  *)
(* CheckBlockIndex asks for (CandInv); a ChainLocked block that is active   *)
(* stays active (LockInv); and at rest the tip is the best chain (BestInv). *)
(* The last three are about behaviours in which the tip has not come to     *)
(* sort worse than before (slipped, demoted).                               *)
(***************************************************************************)
EXTENDS Chainstate, TLAPS, WellFoundedInduction, FiniteSetTheorems

-----------------------------------------------------------------------------
(* CBlockIndexWorkComparator is a total order. *)

\* What is not worse than b is not worse than anything b is not worse than.
LEMMA NotWorseChains ==
  ASSUME NEW seq \in [Blocks -> Int], NEW a \in Blocks, NEW b \in Blocks, NEW c \in Blocks,
         ~Worse(a, b, seq), ~Worse(b, c, seq)
  PROVE  ~Worse(a, c, seq)
<1>1. /\ nChainWork[a] \in Nat /\ nChainWork[b] \in Nat /\ nChainWork[c] \in Nat
      /\ Address[a] \in Nat /\ Address[b] \in Nat /\ Address[c] \in Nat
      /\ seq[a] \in Int /\ seq[b] \in Int /\ seq[c] \in Int
  BY Zenon, ChainstateConstants
<1> QED BY SMT, Z3, SMTT(10), Z3T(10), <1>1 DEF Worse

LEMMA WorseOneWay ==
  ASSUME NEW seq \in [Blocks -> Int], NEW a \in Blocks, NEW b \in Blocks
  PROVE  ~Worse(a, a, seq) /\ (Worse(a, b, seq) => ~Worse(b, a, seq))
<1>1. /\ nChainWork[a] \in Nat /\ nChainWork[b] \in Nat
      /\ Address[a] \in Nat /\ Address[b] \in Nat
      /\ seq[a] \in Int /\ seq[b] \in Int
  BY ChainstateConstants
<1> QED BY SMT, Z3, SMTT(10), Z3T(10), <1>1 DEF Worse

LEMMA WorseTotal ==
  ASSUME NEW seq \in [Blocks -> Int], NEW a \in Blocks, NEW b \in Blocks,
         ~Worse(a, b, seq), ~Worse(b, a, seq)
  PROVE  a = b
<1>1. /\ nChainWork[a] \in Nat /\ nChainWork[b] \in Nat
      /\ Address[a] \in Nat /\ Address[b] \in Nat
      /\ seq[a] \in Int /\ seq[b] \in Int
      /\ Address[a] = Address[b] => a = b
  BY ChainstateConstants
<1> QED BY SMT, Z3, SMTT(10), Z3T(10), <1>1 DEF Worse

-----------------------------------------------------------------------------
(* Facts about trees. *)

\* Ancestors are blocks, and their ancestors are ancestors.
LEMMA AncestorsNest ==
  ASSUME NEW b \in Blocks
  PROVE  /\ b \in Anc[b] /\ Anc[b] \subseteq Blocks
         /\ \A a \in Anc[b] : a \in Anc[a] /\ Anc[a] \subseteq Anc[b]
  BY BlockTreeConstants, AncestryAssumption

\* Two ancestors of a block are on one chain.
LEMMA AncestorsChain ==
  ASSUME NEW b \in Blocks, NEW x \in Anc[b], NEW y \in Anc[b]
  PROVE  x \in Anc[y] \/ y \in Anc[x]
<1>1. nHeight[x] \in Nat /\ nHeight[y] \in Nat
  BY BlockTreeConstants
<1>2. nHeight[x] <= nHeight[y] \/ nHeight[y] <= nHeight[x]
  BY SMT, Z3, SMTT(10), Z3T(10), <1>1
<1>3. QED
  BY <1>2, AncestryAssumption

\* Two blocks that are ancestors of each other are one.
LEMMA AncestorsOrdered ==
  ASSUME NEW a \in Blocks, NEW b \in Blocks, a \in Anc[b], b \in Anc[a]
  PROVE  a = b
<1>1. nHeight[a] <= nHeight[b] /\ nHeight[b] <= nHeight[a]
  BY AncestryAssumption
<1>2. nHeight[a] \in Nat /\ nHeight[b] \in Nat
  BY BlockTreeConstants
<1>3. nHeight[a] = nHeight[b]
  BY SMT, Z3, SMTT(10), Z3T(10), <1>1, <1>2
<1>4. QED
  BY <1>3, AncestryAssumption

\* A block and its parent.
LEMMA ParentChain ==
  ASSUME NEW b \in Blocks \ {Root}
  PROVE  /\ pprev[b] \in Blocks /\ pprev[b] \in Anc[b]
         /\ Anc[b] = Anc[pprev[b]] \cup {b}
         /\ b \notin Anc[pprev[b]]
<1>1. /\ pprev[b] \in Blocks /\ nHeight[b] \in Nat /\ nHeight[pprev[b]] \in Nat
      /\ nHeight[b] = nHeight[pprev[b]] + 1
      /\ Anc[b] = Anc[pprev[b]] \cup {b}
  BY BlockTreeConstants
<1>2. \A a \in Anc[pprev[b]] : nHeight[a] <= nHeight[pprev[b]]
  BY <1>1, AncestryAssumption
<1>3. QED
  BY SMT, Z3, SMTT(10), Z3T(10), <1>1, <1>2, AncestryAssumption

\* A proper ancestor t of m has a child on the way to m.
LEMMA ChildTowards ==
  ASSUME NEW m \in Blocks, NEW t \in Anc[m] \ {m}
  PROVE  \E b \in Anc[m] : b # Root /\ pprev[b] = t
<1>1. /\ t \in Blocks /\ nHeight[t] \in Nat /\ nHeight[m] \in Nat /\ nHeight[Root] \in Nat
      /\ nHeight[t] <= nHeight[m] /\ nHeight[t] # nHeight[m]
      /\ nHeight[Root] <= nHeight[t]
  BY BlockTreeConstants, AncestryAssumption
<1>2. PICK b \in Anc[m] : nHeight[b] = nHeight[t] + 1
  BY SMT, Z3, SMTT(10), Z3T(10), <1>1, AncestryAssumption
<1>3. b \in Blocks /\ b # Root
  BY SMT, Z3, SMTT(10), Z3T(10), <1>1, <1>2, BlockTreeConstants
<1>4. /\ pprev[b] \in Anc[m] /\ nHeight[pprev[b]] \in Nat
      /\ nHeight[b] = nHeight[pprev[b]] + 1
  BY <1>2, <1>3, ParentChain, AncestorsNest, BlockTreeConstants
<1>5. nHeight[pprev[b]] = nHeight[t]
  BY SMT, Z3, SMTT(10), Z3T(10), <1>1, <1>2, <1>4
<1>6. t \in Anc[pprev[b]]
  BY <1>4, <1>5, <1>1, AncestryAssumption
<1>7. pprev[b] = t
  BY SMT, Z3, SMTT(10), Z3T(10), <1>3, <1>5, <1>6, ParentChain, AncestryAssumption
<1>8. QED
  BY <1>2, <1>3, <1>7

\* A set of numbers has a least element.
LEMMA LeastNumber ==
  ASSUME NEW T \in SUBSET Nat, T # {}
  PROVE  \E n \in T : \A m \in T : n <= m
<1>1. IsWellFoundedOn(OpToRel(<, Nat), Nat)
  BY Zenon, NatLessThanWellFounded
<1>2. PICK n \in T : \A m \in T : ~(<<m, n>> \in OpToRel(<, Nat))
  BY Zenon, <1>1, WFMin
<1>3. \A m \in T : <<m, n>> \in OpToRel(<, Nat) <=> m < n
  BY DEF OpToRel
<1>4. \A m \in T : ~(m < n)
  BY <1>2, <1>3, Zenon
<1>5. QED
  BY SMT, Z3, SMTT(10), Z3T(10), <1>4

\* A chain has less work than the chains it is part of.
LEMMA LessWork ==
  ASSUME NEW t \in Blocks, NEW a \in Anc[t] \ {t}
  PROVE  nChainWork[a] < nChainWork[t]
<1> DEFINE More == {c \in Anc[t] \ {a} : a \in Anc[c] /\ ~(nChainWork[a] < nChainWork[c])}
           T == {nHeight[c] : c \in More}
<1>1. SUFFICES ASSUME More # {} PROVE FALSE
  BY AncestorsNest
<1>2. T \in SUBSET Nat /\ T # {}
  BY SMT, Z3, SMTT(10), Z3T(10), <1>1, BlockTreeConstants
<1>3. PICK n \in T : \A m \in T : n <= m
  BY Zenon, <1>2, LeastNumber
<1>4. PICK c \in More : n = nHeight[c]
  BY <1>3
<1>5. a \in Blocks /\ c \in Blocks \ {Root}
  BY <1>4, BlockTreeConstants
<1>6. /\ pprev[c] \in Blocks /\ pprev[c] \in Anc[t] /\ a \in Anc[pprev[c]]
  BY SMT, Z3, SMTT(10), Z3T(10), <1>4, <1>5, ParentChain, AncestorsNest
<1>7. /\ nChainWork[pprev[c]] < nChainWork[c] /\ nHeight[c] = nHeight[pprev[c]] + 1
      /\ nHeight[pprev[c]] \in Nat
      /\ nChainWork[a] \in Nat /\ nChainWork[c] \in Nat /\ nChainWork[pprev[c]] \in Nat
  BY <1>5, <1>6, BlockTreeConstants, ChainstateConstants
<1>8. pprev[c] \notin More
  <2>1. pprev[c] \in More => nHeight[c] <= nHeight[pprev[c]]
    BY <1>3, <1>4
  <2>2. QED
    BY SMT, Z3, SMTT(10), Z3T(10), <1>5, <1>7, <2>1
<1>9. QED
  BY SMT, Z3, SMTT(10), Z3T(10), <1>4, <1>6, <1>7, <1>8

\* A block that does not sort before t is not below t.
LEMMA NotBelow ==
  ASSUME NEW t \in Blocks, NEW c \in Blocks, NEW seq, ~Worse(c, t, seq)
  PROVE  c \notin Anc[t] \ {t}
  BY LessWork DEF Worse

\* A nonempty set of ancestors of a block has a highest one.
LEMMA Highest ==
  ASSUME NEW a \in Blocks, NEW S \in SUBSET Anc[a], S # {}
  PROVE  \E f \in S : \A g \in S : nHeight[g] <= nHeight[f]
<1> DEFINE T == {nHeight[a] - nHeight[g] : g \in S}
<1>1. /\ nHeight[a] \in Nat
      /\ \A g \in S : nHeight[g] \in Nat /\ nHeight[g] <= nHeight[a]
  BY BlockTreeConstants, AncestryAssumption
<1>2. T \in SUBSET Nat /\ T # {}
  BY SMT, Z3, SMTT(10), Z3T(10), <1>1
<1>3. PICK n \in T : \A m \in T : n <= m
  BY Zenon, <1>2, LeastNumber
<1>4. PICK f \in S : n = nHeight[a] - nHeight[f]
  BY <1>3
<1>5. ASSUME NEW g \in S PROVE nHeight[g] <= nHeight[f]
  <2>1. n <= nHeight[a] - nHeight[g]
    BY <1>3
  <2>2. QED
    BY SMT, Z3, SMTT(10), Z3T(10), <1>1, <1>4, <2>1
<1>6. QED
  BY <1>5

\* FindFork finds the highest common ancestor.
LEMMA ForkFound ==
  ASSUME NEW a \in Blocks, NEW b \in Blocks
  PROVE  /\ Fork(a, b) \in Anc[a] \cap Anc[b]
         /\ Anc[a] \cap Anc[b] = Anc[Fork(a, b)]
<1>1. Root \in Anc[a] \cap Anc[b]
  BY AncestryAssumption
<1>2. \E f \in Anc[a] \cap Anc[b] : \A g \in Anc[a] \cap Anc[b] : nHeight[g] <= nHeight[f]
  BY Zenon, <1>1, Highest
<1>3. /\ Fork(a, b) \in Anc[a] \cap Anc[b]
      /\ \A g \in Anc[a] \cap Anc[b] : nHeight[g] <= nHeight[Fork(a, b)]
  BY <1>2 DEF Fork
<1>4. QED
  BY <1>3, AncestryAssumption

\* The blocks of a chain above one of its blocks.
LEMMA AboveChain ==
  ASSUME NEW a \in Blocks, NEW f \in Anc[a], NEW b \in Anc[a] \ Anc[f]
  PROVE  b \in Blocks /\ f \in Anc[b] /\ Anc[f] \subseteq Anc[b] /\ Anc[b] \subseteq Anc[a]
<1>1. f \in Anc[b]
  BY AncestorsChain
<1>2. QED
  BY <1>1, AncestorsNest

-----------------------------------------------------------------------------
(* Facts about the invariant. *)

\* Marking all blocks between a marked block t and a block a keeps MarkInv.
LEMMA MarkMore ==
  ASSUME MarkInv, NEW a \in Blocks, NEW t \in Anc[a] \cap failed,
         failedChild' = failedChild \cup (Anc[a] \ Anc[t]),
         failedValid' = failedValid, m_failed_blocks' = m_failed_blocks
  PROVE  MarkInv'
<1>1. failed' \subseteq Blocks
  BY AncestorsNest DEF MarkInv, failed
<1>2. PICK f \in failedValid \cap Anc[t] : Anc[t] \ Anc[f] \subseteq failedChild
  <2>1. t \in Blocks
    BY DEF MarkInv
  <2>2. CASE t \in failedValid
    BY <2>1, <2>2, AncestorsNest
  <2>3. CASE t \in failedChild
    BY <2>3 DEF MarkInv
  <2>4. QED
    BY <2>2, <2>3 DEF failed
<1>3. ASSUME NEW b \in Anc[a] \ Anc[t]
      PROVE  f \in Anc[b] /\ Anc[b] \ Anc[f] \subseteq failedChild'
  BY <1>2, AboveChain
<1>4. QED
  BY <1>1, <1>2, <1>3 DEF MarkInv

\* While tip and job stay, new marks do no harm on blocks that are not linked
\* or have a marked ancestor already.
LEMMA ChainUnmarked ==
  ASSUME DataInv, ChainInv, tip' = tip, job' = job, scripts' = scripts,
         linked \subseteq linked',
         \A x \in failed' \cup conflict' :
           \/ x \in failed \cup conflict \/ x \notin linked
           \/ x \in Blocks /\ Anc[x] \cap (failed \cup conflict) # {}
  PROVE  ChainInv'
<1>1. ASSUME NEW b \in linked, Anc[b] \cap (failed \cup conflict) = {}
      PROVE  Anc[b] \cap (failed' \cup conflict') = {}
  BY SMT, Z3, SMTT(10), Z3T(10), <1>1, AncestorsNest DEF DataInv
<1>2. Anc[tip] \subseteq scripts' \ (failed' \cup conflict')
  BY <1>1 DEF DataInv, ChainInv
<1>3. job.pc \in {"step", "connect", "rest"} /\ job.most # None =>
        job.most \in linked' /\ Anc[job.most] \cap (failed' \cup conflict') = {}
  BY <1>1 DEF ChainInv
<1>4. job.pc = "invalidate" => job.byWork \subseteq linked'
  BY DEF ChainInv
<1>5. QED
  BY <1>2, <1>3, <1>4 DEF ChainInv

\* Steps of ActivateBestChain that mark nothing keep MarkInv.
LEMMA MarksUnchanged ==
  ASSUME MarkInv, UNCHANGED <<failedValid, failedChild, m_failed_blocks>>
  PROVE  MarkInv'
  BY DEF MarkInv, failed

-----------------------------------------------------------------------------
(* Each action keeps FlagInv. *)

LEMMA InitFlagInv == Init => FlagInv
<1> SUFFICES ASSUME Init PROVE FlagInv
  OBVIOUS
<1>1. Root \in Blocks /\ Anc[Root] = {Root}
  BY BlockTreeConstants
<1>2. DataInv /\ MarkInv
  BY <1>1 DEF Init, DataInv, MarkInv, failed
<1>3. ChainInv
  BY <1>1 DEF Init, ChainInv, NoJob, Jobs, failed
<1>4. QED
  BY <1>2, <1>3 DEF FlagInv

LEMMA HeaderStep ==
  ASSUME FlagInv, NEW b \in Blocks, AcceptBlockHeader(b)
  PROVE  FlagInv'
<1> USE DEF FlagInv
<1>1. DataInv'
  BY DEF DataInv, AcceptBlockHeader
<1>2. MarkInv'
  BY MarksUnchanged DEF AcceptBlockHeader
<1>3. \A x \in failed' \cup conflict' : x \in failed \cup conflict \/ x \notin linked
  BY DEF AcceptBlockHeader, NewConflict, failed, DataInv
<1>4. ChainInv'
  BY <1>3, ChainUnmarked DEF AcceptBlockHeader
<1>5. QED
  BY <1>1, <1>2, <1>4

LEMMA RefusedStep ==
  ASSUME FlagInv, NEW b \in Blocks, AcceptBlockHeaderRefused(b)
  PROVE  FlagInv'
<1> USE DEF FlagInv
<1>1. pprev[b] \in Blocks
  BY DEF AcceptBlockHeaderRefused, DataInv
<1>2. PICK f \in m_failed_blocks \cap Anc[pprev[b]] :
        failedChild' = failedChild \cup (Anc[pprev[b]] \ Anc[f])
  BY DEF AcceptBlockHeaderRefused
<1>3. f \in Anc[pprev[b]] \cap failed
  BY <1>2 DEF MarkInv, failed
<1>4. DataInv'
  BY DEF DataInv, AcceptBlockHeaderRefused, received
<1>5. MarkInv'
  BY <1>1, <1>2, <1>3, MarkMore DEF AcceptBlockHeaderRefused
<1>6. \A x \in failed' \cup conflict' :
        x \in failed \cup conflict \/ (x \in Blocks /\ f \in Anc[x])
  BY SMT, Z3, SMTT(10), Z3T(10), <1>1, <1>2, AboveChain DEF AcceptBlockHeaderRefused, failed
<1>7. ChainInv'
  BY <1>3, <1>6, ChainUnmarked DEF AcceptBlockHeaderRefused, received
<1>8. QED
  BY <1>4, <1>5, <1>7

\* A block that arrives links the blocks that waited for it.
LEMMA ReceivedLinks ==
  ASSUME DataInv, NEW b \in Blocks \ {Root}, NEW hard,
         index' = index \cup {b}, tip' = tip, ReceivedBlockTransactions(b, hard)
  PROVE  DataInv' /\ linked \subseteq linked'
<1> DEFINE S == {d \in Descendants(b) : (Anc[d] \ Anc[b]) \subseteq unlinked}
<1>1. CASE pprev[b] \in linked
  <2>1. /\ data' = data \cup {b} /\ linked' = linked \cup S /\ unlinked' = unlinked \ S
        /\ \A c \in setBlockIndexCandidates' \ setBlockIndexCandidates :
             c \in S /\ ~Worse(c, tip, nSequenceId')
    BY Zenon, <1>1 DEF ReceivedBlockTransactions
  <2>2. S \subseteq data'
    <3> SUFFICES ASSUME NEW d \in S, d # b PROVE d \in unlinked
      BY <2>1 DEF DataInv
    <3>1. d \in Blocks /\ b \in Anc[d] /\ d \in Anc[d]
      BY AncestorsNest DEF Descendants
    <3>2. d \notin Anc[b]
      BY <3>1, AncestorsOrdered
    <3>3. QED
      BY <3>1, <3>2
  <2>3. ASSUME NEW d \in S PROVE Anc[d] \subseteq linked'
    <3> SUFFICES ASSUME NEW a \in Anc[d] PROVE a \in linked'
      OBVIOUS
    <3>1. d \in Blocks /\ b \in Anc[d] /\ b \in S
      BY AncestorsNest DEF Descendants
    <3>2. CASE a \in Anc[b]
      BY SMT, Z3, SMTT(10), Z3T(10), <1>1, <2>1, <3>1, <3>2, ParentChain DEF DataInv
    <3>3. CASE a \notin Anc[b]
      <4>1. a \in Blocks /\ b \in Anc[a] /\ Anc[a] \subseteq Anc[d]
        BY <3>1, <3>3, AboveChain
      <4>2. a \in S
        BY <4>1 DEF Descendants
      <4>3. QED
        BY <2>1, <4>2
    <3>4. QED
      BY <3>2, <3>3
  <2>4. setBlockIndexCandidates' \cap Anc[tip] \subseteq {tip}
    BY <2>1, NotBelow DEF DataInv, Descendants
  <2>5. QED
    BY <2>1, <2>2, <2>3, <2>4 DEF DataInv
<1>2. CASE pprev[b] \notin linked
  BY <1>2 DEF ReceivedBlockTransactions, DataInv
<1>3. QED
  BY <1>1, <1>2

LEMMA BlockStep ==
  ASSUME FlagInv, NEW b \in Blocks, AcceptBlock(b)
  PROVE  FlagInv'
<1> USE DEF FlagInv
<1>1. b # Root /\ b \notin linked
  <2>1. Root \in data
    BY AncestryAssumption DEF DataInv
  <2>2. QED
    BY <2>1 DEF AcceptBlock, DataInv
<1>2. DataInv' /\ linked \subseteq linked'
  <2>1. CASE b \in Malformed
    BY <2>1 DEF AcceptBlock, DataInv
  <2>2. CASE b \notin Malformed
    BY <1>1, <2>2, ReceivedLinks DEF AcceptBlock
  <2>3. QED
    BY <2>1, <2>2
<1>3. MarkInv'
  BY DEF AcceptBlock, MarkInv, failed
<1>4. \A x \in failed' \cup conflict' : x \in failed \cup conflict \/ x \notin linked
  BY <1>1 DEF AcceptBlock, NewConflict, failed
<1>5. ChainInv'
  BY <1>2, <1>4, ChainUnmarked DEF AcceptBlock
<1>6. QED
  BY <1>2, <1>3, <1>5

\* A round of ActivateBestChain begins.
LEMMA EnterStep ==
  ASSUME FlagInv, NEW most \in Blocks \cup {None}, Enter(most),
         most \notin Anc[tip] \ {tip},
         most # None => most \in linked /\ Anc[most] \cap (failed \cup conflict) = {},
         UNCHANGED <<tip, received, scripts, flags, setBlockIndexCandidates>>
  PROVE  FlagInv'
<1> USE DEF FlagInv
<1>1. DataInv'
  BY DEF DataInv, received
<1>2. MarkInv'
  BY MarksUnchanged DEF flags
<1>3. tip \in Blocks
  BY DEF DataInv
<1>4. /\ job' \in Jobs /\ job'.most = most
      /\ job'.pc = IF most = None THEN "find" ELSE "step"
  BY Zenon, <1>3 DEF Enter, NoJob, Jobs
<1>5. ChainInv'
  BY <1>4 DEF ChainInv, flags, received, failed
<1>6. QED
  BY <1>1, <1>2, <1>5

LEMMA ActivateStep ==
  ASSUME FlagInv, ActivateBestChain
  PROVE  FlagInv'
<1>1. None \notin Anc[tip]
  BY AncestorsNest, BlockTreeConstants DEF FlagInv, DataInv
<1>2. QED
  BY <1>1, EnterStep DEF ActivateBestChain

LEMMA NextRoundStep ==
  ASSUME FlagInv, NextRound
  PROVE  FlagInv'
<1> USE DEF FlagInv
<1>1. CASE job.most # tip
  <2>1. job.most \in Blocks \cup {None}
    BY DEF ChainInv, Jobs
  <2>2. /\ job.most \notin Anc[tip] \ {tip}
        /\ job.most # None => job.most \in linked /\ Anc[job.most] \cap (failed \cup conflict) = {}
    BY DEF NextRound, ChainInv
  <2>3. QED
    BY <1>1, <2>1, <2>2, EnterStep DEF NextRound
<1>2. CASE job.most = tip
  <2>1. DataInv' /\ MarkInv'
    BY MarksUnchanged DEF NextRound, DataInv, received, flags
  <2>2. ChainInv'
    BY SMT, Z3, SMTT(10), Z3T(10), <1>2 DEF NextRound, ChainInv, NoJob, Jobs, flags, failed
  <2>3. QED
    BY <2>1, <2>2
<1>3. QED
  BY <1>1, <1>2

LEMMA FindStep ==
  ASSUME FlagInv, FindMostWorkChain
  PROVE  FlagInv'
<1> USE DEF FlagInv
<1>1. PICK new \in setBlockIndexCandidates :
        LET bad == (Anc[new] \ Anc[tip]) \cap (failed \cup conflict)
            test == CHOOSE t \in bad : \A u \in bad : nHeight[u] <= nHeight[t]
            above == Anc[new] \ Anc[test]
        IN IF bad = {}
           THEN /\ job' = [job EXCEPT !.pc = "step", !.most = new]
                /\ UNCHANGED <<failedChild, conflict, setBlockIndexCandidates>>
           ELSE /\ setBlockIndexCandidates' = setBlockIndexCandidates \ (above \cup {test})
                /\ failedChild' = failedChild \cup (IF test \in failed THEN above ELSE {})
                /\ conflict' = conflict \cup (IF test \in failed THEN {} ELSE above)
                /\ UNCHANGED job
  BY Zenon DEF FindMostWorkChain
<1> DEFINE bad == (Anc[new] \ Anc[tip]) \cap (failed \cup conflict)
           test == CHOOSE t \in bad : \A u \in bad : nHeight[u] <= nHeight[t]
           above == Anc[new] \ Anc[test]
<1>2. new \in linked /\ new \in Blocks
  BY DEF DataInv
<1>3. UNCHANGED <<tip, index, data, linked, unlinked, scripts, failedValid, m_failed_blocks>>
  BY DEF FindMostWorkChain, received
<1>4. DataInv'
  BY <1>1, <1>3 DEF DataInv
<1>5. CASE bad = {}
  <2>1. job' = [job EXCEPT !.pc = "step", !.most = new] /\ UNCHANGED <<failedChild, conflict>>
    BY <1>1, <1>5
  <2>2. MarkInv'
    BY <1>3, <2>1, MarksUnchanged
  <2>3. Anc[new] \cap (failed \cup conflict) = {}
    BY <1>5 DEF ChainInv
  <2>4. job' \in Jobs /\ job'.pc = "step" /\ job'.most = new
    BY Zenon, <1>2, <2>1 DEF ChainInv, Jobs
  <2>5. new # None
    BY <1>2, BlockTreeConstants
  <2>6. ChainInv'
    BY <1>2, <1>3, <2>1, <2>3, <2>4, <2>5 DEF ChainInv, DataInv, failed
  <2>7. QED
    BY <1>4, <2>2, <2>6
<1>6. CASE bad # {}
  <2>1. \E t \in bad : \A u \in bad : nHeight[u] <= nHeight[t]
    BY Zenon, <1>2, <1>6, Highest
  <2>2. test \in Anc[new] /\ test \in failed \cup conflict
    BY <2>1
  <2>3. /\ failedChild' = failedChild \cup (IF test \in failed THEN above ELSE {})
        /\ conflict' = conflict \cup (IF test \in failed THEN {} ELSE above)
        /\ UNCHANGED job
    BY <1>1, <1>6
  <2> HIDE DEF test
  <2>4. MarkInv'
    <3>1. CASE test \in failed
      BY <1>2, <1>3, <2>2, <2>3, <3>1, MarkMore
    <3>2. CASE test \notin failed
      BY <1>3, <2>3, <3>2, MarksUnchanged
    <3>3. QED
      BY <3>1, <3>2
  <2>5. \A x \in failed' \cup conflict' :
          x \in failed \cup conflict \/ (x \in Blocks /\ test \in Anc[x])
    BY <1>2, <1>3, <2>2, <2>3, AboveChain DEF failed
  <2>6. ChainInv'
    BY <1>3, <2>2, <2>3, <2>5, ChainUnmarked
  <2>7. QED
    BY <1>4, <2>4, <2>6
<1>7. QED
  BY <1>5, <1>6

LEMMA NothingStep ==
  ASSUME FlagInv, NothingToDo
  PROVE  FlagInv'
<1> USE DEF FlagInv
<1>1. DataInv' /\ MarkInv'
  BY MarksUnchanged DEF NothingToDo, DataInv, received, flags
<1>2. /\ job' \in Jobs /\ job'.pc \in {"idle", "rest"}
      /\ job'.pc = "rest" => job'.most = job.most
  BY DEF NothingToDo, ChainInv, NoJob, Jobs
<1>3. None \notin Anc[tip]
  BY AncestorsNest, BlockTreeConstants DEF DataInv
<1>4. ChainInv'
  BY SMT, Z3, SMTT(10), Z3T(10), <1>2, <1>3 DEF NothingToDo, ChainInv, received, flags, failed
<1>5. QED
  BY <1>1, <1>4

LEMMA DisconnectStep ==
  ASSUME FlagInv, DisconnectToFork
  PROVE  FlagInv'
<1> USE DEF FlagInv
<1>1. /\ tip \in Blocks /\ job.most \in Blocks /\ job.most \in linked
      /\ Anc[job.most] \cap (failed \cup conflict) = {}
  BY DEF DisconnectToFork, ChainInv, DataInv
<1>2. tip' \in Anc[tip] \cap Anc[job.most]
  BY <1>1, ForkFound DEF DisconnectToFork
<1>3. tip' \in Blocks /\ Anc[tip'] \subseteq Anc[tip] /\ (tip \in Anc[tip'] => tip = tip')
  BY <1>1, <1>2, AncestorsNest, AncestorsOrdered
<1>4. DataInv'
  BY SMT, Z3, SMTT(10), Z3T(10), <1>2, <1>3 DEF DisconnectToFork, DataInv, received
<1>5. MarkInv'
  BY MarksUnchanged DEF DisconnectToFork, flags
<1>6. /\ job' \in Jobs /\ job'.pc = "connect" /\ job'.most = job.most
  BY Zenon, <1>1 DEF DisconnectToFork, ChainInv, Jobs
<1>7. job.most \notin Anc[tip']
  BY <1>1, <1>2, <1>3, AncestorsOrdered, AncestorsNest DEF DisconnectToFork, ChainInv
<1>8. ChainInv'
  BY SMT, Z3, SMTT(10), Z3T(10), <1>1, <1>2, <1>3, <1>6, <1>7, AncestorsNest
     DEF DisconnectToFork, ChainInv, DataInv, received, flags, failed
<1>9. QED
  BY <1>4, <1>5, <1>8

\* The block that is connected next.
LEMMA ToConnectFound ==
  ASSUME FlagInv, job.pc = "connect"
  PROVE  /\ ToConnect \in Blocks \ {Root} /\ ToConnect \in Anc[job.most] \cap linked
         /\ pprev[ToConnect] = tip
         /\ Anc[ToConnect] = Anc[tip] \cup {ToConnect} /\ ToConnect \notin Anc[tip]
         /\ job.most \in Blocks
<1>1. job.most \in Blocks /\ job.most \in linked /\ tip \in Anc[job.most] \ {job.most}
  BY DEF FlagInv, ChainInv, DataInv
<1>2. \E b \in Anc[job.most] : b # Root /\ pprev[b] = tip
  BY <1>1, ChildTowards
<1>3. ToConnect \in Anc[job.most] /\ ToConnect # Root /\ pprev[ToConnect] = tip
  BY <1>2 DEF ToConnect
<1>4. QED
  BY <1>1, <1>3, AncestorsNest, ParentChain DEF FlagInv, DataInv

LEMMA ConnectStep ==
  ASSUME FlagInv, ConnectTip
  PROVE  FlagInv'
<1> DEFINE b == ToConnect
<1> USE DEF FlagInv
<1>1. /\ b \in Blocks \ {Root} /\ b \in Anc[job.most] \cap linked
      /\ Anc[b] = Anc[tip] \cup {b}
      /\ job.most \in Blocks
  BY ToConnectFound DEF ConnectTip
<1>2. /\ tip' = b /\ scripts' = scripts \cup {b} /\ job.pc = "connect"
      /\ UNCHANGED <<index, data, linked, unlinked>>
      /\ UNCHANGED <<failedValid, failedChild, conflict, m_failed_blocks>>
      /\ setBlockIndexCandidates' =
           PruneBlockIndexCandidates(setBlockIndexCandidates, b, nSequenceId)
      /\ job' = IF b = job.most \/ nChainWork[b] > nChainWork[job.old]
                THEN AfterStep(b, job.most) ELSE job
  BY DEF ConnectTip, received, flags
<1> HIDE DEF b
<1>3. \A c \in setBlockIndexCandidates' :
        c \in setBlockIndexCandidates /\ ~Worse(c, b, nSequenceId)
  BY <1>2 DEF PruneBlockIndexCandidates
<1>4. setBlockIndexCandidates' \cap Anc[b] \subseteq {b}
  BY <1>1, <1>3, NotBelow DEF DataInv
<1>5. DataInv'
  BY <1>1, <1>2, <1>3, <1>4 DEF DataInv
<1>6. MarkInv'
  BY <1>2, MarksUnchanged
<1>7. job.most \notin Anc[b] \ {b}
  BY <1>1, AncestorsOrdered
<1>8. job.most # None /\ job.most \in linked /\ Anc[job.most] \cap (failed \cup conflict) = {}
  BY <1>2 DEF ChainInv
<1>9. /\ job' \in Jobs /\ job'.most = job.most
      /\ job'.pc \in {"connect", "step", "rest"}
      /\ job'.pc = "connect" => b # job.most
  <2>1. CASE job' = job
    <3>1. CASE b = job.most
      BY <1>2, <1>8, <2>1, <3>1 DEF AfterStep, ChainInv, Jobs
    <3>2. QED
      BY <1>2, <2>1, <3>1 DEF ChainInv
  <2>2. CASE job' = AfterStep(b, job.most)
    <3>1. job' \in {[job EXCEPT !.pc = "step", !.most = job.most],
                    [job EXCEPT !.pc = "rest", !.most = job.most]}
      BY <1>8, <2>2 DEF AfterStep
    <3>2. job \in Jobs
      BY DEF ChainInv
    <3>3. QED
      BY Zenon, <3>1, <3>2 DEF Jobs
  <2>3. QED
    BY <1>2, <2>1, <2>2
<1>10. Anc[b] \subseteq scripts' \ (failed \cup conflict)
  BY Zenon, <1>1, <1>2, <1>8 DEF ChainInv
<1>11. ChainInv'
  BY Zenon, <1>1, <1>2, <1>7, <1>8, <1>9, <1>10 DEF ChainInv, failed
<1>12. QED
  BY <1>5, <1>6, <1>11

LEMMA ConnectFailsStep ==
  ASSUME FlagInv, ConnectTipFails
  PROVE  FlagInv'
<1> DEFINE b == ToConnect
<1> USE DEF FlagInv
<1>1. b \in Blocks /\ b \notin Anc[tip]
  BY ToConnectFound DEF ConnectTipFails
<1>2. /\ failedValid' = failedValid \cup {b} /\ m_failed_blocks' = m_failed_blocks \cup {b}
      /\ setBlockIndexCandidates' = setBlockIndexCandidates \ {b}
      /\ job' = AfterStep(tip, None)
      /\ UNCHANGED <<tip, index, data, linked, unlinked, scripts, failedChild, conflict>>
  BY Zenon DEF ConnectTipFails, received
<1> HIDE DEF b
<1>3. DataInv'
  BY Zenon, <1>2 DEF DataInv
<1>4. MarkInv'
  BY <1>1, <1>2 DEF MarkInv, failed
<1>5. job' \in Jobs /\ job'.most = None /\ job'.pc \in {"find", "rest"}
  BY Zenon, <1>2 DEF AfterStep, ChainInv, Jobs
<1>6. None \notin Anc[tip]
  BY AncestorsNest, BlockTreeConstants DEF DataInv
<1>7. ChainInv'
  BY <1>1, <1>2, <1>5, <1>6 DEF ChainInv, failed
<1>8. QED
  BY <1>3, <1>4, <1>7

LEMMA InvalidateStep ==
  ASSUME FlagInv, NEW b \in Blocks, InvalidateBlock(b)
  PROVE  FlagInv'
<1> USE DEF FlagInv
<1>1. DataInv' /\ MarkInv'
  BY MarksUnchanged DEF InvalidateBlock, DataInv, received, flags
<1>2. NotWorse(pprev[b], failed) \ Anc[tip] \subseteq linked
  BY DEF NotWorse, Usable
<1>3. /\ job' \in Jobs /\ job'.pc = "invalidate" /\ job'.pindex = b /\ job'.mark = b
      /\ job'.byWork \subseteq linked
  BY Zenon, <1>2 DEF InvalidateBlock, NoJob, Jobs, DataInv
<1>4. b \in Anc[b] /\ b # Root
  BY AncestorsNest DEF InvalidateBlock
<1>5. ChainInv'
  BY Zenon, <1>3, <1>4 DEF InvalidateBlock, ChainInv, received, flags, failed
<1>6. QED
  BY <1>1, <1>5

LEMMA InvalidateTipStep ==
  ASSUME FlagInv, InvalidateTip
  PROVE  FlagInv'
<1> DEFINE again == {c \in job.byWork : ~Worse(c, pprev[tip], nSequenceId)}
<1> USE DEF FlagInv
<1>1. tip \in Blocks \ {Root}
  BY BlockTreeConstants DEF InvalidateTip, InActiveChain, ChainInv, DataInv
<1>2. /\ pprev[tip] \in Blocks /\ pprev[tip] \in Anc[tip] /\ tip \notin Anc[pprev[tip]]
      /\ Anc[pprev[tip]] \subseteq Anc[tip]
  BY SMT, Z3, SMTT(10), Z3T(10), <1>1, ParentChain
<1>3. ~(pprev[tip] = job.mark /\ job.mark \in failedValid)
  BY <1>2 DEF ChainInv, failed
<1>4. /\ tip' = pprev[tip] /\ failedValid' = failedValid \cup {tip}
      /\ failedChild' = failedChild
      /\ setBlockIndexCandidates' =
           (setBlockIndexCandidates \ {tip}) \cup {pprev[tip]} \cup again
      /\ job' = [job EXCEPT !.mark = tip, !.byWork = @ \ again]
      /\ UNCHANGED <<index, data, linked, unlinked, scripts, conflict, m_failed_blocks>>
  BY <1>3 DEF InvalidateTip, received
<1>5. again \subseteq linked /\ again \cap Anc[pprev[tip]] \subseteq {pprev[tip]}
  BY <1>2, NotBelow DEF InvalidateTip, ChainInv, DataInv
<1> HIDE DEF again
<1>6. DataInv'
  BY <1>1, <1>2, <1>4, <1>5 DEF DataInv
<1>7. MarkInv'
  BY <1>1, <1>4 DEF MarkInv, failed
<1>8. /\ job' \in Jobs /\ job'.pc = "invalidate" /\ job'.mark = tip
      /\ job'.pindex = job.pindex /\ job'.byWork \subseteq job.byWork
  <2>1. job \in Jobs /\ job.pc = "invalidate"
    BY DEF InvalidateTip, ChainInv
  <2>2. job' = [job EXCEPT !.mark = tip, !.byWork = @ \ again]
    BY <1>4
  <2>3. QED
    BY Zenon, <1>1, <2>1, <2>2 DEF Jobs
<1>9. ChainInv'
  BY <1>1, <1>2, <1>4, <1>8 DEF InvalidateTip, InActiveChain, ChainInv, failed
<1>10. QED
  BY <1>6, <1>7, <1>9

LEMMA InvalidateDoneStep ==
  ASSUME FlagInv, InvalidateDone
  PROVE  FlagInv'
<1> DEFINE more == NotWorse(tip, failed \cup {job.mark} \cup conflict)
<1> USE DEF FlagInv
<1>1. job.mark \in Blocks /\ job.mark \notin Anc[tip] /\ tip \in Blocks
  BY SMT, Z3, SMTT(10), Z3T(10), AncestorsNest DEF InvalidateDone, InActiveChain, ChainInv, DataInv
<1>2. more \subseteq linked /\ more \cap Anc[tip] \subseteq {tip}
  BY <1>1, NotBelow DEF NotWorse, Usable, DataInv
<1>3. setBlockIndexCandidates' = (setBlockIndexCandidates \ {job.mark}) \cup more
  BY DEF InvalidateDone
<1> HIDE DEF more
<1>4. DataInv'
  BY Zenon, <1>2, <1>3 DEF InvalidateDone, received, DataInv
<1>5. MarkInv'
  BY <1>1 DEF InvalidateDone, MarkInv, failed
<1>6. job' \in Jobs /\ job'.pc = "idle"
  BY DEF InvalidateDone, NoJob, Jobs
<1>7. ChainInv'
  BY <1>1, <1>6 DEF InvalidateDone, received, ChainInv, failed
<1>8. QED
  BY <1>4, <1>5, <1>7

LEMMA PreciousStep ==
  ASSUME FlagInv, NEW b \in Blocks, PreciousBlock(b)
  PROVE  FlagInv'
<1> USE DEF FlagInv
<1>1. /\ UNCHANGED <<tip, index, data, linked, unlinked, scripts, job>>
      /\ UNCHANGED <<failedValid, failedChild, conflict, m_failed_blocks>>
  BY DEF PreciousBlock, flags
<1>2. PICK seq : setBlockIndexCandidates' =
        IF Usable(b, failed \cup conflict)
        THEN PruneBlockIndexCandidates(setBlockIndexCandidates \cup {b}, tip, seq)
        ELSE setBlockIndexCandidates \ {b}
  BY DEF PreciousBlock
<1>3. CASE Usable(b, failed \cup conflict)
  <2>1. \A c \in setBlockIndexCandidates' : c \in linked /\ ~Worse(c, tip, seq)
    BY <1>2, <1>3 DEF PruneBlockIndexCandidates, Usable, DataInv
  <2>2. setBlockIndexCandidates' \cap Anc[tip] \subseteq {tip}
    BY Zenon, <2>1, NotBelow DEF DataInv
  <2>3. QED
    BY Zenon, <1>1, <2>1, <2>2, MarksUnchanged DEF DataInv, ChainInv, failed
<1>4. CASE ~Usable(b, failed \cup conflict)
  BY Zenon, <1>1, <1>2, <1>4, MarksUnchanged DEF DataInv, ChainInv, failed
<1>5. QED
  BY <1>3, <1>4

LEMMA EnforceStep ==
  ASSUME FlagInv, EnforceBestChainLock
  PROVE  FlagInv'
<1> DEFINE fork == Fork(lock, tip)
           marked == Conflicting(fork)
<1> USE DEF FlagInv
<1>1. lock \in Blocks /\ tip \in Blocks /\ job.pc = "idle"
  BY DEF EnforceBestChainLock, MutexFree, DataInv
<1>2. fork \in Blocks /\ fork \in Anc[tip] /\ Anc[fork] = Anc[lock] \cap Anc[tip]
  BY <1>1, ForkFound, AncestorsNest
<1>3. /\ conflict' = conflict \cup marked /\ tip' = fork
      /\ UNCHANGED <<index, data, linked, unlinked, scripts, failedValid, failedChild,
                     m_failed_blocks, job>>
      /\ \A c \in setBlockIndexCandidates' : \/ c \in setBlockIndexCandidates
                                             \/ c \in linked /\ ~Worse(c, fork, nSequenceId)
  BY DEF EnforceBestChainLock, received, Usable
<1> HIDE DEF fork
<1>4. marked \cap Anc[fork] = {}
  <2> SUFFICES ASSUME NEW s \in marked, s \in Anc[fork] PROVE FALSE
    OBVIOUS
  <2>1. PICK b \in Anc[lock] \ Anc[fork] : s \in Siblings(b)
    <3>1. s \in UNION {Siblings(b) \cap index : b \in Anc[lock] \ Anc[fork]}
      BY DEF Conflicting
    <3>2. QED
      BY <3>1
  <2>2. b \in Blocks \ {Root} /\ s \in Blocks \ {Root, b} /\ pprev[s] = pprev[b]
    BY <1>1, <2>1, AncestorsNest DEF Siblings
  <2>3. nHeight[s] = nHeight[b]
    BY <2>2, BlockTreeConstants
  <2>4. s \in Anc[lock]
    BY <1>2
  <2>5. nHeight[s] \in Nat /\ nHeight[b] \in Nat
    BY <2>2, BlockTreeConstants
  <2>6. s \in Anc[b]
    BY SMT, Z3, SMTT(10), Z3T(10), <1>1, <2>3, <2>4, <2>5, AncestryAssumption
  <2>7. QED
    BY <2>2, <2>3, <2>6, AncestryAssumption
<1> HIDE DEF marked
<1>5. setBlockIndexCandidates' \cap Anc[fork] \subseteq {fork}
  <2> SUFFICES ASSUME NEW c \in setBlockIndexCandidates' \cap Anc[fork] PROVE c = fork
    OBVIOUS
  <2>1. CASE c \in setBlockIndexCandidates
    <3>1. c = tip
      BY <1>2, <2>1 DEF DataInv
    <3>2. QED
      BY <1>1, <1>2, <3>1, AncestorsOrdered
  <2>2. CASE ~Worse(c, fork, nSequenceId)
    BY <1>2, <2>2, AncestorsNest, NotBelow
  <2>3. QED
    BY <1>3, <2>1, <2>2
<1>6. DataInv'
  BY <1>2, <1>3, <1>5 DEF DataInv
<1>7. MarkInv'
  BY Zenon, <1>3, MarksUnchanged
<1>8. ChainInv'
  BY Zenon, <1>1, <1>2, <1>3, <1>4 DEF ChainInv, failed
<1>9. QED
  BY <1>6, <1>7, <1>8

\* After reconsiderblock, a block that is still marked for an ancestor's sake has
\* its old cause, or the block where its chain leaves the cleared one.
LEMMA ResetStep ==
  ASSUME FlagInv, NEW b \in Blocks, ResetBlockFailureFlags(b)
  PROVE  FlagInv'
<1> DEFINE above == (Anc[b] \ {b}) \cap failed
           clear == (Descendants(b) \cap failed) \cup above
           orphan == {c \in failedChild \ clear : pprev[c] \in above}
<1> USE DEF FlagInv
<1>1. /\ failedValid' = (failedValid \ clear) \cup orphan
      /\ failedChild' = failedChild \ clear
      /\ m_failed_blocks' = (m_failed_blocks \ clear) \cup orphan
      /\ UNCHANGED <<tip, index, data, linked, unlinked, scripts, conflict, job>>
      /\ \A c \in setBlockIndexCandidates' : \/ c \in setBlockIndexCandidates
                                             \/ c \in linked /\ Worse(tip, c, nSequenceId)
  BY DEF ResetBlockFailureFlags, received, Usable
<1>2. failed' \subseteq failed
  BY Zenon, <1>1 DEF failed
<1>3. DataInv'
  <2>1. ASSUME NEW c \in linked, Worse(tip, c, nSequenceId) PROVE c \notin Anc[tip] \ {tip}
    <3>1. c \in Blocks /\ tip \in Blocks
      BY DEF DataInv
    <3>2. nChainWork[c] \in Nat /\ nChainWork[tip] \in Nat
      BY <3>1, ChainstateConstants
    <3>3. ~(nChainWork[c] < nChainWork[tip])
      BY SMT, Z3, SMTT(10), Z3T(10), <2>1, <3>2 DEF Worse
    <3>4. QED
      BY <3>1, <3>3, LessWork
  <2>2. QED
    BY Zenon, <1>1, <2>1 DEF DataInv
<1>4. ASSUME NEW c \in failedChild'
      PROVE  \E f \in failedValid' \cap Anc[c] : Anc[c] \ Anc[f] \subseteq failedChild'
  <2>1. c \in Blocks /\ c \in failedChild /\ c \notin clear
    BY <1>1 DEF MarkInv, failed
  <2>2. PICK f \in failedValid \cap Anc[c] : Anc[c] \ Anc[f] \subseteq failedChild
    BY <2>1 DEF MarkInv
  <2>3. b \notin Anc[c] /\ c \notin Anc[b]
    <3>1. b \notin Anc[c]
      BY <2>1 DEF Descendants, failed
    <3>2. QED
      BY <2>1, <3>1, AncestorsNest DEF failed
  <2>4. ASSUME NEW x \in Anc[c], x \in clear PROVE x \in Anc[b] \ {b} /\ x \in failed
    BY <2>1, <2>3, <2>4, AncestorsNest DEF Descendants
  <2>5. CASE f \notin clear
    <3>1. ASSUME NEW x \in Anc[c] \ Anc[f], x \in clear PROVE FALSE
      <4>1. f \in Anc[b]
        BY Zenon, <2>1, <2>2, <2>4, <3>1, AboveChain, AncestorsNest
      <4>2. QED
        BY <2>2, <2>3, <2>5, <4>1 DEF failed
    <3>2. QED
      BY <1>1, <2>2, <2>5, <3>1
  <2>6. CASE f \in clear
    <3> DEFINE g == Fork(b, c)
    <3>1. g \in Blocks /\ g \in Anc[b] \cap Anc[c] /\ Anc[b] \cap Anc[c] = Anc[g]
      BY Zenon, <2>1, ForkFound, AncestorsNest
    <3> HIDE DEF g
    <3>2. f \in Anc[g] /\ Anc[f] \subseteq Anc[g]
      BY <2>2, <2>4, <2>6, <3>1, AncestorsNest
    <3>3. g \in above
      <4>1. CASE g \in Anc[f]
        <5>1. f \in Blocks
          BY <3>1, <3>2, AncestorsNest
        <5>2. g = f
          BY <3>1, <3>2, <4>1, <5>1, AncestorsOrdered
        <5>3. QED
          BY <2>2, <2>4, <2>6, <5>2
      <4>2. CASE g \notin Anc[f]
        BY <2>2, <2>3, <3>1, <4>2 DEF failed
      <4>3. QED
        BY <4>1, <4>2
    <3>4. PICK d \in Anc[c] : d # Root /\ pprev[d] = g
      BY <2>1, <2>3, <3>1, ChildTowards
    <3>5. d \in Blocks /\ d \notin Anc[g] /\ Anc[g] \subseteq Anc[d]
      BY <2>1, <3>4, AncestorsNest, ParentChain
    <3>6. d \in orphan
      BY Zenon, <2>2, <2>4, <3>1, <3>2, <3>3, <3>4, <3>5
    <3>7. Anc[c] \ Anc[d] \subseteq failedChild'
      BY Zenon, <1>1, <2>2, <2>4, <3>1, <3>2, <3>5
    <3>8. QED
      BY Zenon, <1>1, <3>4, <3>6, <3>7
  <2>7. QED
    BY <2>5, <2>6
<1>5. MarkInv'
  BY <1>1, <1>2, <1>4 DEF MarkInv
<1>6. ChainInv'
  BY <1>1, <1>2, ChainUnmarked
<1>7. QED
  BY <1>3, <1>5, <1>6

-----------------------------------------------------------------------------
\* FlagInv is inductive.
LEMMA StepFlagInv == FlagInv /\ [Next]_vars => FlagInv'
<1> SUFFICES ASSUME FlagInv, [Next]_vars PROVE FlagInv'
  BY Zenon
<1>1. ASSUME NEW b \in Blocks, Lock(b) PROVE FlagInv'
  BY Zenon, <1>1, MarksUnchanged
     DEF Lock, FlagInv, DataInv, ChainInv, received, flags, failed
<1>2. CASE UNCHANGED vars
  BY <1>2, MarksUnchanged
     DEF vars, FlagInv, DataInv, ChainInv, received, flags, failed
<1>3. CASE Activate
  BY <1>3, ActivateStep, FindStep, NothingStep, DisconnectStep, ConnectStep,
     ConnectFailsStep, NextRoundStep DEF Activate
<1>4. QED
  BY <1>1, <1>2, <1>3, HeaderStep, RefusedStep, BlockStep, InvalidateStep, ResetStep,
     PreciousStep, InvalidateTipStep, InvalidateDoneStep, EnforceStep DEF Next

\* The failure flags stay consistent on every block tree: a block is marked for an
\* ancestor's sake only if one is invalid, m_failed_blocks lists invalid blocks
\* only, and the active chain is fully validated and unmarked, however arriving
\* blocks, invalidateblock, reconsiderblock, preciousblock, ChainLocks and the
\* steps of ActivateBestChain interleave.
THEOREM FlagsInvariant == Spec => []FlagsRight
<1>1. FlagInv => FlagsRight
  BY DEF FlagInv, MarkInv, ChainInv, FlagsRight
<1>2. QED
  BY <1>1, InitFlagInv, StepFlagInv, PTL DEF Spec

\* ActivateBestChain never works towards a chain with a failed or conflicting
\* block in it, although it keeps pindexMostWork while cs_main is free.
THEOREM MostWorkUnmarked ==
  Spec => [](Held /\ job.most # None => Anc[job.most] \cap (failed \cup conflict) = {})
<1>1. FlagInv => (Held /\ job.most # None => Anc[job.most] \cap (failed \cup conflict) = {})
  BY DEF FlagInv, ChainInv, Held
<1>2. QED
  BY <1>1, InitFlagInv, StepFlagInv, PTL DEF Spec

-----------------------------------------------------------------------------
(* Types. *)

\* Sequence ids are numbers.
LEMMA IdsAreNumbers ==
  ASSUME FlagInv, NEW S \in SUBSET Blocks, NEW f \in NextIds(S)
  PROVE  f \in [S -> Int]
<1> DEFINE Like(b, R) == {c \in R : nChainWork[c] = nChainWork[b]}
           turns == {g \in [S -> 1..Cardinality(S)] : \A b, c \in S : g[b] = g[c] => b = c}
<1>1. PICK g \in turns :
        f = [b \in S |-> Cardinality(Like(b, linked))
                           + Cardinality({c \in Like(b, S) : g[c] <= g[b]})]
  BY DEF NextIds
<1>2. \A R \in SUBSET Blocks : Cardinality(R) \in Nat
  BY FS_Subset, FS_CardinalityType, ChainstateConstants
<1>3. linked \subseteq Blocks
  BY DEF FlagInv, DataInv
<1>4. \A b \in S : Like(b, linked) \in SUBSET Blocks /\ {c \in Like(b, S) : g[c] <= g[b]} \in SUBSET Blocks
  BY <1>3
<1>5. \A b \in S : Cardinality(Like(b, linked)) \in Nat /\ Cardinality({c \in Like(b, S) : g[c] <= g[b]}) \in Nat
  BY <1>2, <1>4
<1> HIDE DEF Like
<1>6. \A b \in S : Cardinality(Like(b, linked)) + Cardinality({c \in Like(b, S) : g[c] <= g[b]}) \in Int
  BY SMT, Z3, SMTT(10), Z3T(10), <1>5
<1> QED BY Zenon, <1>1, <1>6

LEMMA InitKindInv == Init => KindInv
<1>1. Root \in Blocks /\ Anc[Root] = {Root} /\ Root \notin Unconnectable /\ MaxCalls \in Nat
  BY BlockTreeConstants, ChainstateConstants
<1> SUFFICES ASSUME Init PROVE KindInv
  OBVIOUS
<1>2. nSequenceId \in [Blocks -> Int] /\ calls \in 0..MaxCalls
  BY SMT, Z3, SMTT(10), Z3T(10), <1>1 DEF Init
<1>3. job.pc = "idle" /\ failed \cup conflict = {}
  BY DEF Init, NoJob, failed
<1>4. \A b \in index : Anc[b] \subseteq index
  BY Zenon, <1>1 DEF Init
<1>5. nLastPreciousChainwork \in Nat /\ nBlockReverseSequenceId \in Int /\ lock \in Blocks \cup {None}
  BY SMT, Z3, SMTT(10), Z3T(10) DEF Init
<1>6. scripts \subseteq linked \ Unconnectable /\ unlinked \cap linked = {}
  BY <1>1 DEF Init
<1>7. owed \in BOOLEAN /\ slipped \in BOOLEAN /\ demoted \in BOOLEAN
  BY Zenon DEF Init
<1> QED BY <1>2, <1>3, <1>4, <1>5, <1>6, <1>7 DEF KindInv

\* Headers and blocks.
LEMMA HeaderKind ==
  ASSUME FlagInv, KindInv, NEW b \in Blocks, HeaderAccepted(b)
  PROVE  Anc[b] \subseteq index \cup {b}
  BY SMT, Z3, SMTT(10), Z3T(10), ParentChain DEF HeaderAccepted, KindInv

LEMMA AcceptBlockHeaderKinds ==
  ASSUME FlagInv, KindInv, NEW b \in Blocks, AcceptBlockHeader(b)
  PROVE  KindInv'
<1>1. Anc[b] \subseteq index \cup {b}
  BY Zenon, HeaderKind DEF AcceptBlockHeader
<1> QED BY <1>1 DEF AcceptBlockHeader, KindInv, NewConflict, failed, precious

LEMMA AcceptBlockHeaderRefusedKinds ==
  ASSUME FlagInv, KindInv, NEW b \in Blocks, AcceptBlockHeaderRefused(b)
  PROVE  KindInv'
<1>1. failedChild' \subseteq failedChild \cup Anc[pprev[b]] /\ Anc[pprev[b]] \subseteq index
  BY DEF AcceptBlockHeaderRefused, KindInv
<1> QED BY Zenon, <1>1 DEF AcceptBlockHeaderRefused, KindInv, failed, precious, received

LEMMA ReceivedKinds ==
  ASSUME FlagInv, KindInv, NEW b \in Blocks \ {Root}, NEW hard, b \notin data,
         index' = index \cup {b}, ReceivedBlockTransactions(b, hard)
  PROVE  /\ nSequenceId' \in [Blocks -> Int] /\ unlinked' \cap linked' = {}
         /\ linked \subseteq linked'
         /\ \A c \in linked : nSequenceId'[c] = nSequenceId[c]
         /\ setBlockIndexCandidates \subseteq setBlockIndexCandidates'
         /\ \A c \in setBlockIndexCandidates' \ setBlockIndexCandidates :
              ~Worse(c, tip, nSequenceId')
         /\ \A c \in linked' \ linked :
              c \in hard \/ Worse(c, tip, nSequenceId') \/ c \in setBlockIndexCandidates'
<1> DEFINE S == {d \in Descendants(b) : (Anc[d] \ Anc[b]) \subseteq unlinked}
<1>1. CASE pprev[b] \in linked
  <2>1. PICK f \in NextIds(S) :
          /\ linked' = linked \cup S
          /\ unlinked' = unlinked \ S
          /\ nSequenceId' = [c \in Blocks |-> IF c \in S THEN f[c] ELSE nSequenceId[c]]
          /\ setBlockIndexCandidates' = setBlockIndexCandidates \cup
               {c \in S \ hard : ~Worse(c, tip, nSequenceId')}
    BY <1>1 DEF ReceivedBlockTransactions
  <2>2. S \subseteq Blocks /\ f \in [S -> Int]
    <3>1. S \in SUBSET Blocks
      BY DEF Descendants
    <3> QED BY <3>1, IdsAreNumbers
  <2>3. S \cap linked = {}
    <3> SUFFICES ASSUME NEW d \in S, d \in linked PROVE FALSE
      OBVIOUS
    <3>1. d \in Blocks /\ b \in Anc[d] /\ Anc[d] \subseteq linked /\ linked \subseteq data
      BY DEF Descendants, FlagInv, DataInv
    <3> QED BY <3>1
  <2> HIDE DEF S
  <2>4. nSequenceId' \in [Blocks -> Int]
    BY Zenon, <2>1, <2>2 DEF KindInv
  <2>5. \A c \in linked : c \in Blocks /\ nSequenceId'[c] = nSequenceId[c]
    BY Zenon, <2>1, <2>3 DEF FlagInv, DataInv
  <2>6. unlinked' \cap linked' = {}
    BY Zenon, <2>1 DEF KindInv
  <2> QED BY Zenon, <2>1, <2>4, <2>5, <2>6
<1>2. CASE pprev[b] \notin linked
  BY Zenon, <1>2 DEF ReceivedBlockTransactions, KindInv, FlagInv, DataInv
<1> QED BY <1>1, <1>2

LEMMA AcceptBlockKinds ==
  ASSUME FlagInv, KindInv, NEW b \in Blocks, AcceptBlock(b)
  PROVE  KindInv'
<1>1. b # Root /\ b \notin data
  <2>1. Root \in data
    BY Zenon, AncestryAssumption DEF FlagInv, DataInv
  <2> QED BY Zenon, <2>1 DEF AcceptBlock
<1>2. index' = index \cup {b} /\ Anc[b] \subseteq index \cup {b}
  BY HeaderKind DEF AcceptBlock, KindInv
<1>3. /\ nSequenceId' \in [Blocks -> Int] /\ unlinked' \cap linked' = {}
      /\ linked \subseteq linked' /\ owed' \in BOOLEAN
  <2>1. CASE b \in Malformed
    BY <2>1 DEF AcceptBlock, KindInv
  <2>2. CASE b \notin Malformed
    <3>1. ReceivedBlockTransactions(b, conflict') /\ owed' = TRUE
      BY <2>2 DEF AcceptBlock
    <3> QED BY <1>1, <1>2, <3>1, ReceivedKinds
  <2> QED BY Zenon, <2>1, <2>2
<1>4. /\ failedValid' \subseteq failedValid \cup {b} /\ conflict' \subseteq conflict \cup {b}
      /\ UNCHANGED <<tip, scripts, failedChild, m_failed_blocks, precious, lock, job, calls, slipped>>
  BY DEF AcceptBlock, NewConflict
<1>5. scripts' \subseteq linked' \ Unconnectable
  BY Zenon, <1>3, <1>4 DEF KindInv
<1>6. failed' \cup conflict' \subseteq index'
  BY <1>2, <1>4 DEF KindInv, failed
<1>7. \A x \in index' : Anc[x] \subseteq index'
  BY Zenon, <1>2 DEF KindInv
<1> QED BY <1>2, <1>3, <1>4, <1>5, <1>6, <1>7 DEF KindInv, precious

LEMMA NoJobIdle ==
  /\ NoJob.pc = "idle"
  /\ NoJob.pc \notin {"find", "step", "connect"} /\ NoJob.pc # "rest" /\ NoJob.pc # "invalidate"
  BY DEF NoJob

LEMMA CallCounted ==
  ASSUME KindInv, calls < MaxCalls, calls' = calls + 1
  PROVE  calls' \in 0..MaxCalls
<1>1. calls \in 0..MaxCalls /\ MaxCalls \in Nat
  BY Zenon, ChainstateConstants DEF KindInv
<1> QED BY SMT, Z3, SMTT(10), Z3T(10), <1>1

\* ActivateBestChain.
LEMMA EnterKinds ==
  ASSUME FlagInv, KindInv, NEW most \in Blocks \cup {None}, Enter(most), owed' \in BOOLEAN,
         UNCHANGED <<tip, received, scripts, flags, precious, lock, calls, slipped>>
  PROVE  KindInv'
<1>1. job'.start = tip /\ tip \in Blocks /\ job'.pc \in {"find", "step"}
  BY DEF Enter, NoJob, FlagInv, DataInv
<1> QED BY <1>1 DEF KindInv, received, flags, precious, failed

LEMMA ActivateKinds ==
  ASSUME FlagInv, KindInv, Activate
  PROVE  KindInv'
<1>1. CASE ActivateBestChain
  BY Zenon, <1>1, EnterKinds DEF ActivateBestChain
<1>2. CASE NextRound
  <2>1. CASE job.most = tip
    <3>1. job' = NoJob
      BY Zenon, <1>2, <2>1 DEF NextRound
    <3> QED BY Zenon, <1>2, <3>1, NoJobIdle DEF NextRound, KindInv, received, flags, precious, failed
  <2>2. CASE job.most # tip
    <3>1. job.most \in Blocks \cup {None} /\ owed' \in BOOLEAN
      BY <1>2 DEF FlagInv, ChainInv, Jobs, NextRound, KindInv
    <3> QED BY <1>2, <2>2, <3>1, EnterKinds DEF NextRound
  <2> QED BY Zenon, <2>1, <2>2
<1>3. CASE FindMostWorkChain
  <2>1. PICK new \in setBlockIndexCandidates :
          /\ failedChild' \subseteq failedChild \cup Anc[new]
          /\ conflict' \subseteq conflict \cup Anc[new]
          /\ job' = job \/ job' = [job EXCEPT !.pc = "step", !.most = new]
    BY Zenon, <1>3 DEF FindMostWorkChain
  <2>2. Anc[new] \subseteq index
    BY DEF FlagInv, DataInv
  <2>3. job'.pc \in {"find", "step"} /\ job'.start = job.start /\ job.pc = "find"
    <3>1. job \in Jobs /\ job.pc = "find"
      BY <1>3 DEF FlagInv, ChainInv, FindMostWorkChain
    <3> QED BY Zenon, <2>1, <3>1 DEF Jobs
  <2> QED BY <1>3, <2>1, <2>2, <2>3 DEF FindMostWorkChain, KindInv, received, precious, failed
<1>4. CASE NothingToDo
  <2>1. job'.pc \in {"idle", "rest"} /\ (job'.pc = "rest" => job'.most = job.most)
        /\ job.most \in {None, tip}
    BY <1>4 DEF NothingToDo, NoJob, FlagInv, ChainInv, Jobs
  <2>2. tip \in Anc[tip]
    BY AncestorsNest DEF FlagInv, DataInv
  <2> QED BY <1>4, <2>1, <2>2 DEF NothingToDo, KindInv, received, flags, precious, failed
<1>5. CASE DisconnectToFork
  <2>1. job'.pc = "connect" /\ job'.start = job.start /\ job.pc = "step"
    BY Zenon, <1>5 DEF DisconnectToFork, FlagInv, ChainInv, Jobs
  <2> QED BY <1>5, <2>1 DEF DisconnectToFork, KindInv, received, flags, precious, failed
<1>6. CASE ConnectTip
  <2>1. /\ ToConnect \in linked /\ ToConnect \notin Unconnectable /\ ToConnect \in Anc[job.most]
        /\ tip' = ToConnect /\ scripts' = scripts \cup {ToConnect} /\ job.pc = "connect"
    BY Zenon, <1>6, ToConnectFound DEF ConnectTip
  <2>2. job'.start = job.start /\ job'.most = job.most /\ job'.pc # "invalidate"
    <3>1. job' \in {job, [job EXCEPT !.pc = "find", !.most = job.most],
                    [job EXCEPT !.pc = "step", !.most = job.most],
                    [job EXCEPT !.pc = "rest", !.most = job.most]}
      BY Zenon, <1>6 DEF ConnectTip, AfterStep
    <3>2. job \in Jobs
      BY Zenon DEF FlagInv, ChainInv
    <3> QED BY Zenon, <2>1, <3>1, <3>2 DEF Jobs
  <2> QED BY <1>6, <2>1, <2>2 DEF ConnectTip, KindInv, received, flags, precious, failed
<1>7. CASE ConnectTipFails
  <2>1. ToConnect \in index /\ failedValid' = failedValid \cup {ToConnect} /\ job.pc = "connect"
    BY Zenon, <1>7, ToConnectFound DEF ConnectTipFails, FlagInv, DataInv
  <2>2. job'.start = job.start /\ job'.most = None /\ job'.pc # "invalidate"
    <3>1. job' \in {[job EXCEPT !.pc = "find", !.most = None],
                    [job EXCEPT !.pc = "rest", !.most = None]}
      BY <1>7 DEF ConnectTipFails, AfterStep
    <3>2. job \in Jobs
      BY DEF FlagInv, ChainInv
    <3> QED BY Zenon, <3>1, <3>2 DEF Jobs
  <2> QED BY <1>7, <2>1, <2>2 DEF ConnectTipFails, KindInv, received, precious, failed
<1> QED BY <1>1, <1>2, <1>3, <1>4, <1>5, <1>6, <1>7 DEF Activate

\* The operator's calls and ChainLocks.
LEMMA CallKinds ==
  ASSUME FlagInv, KindInv, NEW b \in Blocks,
         InvalidateBlock(b) \/ ResetBlockFailureFlags(b) \/ PreciousBlock(b) \/ Lock(b)
  PROVE  KindInv'
<1>1. CASE InvalidateBlock(b)
  <2>0. calls' \in 0..MaxCalls
    BY Zenon, <1>1, CallCounted DEF InvalidateBlock
  <2>1. job'.pc = "invalidate" /\ job'.mark = b /\ b \in index /\ calls' \in 0..MaxCalls
    BY <1>1, <2>0 DEF InvalidateBlock, NoJob
  <2> QED BY SMT, Z3, SMTT(10), Z3T(10), <1>1, <2>1 DEF InvalidateBlock, KindInv, received, flags, precious, failed
<1>2. CASE ResetBlockFailureFlags(b)
  <2>1. failed' \subseteq failed
    BY Zenon, <1>2 DEF ResetBlockFailureFlags, failed
  <2>2. calls' \in 0..MaxCalls
    BY Zenon, <1>2, CallCounted DEF ResetBlockFailureFlags
  <2> QED BY Zenon, <1>2, <2>1, <2>2 DEF ResetBlockFailureFlags, KindInv, received, precious
<1>3. CASE PreciousBlock(b)
  <2>1. calls' \in 0..MaxCalls
    BY Zenon, <1>3, CallCounted DEF PreciousBlock
  <2> DEFINE id == IF nChainWork[tip] > nLastPreciousChainwork THEN -1 ELSE nBlockReverseSequenceId
  <2>2. id \in Int /\ nBlockReverseSequenceId' \in Int /\ nSequenceId' \in [Blocks -> Int]
        /\ demoted' \in BOOLEAN
    <3>0. nBlockReverseSequenceId \in Int /\ nSequenceId \in [Blocks -> Int] /\ demoted \in BOOLEAN
      BY Zenon DEF KindInv
    <3>1. id \in Int
      BY SMT, Z3, SMTT(10), Z3T(10), <3>0
    <3>2. nBlockReverseSequenceId' = id - 1 /\ nSequenceId' = [nSequenceId EXCEPT ![b] = id]
          /\ demoted' = (demoted \/ (b = tip /\ id > nSequenceId[tip]))
      BY <1>3 DEF PreciousBlock
    <3> HIDE DEF id
    <3>3. nBlockReverseSequenceId' \in Int
      BY SMT, Z3, SMTT(10), Z3T(10), <3>1, <3>2
    <3>4. nSequenceId' \in [Blocks -> Int]
      BY Zenon, <3>0, <3>1, <3>2
    <3>5. demoted' \in BOOLEAN
      BY Zenon, <3>0, <3>2
    <3> QED BY Zenon, <3>1, <3>3, <3>4, <3>5
  <2>3. nLastPreciousChainwork' \in Nat
    BY Zenon, <1>3, ChainstateConstants DEF PreciousBlock, FlagInv, DataInv
  <2> QED BY Zenon, <1>3, <2>1, <2>2, <2>3 DEF PreciousBlock, KindInv, flags, failed
<1>4. CASE Lock(b)
  BY <1>4 DEF Lock, KindInv, received, flags, precious, failed
<1> QED BY <1>1, <1>2, <1>3, <1>4

LEMMA StepKindInv == FlagInv /\ KindInv /\ [Next]_vars => KindInv'
<1> SUFFICES ASSUME FlagInv, KindInv, [Next]_vars PROVE KindInv'
  BY Zenon
<1>1. CASE UNCHANGED vars
  BY <1>1 DEF vars, KindInv, received, flags, precious, failed
<1>2. CASE InvalidateTip
  <2>1. tip \in index /\ job'.pc = "invalidate" /\ job'.mark = tip
    BY <1>2 DEF InvalidateTip, FlagInv, DataInv, ChainInv, Jobs
  <2>2. failed' \subseteq failed \cup {tip} \cup {job.mark} /\ job.mark \in index
    BY Zenon, <1>2 DEF InvalidateTip, failed, KindInv
  <2> QED BY SMT, Z3, SMTT(10), Z3T(10), <1>2, <2>1, <2>2 DEF InvalidateTip, KindInv, received, precious
<1>3. CASE InvalidateDone
  <2>1. failed' \subseteq failed \cup {job.mark} /\ job.mark \in index /\ job'.pc = "idle"
    BY <1>3 DEF InvalidateDone, failed, KindInv, NoJob
  <2> QED BY <1>3, <2>1 DEF InvalidateDone, KindInv, received, precious
<1>4. CASE EnforceBestChainLock
  <2>1. conflict' \subseteq index
    <3>1. Anc[tip] \subseteq index
      BY DEF FlagInv, DataInv
    <3> QED BY Zenon, <1>4, <3>1 DEF EnforceBestChainLock, Conflicting, KindInv
  <2>2. job.pc = "idle"
    BY <1>4 DEF EnforceBestChainLock, MutexFree
  <2> QED BY Zenon, <1>4, <2>1, <2>2 DEF EnforceBestChainLock, KindInv, received, precious, failed
<1> QED BY <1>1, <1>2, <1>3, <1>4, AcceptBlockHeaderKinds, AcceptBlockHeaderRefusedKinds,
           AcceptBlockKinds, CallKinds, ActivateKinds DEF Next

\* Every variable of the block index and of the chain state keeps its type: the
\* candidates and the connected blocks are linked, no linked block waits in
\* m_blocks_unlinked, and only known blocks are marked.  Linked means that the
\* data of the whole chain is there, the tip's chain included
\* (ReceivedBlockTransactions).
THEOREM ChainstateTyped ==
  Spec => [](TypeOK /\ tip \in linked /\ \A b \in linked : Anc[b] \subseteq linked)
<1>1. FlagInv /\ KindInv => TypeOK
  BY DEF FlagInv, DataInv, ChainInv, KindInv, TypeOK
<1>2. FlagInv => tip \in linked /\ \A b \in linked : Anc[b] \subseteq linked
  BY Zenon DEF FlagInv, DataInv
<1> QED BY <1>1, <1>2, InitFlagInv, StepFlagInv, InitKindInv, StepKindInv, PTL DEF Spec

-----------------------------------------------------------------------------
(* Each action keeps CandInv. *)

\* A chain is better than its parts.
LEMMA WorseBelow ==
  ASSUME NEW seq \in [Blocks -> Int], NEW t \in Blocks, NEW a \in Anc[t]
  PROVE  a \in Blocks /\ (a # t => Worse(a, t, seq)) /\ ~Worse(t, a, seq)
<1>1. a \in Blocks
  BY AncestorsNest
<1>2. a # t => Worse(a, t, seq)
  BY Zenon, LessWork DEF Worse
<1> QED BY <1>1, <1>2, WorseOneWay

\* Facts in the form the proofs below use them.
LEMMA CandidateFacts ==
  ASSUME FlagInv, KindInv
  PROVE  /\ tip \in Blocks /\ tip \in Unmarked /\ nSequenceId \in [Blocks -> Int]
         /\ linked \subseteq Blocks /\ Unmarked \subseteq linked
         /\ setBlockIndexCandidates \subseteq linked
         /\ Held => job.start \in Blocks
<1>1. tip \in Anc[tip]
  BY Zenon, AncestorsNest DEF FlagInv, DataInv
<1> QED BY <1>1 DEF FlagInv, DataInv, ChainInv, KindInv, Held, Unmarked

LEMMA InitCandInv == Init => CandInv
<1> SUFFICES ASSUME Init PROVE CandInv
  OBVIOUS
<1>1. ~Held
  BY DEF Init, Held, NoJob
<1>2. Root \in Blocks /\ nSequenceId \in [Blocks -> Int]
  BY SMT, Z3, SMTT(10), Z3T(10), BlockTreeConstants DEF Init
<1>3. ~Worse(Root, Root, nSequenceId)
  BY <1>2, WorseOneWay
<1> QED BY Zenon, <1>1, <1>3 DEF Init, CandInv, FreeInv, Unmarked

\* While cs_main is free, marks alone do no harm.
LEMMA MarksKeepCandidates ==
  ASSUME CandInv, ~Held, job' = job,
         UNCHANGED <<tip, linked, setBlockIndexCandidates, nSequenceId, slipped, demoted>>,
         failed \subseteq failed', conflict \subseteq conflict'
  PROVE  CandInv'
<1>1. ~Held' /\ Unmarked' \subseteq Unmarked
  BY DEF Held, Unmarked
<1> QED BY <1>1 DEF CandInv, FreeInv

LEMMA AcceptBlockCandidates ==
  ASSUME FlagInv, KindInv, CandInv, NEW b \in Blocks, AcceptBlock(b)
  PROVE  CandInv'
<1>1. CASE b \in Malformed
  BY <1>1, MarksKeepCandidates DEF AcceptBlock, failed, precious
<1>2. CASE b \notin Malformed
  <2>1. b # Root /\ b \notin data /\ index' = index \cup {b}
        /\ ReceivedBlockTransactions(b, conflict')
    <3>1. Root \in data
      BY Zenon, AncestryAssumption DEF FlagInv, DataInv
    <3> QED BY <1>2, <3>1 DEF AcceptBlock
  <2>2. /\ \A c \in linked : nSequenceId'[c] = nSequenceId[c]
        /\ setBlockIndexCandidates \subseteq setBlockIndexCandidates'
        /\ \A c \in setBlockIndexCandidates' \ setBlockIndexCandidates :
              ~Worse(c, tip, nSequenceId')
        /\ \A c \in linked' \ linked :
              c \in conflict' \/ Worse(c, tip, nSequenceId') \/ c \in setBlockIndexCandidates'
    BY <2>1, ReceivedKinds
  <2>3. \A c \in linked : Worse(c, tip, nSequenceId') <=> Worse(c, tip, nSequenceId)
    BY <2>2, CandidateFacts DEF Worse
  <2>4. /\ UNCHANGED <<tip, job, slipped, demoted>> /\ ~Held /\ ~Held'
        /\ failed' = failed /\ conflict \subseteq conflict'
    BY <1>2 DEF AcceptBlock, failed, precious, Held
  <2>5. \A c \in Unmarked' \cap linked : c \in Unmarked
    BY <2>4 DEF Unmarked
  <2>6. \A c \in Unmarked' \ linked : c \in linked' \ linked /\ c \notin conflict'
    BY DEF Unmarked
  <2> SUFFICES ASSUME ~slipped, ~demoted PROVE FreeInv'
    BY <2>4 DEF CandInv
  <2>7. FreeInv
    BY <2>4 DEF CandInv
  <2>8. ASSUME NEW c \in Unmarked', ~Worse(c, tip, nSequenceId')
        PROVE  c \in setBlockIndexCandidates' \/ (job.pc = "invalidate" /\ c # tip)
    BY Zenon, <2>2, <2>3, <2>5, <2>6, <2>7, <2>8 DEF FreeInv
  <2>9. ASSUME NEW c \in setBlockIndexCandidates' PROVE ~Worse(c, tip, nSequenceId')
    BY <2>2, <2>3, <2>7, CandidateFacts DEF FreeInv
  <2> QED BY <2>4, <2>8, <2>9 DEF FreeInv
<1> QED BY <1>1, <1>2

LEMMA ResetCandidates ==
  ASSUME FlagInv, KindInv, CandInv, NEW b \in Blocks, ResetBlockFailureFlags(b)
  PROVE  CandInv'
<1> DEFINE above == (Anc[b] \ {b}) \cap failed
           clear == (Descendants(b) \cap failed) \cup above
           orphan == {c \in failedChild \ clear : pprev[c] \in above}
<1>1. /\ failedValid' = (failedValid \ clear) \cup orphan
      /\ failedChild' = failedChild \ clear
      /\ UNCHANGED <<tip, data, linked, conflict, job, nSequenceId, slipped, demoted>>
      /\ setBlockIndexCandidates' = (setBlockIndexCandidates \cup
           {c \in clear : Usable(c, conflict) /\ Worse(tip, c, nSequenceId)}) \ orphan
      /\ ~Held
  BY Zenon DEF ResetBlockFailureFlags, received, precious
<1> HIDE DEF clear, orphan
<1> SUFFICES ASSUME ~slipped, ~demoted PROVE FreeInv'
  BY <1>1 DEF CandInv, Held
<1>2. FreeInv
  BY <1>1 DEF CandInv
<1>3. ASSUME NEW c \in Unmarked', ~Worse(c, tip, nSequenceId)
      PROVE  c \in setBlockIndexCandidates' \/ (job.pc = "invalidate" /\ c # tip)
  <2>1. c \in linked /\ c \notin conflict /\ c \notin orphan /\ (c \in failed => c \in clear)
    BY <1>1, <1>3 DEF Unmarked, failed
  <2>2. CASE c \in Unmarked
    BY <1>1, <1>2, <1>3, <2>1, <2>2 DEF FreeInv
  <2>3. CASE c \notin Unmarked
    <3>1. c \in clear
      BY <2>1, <2>3 DEF Unmarked
    <3>2. Worse(tip, c, nSequenceId)
      BY <1>3, <2>1, <2>3, WorseTotal, CandidateFacts
    <3>3. Usable(c, conflict)
      BY <2>1 DEF Usable, FlagInv, DataInv
    <3> QED BY <1>1, <2>1, <3>1, <3>2, <3>3
  <2> QED BY <2>2, <2>3
<1>4. ASSUME NEW c \in setBlockIndexCandidates' PROVE ~Worse(c, tip, nSequenceId)
  <2>1. CASE c \in setBlockIndexCandidates
    BY <1>2, <2>1 DEF FreeInv
  <2>2. CASE c \notin setBlockIndexCandidates
    <3>1. c \in linked /\ Worse(tip, c, nSequenceId)
      BY <1>1, <2>2 DEF Usable
    <3> QED BY <3>1, WorseOneWay, CandidateFacts
  <2> QED BY <2>1, <2>2
<1> QED BY <1>1, <1>3, <1>4 DEF FreeInv

\* preciousblock on another block changes that block's place only; on the tip it
\* must not make the tip worse.
LEMMA PreciousCandidates ==
  ASSUME FlagInv, KindInv, CandInv, NEW b \in Blocks, PreciousBlock(b)
  PROVE  CandInv'
<1> DEFINE id == IF nChainWork[tip] > nLastPreciousChainwork THEN -1 ELSE nBlockReverseSequenceId
           seq == nSequenceId'
<1>1. /\ seq = [nSequenceId EXCEPT ![b] = id]
      /\ demoted' = (demoted \/ (b = tip /\ id > nSequenceId[tip]))
      /\ setBlockIndexCandidates' =
           IF Usable(b, failed \cup conflict)
           THEN PruneBlockIndexCandidates(setBlockIndexCandidates \cup {b}, tip, seq)
           ELSE setBlockIndexCandidates \ {b}
      /\ UNCHANGED <<tip, linked, failedValid, failedChild, conflict, job, slipped>> /\ ~Held
  BY DEF PreciousBlock, flags
<1>2. id \in Int
  BY SMT, Z3, SMTT(10), Z3T(10) DEF KindInv
<1> HIDE DEF id
<1>3. Unmarked' = Unmarked /\ ~Held'
  BY <1>1 DEF Unmarked, failed, Held
<1> SUFFICES ASSUME ~slipped, ~demoted, ~demoted' PROVE FreeInv'
  BY Zenon, <1>1, <1>3 DEF CandInv
<1>4. FreeInv
  BY <1>1 DEF CandInv
<1>5. /\ tip \in Blocks /\ tip \in Unmarked /\ nSequenceId \in [Blocks -> Int]
      /\ linked \subseteq Blocks /\ Unmarked \subseteq linked
      /\ setBlockIndexCandidates \subseteq linked
  BY CandidateFacts
<1>6. b \in Unmarked <=> Usable(b, failed \cup conflict)
  BY DEF Unmarked, Usable, FlagInv, DataInv
<1>7. seq \in [Blocks -> Int] /\ seq[b] = id /\ \A c \in Blocks \ {b} : seq[c] = nSequenceId[c]
  BY <1>1, <1>2, <1>5
<1>8. b = tip => id <= nSequenceId[tip]
  <2>1. b = tip => ~(id > nSequenceId[tip])
    BY Zenon, <1>1
  <2>2. nSequenceId[tip] \in Int
    BY <1>5
  <2> QED BY SMT, Z3, SMTT(10), Z3T(10), <1>2, <2>1, <2>2
<1>9. ASSUME NEW c \in Blocks \ {b}, ~Worse(c, tip, seq) PROVE ~Worse(c, tip, nSequenceId)
  <2>1. /\ nChainWork[c] \in Nat /\ nChainWork[tip] \in Nat /\ Address[c] \in Nat
        /\ Address[tip] \in Nat /\ nSequenceId[c] \in Int /\ nSequenceId[tip] \in Int
        /\ seq[c] = nSequenceId[c]
    BY Zenon, <1>5, <1>7, ChainstateConstants
  <2>2. seq[tip] \in Int /\ seq[tip] <= nSequenceId[tip]
    BY SMT, Z3, SMTT(10), Z3T(10), <1>2, <1>5, <1>7, <1>8, <2>1
  <2> HIDE DEF seq
  <2> QED BY SMT, Z3, SMTT(10), Z3T(10), <1>9, <2>1, <2>2 DEF Worse
<1>10. ASSUME b # tip, NEW c \in Blocks \ {b}
       PROVE  Worse(c, tip, seq) <=> Worse(c, tip, nSequenceId)
  BY <1>5, <1>7, <1>10 DEF Worse
<1>11. CASE b \in Unmarked
  <2>1. setBlockIndexCandidates' = {c \in setBlockIndexCandidates \cup {b} : ~Worse(c, tip, seq)}
    BY <1>1, <1>6, <1>11 DEF PruneBlockIndexCandidates
  <2>2. ASSUME NEW c \in Unmarked, ~Worse(c, tip, seq)
        PROVE  c \in setBlockIndexCandidates' \/ (job.pc = "invalidate" /\ c # tip)
    BY <1>4, <1>5, <1>9, <2>1, <2>2 DEF FreeInv
  <2> QED BY Zenon, <1>1, <1>3, <2>1, <2>2 DEF FreeInv
<1>12. CASE b \notin Unmarked
  <2>1. setBlockIndexCandidates' = setBlockIndexCandidates \ {b} /\ b # tip
    BY <1>1, <1>5, <1>6, <1>12
  <2>2. ASSUME NEW c \in Unmarked, ~Worse(c, tip, seq)
        PROVE  c \in setBlockIndexCandidates' \/ (job.pc = "invalidate" /\ c # tip)
    BY <1>4, <1>5, <1>9, <1>12, <2>1, <2>2 DEF FreeInv
  <2>3. ASSUME NEW c \in setBlockIndexCandidates' PROVE ~Worse(c, tip, seq)
    BY <1>4, <1>5, <1>10, <2>1 DEF FreeInv
  <2> QED BY Zenon, <1>1, <1>3, <2>2, <2>3 DEF FreeInv
<1> QED BY <1>11, <1>12

\* invalidateblock: what it collected may be late, but its last part finds all.
LEMMA InvalidateCandidates ==
  ASSUME FlagInv, KindInv, CandInv,
         InvalidateTip \/ InvalidateDone \/ \E b \in Blocks : InvalidateBlock(b)
  PROVE  CandInv'
<1>1. ASSUME NEW b \in Blocks, InvalidateBlock(b) PROVE CandInv'
  <2>1. ~Held /\ job'.pc = "invalidate" /\ job.pc = "idle" /\ ~Held'
    BY Zenon, <1>1 DEF InvalidateBlock, MutexFree, NoJob, Held
  <2>2. Unmarked' = Unmarked
    BY Zenon, <1>1 DEF InvalidateBlock, received, flags, Unmarked, failed
  <2> QED BY Zenon, <1>1, <2>1, <2>2 DEF InvalidateBlock, received, precious, CandInv, FreeInv
<1>2. CASE InvalidateTip
  <2> DEFINE again == {c \in job.byWork : ~Worse(c, pprev[tip], nSequenceId)}
  <2>1. /\ tip' = pprev[tip] /\ UNCHANGED <<nSequenceId, slipped, demoted>>
        /\ setBlockIndexCandidates' = (setBlockIndexCandidates \ {tip}) \cup {pprev[tip]} \cup again
        /\ job.pc = "invalidate"
    BY <1>2 DEF InvalidateTip, received, precious
  <2>2. ~Held /\ job'.pc = "invalidate" /\ ~Held'
    BY <1>2 DEF InvalidateTip, Held, FlagInv, ChainInv, Jobs
  <2>3. tip \in Blocks \ {Root} /\ pprev[tip] \in Blocks /\ pprev[tip] \in Anc[tip]
    <3>1. tip \in Blocks \ {Root}
      BY Zenon, <1>2, BlockTreeConstants DEF InvalidateTip, InActiveChain, FlagInv, ChainInv, DataInv
    <3> QED BY <3>1, ParentChain
  <2>4. ~Worse(tip, pprev[tip], nSequenceId) /\ ~Worse(pprev[tip], pprev[tip], nSequenceId)
    BY <2>3, WorseBelow, WorseOneWay, CandidateFacts
  <2> SUFFICES ASSUME ~slipped, ~demoted PROVE FreeInv'
    BY <2>1, <2>2 DEF CandInv
  <2>5. \A c \in setBlockIndexCandidates : c \in Blocks /\ ~Worse(c, tip, nSequenceId)
    BY <2>2, CandidateFacts DEF CandInv, FreeInv
  <2>6. \A c \in setBlockIndexCandidates : ~Worse(c, pprev[tip], nSequenceId)
    BY <2>3, <2>4, <2>5, NotWorseChains, CandidateFacts
  <2> QED BY <2>1, <2>2, <2>4, <2>6 DEF FreeInv
<1>3. CASE InvalidateDone
  <2>1. /\ setBlockIndexCandidates' = (setBlockIndexCandidates \ {job.mark})
             \cup NotWorse(tip, failed \cup {job.mark} \cup conflict)
        /\ failed' = failed \cup {job.mark}
        /\ UNCHANGED <<tip, linked, conflict, nSequenceId, slipped, demoted>>
        /\ job' = NoJob /\ job.pc = "invalidate"
    BY <1>3 DEF InvalidateDone, failed, received, precious
  <2>2. ~Held /\ ~Held'
    BY <2>1 DEF Held, NoJob
  <2> SUFFICES ASSUME ~slipped, ~demoted PROVE FreeInv'
    BY <2>1, <2>2 DEF CandInv
  <2>3. FreeInv
    BY <2>2 DEF CandInv
  <2>4. ASSUME NEW c \in Unmarked', ~Worse(c, tip, nSequenceId) PROVE c \in setBlockIndexCandidates'
    BY <2>1, <2>4 DEF Unmarked, NotWorse, Usable, FlagInv, DataInv
  <2>5. ASSUME NEW c \in setBlockIndexCandidates' PROVE ~Worse(c, tip, nSequenceId)
    BY <2>1, <2>3 DEF FreeInv, NotWorse
  <2> QED BY <2>1, <2>4, <2>5 DEF FreeInv
<1> QED BY <1>1, <1>2, <1>3

LEMMA EnforceCandidates ==
  ASSUME FlagInv, KindInv, CandInv, EnforceBestChainLock
  PROVE  CandInv'
<1> DEFINE fork == Fork(lock, tip)
           marked == Conflicting(fork)
<1>1. lock \in Blocks /\ tip \in Blocks /\ ~Held
  BY DEF EnforceBestChainLock, MutexFree, Held, FlagInv, DataInv
<1>2. fork \in Blocks /\ fork \in Anc[tip]
  BY <1>1, ForkFound, AncestorsNest
<1>3. /\ conflict' = conflict \cup marked /\ tip' = fork
      /\ UNCHANGED <<index, data, linked, failedValid, failedChild, nSequenceId, job, slipped, demoted>>
      /\ setBlockIndexCandidates' =
           IF marked = {} THEN setBlockIndexCandidates
           ELSE (setBlockIndexCandidates \cup
                   {c \in index : Usable(c, failed \cup conflict)
                                  /\ ~Worse(c, fork, nSequenceId)}) \ marked
      /\ job.pc = "idle"
  BY DEF EnforceBestChainLock, received, precious, MutexFree
<1> HIDE DEF fork
<1>4. marked = {} => fork = tip
  <2>1. tip \in Anc[tip] /\ Anc[tip] \ Anc[fork] \subseteq marked
    BY <1>1, AncestorsNest DEF Conflicting
  <2>2. marked = {} => tip \in Anc[fork]
    BY <2>1
  <2> QED BY Zenon, <1>1, <1>2, <2>2, AncestorsOrdered
<1> HIDE DEF marked
<1> SUFFICES ASSUME ~slipped, ~demoted PROVE FreeInv'
  BY <1>1, <1>3 DEF CandInv, Held
<1>5. FreeInv
  BY <1>1 DEF CandInv
<1>6. failed' = failed /\ Unmarked' = Unmarked \ marked
  BY <1>3 DEF failed, Unmarked
<1>7. CASE marked = {}
  BY <1>3, <1>4, <1>5, <1>6, <1>7 DEF FreeInv
<1>8. CASE marked # {}
  <2>1. ASSUME NEW c \in Unmarked', ~Worse(c, fork, nSequenceId) PROVE c \in setBlockIndexCandidates'
    BY <1>3, <1>6, <1>8, <2>1 DEF Unmarked, Usable, FlagInv, DataInv
  <2>2. ~Worse(tip, fork, nSequenceId)
    BY Zenon, <1>1, <1>2, WorseBelow, CandidateFacts
  <2>3. ASSUME NEW c \in setBlockIndexCandidates PROVE ~Worse(c, fork, nSequenceId)
    <3>1. c \in Blocks /\ ~Worse(c, tip, nSequenceId)
      BY <1>5, CandidateFacts DEF FreeInv
    <3> QED BY <1>1, <1>2, <2>2, <3>1, NotWorseChains, CandidateFacts
  <2>4. ASSUME NEW c \in setBlockIndexCandidates' PROVE ~Worse(c, fork, nSequenceId)
    BY <1>3, <1>8, <2>3
  <2> QED BY Zenon, <1>3, <2>1, <2>4 DEF FreeInv
<1> QED BY Zenon, <1>7, <1>8

\* What the steps of ActivateBestChain do.
LEMMA FindShape ==
  ASSUME FlagInv, FindMostWorkChain
  PROVE  /\ UNCHANGED <<tip, linked, scripts, nSequenceId, lock, slipped, demoted>>
         /\ job.pc = "find" /\ job'.start = job.start
         /\ failed \subseteq failed' /\ conflict \subseteq conflict'
         /\ setBlockIndexCandidates' \subseteq setBlockIndexCandidates
         /\ setBlockIndexCandidates \ setBlockIndexCandidates' \subseteq failed' \cup conflict'
         /\ \A x \in failed' \cup conflict' : \/ x \in failed \cup conflict
                                              \/ Anc[x] \cap (failed \cup conflict) # {}
         /\ \/ job' = job
            \/ /\ job'.pc = "step" /\ job'.most \in setBlockIndexCandidates
               /\ \A c \in setBlockIndexCandidates : ~Worse(job'.most, c, nSequenceId)
<1>1. PICK new \in setBlockIndexCandidates :
        /\ \A c \in setBlockIndexCandidates : ~Worse(new, c, nSequenceId)
        /\ LET bad == (Anc[new] \ Anc[tip]) \cap (failed \cup conflict)
               test == CHOOSE t \in bad : \A u \in bad : nHeight[u] <= nHeight[t]
               above == Anc[new] \ Anc[test]
           IN IF bad = {}
              THEN /\ job' = [job EXCEPT !.pc = "step", !.most = new]
                   /\ UNCHANGED <<failedChild, conflict, setBlockIndexCandidates>>
              ELSE /\ setBlockIndexCandidates' = setBlockIndexCandidates \ (above \cup {test})
                   /\ failedChild' = failedChild \cup (IF test \in failed THEN above ELSE {})
                   /\ conflict' = conflict \cup (IF test \in failed THEN {} ELSE above)
                   /\ UNCHANGED job
  BY Zenon DEF FindMostWorkChain
<1> DEFINE bad == (Anc[new] \ Anc[tip]) \cap (failed \cup conflict)
           test == CHOOSE t \in bad : \A u \in bad : nHeight[u] <= nHeight[t]
           above == Anc[new] \ Anc[test]
<1>2. new \in Blocks
  BY DEF FlagInv, DataInv
<1>3. /\ UNCHANGED <<tip, linked, scripts, nSequenceId, lock, slipped, demoted>>
      /\ failedValid' = failedValid /\ job.pc = "find" /\ job \in Jobs
  BY DEF FindMostWorkChain, received, precious, FlagInv, ChainInv
<1>4. CASE bad = {}
  <2>1. job' = [job EXCEPT !.pc = "step", !.most = new]
        /\ UNCHANGED <<failedChild, conflict, setBlockIndexCandidates>>
    BY <1>1, <1>4
  <2>2. job'.pc = "step" /\ job'.most = new /\ job'.start = job.start
    BY Zenon, <1>3, <2>1 DEF Jobs
  <2> QED BY <1>1, <1>3, <2>1, <2>2 DEF failed
<1>5. CASE bad # {}
  <2>1. \E t \in bad : \A u \in bad : nHeight[u] <= nHeight[t]
    BY Zenon, <1>2, <1>5, Highest
  <2>2. test \in Anc[new] /\ test \in failed \cup conflict
    BY <2>1
  <2>3. /\ setBlockIndexCandidates' = setBlockIndexCandidates \ (above \cup {test})
        /\ failedChild' = failedChild \cup (IF test \in failed THEN above ELSE {})
        /\ conflict' = conflict \cup (IF test \in failed THEN {} ELSE above)
        /\ UNCHANGED job
    BY <1>1, <1>5
  <2> HIDE DEF test
  <2>4. \A x \in above : test \in Anc[x]
    BY <1>2, <2>2, AboveChain
  <2> HIDE DEF above
  <2>5. failed \subseteq failed' /\ conflict \subseteq conflict'
        /\ failed' \cup conflict' = failed \cup conflict \cup above
    BY Zenon, <1>3, <2>3 DEF failed
  <2> QED BY <1>3, <2>2, <2>3, <2>4, <2>5
<1> QED BY Zenon, <1>4, <1>5

LEMMA ConnectShape ==
  ASSUME FlagInv, ConnectTip
  PROVE  /\ UNCHANGED <<linked, failedValid, failedChild, conflict, nSequenceId, lock, slipped, demoted>>
         /\ tip' = ToConnect /\ ~HasConflictingChainLock(ToConnect) /\ job.pc = "connect"
         /\ scripts \subseteq scripts'
         /\ setBlockIndexCandidates' = {c \in setBlockIndexCandidates : ~Worse(c, tip', nSequenceId)}
         /\ job'.start = job.start /\ job'.most = job.most
         /\ \/ job'.pc = "connect"
            \/ job'.pc = "step" /\ Worse(tip', job.start, nSequenceId)
            \/ job'.pc = "rest" /\ ~Worse(tip', job.start, nSequenceId)
<1>1. /\ tip' = ToConnect /\ job.pc = "connect" /\ job.most # None
      /\ job' = job \/ job' = AfterStep(tip', job.most)
  BY DEF ConnectTip, FlagInv, ChainInv
<1>2. job \in Jobs
  BY DEF FlagInv, ChainInv
<1>3. /\ job'.start = job.start /\ job'.most = job.most
      /\ \/ job'.pc = "connect"
         \/ job'.pc = "step" /\ Worse(tip', job.start, nSequenceId)
         \/ job'.pc = "rest" /\ ~Worse(tip', job.start, nSequenceId)
  <2>1. CASE job' = job
    BY <1>1, <2>1
  <2>2. CASE job' = AfterStep(tip', job.most) /\ Worse(tip', job.start, nSequenceId)
    <3>1. job' = [job EXCEPT !.pc = "step", !.most = job.most]
      BY <1>1, <2>2 DEF AfterStep
    <3> QED BY <1>2, <2>2, <3>1 DEF Jobs
  <2>3. CASE job' = AfterStep(tip', job.most) /\ ~Worse(tip', job.start, nSequenceId)
    <3>1. job' = [job EXCEPT !.pc = "rest", !.most = job.most]
      BY Zenon, <1>1, <2>3 DEF AfterStep
    <3> QED BY <1>2, <2>3, <3>1 DEF Jobs
  <2> QED BY <1>1, <2>1, <2>2, <2>3
<1> QED BY Zenon, <1>1, <1>3 DEF ConnectTip, received, flags, precious, PruneBlockIndexCandidates

LEMMA ConnectFailsShape ==
  ASSUME FlagInv, ConnectTipFails
  PROVE  /\ UNCHANGED <<tip, linked, scripts, conflict, nSequenceId, lock, slipped, demoted>>
         /\ job.pc = "connect" /\ failed' = failed \cup {ToConnect}
         /\ ToConnect \in Unconnectable \/ HasConflictingChainLock(ToConnect)
         /\ setBlockIndexCandidates' = setBlockIndexCandidates \ {ToConnect}
         /\ job'.start = job.start
         /\ \/ job'.pc = "find" /\ Worse(tip, job.start, nSequenceId)
            \/ job'.pc = "rest" /\ ~Worse(tip, job.start, nSequenceId)
<1>1. job' = AfterStep(tip, None) /\ job \in Jobs
  BY Zenon DEF ConnectTipFails, FlagInv, ChainInv
<1>2. /\ job'.start = job.start
      /\ \/ job'.pc = "find" /\ Worse(tip, job.start, nSequenceId)
         \/ job'.pc = "rest" /\ ~Worse(tip, job.start, nSequenceId)
  <2>1. CASE Worse(tip, job.start, nSequenceId)
    <3>1. job' = [job EXCEPT !.pc = "find", !.most = None]
      BY <1>1, <2>1 DEF AfterStep
    <3> QED BY <1>1, <2>1, <3>1 DEF Jobs
  <2>2. CASE ~Worse(tip, job.start, nSequenceId)
    <3>1. job' = [job EXCEPT !.pc = "rest", !.most = None]
      BY Zenon, <1>1, <2>2 DEF AfterStep
    <3> QED BY <1>1, <2>2, <3>1 DEF Jobs
  <2> QED BY <2>1, <2>2
<1> QED BY Zenon, <1>2 DEF ConnectTipFails, received, precious, failed

\* ActivateBestChain takes cs_main: the chain it starts from is the active one.
LEMMA EnterCandidates ==
  ASSUME FlagInv, KindInv, CandInv, job.pc \in {"idle", "rest"}, NEW most, Enter(most),
         UNCHANGED <<tip, received, flags, setBlockIndexCandidates, precious, slipped>>
  PROVE  CandInv'
<1>1. job'.pc \in {"find", "step"} /\ job'.start = tip /\ Held' /\ ~Held
  BY DEF Enter, NoJob, Held
<1>2. Unmarked' = Unmarked
  BY DEF received, flags, Unmarked, failed
<1> QED BY <1>1, <1>2 DEF CandInv, FreeInv, HeldInv, received, precious

LEMMA ActivateCandidates ==
  ASSUME FlagInv, KindInv, CandInv, Activate
  PROVE  CandInv'
<1> USE CandidateFacts
<1>1. CASE ActivateBestChain
  BY <1>1, EnterCandidates DEF ActivateBestChain, MutexFree
<1>2. CASE NextRound
  <2>1. CASE job.most = tip
    <3>1. ~Held /\ ~Held' /\ job.pc = "rest" /\ Unmarked' = Unmarked
      BY SMT, Z3, SMTT(10), Z3T(10), <1>2, <2>1 DEF NextRound, NoJob, Held, received, flags, Unmarked, failed
    <3> QED BY Zenon, <1>2, <3>1 DEF NextRound, CandInv, FreeInv, received, precious
  <2>2. CASE job.most # tip
    BY Zenon, <1>2, <2>2, EnterCandidates DEF NextRound
  <2> QED BY Zenon, <2>1, <2>2
<1>3. CASE FindMostWorkChain
  <2>1. Held /\ Held' /\ job.pc = "find" /\ job'.pc \in {"find", "step"}
    BY <1>3, FindShape DEF Held
  <2>2. Unmarked' \subseteq Unmarked
        /\ \A c \in Unmarked' : c \in setBlockIndexCandidates => c \in setBlockIndexCandidates'
    BY Zenon, <1>3, FindShape DEF Unmarked
  <2> SUFFICES ASSUME ~slipped, ~demoted PROVE HeldInv'
    BY <1>3, <2>1, FindShape DEF CandInv
  <2>3. HeldInv
    BY <2>1 DEF CandInv
  <2> QED BY Zenon, <1>3, <2>1, <2>2, <2>3, FindShape DEF HeldInv
<1>4. CASE NothingToDo
  <2>1. /\ job'.pc \in {"idle", "rest"} /\ ~Held' /\ Held /\ job.pc # "connect"
        /\ UNCHANGED <<tip, linked, failed, conflict, nSequenceId, setBlockIndexCandidates, demoted>>
        /\ slipped' = (slipped \/ Worse(tip, job.start, nSequenceId))
    BY <1>4 DEF NothingToDo, NoJob, Held, received, flags, precious, failed, FlagInv, ChainInv, Jobs
  <2> SUFFICES ASSUME ~slipped, ~demoted, ~Worse(tip, job.start, nSequenceId) PROVE FreeInv'
    BY Zenon, <2>1 DEF CandInv
  <2>2. HeldInv /\ tip = job.start
    BY Zenon, <2>1 DEF CandInv, HeldInv
  <2> QED BY <2>1, <2>2 DEF HeldInv, FreeInv, Unmarked
<1>5. CASE DisconnectToFork
  <2>1. /\ Held /\ Held' /\ job.pc = "step" /\ job'.pc = "connect" /\ job'.start = job.start
        /\ UNCHANGED <<linked, failed, conflict, nSequenceId, setBlockIndexCandidates, slipped, demoted>>
    BY <1>5 DEF DisconnectToFork, Held, received, flags, precious, failed, FlagInv, ChainInv, Jobs
  <2>2. tip' \in Anc[tip]
    <3>1. job.most \in Blocks /\ tip \in Blocks
      BY Zenon, <2>1 DEF FlagInv, ChainInv, DataInv
    <3> QED BY Zenon, <1>5, <3>1, ForkFound DEF DisconnectToFork
  <2> SUFFICES ASSUME ~slipped, ~demoted PROVE HeldInv'
    BY <2>1 DEF CandInv
  <2>3. HeldInv
    BY <2>1 DEF CandInv
  <2>4. tip' \in Blocks /\ (tip' # tip => Worse(tip', tip, nSequenceId))
    BY <2>2, WorseBelow
  <2>5. tip' # tip => Worse(tip', job.start, nSequenceId)
    <3> SUFFICES ASSUME tip' # tip, ~Worse(tip', job.start, nSequenceId) PROVE FALSE
      BY Zenon
    <3>1. job.start \in Blocks /\ ~Worse(job.start, tip, nSequenceId)
      BY Zenon, <2>1, <2>3, WorseOneWay DEF HeldInv
    <3>2. ~Worse(tip', tip, nSequenceId)
      BY <2>4, <3>1, NotWorseChains
    <3> QED BY <2>4, <3>2
  <2>6. Unmarked' = Unmarked
    BY Zenon, <2>1 DEF Unmarked
  <2> QED BY <2>1, <2>3, <2>5, <2>6 DEF HeldInv
<1>6. CASE ConnectTip
  <2>1. /\ Unmarked' = Unmarked /\ Held /\ job.start \in Blocks /\ nSequenceId' = nSequenceId
        /\ UNCHANGED <<slipped, demoted>>
        /\ setBlockIndexCandidates' = {c \in setBlockIndexCandidates : ~Worse(c, tip', nSequenceId)}
        /\ job'.start = job.start
    BY Zenon, <1>6, ConnectShape DEF Held, Unmarked, failed
  <2>2. tip' \in Blocks /\ tip \in Anc[tip']
    BY SMT, Z3, SMTT(10), Z3T(10), <1>6, ConnectShape, ToConnectFound, ParentChain
  <2> SUFFICES ASSUME ~slipped, ~demoted PROVE IF Held' THEN HeldInv' ELSE FreeInv'
    BY <2>1 DEF CandInv
  <2>3. HeldInv
    BY <2>1 DEF CandInv
  <2>4. ASSUME NEW c \in Unmarked, ~Worse(c, job.start, nSequenceId), ~Worse(c, tip', nSequenceId)
        PROVE  c \in setBlockIndexCandidates'
    <3>1. c \in Blocks /\ ~Worse(tip', tip, nSequenceId)
      BY <2>2, WorseBelow
    <3>2. ~Worse(c, tip, nSequenceId)
      BY Zenon, <2>2, <2>4, <3>1, NotWorseChains
    <3>3. c \in setBlockIndexCandidates
      BY Zenon, <2>3, <2>4, <3>2 DEF HeldInv
    <3> QED BY <2>1, <2>4, <3>3
  <2>5. CASE job'.pc = "connect"
    BY Zenon, <2>1, <2>4, <2>5 DEF Held, HeldInv
  <2>6. CASE job'.pc = "step" /\ Worse(tip', job.start, nSequenceId)
    <3>1. ASSUME NEW c \in Unmarked, ~Worse(c, job.start, nSequenceId)
          PROVE  c \in setBlockIndexCandidates'
      <4>1. ~Worse(job.start, tip', nSequenceId)
        BY Zenon, <2>1, <2>2, <2>6, WorseOneWay
      <4>2. ~Worse(c, tip', nSequenceId)
        BY Zenon, <2>1, <2>2, <3>1, <4>1, NotWorseChains
      <4> QED BY Zenon, <2>4, <3>1, <4>2
    <3> QED BY Zenon, <2>1, <2>6, <3>1 DEF Held, HeldInv
  <2>7. CASE job'.pc = "rest" /\ ~Worse(tip', job.start, nSequenceId)
    <3>1. ASSUME NEW c \in Unmarked, ~Worse(c, tip', nSequenceId)
          PROVE  c \in setBlockIndexCandidates'
      <4>1. ~Worse(c, job.start, nSequenceId)
        BY Zenon, <2>1, <2>2, <2>7, <3>1, NotWorseChains
      <4> QED BY Zenon, <2>4, <3>1, <4>1
    <3> QED BY <2>1, <2>7, <3>1 DEF Held, FreeInv
  <2> QED BY Zenon, <1>6, <2>5, <2>6, <2>7, ConnectShape
<1>7. CASE ConnectTipFails
  <2>1. /\ Unmarked' \subseteq Unmarked \ {ToConnect} /\ Held /\ job.start \in Blocks
        /\ job.pc = "connect"
        /\ UNCHANGED <<tip, nSequenceId, slipped, demoted>>
        /\ setBlockIndexCandidates' = setBlockIndexCandidates \ {ToConnect}
        /\ job'.start = job.start
    BY <1>7, ConnectFailsShape DEF Held, Unmarked
  <2> SUFFICES ASSUME ~slipped, ~demoted PROVE IF Held' THEN HeldInv' ELSE FreeInv'
    BY <2>1 DEF CandInv
  <2>2. HeldInv
    BY Zenon, <2>1 DEF CandInv
  <2>3. CASE job'.pc = "find" /\ Worse(tip, job.start, nSequenceId)
    <3>1. ASSUME NEW c \in Unmarked, ~Worse(c, job.start, nSequenceId) PROVE ~Worse(c, tip, nSequenceId)
      <4>1. ~Worse(job.start, tip, nSequenceId)
        BY Zenon, <2>1, <2>3, WorseOneWay
      <4> QED BY Zenon, <2>1, <3>1, <4>1, NotWorseChains
    <3> QED BY Zenon, <2>1, <2>2, <2>3, <3>1 DEF Held, HeldInv
  <2>4. CASE job'.pc = "rest" /\ ~Worse(tip, job.start, nSequenceId)
    <3>1. ASSUME NEW c \in Unmarked, ~Worse(c, tip, nSequenceId) PROVE ~Worse(c, job.start, nSequenceId)
      BY <2>1, <2>4, <3>1, NotWorseChains
    <3> QED BY Zenon, <2>1, <2>2, <2>4, <3>1 DEF Held, HeldInv, FreeInv
  <2> QED BY Zenon, <1>7, <2>3, <2>4, ConnectFailsShape
<1> QED BY Zenon, <1>1, <1>2, <1>3, <1>4, <1>5, <1>6, <1>7 DEF Activate

LEMMA StepCandInv == FlagInv /\ KindInv /\ CandInv /\ [Next]_vars => CandInv'
<1> SUFFICES ASSUME FlagInv, KindInv, CandInv, [Next]_vars PROVE CandInv'
  BY Zenon
<1>1. CASE UNCHANGED vars
  <2>1. Unmarked' = Unmarked /\ (Held' <=> Held)
    BY <1>1 DEF vars, received, flags, Unmarked, failed, Held
  <2> QED BY <1>1, <2>1 DEF vars, received, precious, CandInv, FreeInv, HeldInv
<1>2. ASSUME NEW b \in Blocks,
             AcceptBlockHeader(b) \/ AcceptBlockHeaderRefused(b) \/ Lock(b)
      PROVE  CandInv'
  <2>1. /\ ~Held /\ UNCHANGED <<job, tip, linked, setBlockIndexCandidates, nSequenceId, slipped, demoted>>
        /\ failed \subseteq failed' /\ conflict \subseteq conflict'
    BY <1>2 DEF AcceptBlockHeader, AcceptBlockHeaderRefused, Lock, received, flags, precious, failed
  <2> QED BY Zenon, <2>1, MarksKeepCandidates
<1> QED BY <1>1, <1>2, AcceptBlockCandidates, ResetCandidates, PreciousCandidates,
           InvalidateCandidates, EnforceCandidates, ActivateCandidates DEF Next

\* Unless the tip came to sort worse, setBlockIndexCandidates holds what
\* CheckBlockIndex asserts whenever cs_main is free: every linked block without an
\* invalid or conflicting ancestor that is as good as the tip, and none worse.
THEOREM CandidatesInvariant == Spec => []CandidatesRight
<1>1. FlagInv /\ CandInv => CandidatesRight
  <2> SUFFICES ASSUME FlagInv, CandInv, ~Held, ~slipped, ~demoted
               PROVE  /\ \A b \in linked :
                           Anc[b] \cap (failedValid \cup conflict) = {} /\ ~Worse(b, tip, nSequenceId)
                             => b \in setBlockIndexCandidates \/ (job.pc = "invalidate" /\ b # tip)
                      /\ \A b \in setBlockIndexCandidates : ~Worse(b, tip, nSequenceId)
    BY DEF CandidatesRight
  <2>1. FreeInv
    BY DEF CandInv
  <2>2. ASSUME NEW b \in linked, Anc[b] \cap (failedValid \cup conflict) = {} PROVE b \in Unmarked
    <3>1. b \in Anc[b]
      BY AncestorsNest DEF FlagInv, DataInv
    <3> QED BY <2>2, <3>1 DEF Unmarked, FlagInv, MarkInv, failed
  <2> QED BY <2>1, <2>2 DEF FreeInv
<1> QED BY <1>1, InitFlagInv, StepFlagInv, InitKindInv, StepKindInv, InitCandInv, StepCandInv,
           PTL DEF Spec

-----------------------------------------------------------------------------
(* Each action keeps LockInv. *)

\* A block on the locked chain that is no worse than a chain with the locked block
\* in it has the locked block in its own.
LEMMA LockKept ==
  ASSUME NEW seq \in [Blocks -> Int], NEW s \in Blocks, NEW t \in Blocks, NEW k \in Anc[s],
         t \in Anc[k] \/ k \in Anc[t], ~Worse(t, s, seq)
  PROVE  k \in Anc[t]
<1>1. CASE t \in Anc[k]
  <2>1. t \in Anc[s]
    BY <1>1, AncestorsNest
  <2>2. t = s
    BY <2>1, WorseBelow
  <2> QED BY <2>2
<1> QED BY <1>1

\* ConnectBlock's check keeps the tip on the locked chain.
LEMMA ConnectCompatible ==
  ASSUME FlagInv, KindInv, ConnectTip, lock \in Blocks, tip \in Anc[lock] \/ lock \in Anc[tip]
  PROVE  tip' \in Anc[lock] \/ lock \in Anc[tip']
<1>1. /\ tip' \in Blocks \ {Root} /\ pprev[tip'] = tip /\ Anc[tip'] = Anc[tip] \cup {tip'}
      /\ ~HasConflictingChainLock(tip')
  BY Zenon, ConnectShape, ToConnectFound
<1>2. lock # None
  BY BlockTreeConstants
<1>3. CASE tip \in Anc[lock] /\ ~(nHeight[tip'] <= nHeight[lock])
  <2>1. /\ nHeight[tip] <= nHeight[lock] /\ nHeight[tip'] = nHeight[tip] + 1
        /\ nHeight[tip] \in Nat /\ nHeight[lock] \in Nat /\ nHeight[tip'] \in Nat
    BY Zenon, <1>1, <1>3, BlockTreeConstants, AncestryAssumption, CandidateFacts
  <2>2. nHeight[tip] = nHeight[lock]
    BY SMT, Z3, SMTT(10), Z3T(10), <1>3, <2>1
  <2>3. tip = lock
    BY Zenon, <1>3, <2>2, AncestryAssumption
  <2> QED BY Zenon, <1>1, <2>3, AncestorsNest
<1> QED BY <1>1, <1>2, <1>3 DEF HasConflictingChainLock

\* The block where ActivateBestChain started is a candidate when the next chain is
\* looked for.
LEMMA StartIsCandidate ==
  ASSUME FlagInv, KindInv, CandInv, job.pc = "find", ~slipped, ~demoted,
         Anc[job.start] \subseteq scripts \ (failed \cup conflict)
  PROVE  job.start \in setBlockIndexCandidates
<1>1. Held /\ HeldInv /\ job.start \in Blocks
  BY Zenon DEF Held, CandInv, KindInv
<1>2. job.start \in Unmarked
  BY Zenon, <1>1, AncestorsNest DEF Unmarked, KindInv
<1>3. ~Worse(job.start, job.start, nSequenceId)
  BY Zenon, <1>1, WorseOneWay, CandidateFacts
<1> QED BY Zenon, <1>1, <1>2, <1>3 DEF HeldInv

LEMMA EnterLocks ==
  ASSUME FlagInv, KindInv, NEW most \in Blocks \cup {None}, Enter(most),
         most # None => tip \in Anc[most],
         UNCHANGED <<tip, received, scripts, flags, lock>>
  PROVE  LockInv'
<1>1. job'.start = tip /\ job'.pc \in {"find", "step"} /\ job'.most = most
      /\ (job'.pc = "step" => most # None)
  BY Zenon DEF Enter, NoJob
<1>2. Anc[tip] \subseteq scripts \ (failed \cup conflict)
  BY Zenon DEF FlagInv, ChainInv
<1>3. most # None => ~Worse(most, tip, nSequenceId)
  BY Zenon, WorseBelow, CandidateFacts
<1>4. UNCHANGED <<failed, conflict, nSequenceId>>
  BY DEF flags, received, failed
<1> QED BY <1>1, <1>2, <1>3, <1>4 DEF LockInv

LEMMA ActivateLocks ==
  ASSUME FlagInv, KindInv, CandInv, LockInv, Activate
  PROVE  LockInv'
<1> USE CandidateFacts
<1>1. CASE ActivateBestChain
  BY <1>1, EnterLocks DEF ActivateBestChain
<1>2. CASE NextRound
  <2>1. CASE job.most = tip
    <3>1. job' = NoJob
      BY Zenon, <1>2, <2>1 DEF NextRound
    <3>2. ~Held'
      BY Zenon, <3>1, NoJobIdle DEF Held
    <3> QED BY Zenon, <3>2 DEF LockInv
  <2>2. CASE job.most # tip
    <3>1. job.most \in Blocks \cup {None} /\ (job.most # None => tip \in Anc[job.most])
      BY Zenon, <1>2 DEF NextRound, FlagInv, ChainInv, Jobs, KindInv
    <3> QED BY <1>2, <2>2, <3>1, EnterLocks DEF NextRound
  <2> QED BY Zenon, <2>1, <2>2
<1>3. CASE NothingToDo
  <2>1. job'.pc \in {"idle", "rest"}
    BY Zenon, <1>3 DEF NothingToDo, NoJob, FlagInv, ChainInv, Jobs
  <2> QED BY Zenon, <2>1 DEF LockInv, Held
<1>4. CASE FindMostWorkChain
  <2>1. /\ UNCHANGED <<tip, lock, scripts, nSequenceId, slipped, demoted>>
        /\ job.pc = "find" /\ job'.start = job.start /\ Held
    BY Zenon, <1>4, FindShape DEF Held
  <2> SUFFICES ASSUME ~slipped, ~demoted, lock # None, lock \in Anc[job.start]
               PROVE  /\ Anc[job.start] \subseteq scripts \ (failed' \cup conflict')
                      /\ tip \in Anc[lock] \/ lock \in Anc[tip]
                      /\ job'.pc \in {"step", "connect"} =>
                           ~Worse(job'.most, job.start, nSequenceId)
    BY <2>1 DEF LockInv
  <2>2. /\ Anc[job.start] \subseteq scripts \ (failed \cup conflict)
        /\ tip \in Anc[lock] \/ lock \in Anc[tip]
    BY Zenon, <2>1 DEF LockInv
  <2>3. \A x \in Anc[job.start] : x \notin failed' \cup conflict'
    <3>1. \A x \in Anc[job.start] : Anc[x] \subseteq Anc[job.start]
      BY Zenon, <2>1, AncestorsNest
    <3> QED BY <1>4, <2>2, <3>1, FindShape
  <2>4. job.start \in setBlockIndexCandidates
    BY Zenon, <2>1, <2>2, StartIsCandidate
  <2>5. job'.pc \in {"step", "connect"} => ~Worse(job'.most, job.start, nSequenceId)
    BY Zenon, <1>4, <2>1, <2>4, FindShape
  <2> QED BY Zenon, <2>2, <2>3, <2>5
<1>5. CASE DisconnectToFork
  <2>1. /\ Held /\ job.pc = "step" /\ job'.start = job.start /\ job'.most = job.most
        /\ UNCHANGED <<lock, scripts, failed, conflict, nSequenceId, slipped, demoted>>
    BY <1>5 DEF DisconnectToFork, Held, received, flags, precious, failed, FlagInv, ChainInv, Jobs
  <2>2. tip' \in Anc[tip]
    <3>1. job.most \in Blocks /\ tip \in Blocks
      BY <2>1 DEF FlagInv, ChainInv, DataInv
    <3> QED BY Zenon, <1>5, <3>1, ForkFound DEF DisconnectToFork
  <2>3. tip \in Anc[lock] /\ lock \in Blocks => tip' \in Anc[lock]
    BY <2>2, AncestorsNest
  <2>4. lock \in Anc[tip] => tip' \in Anc[lock] \/ lock \in Anc[tip']
    BY Zenon, <2>2, AncestorsChain
  <2>5. lock # None => lock \in Blocks
    BY Zenon DEF KindInv
  <2> QED BY Zenon, <2>1, <2>3, <2>4, <2>5 DEF LockInv
<1>6. CASE ConnectTip
  <2>1. /\ Held /\ job.pc = "connect" /\ job'.start = job.start /\ job'.most = job.most
        /\ UNCHANGED <<lock, failed, conflict, nSequenceId, slipped, demoted>>
        /\ scripts \subseteq scripts'
    BY Zenon, <1>6, ConnectShape DEF Held, failed
  <2>2. lock # None => lock \in Blocks
    BY DEF KindInv
  <2>3. lock # None /\ (tip \in Anc[lock] \/ lock \in Anc[tip]) =>
          tip' \in Anc[lock] \/ lock \in Anc[tip']
    BY Zenon, <1>6, <2>2, ConnectCompatible
  <2> QED BY <2>1, <2>3 DEF LockInv
<1>7. CASE ConnectTipFails
  <2>1. /\ Held /\ job.pc = "connect" /\ job'.start = job.start /\ job'.pc \in {"find", "rest"}
        /\ UNCHANGED <<tip, lock, scripts, conflict, nSequenceId, slipped, demoted>>
        /\ failed' = failed \cup {ToConnect}
        /\ ToConnect \in Unconnectable \/ HasConflictingChainLock(ToConnect)
        /\ ToConnect \in Blocks
    BY Zenon, <1>7, ConnectFailsShape, ToConnectFound DEF Held
  <2> SUFFICES ASSUME ~slipped, ~demoted, lock # None, lock \in Anc[job.start]
               PROVE  /\ Anc[job.start] \subseteq scripts \ (failed' \cup conflict)
                      /\ tip \in Anc[lock] \/ lock \in Anc[tip]
    BY <2>1 DEF LockInv
  <2>2. /\ Anc[job.start] \subseteq scripts \ (failed \cup conflict)
        /\ tip \in Anc[lock] \/ lock \in Anc[tip]
    BY Zenon, <2>1 DEF LockInv
  <2>3. ToConnect \notin Anc[job.start]
    <3>1. ToConnect \in Unconnectable => ToConnect \notin scripts
      BY Zenon DEF KindInv
    <3>2. ToConnect \in Anc[job.start] /\ nHeight[ToConnect] <= nHeight[lock] => ToConnect \in Anc[lock]
      BY <2>1, AncestryAssumption
    <3> QED BY <2>1, <2>2, <3>1, <3>2 DEF HasConflictingChainLock
  <2> QED BY <2>1, <2>2, <2>3
<1> QED BY Zenon, <1>1, <1>2, <1>3, <1>4, <1>5, <1>6, <1>7 DEF Activate

\* Nothing else runs while ActivateBestChain holds cs_main.
LEMMA FreeStep ==
  ASSUME FlagInv, Next, ~Activate
  PROVE  ~Held /\ ~Held' /\ (tip' = tip \/ InvalidateTip \/ EnforceBestChainLock)
<1>1. ASSUME NEW b \in Blocks,
             \/ AcceptBlockHeader(b) \/ AcceptBlockHeaderRefused(b) \/ AcceptBlock(b)
             \/ ResetBlockFailureFlags(b) \/ PreciousBlock(b) \/ Lock(b)
      PROVE  ~Held /\ job' = job /\ tip' = tip
  BY Zenon, <1>1 DEF AcceptBlockHeader, AcceptBlockHeaderRefused, AcceptBlock, ResetBlockFailureFlags,
     PreciousBlock, Lock
<1>2. ASSUME NEW b \in Blocks, InvalidateBlock(b)
      PROVE  ~Held /\ ~Held' /\ tip' = tip
  BY <1>2 DEF InvalidateBlock, MutexFree, NoJob, Held
<1>3. CASE InvalidateTip
  BY Zenon, <1>3 DEF InvalidateTip, Held, FlagInv, ChainInv, Jobs
<1>4. CASE InvalidateDone
  BY Zenon, <1>4 DEF InvalidateDone, NoJob, Held
<1>5. CASE EnforceBestChainLock
  BY <1>5 DEF EnforceBestChainLock, MutexFree, Held
<1> QED BY <1>1, <1>2, <1>3, <1>4, <1>5 DEF Next, Held

LEMMA StepLockInv == FlagInv /\ KindInv /\ CandInv /\ LockInv /\ [Next]_vars => LockInv'
<1> SUFFICES ASSUME FlagInv, KindInv, CandInv, LockInv, [Next]_vars PROVE LockInv'
  OBVIOUS
<1>1. CASE UNCHANGED vars
  BY Zenon, <1>1 DEF vars, received, flags, precious, failed, LockInv, Held
<1>2. CASE Next /\ ~Activate
  BY <1>2, FreeStep DEF LockInv
<1> QED BY <1>1, <1>2, ActivateLocks

\* A step of the node leaves an active locked block active.
LEMMA LockedStep ==
  ASSUME FlagInv, KindInv, CandInv, LockInv, Next,
         lock # None, ~slipped, ~demoted, lock \in Anc[Seen], job.pc # "invalidate"
  PROVE  lock \in Anc[Seen']
<1> USE CandidateFacts
<1>0. lock \in Blocks
  BY DEF KindInv
<1>1. CASE ~Activate
  <2>1. ~Held /\ ~Held' /\ (tip' = tip \/ InvalidateTip \/ EnforceBestChainLock)
    BY <1>1, FreeStep
  <2>2. ~InvalidateTip /\ ~EnforceBestChainLock
    BY <2>1 DEF InvalidateTip, EnforceBestChainLock, InActiveChain, Seen
  <2> QED BY <2>1, <2>2 DEF Seen
<1>2. CASE ActivateBestChain \/ NextRound
  <2>1. ~Held /\ tip' = tip
    BY <1>2 DEF ActivateBestChain, NextRound, Held, MutexFree
  <2>2. \A m : Enter(m) => job'.start = tip
    BY Zenon DEF Enter, NoJob
  <2>3. job' = NoJob => ~Held'
    BY SMT, Z3, SMTT(10), Z3T(10) DEF NoJob, Held
  <2>4. job' = NoJob \/ \E m : Enter(m)
    BY <1>2 DEF ActivateBestChain, NextRound
  <2> QED BY Zenon, <2>1, <2>2, <2>3, <2>4 DEF Seen
<1>3. CASE FindMostWorkChain \/ DisconnectToFork
  <2>1. Held /\ Held' /\ job'.start = job.start
    BY Zenon, <1>3, FindShape DEF DisconnectToFork, Held, FlagInv, ChainInv, Jobs
  <2> QED BY <2>1 DEF Seen
<1>4. CASE NothingToDo
  <2>1. Held /\ ~Held' /\ tip' = tip
    BY Zenon, <1>4 DEF NothingToDo, NoJob, Held, FlagInv, ChainInv, Jobs
  <2>2. /\ lock \in Anc[job.start] /\ job.start \in Blocks
        /\ Anc[job.start] \subseteq scripts \ (failed \cup conflict)
        /\ tip \in Anc[lock] \/ lock \in Anc[tip]
    BY <2>1 DEF Seen, LockInv
  <2>3. job.pc # "find"
    BY <1>4, <2>2, StartIsCandidate DEF NothingToDo
  <2>4. ~Worse(tip, job.start, nSequenceId)
    BY Zenon, <1>4, <2>1, <2>2, <2>3 DEF NothingToDo, LockInv
  <2>5. lock \in Anc[tip]
    BY Zenon, <2>2, <2>4, LockKept
  <2> QED BY <2>1, <2>5 DEF Seen
<1>5. CASE ConnectTip
  <2>1. Held /\ job'.start = job.start /\ (~Held' => ~Worse(tip', job.start, nSequenceId))
        /\ tip' \in Blocks
    BY Zenon, <1>5, ConnectShape, ToConnectFound DEF Held
  <2>2. /\ lock \in Anc[job.start] /\ job.start \in Blocks
        /\ tip \in Anc[lock] \/ lock \in Anc[tip]
    BY Zenon, <2>1 DEF Seen, LockInv
  <2>3. tip' \in Anc[lock] \/ lock \in Anc[tip']
    BY Zenon, <1>0, <1>5, <2>2, ConnectCompatible
  <2>4. ~Held' => lock \in Anc[tip']
    BY Zenon, <2>1, <2>2, <2>3, LockKept
  <2> QED BY <2>1, <2>2, <2>4 DEF Seen
<1>6. CASE ConnectTipFails
  <2>1. /\ Held /\ job'.start = job.start /\ (~Held' => ~Worse(tip, job.start, nSequenceId))
        /\ tip' = tip
    BY <1>6, ConnectFailsShape DEF Held
  <2>2. /\ lock \in Anc[job.start] /\ job.start \in Blocks
        /\ tip \in Anc[lock] \/ lock \in Anc[tip]
    BY Zenon, <2>1 DEF Seen, LockInv
  <2>3. ~Held' => lock \in Anc[tip]
    BY <2>1, <2>2, LockKept
  <2> QED BY Zenon, <2>1, <2>2, <2>3 DEF Seen
<1> QED BY Zenon, <1>1, <1>2, <1>3, <1>4, <1>5, <1>6 DEF Activate

\* Unless the tip came to sort worse or the operator invalidates it, a ChainLocked
\* block that is active when cs_main is released stays active: whatever branch
\* ActivateBestChain tries, and wherever it fails, it comes back to a chain with
\* the locked block before others see the tip.
THEOREM LockedStays == Spec => LockedStaysActive
<1>1. Init => LockInv
  BY Zenon DEF Init, LockInv, Held, NoJob
<1>2. FlagInv /\ KindInv /\ CandInv /\ LockInv /\ [Next]_vars =>
        [lock # None /\ ~slipped /\ ~demoted /\ lock \in Anc[Seen] /\ job.pc # "invalidate"
           => lock \in Anc[Seen']]_vars
  BY LockedStep
<1> QED BY <1>1, <1>2, InitFlagInv, StepFlagInv, InitKindInv, StepKindInv, InitCandInv, StepCandInv,
           StepLockInv, PTL DEF Spec, LockedStaysActive

-----------------------------------------------------------------------------
(* Each action keeps BestInv. *)

LEMMA CleanFacts ==
  ASSUME FlagInv
  PROVE  Clean \subseteq Unmarked /\ Clean \subseteq Blocks
<1>1. \A b \in Clean : b \in Blocks /\ b \in Anc[b]
  BY Zenon, AncestorsNest DEF Clean, FlagInv, DataInv
<1> QED BY <1>1 DEF Clean, Unmarked

\* Marking more blocks leaves fewer chains to compare with.
LEMMA CleanShrinks ==
  ASSUME UNCHANGED linked, failed \subseteq failed', conflict \subseteq conflict'
  PROVE  Clean' \subseteq Clean
  BY DEF Clean

\* A handler that owes a call of ActivateBestChain leaves nothing to show.
LEMMA OwedBest ==
  ASSUME owed' = TRUE, ~Held'
  PROVE  BestInv'
  BY Zenon DEF BestInv

LEMMA MarksBest ==
  ASSUME BestInv, ~Held, UNCHANGED <<job, owed, tip, linked, nSequenceId, slipped, demoted>>,
         failed \subseteq failed', conflict \subseteq conflict'
  PROVE  BestInv'
<1>1. Clean' \subseteq Clean
  BY Zenon, CleanShrinks
<1> QED BY Zenon, <1>1 DEF BestInv, NoneBetter, Held, MutexFree

LEMMA EnterBest ==
  ASSUME FlagInv, KindInv, CandInv, job.pc \in {"idle", "rest"}, NEW most, Enter(most),
         UNCHANGED <<tip, received, flags, setBlockIndexCandidates, precious, slipped>>,
         ~slipped /\ ~demoted /\ ~owed' /\ most # None => NoneBetter(most)
  PROVE  BestInv'
<1>1. /\ job'.pc \in {"find", "step"} /\ job'.start = tip /\ job'.most = most
      /\ job'.pc # "idle" /\ ~Held
  BY DEF Enter, NoJob, Held
<1>2. UNCHANGED <<linked, failed, conflict, nSequenceId, demoted>>
  BY DEF received, flags, precious, failed
<1>3. \A t : NoneBetter(t) => \A b \in Clean' : ~Worse(t, b, nSequenceId')
  BY Zenon, <1>2 DEF NoneBetter, Clean
<1>4. ~slipped /\ ~demoted => \A c \in setBlockIndexCandidates : ~Worse(c, tip, nSequenceId)
  BY Zenon, <1>1 DEF CandInv, FreeInv
<1> QED BY Zenon, <1>1, <1>2, <1>3, <1>4 DEF BestInv, MutexFree, NoneBetter

\* FindMostWorkChain takes the best candidate, and every clean chain that is as good
\* as the tip it started from is one.
LEMMA FindBest ==
  ASSUME FlagInv, KindInv, CandInv, BestInv, FindMostWorkChain
  PROVE  BestInv'
<1>1. /\ UNCHANGED <<linked, nSequenceId, slipped, demoted>>
      /\ job.pc = "find" /\ job'.start = job.start /\ Held
      /\ setBlockIndexCandidates' \subseteq setBlockIndexCandidates
      /\ failed \subseteq failed' /\ conflict \subseteq conflict'
  BY Zenon, FindShape DEF Held
<1>2. job' = job \/ /\ job'.pc = "step" /\ job'.most \in setBlockIndexCandidates
                    /\ \A c \in setBlockIndexCandidates : ~Worse(job'.most, c, nSequenceId)
  BY Zenon, FindShape
<1> SUFFICES ASSUME ~slipped, ~demoted
             PROVE  /\ \A c \in setBlockIndexCandidates' : ~Worse(c, job.start, nSequenceId)
                    /\ job'.pc \notin {"idle", "connect", "rest"}
                    /\ job'.pc = "step" => \A b \in Clean' : ~Worse(job'.most, b, nSequenceId)
  BY Zenon, <1>1 DEF BestInv, NoneBetter, MutexFree
<1>3. \A c \in setBlockIndexCandidates : ~Worse(c, job.start, nSequenceId)
  BY Zenon, <1>1 DEF BestInv
<1>4. job'.pc \notin {"idle", "connect", "rest"} /\ (job' = job => job'.pc # "step")
  BY <1>1, <1>2
<1>5. ASSUME job'.pc = "step", NEW b \in Clean'
      PROVE  ~Worse(job'.most, b, nSequenceId)
  <2>1. b \in Unmarked /\ b \in Blocks
    BY Zenon, <1>1, CleanShrinks, CleanFacts
  <2>2. job'.most \in setBlockIndexCandidates /\ job'.most \in Blocks /\ job.start \in Blocks
        /\ nSequenceId \in [Blocks -> Int]
    BY Zenon, <1>1, <1>2, <1>4, <1>5, CandidateFacts
  <2>3. CASE ~Worse(b, job.start, nSequenceId)
    <3>1. b \in setBlockIndexCandidates
      BY Zenon, <1>1, <2>1, <2>3 DEF CandInv, HeldInv
    <3> QED BY Zenon, <1>2, <1>4, <1>5, <3>1
  <2>4. CASE Worse(b, job.start, nSequenceId)
    <3>1. ~Worse(job.start, b, nSequenceId)
      BY Zenon, <2>1, <2>2, <2>4, WorseOneWay
    <3> QED BY Zenon, <1>3, <2>1, <2>2, <3>1, NotWorseChains
  <2> QED BY Zenon, <2>3, <2>4
<1> QED BY Zenon, <1>1, <1>3, <1>4, <1>5

\* ActivateBestChain returns, or ends a round, with nothing to do.
LEMMA NothingBest ==
  ASSUME FlagInv, KindInv, CandInv, BestInv, NothingToDo
  PROVE  BestInv'
<1>1. /\ \/ job.pc = "find" /\ setBlockIndexCandidates = {}
         \/ job.pc = "step" /\ job.most = tip
      /\ job' = IF job.old = None THEN NoJob ELSE [job EXCEPT !.pc = "rest"]
      /\ slipped' = (slipped \/ Worse(tip, job.start, nSequenceId))
      /\ UNCHANGED <<tip, owed, linked, failed, conflict, nSequenceId, demoted>>
  BY DEF NothingToDo, received, flags, precious, failed
<1>2. job \in Jobs /\ (job.pc = "find" => job.most = None) /\ (job.pc = "step" => job.most # None)
  BY Zenon DEF FlagInv, ChainInv
<1>3. job'.pc = "idle" \/ (job'.pc = "rest" /\ job'.most = job.most)
  BY Zenon, <1>1, <1>2, NoJobIdle DEF Jobs
<1> SUFFICES ASSUME ~slipped, ~demoted, ~owed, ~Worse(tip, job.start, nSequenceId),
                    job'.pc = "idle" \/ job'.most # None
             PROVE  /\ NoneBetter(tip)
                    /\ job'.pc = "rest" => job'.most = tip
  <2>1. Clean' = Clean
    BY Zenon, <1>1 DEF Clean
  <2> QED BY Zenon, <1>1, <1>3, <2>1 DEF BestInv, NoneBetter, Held, MutexFree
<1>4. CASE job.pc = "step" /\ job.most = tip
  BY Zenon, <1>2, <1>3, <1>4 DEF BestInv
<1>5. CASE job.pc = "find" /\ setBlockIndexCandidates = {}
  <2>1. HeldInv /\ tip = job.start
    BY Zenon, <1>5 DEF CandInv, Held, HeldInv
  <2>2. ASSUME NEW b \in Clean, Worse(tip, b, nSequenceId) PROVE FALSE
    <3>1. b \in Unmarked /\ b \in Blocks
      BY Zenon, CleanFacts
    <3>2. ~Worse(b, tip, nSequenceId)
      BY Zenon, <2>2, <3>1, WorseOneWay, CandidateFacts
    <3> QED BY Zenon, <1>5, <2>1, <3>1, <3>2 DEF HeldInv
  <2>3. job'.pc # "rest"
    BY Zenon, <1>2, <1>3, <1>5
  <2> QED BY Zenon, <2>2, <2>3 DEF NoneBetter
<1> QED BY Zenon, <1>1, <1>4, <1>5

LEMMA ActivateBest ==
  ASSUME FlagInv, KindInv, CandInv, BestInv, Activate
  PROVE  BestInv'
<1>1. CASE ActivateBestChain
  BY Zenon, <1>1, EnterBest DEF ActivateBestChain, MutexFree
<1>2. CASE NextRound
  <2>1. job.pc = "rest" /\ UNCHANGED <<tip, received, flags, setBlockIndexCandidates, precious, slipped, owed>>
    BY Zenon, <1>2 DEF NextRound
  <2>2. ~slipped /\ ~demoted /\ ~owed' /\ job.most # None => NoneBetter(job.most)
    BY Zenon, <2>1 DEF BestInv
  <2>3. CASE job.most # tip
    <3>1. Enter(job.most)
      BY Zenon, <1>2, <2>3 DEF NextRound
    <3> QED BY Zenon, <2>1, <2>2, <3>1, EnterBest
  <2>4. CASE job.most = tip
    <3>1. job'.pc = "idle"
      BY Zenon, <1>2, <2>4, NoJobIdle DEF NextRound
    <3>2. tip \in Blocks
      BY Zenon, CandidateFacts
    <3>3. tip # None
      BY Zenon, <3>2, BlockTreeConstants
    <3>4. UNCHANGED <<linked, failed, conflict, nSequenceId, demoted>>
      BY Zenon, <2>1 DEF received, flags, precious, failed
    <3>5. Clean' = Clean
      BY Zenon, <3>4 DEF Clean
    <3> QED BY Zenon, <2>1, <2>2, <2>4, <3>1, <3>3, <3>4, <3>5 DEF BestInv, NoneBetter, Held
  <2> QED BY Zenon, <2>3, <2>4
<1>3. CASE DisconnectToFork
  <2>1. /\ Held /\ job.pc = "step" /\ job'.pc = "connect" /\ job'.start = job.start
        /\ job'.most = job.most
        /\ UNCHANGED <<linked, failed, conflict, nSequenceId, setBlockIndexCandidates, owed, slipped, demoted>>
    BY <1>3 DEF DisconnectToFork, Held, received, flags, precious, failed, FlagInv, ChainInv, Jobs
  <2>2. Clean' = Clean
    BY Zenon, <2>1 DEF Clean
  <2> QED BY Zenon, <2>1, <2>2 DEF BestInv, NoneBetter, MutexFree
<1>4. CASE ConnectTip
  <2>1. /\ Held /\ job.pc = "connect" /\ job'.start = job.start /\ job'.most = job.most
        /\ job'.pc \in {"step", "connect", "rest"}
        /\ UNCHANGED <<linked, failed, conflict, nSequenceId, slipped, demoted>>
        /\ setBlockIndexCandidates' \subseteq setBlockIndexCandidates
    BY Zenon, <1>4, ConnectShape DEF Held, failed
  <2>2. Clean' = Clean /\ owed' = owed
    BY Zenon, <1>4, <2>1 DEF Clean, ConnectTip
  <2> QED BY Zenon, <2>1, <2>2 DEF BestInv, NoneBetter, MutexFree
<1>5. CASE ConnectTipFails
  <2>1. /\ Held /\ job'.start = job.start /\ job'.pc \in {"find", "rest"}
        /\ UNCHANGED <<nSequenceId, slipped, demoted>>
        /\ setBlockIndexCandidates' \subseteq setBlockIndexCandidates
    BY Zenon, <1>5, ConnectFailsShape DEF Held
  <2>2. job'.most = None
    BY Zenon, <1>5 DEF ConnectTipFails, AfterStep, FlagInv, ChainInv, Jobs
  <2> QED BY Zenon, <2>1, <2>2 DEF BestInv, MutexFree
<1> QED BY Zenon, <1>1, <1>2, <1>3, <1>4, <1>5, FindBest, NothingBest DEF Activate

LEMMA StepBestInv == FlagInv /\ KindInv /\ CandInv /\ BestInv /\ [Next]_vars => BestInv'
<1> SUFFICES ASSUME FlagInv, KindInv, CandInv, BestInv, [Next]_vars PROVE BestInv'
  BY Zenon
<1>1. CASE UNCHANGED vars
  <2>1. UNCHANGED <<job, owed, tip, linked, nSequenceId, setBlockIndexCandidates, slipped, demoted, failed, conflict>>
    BY Zenon, <1>1 DEF vars, received, flags, precious, failed
  <2>2. Clean' = Clean
    BY Zenon, <2>1 DEF Clean
  <2> QED BY Zenon, <2>1, <2>2 DEF BestInv, NoneBetter, Held, MutexFree
<1>2. ASSUME NEW b \in Blocks,
             AcceptBlockHeader(b) \/ AcceptBlockHeaderRefused(b) \/ Lock(b)
      PROVE  BestInv'
  <2>1. /\ ~Held /\ UNCHANGED <<job, owed, tip, linked, nSequenceId, slipped, demoted>>
        /\ failed \subseteq failed' /\ conflict \subseteq conflict'
    BY <1>2 DEF AcceptBlockHeader, AcceptBlockHeaderRefused, Lock, received, flags, precious, failed
  <2> QED BY Zenon, <2>1, MarksBest
<1>3. ASSUME NEW b \in Blocks, AcceptBlock(b) PROVE BestInv'
  <2>1. CASE b \in Malformed
    <3>1. /\ ~Held /\ UNCHANGED <<job, owed, tip, linked, nSequenceId, slipped, demoted>>
          /\ failed \subseteq failed' /\ conflict \subseteq conflict'
      BY <1>3, <2>1 DEF AcceptBlock, precious, failed
    <3> QED BY Zenon, <3>1, MarksBest
  <2>2. CASE b \notin Malformed
    <3>1. owed' = TRUE /\ job' = job /\ ~Held
      BY Zenon, <1>3, <2>2 DEF AcceptBlock
    <3> QED BY Zenon, <3>1, OwedBest DEF Held
  <2> QED BY Zenon, <2>1, <2>2
<1>4. ASSUME NEW b \in Blocks, ResetBlockFailureFlags(b) \/ PreciousBlock(b) PROVE BestInv'
  <2>1. owed' = TRUE /\ job' = job /\ ~Held
    BY Zenon, <1>4 DEF ResetBlockFailureFlags, PreciousBlock
  <2> QED BY Zenon, <2>1, OwedBest DEF Held
<1>5. ASSUME NEW b \in Blocks, InvalidateBlock(b) PROVE BestInv'
  <2>1. job'.pc = "invalidate"
    BY <1>5 DEF InvalidateBlock, NoJob
  <2> QED BY Zenon, <2>1 DEF BestInv, Held, MutexFree
<1>6. CASE InvalidateTip
  <2>1. job'.pc = "invalidate"
    BY Zenon, <1>6 DEF InvalidateTip, FlagInv, ChainInv, Jobs
  <2> QED BY Zenon, <2>1 DEF BestInv, Held, MutexFree
<1>7. CASE InvalidateDone
  <2>1. owed' = TRUE /\ ~Held'
    BY Zenon, <1>7, NoJobIdle DEF InvalidateDone, Held
  <2> QED BY Zenon, <2>1, OwedBest
<1>8. CASE EnforceBestChainLock
  <2>1. owed' = TRUE /\ ~Held'
    BY Zenon, <1>8 DEF EnforceBestChainLock, MutexFree, Held
  <2> QED BY Zenon, <2>1, OwedBest
<1> QED BY <1>1, <1>2, <1>3, <1>4, <1>5, <1>6, <1>7, <1>8, ActivateBest DEF Next

\* Unless the tip came to sort worse, a node where no ActivateBestChain runs or is
\* owed is on its best chain: every better linked block has an invalid or conflicting
\* block in its chain.  That is SettlesOnBest for a node that comes to rest, also when
\* blocks arrived and were marked between the rounds of ActivateBestChain.
THEOREM AtRestOnBest == Spec => []RestsOnBest
<1>1. Init => BestInv
  <2>1. Init => Clean \subseteq {Root} /\ tip = Root
    BY Zenon DEF Init, Clean
  <2>2. Init => nSequenceId \in [Blocks -> Int]
    BY Zenon, InitKindInv DEF KindInv
  <2>3. Init => job.pc = "idle"
    BY Zenon, NoJobIdle DEF Init
  <2>4. Root \in Blocks
    BY Zenon, BlockTreeConstants
  <2> QED BY Zenon, <2>1, <2>2, <2>3, <2>4, WorseOneWay DEF BestInv, NoneBetter, Held
<1>2. BestInv => RestsOnBest
  BY Zenon DEF BestInv, RestsOnBest
<1> QED BY <1>1, <1>2, InitFlagInv, StepFlagInv, InitKindInv, StepKindInv, InitCandInv, StepCandInv,
           StepBestInv, PTL DEF Spec
=============================================================================
