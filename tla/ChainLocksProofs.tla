-------------------------- MODULE ChainLocksProofs --------------------------
(***************************************************************************)
(* For every block tree, every set of threads, quorums and messages: the    *)
(* winner slot of CChainLocksHandler is consistent, the handler implements  *)
(* ChainLockWinner, and enforcing a winner that is in force reorganises at  *)
(* most one sign window.                                                    *)
(*                                                                          *)
(* Facts about ranks and quorums come first, and what a thread knows at     *)
(* each place of the code last (ThreadInv): both serve                      *)
(* ChainLocksThreadProofs.                                                  *)
(***************************************************************************)
EXTENDS ChainLocks, TLAPS, WellFoundedInduction, FiniteSetTheorems

\* The parent of a block, and its ancestors, are on every chain with the block.
LEMMA ParentBelow ==
  ASSUME NEW c \in Blocks, NEW b \in Blocks \ {Root}, b \in Anc[c]
  PROVE  pprev[b] \in Anc[b] /\ Anc[b] \subseteq Anc[c]
<1>1. pprev[b] \in Blocks /\ Anc[b] = Anc[pprev[b]] \cup {b}
  BY BlockTreeConstants
<1>2. pprev[b] \in Anc[pprev[b]] /\ Anc[b] \subseteq Anc[c]
  BY Zenon, <1>1, AncestryAssumption
<1> QED BY Zenon, <1>1, <1>2

-----------------------------------------------------------------------------
(* Ranks: the quorums by their age, the signers by their position. *)

\* The elements of S in descending order of f, counted from 1.
Rank(S, f, x) == Cardinality({y \in S : f[y] >= f[x]})

\* Two elements have different ranks, and a rank counts elements of S.
LEMMA RankInjective ==
  ASSUME NEW S, IsFiniteSet(S), NEW f \in [S -> Int],
         \A x, y \in S : f[x] = f[y] => x = y
  PROVE  /\ \A x \in S : Rank(S, f, x) \in 1..Cardinality(S)
         /\ \A x, y \in S : Rank(S, f, x) = Rank(S, f, y) => x = y
<1> DEFINE above(x) == {y \in S : f[y] >= f[x]}
<1>1. \A x \in S : /\ above(x) \subseteq S /\ x \in above(x) /\ IsFiniteSet(above(x))
                   /\ Cardinality(above(x)) \in Nat
                   /\ Cardinality(above(x)) <= Cardinality(S)
                   /\ Cardinality(above(x)) # 0
  <2> TAKE x \in S
  <2>1. above(x) \subseteq S /\ x \in above(x)
    BY SMT, Z3, SMTT(10), Z3T(10)
  <2>2. IsFiniteSet(above(x)) /\ Cardinality(above(x)) <= Cardinality(S)
    BY Zenon, <2>1, FS_Subset
  <2>3. Cardinality(above(x)) \in Nat /\ Cardinality(above(x)) # 0
    BY Zenon, <2>1, <2>2, FS_CardinalityType, FS_EmptySet
  <2>4. QED
    BY Zenon, <2>1, <2>2, <2>3
<1>2. Cardinality(S) \in Nat
  BY Zenon, FS_CardinalityType
<1>3. ASSUME NEW x \in S, NEW y \in S, f[x] < f[y]
      PROVE  Cardinality(above(y)) # Cardinality(above(x))
  <2>1. above(y) \subseteq above(x) /\ x \notin above(y) /\ x \in above(x)
    BY SMT, Z3, SMTT(10), Z3T(10), <1>3
  <2>2. above(x) # above(y)
    BY Zenon, <2>1
  <2>3. QED
    BY Zenon, <1>1, <2>1, <2>2, FS_Subset
<1>4. \A x \in S : Rank(S, f, x) = Cardinality(above(x))
  BY Zenon DEF Rank
<1> HIDE DEF above
<1>5. \A x \in S : Rank(S, f, x) \in 1..Cardinality(S)
  BY SMT, Z3, SMTT(10), Z3T(10), <1>1, <1>2, <1>4
<1>6. ASSUME NEW x \in S, NEW y \in S, Rank(S, f, x) = Rank(S, f, y)
      PROVE  x = y
  <2>1. ~(f[x] < f[y]) /\ ~(f[y] < f[x])
    BY Zenon, <1>3, <1>4, <1>6
  <2>2. QED
    BY SMT, Z3, SMTT(10), Z3T(10), <2>1
<1>7. QED
  BY Zenon, <1>5, <1>6

\* The first k elements are k, one of each rank.
LEMMA FirstRanks ==
  ASSUME NEW S, IsFiniteSet(S), NEW f \in [S -> Int],
         \A x, y \in S : f[x] = f[y] => x = y,
         NEW k \in Nat, k <= Cardinality(S)
  PROVE  LET first == {x \in S : Rank(S, f, x) <= k}
         IN /\ IsFiniteSet(first) /\ Cardinality(first) = k
            /\ \A i \in 1..k : \E x \in first : Rank(S, f, x) = i
<1> DEFINE n == Cardinality(S)
           first == {x \in S : Rank(S, f, x) <= k}
           g == [x \in S |-> Rank(S, f, x)]
           h == [x \in first |-> Rank(S, f, x)]
<1>0. n \in Nat
  BY Zenon, FS_CardinalityType
<1>1. g \in Injection(S, 1..n)
  BY SMT, Z3, SMTT(10), Z3T(10), RankInjective DEF Injection, IsInjective
<1>2. IsFiniteSet(1..n) /\ Cardinality(1..n) = n
  BY SMT, Z3, SMTT(10), Z3T(10), <1>0, FS_Interval
<1>3. g \in Surjection(S, 1..n)
  BY Zenon, <1>1, <1>2, FS_Injection
<1>4. \A i \in 1..n : \E x \in S : Rank(S, f, x) = i
  BY Zenon, <1>3 DEF Surjection
<1>5. \A i \in 1..k : \E x \in first : Rank(S, f, x) = i
  <2> TAKE i \in 1..k
  <2>1. PICK x \in S : Rank(S, f, x) = i
    BY SMT, Z3, SMTT(10), Z3T(10), <1>0, <1>4
  <2>2. QED
    BY SMT, Z3, SMTT(10), Z3T(10), <2>1
<1>6. IsFiniteSet(first)
  BY Zenon, FS_Subset
<1>7. h \in [first -> 1..k]
  BY SMT, Z3, SMTT(10), Z3T(10), RankInjective
<1>8. h \in Injection(first, 1..k)
  BY SMT, Z3, SMTT(10), Z3T(10), <1>7, RankInjective DEF Injection, IsInjective
<1>9. h \in Surjection(first, 1..k)
  BY Zenon, <1>5, <1>7 DEF Surjection
<1>10. IsFiniteSet(1..k) /\ Cardinality(1..k) = k
  BY SMT, Z3, SMTT(10), Z3T(10), FS_Interval
<1>11. Cardinality(first) = k
  BY Zenon, <1>8, <1>9, <1>10, FS_Injection
<1>12. QED
  BY Zenon, <1>5, <1>6, <1>11

\* An injection on a set keeps its size.
LEMMA ImageSize ==
  ASSUME NEW S, IsFiniteSet(S), NEW f, S \subseteq DOMAIN f,
         \A x, y \in S : f[x] = f[y] => x = y
  PROVE  Cardinality({f[x] : x \in S}) = Cardinality(S)
<1> DEFINE T == {f[x] : x \in S}
           g == [x \in S |-> f[x]]
<1>1. g \in Surjection(S, T) /\ g \in Injection(S, T)
  BY Zenon DEF Surjection, Injection, IsInjective
<1>2. QED
  BY Zenon, <1>1, FS_Surjection

-----------------------------------------------------------------------------
(* The quorums of a context, and what they sign. *)

\* What StableContext lets pass: as many different quorums as sign.
Vector(quorums) ==
  /\ quorums \in [Indexes -> Quorums]
  /\ \A i, j \in Indexes : quorums[i] = quorums[j] => i = j

LEMMA VectorFacts ==
  ASSUME NEW quorums, Vector(quorums)
  PROVE  /\ quorums \in Seq(Quorums) /\ Len(quorums) = signingActiveQuorumCount
         /\ DOMAIN quorums = Indexes
         /\ signingActiveQuorumCount \in Nat \ {0}
  BY SMT, Z3, SMTT(10), Z3T(10), ChainLocksConstants DEF Vector, Indexes

\* ScanQuorums returns different quorums, when it finds as many as sign.
LEMMA ScanVector ==
  ASSUME tip \in Blocks, NEW b \in Blocks,
         Len(ScanQuorums(b)) = signingActiveQuorumCount
  PROVE  Vector(ScanQuorums(b))
<1> DEFINE mined == {q \in Quorums : MinedIn[q] \in Anc[b] \cap Anc[tip]}
           f == [q \in mined |-> BaseHeight[q]]
           rank(q) == Cardinality({p \in mined : BaseHeight[p] >= BaseHeight[q]})
           found == {q \in mined : rank(q) <= signingActiveQuorumCount}
           n == Cardinality(found)
<1>1. IsFiniteSet(mined) /\ signingActiveQuorumCount \in Nat \ {0}
  BY Zenon, FS_Subset, ChainLocksConstants
<1>2. f \in [mined -> Int] /\ \A x, y \in mined : f[x] = f[y] => x = y
  BY Zenon, ChainLocksConstants, OneQuorumPerSession
<1>3. \A q \in mined : rank(q) = Rank(mined, f, q)
  <2> TAKE q \in mined
  <2>1. {p \in mined : BaseHeight[p] >= BaseHeight[q]} = {p \in mined : f[p] >= f[q]}
    BY Zenon
  <2>2. QED
    BY Zenon, <2>1 DEF Rank
<1>4. found = {q \in mined : Rank(mined, f, q) <= signingActiveQuorumCount}
  BY Zenon, <1>3
<1>5. ScanQuorums(b) = [i \in 1..n |-> CHOOSE q \in found : rank(q) = i]
  BY Zenon DEF ScanQuorums
<1>6. Cardinality(mined) \in Nat /\ IsFiniteSet(found) /\ n \in Nat
  <2>1. found \subseteq mined
    BY Zenon
  <2>2. QED
    BY Zenon, <1>1, <2>1, FS_Subset, FS_CardinalityType
<1> HIDE DEF mined, f, found, n, rank
<1>7. n = signingActiveQuorumCount
  <2> DEFINE s == [i \in 1..n |-> CHOOSE q \in found : rank(q) = i]
  <2>1. Len(s) = n
    BY SMT, Z3, SMTT(10), Z3T(10), <1>6
  <2>2. QED
    BY Zenon, <1>5, <2>1
<1>8. signingActiveQuorumCount <= Cardinality(mined)
  <2>1. found \in SUBSET mined
    BY Zenon DEF found
  <2>2. Cardinality(found) <= Cardinality(mined)
    BY Zenon, <1>1, <2>1, FS_Subset
  <2>3. QED
    BY Zenon, <1>7, <2>2 DEF n
<1>9. \A i \in 1..n : \E q \in found : Rank(mined, f, q) = i
  BY SMT, Z3, SMTT(10), Z3T(10), <1>1, <1>2, <1>4, <1>7, <1>8, FirstRanks
<1>10. \A q \in found : q \in mined /\ q \in Quorums /\ rank(q) = Rank(mined, f, q)
  BY Zenon, <1>3 DEF found, mined
<1>11. \A i \in 1..n : ScanQuorums(b)[i] \in found /\ rank(ScanQuorums(b)[i]) = i
  BY Zenon, <1>5, <1>9, <1>10
<1>12. ScanQuorums(b) \in [Indexes -> Quorums]
  BY Zenon, <1>5, <1>7, <1>10, <1>11 DEF Indexes
<1>13. \A i, j \in Indexes : ScanQuorums(b)[i] = ScanQuorums(b)[j] => i = j
  BY Zenon, <1>7, <1>11 DEF Indexes
<1>14. QED
  BY Zenon, <1>12, <1>13 DEF Vector

LEMMA StableVector ==
  ASSUME tip \in Blocks, NEW b \in Blocks, NEW active, NEW common,
         StableContext(b, active, common, ScanQuorums(b))
  PROVE  Vector(ScanQuorums(b))
  BY Zenon, ScanVector DEF StableContext

\* A CLSIG whose signatures are of quorums that signed its block; enough of them.
Genuine(c) == c \in CLSig /\ \A q \in c.sig : c.block \in Signed[q]
Certified(c) == Genuine(c) /\ Cardinality(c.sig) >= threshold

GenuineShare(s) ==
  s \in [block : Blocks, quorum : Quorums, index : Indexes] /\ s.block \in Signed[s.quorum]

LEMMA ThresholdFacts ==
  /\ threshold \in Nat /\ threshold >= 1
  /\ IsFiniteSet(Indexes) /\ \A S \in SUBSET Indexes : IsFiniteSet(S) /\ Cardinality(S) \in Nat
<1>1. signingActiveQuorumCount \in Nat \ {0}
  BY Zenon, ChainLocksConstants
<1>2. threshold \in Nat /\ threshold >= 1
  BY SMT, Z3, SMTT(10), Z3T(10), <1>1 DEF threshold
<1>3. IsFiniteSet(Indexes)
  BY SMT, Z3, SMTT(10), Z3T(10), <1>1, FS_Interval DEF Indexes
<1>4. \A S \in SUBSET Indexes : IsFiniteSet(S) /\ Cardinality(S) \in Nat
  BY Zenon, <1>3, FS_Subset, FS_CardinalityType
<1>5. QED
  BY Zenon, <1>2, <1>3, <1>4

\* What Aggregate puts together from genuine shares is certified.
LEMMA AggregateCertified ==
  ASSUME NEW b \in Blocks, NEW quorums, Vector(quorums),
         NEW shares, \A s \in shares : GenuineShare(s),
         NEW c \in Aggregate(b, quorums, shares)
  PROVE  Certified(c)
<1> DEFINE usable == {i \in DOMAIN quorums :
                        \E s \in shares : s = [block |-> b, quorum |-> quorums[i], index |-> i]}
           f == [i \in usable |-> -i]
           first == {i \in usable : Cardinality({j \in usable : j <= i}) <= threshold}
<1>1. /\ Cardinality(usable) >= threshold
      /\ c = [block |-> b, signers |-> first, sig |-> {quorums[i] : i \in first}]
  BY Zenon DEF Aggregate
<1>2. usable \subseteq Indexes /\ first \subseteq usable /\ DOMAIN quorums = Indexes
  BY Zenon, VectorFacts
<1>3. IsFiniteSet(usable) /\ Cardinality(usable) \in Nat /\ IsFiniteSet(first)
      /\ threshold \in Nat
  BY Zenon, <1>2, ThresholdFacts
<1>4. \A i \in usable : quorums[i] \in Quorums /\ b \in Signed[quorums[i]]
  <2> TAKE i \in usable
  <2>1. GenuineShare([block |-> b, quorum |-> quorums[i], index |-> i])
    BY Zenon
  <2>2. QED
    BY Zenon, <2>1 DEF GenuineShare
<1>5. f \in [usable -> Int] /\ \A x, y \in usable : f[x] = f[y] => x = y
  BY SMT, Z3, SMTT(10), Z3T(10), <1>2 DEF Indexes
<1>6. \A i \in usable : {j \in usable : j <= i} = {j \in usable : f[j] >= f[i]}
  BY SMT, Z3, SMTT(10), Z3T(10), <1>2 DEF Indexes
<1>7. first = {i \in usable : Rank(usable, f, i) <= threshold}
  BY Zenon, <1>6 DEF Rank
<1> HIDE DEF usable, f, first
<1>8. Cardinality(first) = threshold
  BY SMT, Z3, SMTT(10), Z3T(10), <1>1, <1>3, <1>5, <1>7, FirstRanks
<1>9. Cardinality({quorums[i] : i \in first}) = Cardinality(first)
  <2>1. \A x, y \in first : quorums[x] = quorums[y] => x = y
    BY Zenon, <1>2 DEF Vector
  <2>2. first \subseteq DOMAIN quorums
    BY Zenon, <1>2
  <2>3. QED
    BY Zenon, <1>3, <2>1, <2>2, ImageSize
<1>10. Genuine(c)
  BY Zenon, <1>1, <1>2, <1>4 DEF Genuine, CLSig
<1>11. QED
  BY SMT, Z3, SMTT(10), Z3T(10), <1>1, <1>3, <1>8, <1>9, <1>10 DEF Certified

\* Nothing is put together without quorums.
LEMMA AggregateNothing ==
  ASSUME NEW b, NEW shares
  PROVE  Aggregate(b, <<>>, shares) = {}
<1> DEFINE usable == {i \in DOMAIN <<>> :
                        \E s \in shares : s = [block |-> b, quorum |-> <<>>[i], index |-> i]}
<1>1. usable = {}
  BY SMT, Z3, SMTT(10), Z3T(10)
<1>2. Cardinality(usable) = 0
  BY Zenon, <1>1, FS_EmptySet
<1> HIDE DEF usable
<1>3. ~(Cardinality(usable) >= threshold)
  BY SMT, Z3, SMTT(10), Z3T(10), <1>2, ThresholdFacts
<1>4. QED
  BY Zenon, <1>3 DEF Aggregate, usable

-----------------------------------------------------------------------------
(* The winner slot. *)

\* What the proofs look at; all but six actions leave it alone.
slot == <<validScripts, isEnforced, bestChainLockWithKnownBlock,
          bestChainLockBlockIndex, bestChainLockCandidates>>

-----------------------------------------------------------------------------
\* A CLSIG for a block of the tree has that block's height, the empty one -1.
LEMMA HeightOfFacts ==
  /\ \A c : c.block \in Blocks => HeightOf(c) = nHeight[c.block] /\ HeightOf(c) \in Nat
  /\ \A c : c.block = None => HeightOf(c) = -1
  /\ HeightOf(NoSig) = -1
BY BlockTreeConstants DEF HeightOf, NoSig

\* What becomes the best ChainLock is one for b, above the best there is.
LEMMA NewBestFacts ==
  ASSUME NEW b \in Blocks, NEW quorums, NEW candidates, NEW shares,
         NEW c \in NewBest(b, quorums, candidates, shares),
         bestChainLockWithKnownBlock.block \in Blocks \cup {None}
  PROVE  /\ c.block = b
         /\ nHeight[b] > HeightOf(bestChainLockWithKnownBlock)
<1>1. nHeight[b] \in Nat /\ HeightOf(bestChainLockWithKnownBlock) \in Int
  BY SMT, Z3, SMTT(10), Z3T(10), HeightOfFacts, BlockTreeConstants
<1>2. ~(nHeight[b] <= HeightOf(bestChainLockWithKnownBlock))
  BY DEF NewBest
<1>3. c.block = b
  <2>1. CASE AtHeight(candidates, nHeight[b]) # {}
    BY <1>2, <2>1 DEF NewBest
  <2>2. CASE AtHeight(candidates, nHeight[b]) = {}
    <3>1. c \in Aggregate(b, quorums, shares)
      BY <1>2, <2>2 DEF NewBest
    <3>2. QED
      BY SMT, Z3, SMTT(10), Z3T(10), <3>1 DEF Aggregate
  <2>3. QED
    BY <2>1, <2>2
<1>4. QED
  BY SMT, Z3, SMTT(10), Z3T(10), <1>1, <1>2, <1>3

\* TryUpdateBestChainLock, called with a block that descends from the winner or
\* is not above it, keeps the slot consistent and moves the winner downstream
\* or not at all.
LEMMA TryUpdateStep ==
  ASSUME WinnerInv, NEW b \in Blocks, NEW quorums, NEW candidates, NEW shares,
         \A c \in candidates :
           /\ c.block \in Blocks
           /\ c.block = b \/ HeightOf(c) <= HeightOf(bestChainLockWithKnownBlock),
         \/ nHeight[b] <= HeightOf(bestChainLockWithKnownBlock)
         \/ bestChainLockWithKnownBlock = NoSig
         \/ bestChainLockWithKnownBlock.block \in Anc[b],
         TryUpdateBestChainLock(b, quorums, candidates, shares)
  PROVE  /\ bestChainLockBlockIndex' \in Blocks \cup {None}
         /\ \A c \in bestChainLockCandidates' : c.block \in Blocks
         /\ WinnerSlot'
         /\ \/ bestChainLockBlockIndex' = bestChainLockBlockIndex
            \/ /\ bestChainLockBlockIndex' = b
               /\ \/ bestChainLockBlockIndex = None
                  \/ bestChainLockBlockIndex \in Anc[b] \ {b}
<1> DEFINE best == bestChainLockWithKnownBlock
<1>1. /\ best.block = bestChainLockBlockIndex
      /\ best.block \in Blocks \cup {None}
      /\ HeightOf(best) \in Int
      /\ nHeight[b] \in Nat
  BY SMT, Z3, SMTT(10), Z3T(10), HeightOfFacts, BlockTreeConstants DEF WinnerInv, WinnerSlot
<1>2. \A c \in candidates : HeightOf(c) \in Nat
  BY HeightOfFacts
<1>3. CASE NewBest(b, quorums, candidates, shares) = {}
  <2>1. UNCHANGED <<bestChainLockWithKnownBlock, bestChainLockBlockIndex>>
        /\ bestChainLockCandidates' = candidates
    BY <1>3 DEF TryUpdateBestChainLock
  <2>2. \A c \in candidates : HeightOf(c) <= HeightOf(best)
    <3>1. SUFFICES ASSUME NEW c \in candidates, c.block = b
                   PROVE  HeightOf(c) <= HeightOf(best)
      OBVIOUS
    <3>2. HeightOf(c) = nHeight[b]
      BY <3>1, HeightOfFacts
    <3>3. c \in AtHeight(candidates, nHeight[b])
      BY <3>1, <3>2 DEF AtHeight
    <3>4. nHeight[b] <= HeightOf(best)
      BY <1>3, <3>1, <3>3 DEF NewBest
    <3>5. QED
      BY <3>2, <3>4
  <2>3. WinnerSlot'
    BY <1>1, <2>1, <2>2 DEF WinnerSlot, HeightOf
  <2>4. QED
    BY <1>1, <2>1, <2>3
<1>4. ASSUME NEW c \in NewBest(b, quorums, candidates, shares),
             bestChainLockWithKnownBlock' = c,
             bestChainLockBlockIndex' = b,
             bestChainLockCandidates' = Put(candidates, c)
      PROVE  /\ bestChainLockBlockIndex' \in Blocks \cup {None}
             /\ \A d \in bestChainLockCandidates' : d.block \in Blocks
             /\ WinnerSlot'
             /\ bestChainLockBlockIndex = None \/ bestChainLockBlockIndex \in Anc[b] \ {b}
  <2>1. c.block = b /\ nHeight[b] > HeightOf(best)
    BY <1>1, NewBestFacts
  <2>2. HeightOf(c) = nHeight[b]
    BY <2>1, HeightOfFacts
  <2>3. \A d \in Put(candidates, c) :
          d.block \in Blocks /\ HeightOf(d) <= HeightOf(c)
    <3>1. SUFFICES ASSUME NEW d \in candidates
                   PROVE  d.block \in Blocks /\ HeightOf(d) <= HeightOf(c)
      BY SMT, Z3, SMTT(10), Z3T(10), <1>1, <2>1, <2>2 DEF Put
    <3>2. d.block = b => HeightOf(d) = nHeight[b]
      BY HeightOfFacts
    <3>3. QED
      BY SMT, Z3, SMTT(10), Z3T(10), <1>1, <1>2, <2>1, <2>2, <3>2
  <2>4. WinnerSlot'
    BY <1>4, <2>1, <2>3 DEF WinnerSlot, HeightOf
  <2>5. bestChainLockBlockIndex = None \/ bestChainLockBlockIndex \in Anc[b] \ {b}
    <3>1. CASE best = NoSig
      BY <1>1, <3>1 DEF NoSig
    <3>2. CASE best # NoSig
      <4>1. best.block \in Anc[b]
        BY SMT, Z3, SMTT(10), Z3T(10), <1>1, <2>1, <3>2
      <4>2. best.block # b
        BY SMT, Z3, SMTT(10), Z3T(10), <1>1, <2>1, HeightOfFacts
      <4>3. QED
        BY <1>1, <4>1, <4>2
    <3>3. QED
      BY <3>1, <3>2
  <2>6. QED
    BY <1>4, <2>3, <2>4, <2>5
<1>5. QED
  BY <1>3, <1>4 DEF TryUpdateBestChainLock

\* IsCandidateStillAdmissible accepts only known blocks below the winner.
LEMMA AdmissibleFacts ==
  ASSUME WinnerInv, NEW b, IsCandidateStillAdmissible(b)
  PROVE  /\ b \in Blocks
         /\ bestChainLockWithKnownBlock = NoSig \/ bestChainLockWithKnownBlock.block \in Anc[b]
BY DEF WinnerInv, IsCandidateStillAdmissible, HasChainLockTargetDataAndValidity

-----------------------------------------------------------------------------
(* One step of Next, as far as the slot is concerned. *)

\* The step the winner may take: none, to a descendant, or with enforcement.
WinnerStep == [Winner!Next]_<<bestChainLockBlockIndex, isEnforced>>

Preserved == WinnerInv' /\ WinnerStep

\* A step that leaves the slot alone.
LEMMA SlotUnchanged ==
  ASSUME WinnerInv, UNCHANGED slot
  PROVE  Preserved
BY DEF Preserved, WinnerInv, WinnerSlot, WinnerStep, slot, HeightOf

\* Publication and late headers, through TryUpdateBestChainLock.
LEMMA PublishPreserves ==
  ASSUME WinnerInv, NEW b \in Blocks, NEW quorums, NEW candidates, NEW shares,
         \A c \in candidates :
           /\ c.block \in Blocks
           /\ c.block = b \/ HeightOf(c) <= HeightOf(bestChainLockWithKnownBlock),
         \/ nHeight[b] <= HeightOf(bestChainLockWithKnownBlock)
         \/ bestChainLockWithKnownBlock = NoSig
         \/ bestChainLockWithKnownBlock.block \in Anc[b],
         TryUpdateBestChainLock(b, quorums, candidates, shares),
         UNCHANGED <<validScripts, isEnforced>>
  PROVE  Preserved
<1>1. /\ bestChainLockBlockIndex' \in Blocks \cup {None}
      /\ \A c \in bestChainLockCandidates' : c.block \in Blocks
      /\ WinnerSlot'
      /\ \/ bestChainLockBlockIndex' = bestChainLockBlockIndex
         \/ /\ bestChainLockBlockIndex' = b
            /\ \/ bestChainLockBlockIndex = None
               \/ bestChainLockBlockIndex \in Anc[b] \ {b}
  BY TryUpdateStep
<1>2. WinnerInv'
  BY <1>1 DEF WinnerInv
<1>3. WinnerStep
  BY <1>1 DEF WinnerStep, Winner!Next, Winner!Lock
<1>4. QED
  BY <1>2, <1>3 DEF Preserved

LEMMA PublishSharePreserves ==
  ASSUME WinnerInv, NEW t \in Threads, PublishShare(t)
  PROVE  Preserved
<1> DEFINE b == call[t].clsig.block
<1>1. IsCandidateStillAdmissible(b)
  BY DEF PublishShare, StillPublishable
<1>2. TryUpdateBestChainLock(b, call[t].quorums, bestChainLockCandidates, WithShare(call[t]))
  BY DEF PublishShare
<1>3. UNCHANGED <<validScripts, isEnforced>>
  BY DEF PublishShare, chainVars
<1>4. \A c \in bestChainLockCandidates :
        c.block \in Blocks /\ HeightOf(c) <= HeightOf(bestChainLockWithKnownBlock)
  BY DEF WinnerInv, WinnerSlot
<1>5. QED
  BY <1>1, <1>2, <1>3, <1>4, AdmissibleFacts, PublishPreserves

LEMMA PublishAggregatePreserves ==
  ASSUME WinnerInv, NEW t \in Threads, PublishAggregate(t)
  PROVE  Preserved
<1> DEFINE b == call[t].clsig.block
           candidates == Put(bestChainLockCandidates, call[t].clsig)
<1>1. IsCandidateStillAdmissible(b)
  BY DEF PublishAggregate, StillPublishable
<1>2. TryUpdateBestChainLock(b, <<>>, candidates, bestChainLockShares)
  BY DEF PublishAggregate
<1>3. UNCHANGED <<validScripts, isEnforced>>
  BY DEF PublishAggregate, chainVars
<1>4. b \in Blocks
  BY <1>1, AdmissibleFacts
<1>5. \A c \in candidates :
        /\ c.block \in Blocks
        /\ c.block = b \/ HeightOf(c) <= HeightOf(bestChainLockWithKnownBlock)
  BY <1>4 DEF WinnerInv, WinnerSlot, Put
<1>6. QED
  BY <1>1, <1>2, <1>3, <1>4, <1>5, AdmissibleFacts, PublishPreserves

LEMMA NotifyHeaderTipPreserves ==
  ASSUME WinnerInv, NEW b \in Blocks, NotifyHeaderTip(b)
  PROVE  Preserved
<1>1. \A c \in bestChainLockCandidates :
        c.block \in Blocks /\ HeightOf(c) <= HeightOf(bestChainLockWithKnownBlock)
  BY DEF WinnerInv, WinnerSlot
<1>2. nHeight[b] <= HeightOf(bestChainLockWithKnownBlock)
  BY <1>1, HeightOfFacts DEF NotifyHeaderTip
<1>3. UNCHANGED <<validScripts, isEnforced>>
  BY DEF NotifyHeaderTip, chainVars
<1>4. QED
  BY <1>1, <1>2, <1>3, PublishPreserves DEF NotifyHeaderTip

LEMMA SetActiveStatePreserves ==
  ASSUME WinnerInv, NEW t \in Threads, SetActiveState(t)
  PROVE  Preserved
<1>1. UNCHANGED validScripts /\ isEnforced' = At(t, "SporkActive") /\ isEnforced' \in BOOLEAN
  BY DEF SetActiveState, chainVars, At
<1>2. CASE ~isEnforced /\ At(t, "SporkActive")
  <2>1. /\ bestChainLockWithKnownBlock' = NoSig
        /\ bestChainLockBlockIndex' = None
        /\ bestChainLockCandidates' = {}
    BY <1>2 DEF SetActiveState
  <2>2. WinnerInv'
    BY <1>1, <2>1 DEF WinnerInv, WinnerSlot, NoSig
  <2>3. WinnerStep
    BY <1>1, <1>2, <2>1 DEF WinnerStep, Winner!Next, Winner!Activate
  <2>4. QED
    BY <2>2, <2>3 DEF Preserved
<1>3. CASE ~(~isEnforced /\ At(t, "SporkActive"))
  <2>1. UNCHANGED <<bestChainLockWithKnownBlock, bestChainLockBlockIndex,
                    bestChainLockCandidates>>
    BY <1>3 DEF SetActiveState, bestVars
  <2>2. WinnerInv'
    BY <1>1, <2>1 DEF WinnerInv, WinnerSlot, HeightOf
  <2>3. WinnerStep
    BY <1>1, <1>3, <2>1 DEF WinnerStep, Winner!Next, Winner!Deactivate, WinnerInv
  <2>4. QED
    BY <2>2, <2>3 DEF Preserved
<1>4. QED
  BY <1>2, <1>3

LEMMA CleanupPreserves ==
  ASSUME WinnerInv, NEW t \in Threads, Cleanup(t)
  PROVE  Preserved
<1>1. UNCHANGED <<validScripts, isEnforced, bestChainLockWithKnownBlock,
                  bestChainLockBlockIndex>>
  BY DEF Cleanup, shared, chainVars, winnerVars, bestVars
<1>2. bestChainLockCandidates' \subseteq bestChainLockCandidates
  BY DEF Cleanup, shared, winnerVars, bestVars, Pruned
<1>3. WinnerInv'
  BY <1>1, <1>2 DEF WinnerInv, WinnerSlot, HeightOf
<1>4. QED
  BY <1>1, <1>3 DEF Preserved, WinnerStep

LEMMA ConnectTipPreserves ==
  ASSUME WinnerInv, NEW b \in Blocks, ConnectTip(b)
  PROVE  Preserved
<1>1. UNCHANGED <<isEnforced, bestChainLockWithKnownBlock, bestChainLockBlockIndex,
                  bestChainLockCandidates>>
  BY DEF ConnectTip, winnerVars, bestVars
<1>2. validScripts' \subseteq Blocks
  BY DEF ConnectTip, WinnerInv
<1>3. WinnerInv'
  BY <1>1, <1>2 DEF WinnerInv, WinnerSlot, HeightOf
<1>4. QED
  BY <1>1, <1>3 DEF Preserved, WinnerStep

\* All that ProcessNewChainLock and the scheduled job do besides publishing and
\* CheckActiveState leaves the slot alone.
LEMMA ProcessRest ==
  ASSUME NEW t \in Threads, Process(t),
         ~SetActiveState(t), ~PublishShare(t), ~PublishAggregate(t)
  PROVE  UNCHANGED slot
<1>1. CASE CheckActiveState(t)
  BY <1>1 DEF CheckActiveState, slot, shared, chainVars, winnerVars, bestVars, Jump
<1>2. CASE CheckHeight(t)
  BY <1>2 DEF CheckHeight, slot, shared, chainVars, winnerVars, bestVars, Jump, Return
<1>3. CASE ReadBestIndex(t)
  BY <1>3 DEF ReadBestIndex, slot, shared, chainVars, winnerVars, bestVars, Local
<1>4. CASE CheckTarget(t)
  BY <1>4 DEF CheckTarget, slot, shared, chainVars, winnerVars, bestVars, Local, Return
<1>5. CASE CheckConflict(t)
  BY <1>5 DEF CheckConflict, slot, shared, chainVars, winnerVars, bestVars, Jump, Return
<1>6. CASE VerificationContext(t)
  BY <1>6 DEF VerificationContext, slot, shared, chainVars, winnerVars, bestVars, Local
<1>7. CASE Verify(t)
  BY <1>7 DEF Verify, slot, shared, chainVars, winnerVars, bestVars, Return
<1>8. CASE PublicationContext(t)
  BY <1>8 DEF PublicationContext, slot, shared, chainVars, winnerVars, bestVars, Local
<1>9. CASE SameContext(t)
  BY <1>9 DEF SameContext, slot, shared, chainVars, winnerVars, bestVars, Local, Return
<1>10. CASE StaleAfterVerify(t)
  BY <1>10 DEF StaleAfterVerify, slot, shared, chainVars, winnerVars, bestVars, Return
<1>11. CASE Match(t)
  BY <1>11 DEF Match, slot, shared, chainVars, winnerVars, bestVars, Local, Jump
<1>12. CASE ReadBest(t)
  BY <1>12 DEF ReadBest, slot, shared, chainVars, winnerVars, bestVars, Local, Jump
<1>13. CASE EnforceBestChainLock(t)
  BY <1>13 DEF EnforceBestChainLock, slot, shared, chainVars, winnerVars, bestVars, Local
<1>14. CASE Seen(t)
  BY <1>14 DEF Seen, slot, shared, chainVars, winnerVars, bestVars
<1>15. CASE EraseSignedRequest(t)
  BY <1>15 DEF EraseSignedRequest, slot, shared, chainVars, winnerVars, bestVars
<1>16. CASE PendingIds(t)
  BY <1>16 DEF PendingIds, slot, shared, chainVars, winnerVars, bestVars, Local
<1>17. CASE ProcessPendingRecoveredChainLockSigs(t)
  BY <1>17 DEF ProcessPendingRecoveredChainLockSigs, slot, shared, chainVars, winnerVars, bestVars
<1>18. QED
  BY <1>1, <1>2, <1>3, <1>4, <1>5, <1>6, <1>7, <1>8, <1>9, <1>10, <1>11, <1>12, <1>13, <1>14, <1>15, <1>16, <1>17 DEF Process

\* TrySignChainTip, after its Cleanup, leaves the slot alone.
LEMMA SignRest ==
  ASSUME NEW t \in Threads, TrySignChainTip(t), ~Cleanup(t)
  PROVE  UNCHANGED slot
<1>1. CASE SignTarget(t)
  BY <1>1 DEF SignTarget, slot, shared, chainVars, winnerVars, bestVars, Local, SignReturn
<1>2. CASE SignReadBest(t)
  BY <1>2 DEF SignReadBest, slot, shared, chainVars, winnerVars, bestVars, Local
<1>3. CASE SignConfirmed(t)
  BY <1>3 DEF SignConfirmed, slot, shared, chainVars, winnerVars, bestVars, Local, SignReturn
<1>4. CASE SignCheck(t)
  BY <1>4 DEF SignCheck, slot, shared, chainVars, winnerVars, bestVars, SignReturn
<1>5. CASE SigningContext(t)
  BY <1>5 DEF SigningContext, slot, shared, chainVars, winnerVars, bestVars, Local
<1>6. CASE SigningQuorums(t)
  BY <1>6 DEF SigningQuorums, slot, shared, chainVars, winnerVars, bestVars, Local, SignReturn
<1>7. CASE SignShares(t)
  BY <1>7 DEF SignShares, slot, shared, chainVars, winnerVars, bestVars
<1>8. CASE SignLoop(t)
  BY <1>8 DEF SignLoop, slot, shared, chainVars, winnerVars, bestVars, Local, Jump, SignReturn
<1>9. CASE SignAlternative(t)
  BY <1>9 DEF SignAlternative, slot, shared, chainVars, winnerVars, bestVars, Local, KeepTarget, SignReturn
<1>10. CASE AlternativeQuorums(t)
  BY <1>10 DEF AlternativeQuorums, slot, shared, chainVars, winnerVars, bestVars, Local, KeepTarget, SignReturn
<1>11. CASE SignVote(t)
  BY <1>11 DEF SignVote, slot, shared, chainVars, winnerVars, bestVars, SignReturn
<1>12. CASE AsyncSignIfMember(t)
  BY <1>12 DEF AsyncSignIfMember, slot, shared, chainVars, winnerVars, bestVars, Local, Jump
<1>13. CASE WriteVoteForId(t)
  BY <1>13 DEF WriteVoteForId, slot, shared, chainVars, winnerVars, bestVars
<1>14. CASE SignDone(t)
  BY <1>14 DEF SignDone, slot, shared, chainVars, winnerVars, bestVars
<1>15. QED
  BY <1>1, <1>2, <1>3, <1>4, <1>5, <1>6, <1>7, <1>8, <1>9, <1>10, <1>11, <1>12, <1>13, <1>14 DEF TrySignChainTip

LEMMA NextPreserves ==
  ASSUME WinnerInv, [Next]_vars
  PROVE  Preserved
<1>1. CASE UNCHANGED vars
  BY <1>1, SlotUnchanged DEF vars, slot, shared, chainVars, winnerVars, bestVars
<1>2. ASSUME NEW t \in Threads, Process(t)
      PROVE  Preserved
  BY <1>2, ProcessRest, SlotUnchanged, SetActiveStatePreserves, PublishSharePreserves,
     PublishAggregatePreserves
<1>3. ASSUME NEW t \in Threads, TrySignChainTip(t)
      PROVE  Preserved
  BY <1>3, SignRest, SlotUnchanged, CleanupPreserves
<1>4. ASSUME NEW t \in Threads, ProcessMessage(t) \/ ScheduledJob(t)
      PROVE  Preserved
  <2>1. UNCHANGED slot
    BY <1>4 DEF ProcessMessage, ScheduledJob, Local, slot, shared, chainVars, winnerVars, bestVars
  <2>2. QED
    BY <2>1, SlotUnchanged
<1>5. ASSUME NEW t \in Threads, NEW q \in Quorums, NEW b \in Blocks, ProcessRecoveredSig(t, q, b)
      PROVE  Preserved
  <2>1. UNCHANGED slot
    BY <1>5 DEF ProcessRecoveredSig, slot, chainVars, winnerVars, bestVars
  <2>2. QED
    BY <2>1, SlotUnchanged
<1>6. ASSUME NEW b \in Blocks, InvalidateBlock(b)
      PROVE  Preserved
  <2>1. UNCHANGED slot
    BY <1>6 DEF InvalidateBlock, slot, winnerVars, bestVars
  <2>2. QED
    BY <2>1, SlotUnchanged
<1>7. CASE DisconnectTip \/ SporkChange
  <2>1. UNCHANGED slot
    BY <1>7 DEF DisconnectTip, SporkChange, slot, chainVars, winnerVars, bestVars
  <2>2. QED
    BY <2>1, SlotUnchanged
<1>8. MessageThreads \subseteq Threads /\ SchedulerThreads \subseteq Threads
  BY DEF Threads
<1>9. QED
  BY <1>1, <1>2, <1>3, <1>4, <1>5, <1>6, <1>7, <1>8, NotifyHeaderTipPreserves,
     ConnectTipPreserves DEF Next

-----------------------------------------------------------------------------
LEMMA InitWinner ==
  ASSUME Init
  PROVE  WinnerInv /\ Winner!Init
BY ChainLocksConstants DEF Init, WinnerInv, WinnerSlot, NoSig, Winner!Init

\* Whatever the tree, the threads and the messages: bestChainLockBlockIndex is the
\* block of bestChainLockWithKnownBlock and no candidate is above it.
THEOREM WinnerSlotInvariant == Spec => []WinnerSlot
<1>1. Init => WinnerInv
  BY InitWinner
<1>2. WinnerInv /\ [Next]_vars => WinnerInv'
  BY NextPreserves DEF Preserved
<1>3. WinnerInv => WinnerSlot
  BY DEF WinnerInv
<1>4. QED
  BY <1>1, <1>2, <1>3, PTL DEF Spec

\* The handler implements the abstract winner: it moves only to descendants, and
\* is dropped only when enforcement is switched on ("Enforcement never revokes
\* this winner").
THEOREM WinnerRefinement == Spec => ImplementsWinner
<1>1. Init => WinnerInv /\ Winner!Init
  BY InitWinner
<1>2. WinnerInv /\ [Next]_vars => WinnerInv' /\ [Winner!Next]_<<bestChainLockBlockIndex, isEnforced>>
  BY NextPreserves DEF Preserved, WinnerStep
<1>3. QED
  BY <1>1, <1>2, PTL DEF Spec, ImplementsWinner, Winner!Spec

-----------------------------------------------------------------------------
(* Enforcement reorganises at most one sign window. *)

\* An ancestor is a block, not above its descendant.
LEMMA AncestorFacts ==
  ASSUME NEW x \in Blocks
  PROVE  /\ x \in Anc[x] /\ nHeight[x] \in Nat
         /\ \A y \in Anc[x] :
              /\ y \in Blocks /\ nHeight[y] \in Nat /\ nHeight[y] <= nHeight[x]
              /\ nHeight[y] = nHeight[x] => y = x
              /\ Anc[y] \subseteq Anc[x]
BY BlockTreeConstants, AncestryAssumption

\* The ancestors of a block are one chain.
LEMMA AncestorsInOrder ==
  ASSUME NEW x \in Blocks, NEW y \in Anc[x], NEW z \in Anc[x], nHeight[y] <= nHeight[z]
  PROVE  y \in Anc[z]
BY AncestryAssumption

WindowInv == WinnerInv /\ tip \in Blocks /\ NearWinner

\* The active chain and the winner alone matter; going back on the active chain
\* does no harm.
LEMMA NearAncestor ==
  ASSUME WinnerInv, tip \in Blocks, NearWinner, tip' \in Anc[tip],
         UNCHANGED bestChainLockBlockIndex, isEnforced' => isEnforced
  PROVE  tip' \in Blocks /\ NearWinner'
<1> DEFINE w == bestChainLockBlockIndex
<1>1. tip' \in Blocks /\ Anc[tip'] \subseteq Anc[tip]
  BY BlockTreeConstants, AncestryAssumption
<1>2. SUFFICES ASSUME isEnforced', w # None
               PROVE  \/ tip' \in Anc[w]
                      \/ \E a \in Anc[w] \cap Anc[tip'] : nHeight[a] >= nHeight[w] - SIGN_HEIGHT_OFFSET
  BY <1>1 DEF NearWinner
<1>3. w \in Blocks
  BY <1>2 DEF WinnerInv
<1>4. CASE tip \in Anc[w]
  BY <1>3, <1>4, AncestryAssumption
<1>5. ASSUME NEW a \in Anc[w] \cap Anc[tip],
             nHeight[a] >= nHeight[w] - SIGN_HEIGHT_OFFSET
      PROVE  \/ tip' \in Anc[w]
             \/ \E c \in Anc[w] \cap Anc[tip'] : nHeight[c] >= nHeight[w] - SIGN_HEIGHT_OFFSET
  <2>1. a \in Blocks /\ nHeight[a] \in Nat /\ nHeight[tip'] \in Nat
    BY <1>1, <1>3, BlockTreeConstants
  <2>2. CASE nHeight[a] <= nHeight[tip']
    <3>1. a \in Anc[tip']
      BY <2>2, AncestryAssumption
    <3>2. QED
      BY <1>5, <3>1
  <2>3. CASE nHeight[tip'] <= nHeight[a]
    <3>1. tip' \in Anc[a]
      BY <2>3, AncestryAssumption
    <3>2. QED
      BY <1>3, <3>1, AncestryAssumption
  <2>4. QED
    BY SMT, Z3, SMTT(10), Z3T(10), <2>1, <2>2, <2>3
<1>6. QED
  BY <1>2, <1>4, <1>5 DEF NearWinner

\* A winner is published only while the active chain has its anchor.
LEMMA SharesAnchorNear ==
  ASSUME tip \in Blocks, NEW b \in Blocks, SharesAnchor(b)
  PROVE  \E a \in Anc[b] \cap Anc[tip] : nHeight[a] >= nHeight[b] - SIGN_HEIGHT_OFFSET
<1> DEFINE h == nHeight[b] - SIGN_HEIGHT_OFFSET
<1>1. h \in Int /\ nHeight[Root] \in Nat /\ None \notin Anc[b]
  BY SMT, Z3, SMTT(10), Z3T(10), BlockTreeConstants, ChainLocksConstants
<1>2. CASE h > nHeight[Root]
  <2>1. GetAncestor(tip, h) \in Anc[b]
    BY <1>2 DEF SharesAnchor, ActiveChain
  <2>2. \E a \in Anc[tip] : nHeight[a] = h
    BY <1>1, <2>1 DEF GetAncestor
  <2> HIDE DEF h
  <2>3. GetAncestor(tip, h) \in Anc[tip] /\ nHeight[GetAncestor(tip, h)] = h
    BY <2>2 DEF GetAncestor
  <2>4. nHeight[GetAncestor(tip, h)] >= h
    BY SMT, Z3, SMTT(10), Z3T(10), <1>1, <2>3
  <2>5. \E a \in Anc[b] \cap Anc[tip] : nHeight[a] >= h
    BY <2>1, <2>3, <2>4
  <2>6. QED
    BY <2>5 DEF h
<1>3. CASE ~(h > nHeight[Root])
  <2>1. Root \in Anc[b] \cap Anc[tip]
    BY AncestryAssumption
  <2>2. nHeight[Root] >= h
    BY SMT, Z3, SMTT(10), Z3T(10), <1>1, <1>3
  <2>3. QED
    BY <2>1, <2>2
<1>4. QED
  BY <1>2, <1>3

LEMMA PublishNear ==
  ASSUME WindowInv, NEW t \in Threads, PublishShare(t) \/ PublishAggregate(t)
  PROVE  tip' \in Blocks /\ NearWinner'
<1> DEFINE b == call[t].clsig.block
<1>1. UNCHANGED <<tip, isEnforced>>
  BY DEF PublishShare, PublishAggregate, chainVars
<1>2. b \in Blocks /\ SharesAnchor(b)
  <2>1. IsCandidateStillAdmissible(b)
    BY DEF PublishShare, PublishAggregate, StillPublishable
  <2>2. QED
    BY <2>1, AdmissibleFacts DEF WindowInv, IsCandidateStillAdmissible
<1>3. bestChainLockBlockIndex' = b \/ UNCHANGED bestChainLockBlockIndex
  BY DEF PublishShare, PublishAggregate, TryUpdateBestChainLock
<1>4. CASE bestChainLockBlockIndex' = b
  <2>1. \E a \in Anc[b] \cap Anc[tip] : nHeight[a] >= nHeight[b] - SIGN_HEIGHT_OFFSET
    BY <1>2, SharesAnchorNear DEF WindowInv
  <2>2. QED
    BY <1>1, <1>4, <2>1 DEF WindowInv, NearWinner
<1>5. CASE UNCHANGED bestChainLockBlockIndex
  BY <1>1, <1>5 DEF WindowInv, NearWinner
<1>6. QED
  BY <1>3, <1>4, <1>5

\* A late header never moves the winner.
LEMMA NotifyHeaderTipNear ==
  ASSUME WindowInv, NEW b \in Blocks, NotifyHeaderTip(b)
  PROVE  tip' \in Blocks /\ NearWinner'
<1>1. UNCHANGED <<tip, isEnforced>>
  BY DEF NotifyHeaderTip, chainVars
<1>2. nHeight[b] <= HeightOf(bestChainLockWithKnownBlock)
  <2>1. \A c \in bestChainLockCandidates :
          c.block \in Blocks /\ HeightOf(c) <= HeightOf(bestChainLockWithKnownBlock)
    BY DEF WindowInv, WinnerInv, WinnerSlot
  <2>2. QED
    BY <2>1, HeightOfFacts DEF NotifyHeaderTip
<1>3. UNCHANGED bestChainLockBlockIndex
  BY <1>2 DEF NotifyHeaderTip, TryUpdateBestChainLock, NewBest
<1>4. QED
  BY <1>1, <1>3 DEF WindowInv, NearWinner

LEMMA SetActiveStateNear ==
  ASSUME WindowInv, NEW t \in Threads, SetActiveState(t)
  PROVE  tip' \in Blocks /\ NearWinner'
<1>1. UNCHANGED tip
  BY DEF SetActiveState, chainVars
<1>2. CASE ~isEnforced /\ At(t, "SporkActive")
  BY <1>1, <1>2 DEF SetActiveState, WindowInv, NearWinner
<1>3. CASE ~(~isEnforced /\ At(t, "SporkActive"))
  <2>1. UNCHANGED bestChainLockBlockIndex /\ (isEnforced' => isEnforced)
    BY <1>3 DEF SetActiveState, bestVars
  <2>2. QED
    BY <1>1, <2>1 DEF WindowInv, NearWinner
<1>4. QED
  BY <1>2, <1>3

\* ConnectTip refuses what conflicts with the winner.
LEMMA ConnectTipNear ==
  ASSUME WindowInv, NEW b \in Blocks, ConnectTip(b)
  PROVE  tip' \in Blocks /\ NearWinner'
<1> DEFINE w == bestChainLockBlockIndex
<1>1. UNCHANGED <<isEnforced, bestChainLockBlockIndex>>
  BY DEF ConnectTip, winnerVars, bestVars
<1>2. CASE UNCHANGED tip
  BY <1>1, <1>2 DEF WindowInv, NearWinner
<1>3. CASE tip' # tip
  <2>1. tip' = b /\ ~InternalHasConflictingChainLock(b) /\ b # Root /\ pprev[b] = tip
    BY <1>3 DEF ConnectTip
  <2>2. /\ nHeight[b] = nHeight[tip] + 1 /\ Anc[tip] \subseteq Anc[b]
        /\ nHeight[tip] \in Nat /\ nHeight[b] \in Nat
    BY <2>1, BlockTreeConstants DEF WindowInv
  <2>3. SUFFICES ASSUME isEnforced, w # None
                 PROVE  \/ b \in Anc[w]
                        \/ \E a \in Anc[w] \cap Anc[b] : nHeight[a] >= nHeight[w] - SIGN_HEIGHT_OFFSET
    BY <1>1, <2>1 DEF NearWinner
  <2>4. w \in Blocks /\ nHeight[w] \in Nat
    BY <2>3, BlockTreeConstants DEF WindowInv, WinnerInv
  <2>5. b \in Anc[w] \/ nHeight[b] > nHeight[w]
    BY SMT, Z3, SMTT(10), Z3T(10), <2>1, <2>2, <2>3, <2>4 DEF InternalHasConflictingChainLock
  <2>6. CASE tip \in Anc[w] /\ nHeight[b] > nHeight[w]
    <3>1. tip = w
      <4>1. nHeight[tip] <= nHeight[w]
        BY <2>4, <2>6, AncestryAssumption
      <4>2. nHeight[tip] = nHeight[w]
        BY SMT, Z3, SMTT(10), Z3T(10), <2>2, <2>4, <2>6, <4>1
      <4>3. QED
        BY <2>4, <2>6, <4>2, AncestryAssumption
    <3>2. w \in Anc[w] \cap Anc[b]
      BY <2>2, <2>4, <3>1, AncestryAssumption DEF WindowInv
    <3>3. nHeight[w] >= nHeight[w] - SIGN_HEIGHT_OFFSET
      BY SMT, Z3, SMTT(10), Z3T(10), <2>4, ChainLocksConstants
    <3>4. QED
      BY <3>2, <3>3
  <2>7. CASE tip \notin Anc[w]
    BY <2>2, <2>3, <2>7 DEF WindowInv, NearWinner
  <2>8. QED
    BY <2>5, <2>6, <2>7
<1>4. QED
  BY <1>2, <1>3

\* Two chains of the tree have a highest block in common, which is Fork.
LEMMA ForkFacts ==
  ASSUME NEW a \in Blocks, NEW b \in Blocks
  PROVE  /\ Fork(a, b) \in Anc[a] \cap Anc[b]
         /\ \A g \in Anc[a] \cap Anc[b] : nHeight[g] <= nHeight[Fork(a, b)]
<1> DEFINE common == Anc[a] \cap Anc[b]
           T == {nHeight[a] - nHeight[g] : g \in common}
<1>1. \A g \in common : nHeight[g] \in Nat /\ nHeight[a] \in Nat /\ nHeight[g] <= nHeight[a]
  BY BlockTreeConstants, AncestryAssumption
<1>2. T \in SUBSET Nat /\ T # {}
  <2>1. \A n \in T : n \in Nat
    BY SMT, Z3, SMTT(10), Z3T(10), <1>1
  <2>2. Root \in common
    BY AncestryAssumption
  <2>3. QED
    BY <2>1, <2>2
<1>3. IsWellFoundedOn(OpToRel(<, Nat), Nat)
  BY NatLessThanWellFounded
<1> HIDE DEF T
<1>4. PICK n \in T : \A m \in T : ~(<<m, n>> \in OpToRel(<, Nat))
  BY <1>2, <1>3, WFMin
<1>5. \A m \in T : <<m, n>> \in OpToRel(<, Nat) <=> m < n
  BY <1>2 DEF OpToRel
<1>6. \A m \in T : ~(m < n)
  BY <1>4, <1>5, Zenon
<1>7. PICK f \in common : n = nHeight[a] - nHeight[f]
  BY DEF T
<1>8. \A g \in common : nHeight[g] <= nHeight[f]
  <2> TAKE g \in common
  <2>1. nHeight[a] - nHeight[g] \in T
    BY DEF T
  <2>2. ~(nHeight[a] - nHeight[g] < nHeight[a] - nHeight[f])
    BY <1>6, <1>7, <2>1
  <2>3. QED
    BY SMT, Z3, SMTT(10), Z3T(10), <1>1, <2>2
<1>9. QED
  BY <1>7, <1>8 DEF Fork

\* What EnforceBestChainLock does to the active chain.
LEMMA EnforceStep ==
  ASSUME tip \in Blocks, WinnerInv, NEW t \in Threads, EnforceBestChainLock(t)
  PROVE  /\ UNCHANGED <<bestChainLockBlockIndex, isEnforced>>
         /\ \/ UNCHANGED tip
            \/ /\ call[t].best \in Blocks \ Anc[tip]
               /\ tip' = Fork(call[t].best, tip)
<1> DEFINE b == call[t].best
<1>1. UNCHANGED <<bestChainLockBlockIndex, isEnforced>>
  BY DEF EnforceBestChainLock, Local, shared, winnerVars, bestVars
<1>2. \/ UNCHANGED tip
      \/ /\ HasChainLockTargetDataAndValidity(b) /\ Anc[b] \ Anc[tip] # {}
         /\ tip' = Fork(b, tip)
  BY DEF EnforceBestChainLock, Local, shared, chainVars, Enforceable
<1>3. HasChainLockTargetDataAndValidity(b) => b \in Blocks
  BY DEF HasChainLockTargetDataAndValidity, WinnerInv
<1>4. b \in Anc[tip] => Anc[b] \subseteq Anc[tip]
  BY AncestryAssumption
<1>5. QED
  BY <1>1, <1>2, <1>3, <1>4

LEMMA EnforceNear ==
  ASSUME WindowInv, NEW t \in Threads, EnforceBestChainLock(t)
  PROVE  tip' \in Blocks /\ NearWinner'
<1>1. tip \in Blocks /\ WinnerInv
  BY DEF WindowInv
<1>2. UNCHANGED <<bestChainLockBlockIndex, isEnforced>>
  BY <1>1, EnforceStep
<1>3. tip' \in Anc[tip]
  <2>1. CASE UNCHANGED tip
    BY <1>1, <2>1, AncestorFacts
  <2>2. CASE call[t].best \in Blocks \ Anc[tip] /\ tip' = Fork(call[t].best, tip)
    BY <1>1, <2>2, ForkFacts
  <2>3. QED
    BY <1>1, <2>1, <2>2, EnforceStep
<1>4. QED
  BY <1>2, <1>3, NearAncestor DEF WindowInv

\* The fork of a chain c with a block b of the winner w's chain, when c leaves
\* that chain at most one sign window below w.
LEMMA ForkWithinWindow ==
  ASSUME NEW w \in Blocks, NEW c \in Blocks, NEW b \in Anc[w], b \notin Anc[c],
         NEW f \in Anc[b] \cap Anc[c], f # c,
         \A g \in Anc[b] \cap Anc[c] : nHeight[g] <= nHeight[f],
         \/ c \in Anc[w]
         \/ \E a \in Anc[w] \cap Anc[c] : nHeight[a] >= nHeight[w] - SIGN_HEIGHT_OFFSET
  PROVE  nHeight[f] >= nHeight[b] - SIGN_HEIGHT_OFFSET
<1>1. /\ b \in Blocks /\ nHeight[b] \in Nat /\ nHeight[w] \in Nat
      /\ nHeight[b] <= nHeight[w]
  BY AncestorFacts
<1>2. /\ nHeight[f] \in Nat /\ nHeight[c] \in Nat
      /\ nHeight[f] <= nHeight[c] /\ nHeight[f] # nHeight[c]
  BY AncestorFacts
<1>3. SIGN_HEIGHT_OFFSET \in Nat
  BY ChainLocksConstants
<1>4. c \notin Anc[w]
  <2> SUFFICES ASSUME c \in Anc[w] PROVE FALSE
    OBVIOUS
  <2>1. ~(nHeight[b] <= nHeight[c])
    BY AncestorsInOrder
  <2>2. nHeight[c] <= nHeight[b]
    BY SMT, Z3, SMTT(10), Z3T(10), <1>1, <1>2, <2>1
  <2>3. c \in Anc[b] \cap Anc[c]
    BY <2>2, AncestorsInOrder, AncestorFacts
  <2> QED BY SMT, Z3, SMTT(10), Z3T(10), <1>2, <2>3
<1>5. PICK a \in Anc[w] \cap Anc[c] : nHeight[a] >= nHeight[w] - SIGN_HEIGHT_OFFSET
  BY <1>4
<1>6. nHeight[a] \in Nat
  BY AncestorFacts
<1>7. ~(nHeight[b] <= nHeight[a])
  <2>1. Anc[a] \subseteq Anc[c]
    BY AncestorFacts
  <2>2. b \notin Anc[a]
    BY <2>1
  <2> QED BY <2>2, AncestorsInOrder
<1>8. nHeight[a] <= nHeight[b]
  BY SMT, Z3, SMTT(10), Z3T(10), <1>1, <1>6, <1>7
<1>9. a \in Anc[b]
  BY <1>8, AncestorsInOrder
<1>10. nHeight[a] <= nHeight[f]
  BY <1>9
<1> QED BY SMT, Z3, SMTT(10), Z3T(10), <1>1, <1>2, <1>3, <1>5, <1>6, <1>10

\* The enforcement of a block of the winner's chain.
LEMMA EnforceBound ==
  ASSUME WindowInv, NEW t \in Threads, EnforceBestChainLock(t), tip' # tip,
         isEnforced, bestChainLockBlockIndex # None,
         call[t].best \in Anc[bestChainLockBlockIndex]
  PROVE  nHeight[tip'] >= nHeight[call[t].best] - SIGN_HEIGHT_OFFSET
<1> DEFINE b == call[t].best
           w == bestChainLockBlockIndex
<1>1. tip \in Blocks /\ w \in Blocks /\ b \in Blocks \ Anc[tip] /\ tip' = Fork(b, tip)
  BY EnforceStep DEF WindowInv, WinnerInv
<1>2. /\ tip' \in Anc[b] \cap Anc[tip]
      /\ \A g \in Anc[b] \cap Anc[tip] : nHeight[g] <= nHeight[tip']
  BY <1>1, ForkFacts
<1>3. \/ tip \in Anc[w]
      \/ \E a \in Anc[w] \cap Anc[tip] : nHeight[a] >= nHeight[w] - SIGN_HEIGHT_OFFSET
  BY DEF WindowInv, NearWinner
<1> HIDE DEF b, w
<1>4. b \in Anc[w]
  BY DEF b, w
<1>5. nHeight[tip'] >= nHeight[b] - SIGN_HEIGHT_OFFSET
  BY <1>1, <1>2, <1>3, <1>4, ForkWithinWindow
<1> QED BY <1>5 DEF b

-----------------------------------------------------------------------------
\* Steps that leave the winner and the active chain alone.
LEMMA QuietNear ==
  ASSUME WindowInv, UNCHANGED <<tip, isEnforced, bestChainLockBlockIndex>>
  PROVE  tip' \in Blocks /\ NearWinner'
BY DEF WindowInv, NearWinner

LEMMA ProcessTip ==
  ASSUME NEW t \in Threads, Process(t), ~EnforceBestChainLock(t)
  PROVE  UNCHANGED tip
<1>1. CASE \/ CheckActiveState(t) \/ SetActiveState(t) \/ CheckHeight(t) \/ ReadBestIndex(t)
           \/ CheckTarget(t) \/ CheckConflict(t) \/ VerificationContext(t)
  BY <1>1 DEF CheckActiveState, SetActiveState, CheckHeight, ReadBestIndex, CheckTarget,
     CheckConflict, VerificationContext, shared, chainVars, Jump, Return, Local
<1>2. CASE \/ Verify(t) \/ PublicationContext(t) \/ SameContext(t) \/ PublishShare(t)
           \/ PublishAggregate(t) \/ StaleAfterVerify(t)
  BY <1>2 DEF Verify, PublicationContext, SameContext, PublishShare, PublishAggregate,
     StaleAfterVerify, shared, chainVars, Return, Local
<1>3. CASE \/ Match(t) \/ ReadBest(t) \/ Seen(t) \/ EraseSignedRequest(t) \/ PendingIds(t)
           \/ ProcessPendingRecoveredChainLockSigs(t)
  BY <1>3 DEF Match, ReadBest, Seen, EraseSignedRequest, PendingIds,
     ProcessPendingRecoveredChainLockSigs, shared, chainVars, Jump, Local
<1>4. QED
  BY <1>1, <1>2, <1>3 DEF Process

LEMMA SignTip ==
  ASSUME NEW t \in Threads, TrySignChainTip(t)
  PROVE  UNCHANGED <<tip, isEnforced, bestChainLockBlockIndex>>
<1>1. CASE Cleanup(t)
  BY <1>1 DEF Cleanup, shared, chainVars, winnerVars, bestVars
<1>2. CASE ~Cleanup(t)
  <2>1. UNCHANGED <<isEnforced, bestChainLockBlockIndex>>
    BY <1>2, SignRest DEF slot
  <2>2. CASE SignTarget(t) \/ SignReadBest(t)
    BY <2>1, <2>2 DEF SignTarget, SignReadBest, shared, chainVars, Local, Jump, KeepTarget, SignReturn
  <2>3. CASE SignConfirmed(t)
    BY <2>1, <2>3 DEF SignConfirmed, shared, chainVars, Local, Jump, KeepTarget, SignReturn
  <2>4. CASE SignCheck(t)
    BY <2>1, <2>4 DEF SignCheck, shared, chainVars, Local, Jump, KeepTarget, SignReturn
  <2>5. CASE SigningContext(t) \/ SigningQuorums(t)
    BY <2>1, <2>5 DEF SigningContext, SigningQuorums, shared, chainVars, Local, Jump, KeepTarget, SignReturn
  <2>6. CASE SignShares(t)
    BY <2>1, <2>6 DEF SignShares, shared, chainVars, Local, Jump, KeepTarget, SignReturn
  <2>7. CASE SignLoop(t)
    BY <2>1, <2>7 DEF SignLoop, shared, chainVars, Local, Jump, KeepTarget, SignReturn
  <2>8. CASE SignAlternative(t)
    BY <2>1, <2>8 DEF SignAlternative, shared, chainVars, Local, Jump, KeepTarget, SignReturn
  <2>9. CASE AlternativeQuorums(t)
    BY <2>1, <2>9 DEF AlternativeQuorums, shared, chainVars, Local, Jump, KeepTarget, SignReturn
  <2>10. CASE SignVote(t)
    BY <2>1, <2>10 DEF SignVote, shared, chainVars, Local, Jump, KeepTarget, SignReturn
  <2>11. CASE AsyncSignIfMember(t)
    BY <2>1, <2>11 DEF AsyncSignIfMember, shared, chainVars, Local, Jump, KeepTarget, SignReturn
  <2>12. CASE WriteVoteForId(t) \/ SignDone(t)
    BY <2>1, <2>12 DEF WriteVoteForId, SignDone, shared, chainVars, Local, Jump, KeepTarget, SignReturn
  <2>13. QED
    BY <1>2, <2>1, <2>2, <2>3, <2>4, <2>5, <2>6, <2>7, <2>8, <2>9, <2>10, <2>11, <2>12 DEF TrySignChainTip
<1>3. QED
  BY <1>1, <1>2

LEMMA NextNear ==
  ASSUME WindowInv, [Next]_vars
  PROVE  WindowInv'
<1>0. WinnerInv'
  BY NextPreserves DEF WindowInv, Preserved
<1>1. SUFFICES tip' \in Blocks /\ NearWinner'
  BY <1>0 DEF WindowInv
<1>2. CASE UNCHANGED vars
  BY <1>2, QuietNear DEF vars, shared, chainVars, winnerVars, bestVars
<1>3. ASSUME NEW t \in Threads, Process(t)
      PROVE  tip' \in Blocks /\ NearWinner'
  <2>1. CASE SetActiveState(t)
    BY <2>1, SetActiveStateNear
  <2>2. CASE PublishShare(t) \/ PublishAggregate(t)
    BY <2>2, PublishNear
  <2>3. CASE EnforceBestChainLock(t)
    BY <2>3, EnforceNear
  <2>4. CASE ~SetActiveState(t) /\ ~PublishShare(t) /\ ~PublishAggregate(t)
             /\ ~EnforceBestChainLock(t)
    BY <1>3, <2>4, ProcessRest, ProcessTip, QuietNear DEF slot
  <2>5. QED
    BY <2>1, <2>2, <2>3, <2>4
<1>4. ASSUME NEW t \in Threads, TrySignChainTip(t)
      PROVE  tip' \in Blocks /\ NearWinner'
  BY <1>4, SignTip, QuietNear
<1>5. ASSUME NEW t \in Threads, ProcessMessage(t) \/ ScheduledJob(t)
      PROVE  tip' \in Blocks /\ NearWinner'
  BY <1>5, QuietNear DEF ProcessMessage, ScheduledJob, Local, shared, chainVars, winnerVars, bestVars
<1>6. ASSUME NEW t \in Threads, NEW q \in Quorums, NEW b \in Blocks, ProcessRecoveredSig(t, q, b)
      PROVE  tip' \in Blocks /\ NearWinner'
  BY <1>6, QuietNear DEF ProcessRecoveredSig, chainVars, winnerVars, bestVars
<1>7. ASSUME NEW b \in Blocks, InvalidateBlock(b)
      PROVE  tip' \in Blocks /\ NearWinner'
  <2>1. b \in Blocks \ {Root} /\ UNCHANGED <<isEnforced, bestChainLockBlockIndex>>
    BY <1>7, ChainLocksConstants DEF InvalidateBlock, winnerVars, bestVars
  <2>2. tip' \in Anc[tip]
    <3>1. CASE InActiveChain(b)
      <4>1. tip' = pprev[b] /\ b \in Anc[tip]
        BY <1>7, <3>1 DEF InvalidateBlock, InActiveChain
      <4>2. pprev[b] \in Anc[b] /\ Anc[b] \subseteq Anc[tip]
        BY Zenon, <2>1, <4>1, ParentBelow DEF WindowInv
      <4>3. QED
        BY Zenon, <4>1, <4>2
    <3>2. CASE ~InActiveChain(b)
      BY <1>7, <3>2, AncestryAssumption DEF InvalidateBlock, WindowInv
    <3>3. QED
      BY <3>1, <3>2
  <2>3. QED
    BY <2>1, <2>2, NearAncestor DEF WindowInv
<1>8. CASE DisconnectTip
  <2>1. tip \in Blocks \ {Root} /\ tip' = pprev[tip]
        /\ UNCHANGED <<isEnforced, bestChainLockBlockIndex>>
    BY <1>8 DEF DisconnectTip, WindowInv, winnerVars, bestVars
  <2>2. tip' \in Anc[tip]
    BY SMT, Z3, SMTT(10), Z3T(10), <2>1, BlockTreeConstants, AncestryAssumption
  <2>3. QED
    BY <2>1, <2>2, NearAncestor DEF WindowInv
<1>9. CASE SporkChange
  BY <1>9, QuietNear DEF SporkChange, chainVars, winnerVars, bestVars
<1>10. MessageThreads \subseteq Threads /\ SchedulerThreads \subseteq Threads
  BY DEF Threads
<1>11. QED
  BY <1>2, <1>3, <1>4, <1>5, <1>6, <1>7, <1>8, <1>9, <1>10, NotifyHeaderTipNear, ConnectTipNear
     DEF Next

\* However many threads publish and enforce while the chain moves, enforcing a
\* winner that is still in force never reorganises below its anchor.
THEOREM EnforcementBounded == Spec => EnforceWithinWindow
<1>1. Init => WindowInv
  BY InitWinner, ChainLocksConstants DEF Init, WindowInv, NearWinner
<1>2. WindowInv /\ [Next]_vars => WindowInv'
  BY NextNear
<1> DEFINE Bounded == \A t \in Threads :
       /\ EnforceBestChainLock(t) /\ tip' # tip
       /\ isEnforced /\ bestChainLockBlockIndex # None
       /\ call[t].best \in Anc[bestChainLockBlockIndex]
       => nHeight[tip'] >= nHeight[call[t].best] - SIGN_HEIGHT_OFFSET
<1>3. WindowInv /\ [Next]_vars => [Bounded]_vars
  BY EnforceBound
<1> HIDE DEF Bounded
<1>4. Spec => [][Bounded]_vars
  BY <1>1, <1>2, <1>3, PTL DEF Spec
<1>5. QED
  BY <1>4 DEF EnforceWithinWindow, Bounded

-----------------------------------------------------------------------------
(* What a thread knows at each place of the code. *)

Entering == {"CheckActiveState", "SporkActive", "SporkInactive"}
Checked == {"VerificationContext", "Verify"}
Verified == {"PublicationContext", "SameContext", "Publish"}
Processing ==
  Checked \cup Verified \cup
  {"CheckHeight", "ReadBestIndex", "CheckTarget", "CheckConflict", "Match", "Seen", "Erase"}
Voting == {"AsyncSign", "WriteVote"}
Alternative == {"SignAlternative", "AlternativeQuorums"}
Looping == Voting \cup Alternative \cup {"SignShares", "SignLoop", "SignVote"}
Signing ==
  Looping \cup {"SignReadBest", "SignConfirmed", "SignCheck", "SigningContext", "SigningQuorums"}

\* The record of a call, and the types of what it holds.
Call(r) ==
  /\ r = [pc |-> r.pc, next |-> r.next, job |-> r.job, todo |-> r.todo, clsig |-> r.clsig,
          id |-> r.id, best |-> r.best, active |-> r.active, common |-> r.common,
          quorums |-> r.quorums, target |-> r.target, alt |-> r.alt,
          altActive |-> r.altActive, shares |-> r.shares, i |-> r.i]
  /\ r.best \in Blocks \cup {None}
  /\ r.quorums \in Seq(Quorums)
  /\ \A s \in r.shares : GenuineShare(s)
  /\ r.i \in Nat

\* A CLSIG of a peer is genuine; one from HandleNewRecoveredSig has no signer
\* bits and is of a block the quorum of its id signed.
Source(r) ==
  /\ r.clsig # NoSig => Genuine(r.clsig)
  /\ r.id # None => /\ r.clsig # NoSig /\ r.clsig.signers = {}
                    /\ r.clsig.block \in Signed[r.id]

\* What the signature check established, for the quorums it was made with.
Proven(r) ==
  /\ Vector(r.quorums)
  /\ r.id # None => \E i \in Indexes : r.quorums[i] = r.id
  /\ r.id = None =>
       /\ Cardinality(r.clsig.signers) = 1 \/ Cardinality(r.clsig.signers) >= threshold
       /\ r.clsig.sig = {r.quorums[i] : i \in r.clsig.signers}

CallOK(r, passed) ==
  /\ Call(r)
  /\ Source(r)
  /\ r.pc \in Processing => r.clsig # NoSig
  /\ r.pc \in Entering => /\ r.next \in {"CheckHeight", "ReadBest", "PendingIds"}
                          /\ r.next = "CheckHeight" => r.clsig # NoSig
  /\ r.pc \in Checked \cup Verified /\ r.id = None => r.clsig.signers # {}
  /\ r.pc \in Verified => Proven(r)
  /\ r.pc \in Signing => r.target \in Blocks
  /\ r.pc \in Looping => Vector(r.quorums)
  /\ r.pc \in Alternative => r.alt \in Blocks
  /\ r.pc \in Voting /\ r.target \in Superblocks => r.target \in passed

\* The rest of the state: the winner and its candidates are certified, what is
\* cached and stored was verified, what is voted for passed governance.
SharedOK ==
  /\ tip \in Blocks
  /\ validScripts \subseteq Blocks /\ failed \subseteq Blocks /\ conflict \subseteq Blocks
  /\ governance \subseteq Superblocks
  /\ spork \in BOOLEAN /\ sporkChanges \in 0..MaxSporkChanges
  /\ isEnforced \in BOOLEAN
  /\ bestChainLockWithKnownBlock # NoSig => Certified(bestChainLockWithKnownBlock)
  /\ bestChainLockBlockIndex \in Blocks \cup {None}
  /\ bestChainLockBlockIndex \in Superblocks => bestChainLockBlockIndex \in governance
  /\ \A c \in bestChainLockCandidates : Certified(c)
  /\ \A s \in bestChainLockShares : GenuineShare(s)
  /\ recentChainLocks \subseteq CLSig
  /\ mapSignedRequestIds \subseteq Quorums \X Blocks
  /\ seenChainLocks \subseteq CLSig
  /\ \A x \in sigChecked :
       x[1].signers # {} => x[1].sig = {x[2][i] : i \in x[1].signers}
  /\ attempt \in ATTEMPT_START..signingActiveQuorumCount
  /\ lastSigned \in Blocks \cup {None}
  /\ recovered \subseteq Quorums \X Blocks /\ \A p \in recovered : p[2] \in Signed[p[1]]
  /\ voted \subseteq Quorums \X Blocks
  /\ \A p \in voted : p[2] \in Superblocks => p[2] \in governance

ThreadInv ==
  /\ SharedOK
  /\ DOMAIN call = Threads /\ \A t \in Threads : CallOK(call[t], governance)

LEMMA StartInRange ==
  /\ ATTEMPT_START \in Int /\ signingActiveQuorumCount \in Nat
  /\ ATTEMPT_START \in ATTEMPT_START..signingActiveQuorumCount
BY SMT, Z3, SMTT(10), Z3T(10), ChainLocksConstants

-----------------------------------------------------------------------------
(* Steps of a thread. *)

\* Thread t goes on with a record that is in order.
Moves(t) == \E r : /\ call' = [call EXCEPT ![t] = r]
                   /\ CallOK(r, governance)
                   /\ r.pc = "WriteVote" => At(t, "AsyncSign")

\* A thread that is at pc.
LEMMA ThreadAt ==
  ASSUME ThreadInv, NEW t \in Threads, NEW pc, At(t, pc)
  PROVE  CallOK(call[t], governance) /\ Call(call[t]) /\ call[t].pc = pc
BY Zenon DEF ThreadInv, At, CallOK

LEMMA ThreadCall ==
  ASSUME ThreadInv, NEW t \in Threads, NEW pc, At(t, pc)
  PROVE  \E c : c = call[t] /\ CallOK(c, governance) /\ Call(c) /\ c.pc = pc
BY SMT, Z3, SMTT(10), Z3T(10), ThreadAt

\* Only the place of the call changes.
LEMMA GotoFacts ==
  ASSUME NEW c, Call(c), NEW pc, NEW r, r = [c EXCEPT !.pc = pc]
  PROVE  /\ Call(r) /\ r.pc = pc /\ r.next = c.next /\ r.clsig = c.clsig /\ r.id = c.id
         /\ r.quorums = c.quorums /\ r.target = c.target /\ r.alt = c.alt
         /\ r.shares = c.shares /\ r.i = c.i
BY Zenon DEF Call

\* Record r goes on with the CLSIG of c; what it needs, by where it goes.
Keeps(c, r) == CallOK(c, governance) /\ Call(r) /\ r.clsig = c.clsig /\ r.id = c.id

LEMMA PlainOK ==
  ASSUME NEW c, NEW r, Keeps(c, r),
         r.pc \in {"idle", "Pending", "PendingIds", "ReadBest", "Enforce", "Cleanup", "SignTarget"}
  PROVE  CallOK(r, governance) /\ r.pc # "WriteVote"
BY Zenon DEF Keeps, CallOK, Source, Processing, Checked, Verified, Entering, Signing,
    Looping, Voting, Alternative

LEMMA EnteringOK ==
  ASSUME NEW c, NEW r, Keeps(c, r), r.pc \in Entering,
         r.next \in {"CheckHeight", "ReadBest", "PendingIds"},
         r.next = "CheckHeight" => c.clsig # NoSig
  PROVE  CallOK(r, governance) /\ r.pc # "WriteVote"
BY Zenon DEF Keeps, CallOK, Source, Processing, Checked, Verified, Entering, Signing,
    Looping, Voting, Alternative

LEMMA ProcessingOK ==
  ASSUME NEW c, NEW r, Keeps(c, r), c.clsig # NoSig,
         r.pc \in {"CheckHeight", "ReadBestIndex", "CheckTarget", "CheckConflict", "Match",
                   "Seen", "Erase"}
  PROVE  CallOK(r, governance) /\ r.pc # "WriteVote"
BY Zenon DEF Keeps, CallOK, Source, Processing, Checked, Verified, Entering, Signing,
    Looping, Voting, Alternative

LEMMA CheckedOK ==
  ASSUME NEW c, NEW r, Keeps(c, r), c.clsig # NoSig, r.pc \in Checked,
         c.id = None => c.clsig.signers # {}
  PROVE  CallOK(r, governance) /\ r.pc # "WriteVote"
BY Zenon DEF Keeps, CallOK, Source, Processing, Checked, Verified, Entering, Signing,
    Looping, Voting, Alternative

LEMMA VerifiedOK ==
  ASSUME NEW c, NEW r, Keeps(c, r), c.clsig # NoSig, r.pc \in Verified,
         c.id = None => c.clsig.signers # {}, Proven(r)
  PROVE  CallOK(r, governance) /\ r.pc # "WriteVote"
BY Zenon DEF Keeps, CallOK, Source, Processing, Checked, Verified, Entering, Signing,
    Looping, Voting, Alternative

LEMMA SigningOK ==
  ASSUME NEW c, NEW r, Keeps(c, r), r.target \in Blocks,
         r.pc \in {"SignReadBest", "SignConfirmed", "SignCheck", "SigningContext", "SigningQuorums"}
  PROVE  CallOK(r, governance) /\ r.pc # "WriteVote"
BY Zenon DEF Keeps, CallOK, Source, Processing, Checked, Verified, Entering, Signing,
    Looping, Voting, Alternative

LEMMA LoopingOK ==
  ASSUME NEW c, NEW r, Keeps(c, r), r.target \in Blocks, Vector(r.quorums),
         r.pc \in Looping, r.pc \in Alternative => r.alt \in Blocks,
         r.pc \in Voting /\ r.target \in Superblocks => r.target \in governance
  PROVE  CallOK(r, governance)
BY Zenon DEF Keeps, CallOK, Source, Processing, Checked, Verified, Entering, Signing,
    Looping, Voting, Alternative

-----------------------------------------------------------------------------
(* Where the handler returns to. *)

LEMMA IdleOK ==
  /\ Call(Idle) /\ Idle.pc = "idle" /\ Idle.clsig = NoSig /\ Idle.id = None
  /\ Idle.quorums = <<>> /\ Idle.shares = {} /\ Idle.i = 0 /\ Idle.best = None
  /\ CallOK(Idle, governance)
<1>0. PICK none : none = <<>>
  BY Zenon
<1>1. Call(Idle)
  <2>1. Idle.best = None /\ Idle.quorums = none /\ Idle.shares = {} /\ Idle.i = 0
    BY Zenon, <1>0 DEF Idle
  <2>0. none \in Seq(Quorums)
    BY SMT, Z3, SMTT(10), Z3T(10), <1>0
  <2>2. Idle = [pc |-> Idle.pc, next |-> Idle.next, job |-> Idle.job, todo |-> Idle.todo,
                clsig |-> Idle.clsig, id |-> Idle.id, best |-> Idle.best,
                active |-> Idle.active, common |-> Idle.common, quorums |-> Idle.quorums,
                target |-> Idle.target, alt |-> Idle.alt, altActive |-> Idle.altActive,
                shares |-> Idle.shares, i |-> Idle.i]
    BY Zenon DEF Idle
  <2>3. Idle.i \in Nat
    BY SMT, Z3, SMTT(10), Z3T(10), <2>1
  <2>4. QED
    BY Zenon, <2>0, <2>1, <2>2, <2>3 DEF Call
<1>2. /\ Idle.pc = "idle" /\ Idle.clsig = NoSig /\ Idle.id = None
      /\ Idle.quorums = <<>> /\ Idle.shares = {} /\ Idle.i = 0 /\ Idle.best = None
  BY Zenon DEF Idle
<1>3. CallOK(Idle, governance)
  BY Zenon, <1>1, <1>2 DEF CallOK, Source, Processing, Checked, Verified, Entering, Signing,
    Looping, Voting, Alternative
<1>4. QED
  BY Zenon, <1>1, <1>2, <1>3

LEMMA ReturnOK ==
  ASSUME NEW t \in Threads
  PROVE  CallOK(Returned(t), governance) /\ Returned(t).pc # "WriteVote"
<1>1. CASE call[t].job
  <2>1. PICK r : r = Returned(t)
    BY Zenon
  <2>2. r = [Idle EXCEPT !.pc = "Pending", !.job = TRUE, !.todo = call[t].todo]
    BY Zenon, <1>1, <2>1 DEF Returned
  <2>3. Call(r) /\ r.pc = "Pending" /\ r.clsig = Idle.clsig /\ r.id = Idle.id
    BY Zenon, <2>2, IdleOK DEF Call
  <2>4. QED
    BY Zenon, <2>1, <2>3, IdleOK, PlainOK DEF Keeps
<1>2. CASE ~call[t].job
  BY Zenon, <1>2, IdleOK DEF Returned
<1>3. QED
  BY Zenon, <1>1, <1>2

\* TrySignChainTip returns to ProcessNewChainLock, or out of the handler.
LEMMA SignReturnOK ==
  ASSUME NEW c, CallOK(c, governance)
  PROVE  CallOK(SignReturned(c), governance) /\ SignReturned(c).pc # "WriteVote"
<1>1. CASE InProcessNewChainLock(c)
  <2>1. PICK r : r = SignReturned(c)
    BY Zenon
  <2>2. r = [Idle EXCEPT !.pc = "Match", !.clsig = c.clsig, !.id = c.id,
                         !.job = c.job, !.todo = c.todo]
    BY Zenon, <1>1, <2>1 DEF SignReturned
  <2>3. Call(r) /\ r.pc = "Match" /\ r.clsig = c.clsig /\ r.id = c.id
    BY Zenon, <2>2, IdleOK DEF Call
  <2>4. c.clsig # NoSig
    BY Zenon, <1>1 DEF InProcessNewChainLock
  <2>5. QED
    BY Zenon, <2>1, <2>3, <2>4, ProcessingOK DEF Keeps
<1>2. CASE ~InProcessNewChainLock(c)
  BY Zenon, <1>2, IdleOK DEF SignReturned
<1>3. QED
  BY Zenon, <1>1, <1>2

LEMMA ReturnMoves ==
  ASSUME NEW t \in Threads, call' = [call EXCEPT ![t] = Returned(t)]
  PROVE  Moves(t)
<1>1. PICK r : r = Returned(t)
  BY Zenon
<1>2. call' = [call EXCEPT ![t] = r] /\ CallOK(r, governance) /\ r.pc # "WriteVote"
  BY Zenon, <1>1, ReturnOK
<1>3. QED
  BY Zenon, <1>2 DEF Moves

LEMMA SignReturnMoves ==
  ASSUME ThreadInv, NEW t \in Threads, call' = [call EXCEPT ![t] = SignReturned(call[t])]
  PROVE  Moves(t)
<1>1. PICK r : r = SignReturned(call[t])
  BY Zenon
<1>2. CallOK(call[t], governance)
  BY Zenon DEF ThreadInv
<1>3. call' = [call EXCEPT ![t] = r] /\ CallOK(r, governance) /\ r.pc # "WriteVote"
  BY Zenon, <1>1, <1>2, SignReturnOK
<1>4. QED
  BY Zenon, <1>3 DEF Moves

=============================================================================
