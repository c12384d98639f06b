------------------------------ MODULE BlockTree ------------------------------
(***************************************************************************)
(* The block index as a finite tree of headers: CBlockIndex::pprev, nHeight *)
(* and GetAncestor (src/src/chain.h, src/src/chain.cpp).  Root stands for   *)
(* the part of the chain that nothing modelled here ever disconnects.       *)
(***************************************************************************)
EXTENDS Integers

CONSTANTS Blocks, Root,
          pprev,    \* the parent of every block but Root
          nHeight,  \* the height of every block
          Anc,      \* Anc[b]: b and its ancestors down to Root
          None      \* nullptr

ASSUME BlockTreeConstants ==
  /\ None \notin Blocks
  /\ Root \in Blocks
  /\ pprev \in [Blocks \ {Root} -> Blocks]
  /\ nHeight \in [Blocks -> Nat]
  /\ Anc \in [Blocks -> SUBSET Blocks]
  /\ Anc[Root] = {Root}
  /\ \A b \in Blocks \ {Root} :
       /\ nHeight[b] = nHeight[pprev[b]] + 1
       /\ Anc[b] = Anc[pprev[b]] \cup {b}

\* What "being an ancestor of" has to satisfy: it is an order, the ancestors
\* of a block are one chain, and they have one block at every height.
ASSUME AncestryAssumption ==
  /\ \A b \in Blocks : b \in Anc[b] /\ Root \in Anc[b]
  /\ \A b \in Blocks : \A a \in Anc[b] :
       /\ Anc[a] \subseteq Anc[b]
       /\ nHeight[a] <= nHeight[b]
       /\ nHeight[a] = nHeight[b] => a = b
       /\ \A c \in Anc[b] : nHeight[a] <= nHeight[c] => a \in Anc[c]
  /\ \A b \in Blocks : \A h \in nHeight[Root]..nHeight[b] :
       \E a \in Anc[b] : nHeight[a] = h

\* CBlockIndex::GetAncestor, and CChain::operator[] of the chain that ends in b.
GetAncestor(b, h) ==
  IF \E a \in Anc[b] : nHeight[a] = h
  THEN CHOOSE a \in Anc[b] : nHeight[a] = h
  ELSE None

\* LookupBlockIndexPrev(b->pprev) without b.
Siblings(b) ==
  IF b = Root THEN {} ELSE {s \in Blocks \ {Root, b} : pprev[s] = pprev[b]}

\* The highest block two chains share (CChain::FindFork, LastCommonAncestor).
Fork(a, b) ==
  CHOOSE f \in Anc[a] \cap Anc[b] :
    \A g \in Anc[a] \cap Anc[b] : nHeight[g] <= nHeight[f]
=============================================================================
