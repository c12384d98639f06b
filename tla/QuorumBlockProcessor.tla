------------------------- MODULE QuorumBlockProcessor -------------------------
(***************************************************************************)
(* CQuorumBlockProcessor (src/src/llmq/quorums_blockprocessor.cpp): the     *)
(* final commitments of DKG sessions, from the network message or the local *)
(* session that brings one, through the block that mines it, to the reorg   *)
(* that unmines it and the crash that interrupts any of this.               *)
(*                                                                         *)
(* Everything a block does happens under cs_main (ConnectTip, DisconnectTip,*)
(* FlushStateToDisk); a message thread holds cs_main only while it looks at *)
(* the chain and minableCommitmentsCs only while it touches the two maps of *)
(* minable commitments.  m_commitment_evoDb is a CEvoDB: it is used here    *)
(* through KeyValueStore, which EvoDB implements.  A commitment stands for  *)
(* its own SerializeHash, and what BLS verification says of it is a field.  *)
(***************************************************************************)
EXTENDS BlockTree, FiniteSets

CONSTANTS
  Commitments,   \* final commitments: [quorumHash, signers, valid, id]
  qcTx,          \* per block: the commitment in its coinbase, or None
  Invalid,       \* blocks that ConnectBlock rejects after ProcessBlock accepted them
  Mints,         \* blocks with a mint transaction
  Threads,       \* message-processing threads
  dkgInterval, dkgMiningWindowStart, dkgMiningWindowEnd, nNexusStartBlock,
  Lossy,         \* TRUE: more commitments than the write cache of the store holds
  MaxCrashes     \* bound on the number of crashes

\* CFinalCommitment(quorumHash): the commitment of a session that failed.
NullCommitment(q) == [quorumHash |-> q, signers |-> 0, valid |-> FALSE, id |-> 0]

ASSUME CommitmentConstants ==
  /\ None \notin Commitments /\ None \notin (Commitments \X Blocks)
  /\ \A c \in Commitments :
       c.quorumHash \in Blocks /\ c.signers \in Nat /\ c.valid \in BOOLEAN
  /\ \A q \in Blocks : NullCommitment(q) # None
  /\ qcTx \in [Blocks -> Commitments \cup {None}]
  /\ qcTx[Root] = None
  /\ Invalid \subseteq Blocks /\ Mints \subseteq Blocks
  /\ dkgInterval \in Nat \ {0}
  /\ dkgMiningWindowStart \in Nat \ {0}  \* after the five phases of a session
  /\ dkgMiningWindowEnd \in Nat
  /\ nNexusStartBlock \in Nat /\ MaxCrashes \in Nat

VARIABLES
  tip,                         \* m_chain.Tip()
  coinsTip,                    \* the best block of the coins database
  failed,                      \* blocks with BLOCK_FAILED_VALID
  mined, minedDisk,            \* m_commitment_evoDb: quorum -> <<commitment, block>>
  minableCommitments,          \* commitments by their hash
  minableCommitmentsByQuorum,  \* quorum -> commitment
  message,                     \* the commitment each message thread works on
  crashes

chainVars == <<tip, coinsTip, failed>>
minableVars == <<minableCommitments, minableCommitmentsByQuorum>>
vars == <<chainVars, mined, minedDisk, minableVars, message, crashes>>

\* The first blocks of DKG sessions, which name their quorums.
Quorums == {q \in Blocks : nHeight[q] % dkgInterval = 0}
MinedEntries == Commitments \X Blocks
NoMessage == [qc |-> None, pc |-> "idle"]

\* m_commitment_evoDb, as its users may rely on it.
DB == INSTANCE KeyValueStore
        WITH Keys <- Quorums, Values <- MinedEntries, NoValue <- None,
             kv <- mined, durable <- minedDisk

Init ==
  /\ tip = Root /\ coinsTip = Root /\ failed = {}
  /\ mined = [q \in Quorums |-> None]
  /\ minedDisk = mined
  /\ minableCommitments = {}
  /\ minableCommitmentsByQuorum = [q \in Quorums |-> None]
  /\ message = [t \in Threads |-> NoMessage]
  /\ crashes = 0

-----------------------------------------------------------------------------
(* The rules of the mining window. *)

\* CFinalCommitment::IsNull: nobody signed.
IsNull(qc) == qc.signers = 0

IsMiningPhase(h) ==
  h % dkgInterval \in dkgMiningWindowStart..dkgMiningWindowEnd

\* The first block of the session of height h, once the chain has it.
GetQuorumBlockHash(h) ==
  LET start == h - (h % dkgInterval)
  IN IF start > nHeight[tip] THEN None ELSE GetAncestor(tip, start)

HasMinedCommitment(q) == mined[q] # None

IsCommitmentRequired(h) ==
  LET quorumHash == GetQuorumBlockHash(h)
  IN quorumHash # None /\ IsMiningPhase(h) /\ ~HasMinedCommitment(quorumHash)

\* GetMinableCommitment for a block of height h: {} when none should be mined,
\* and the null commitment of the session when none is known.
GetMinableCommitment(h) ==
  LET quorumHash == GetQuorumBlockHash(h)
      known == minableCommitmentsByQuorum[quorumHash]
  IN IF ~IsCommitmentRequired(h) THEN {}
     ELSE {IF known = None THEN NullCommitment(quorumHash) ELSE known}

-----------------------------------------------------------------------------
(* The minable commitments. *)

\* Faulty variant: the commitment that came last wins.
AddMineableCommitmentLatest(qc) ==
  /\ minableCommitmentsByQuorum' =
       [minableCommitmentsByQuorum EXCEPT ![qc.quorumHash] = qc]
  /\ minableCommitments' = minableCommitments \cup {qc}

\* Faulty variant: the new commitment is not stored when it overrides another.
AddMineableCommitmentUnstored(qc) ==
  LET known == minableCommitmentsByQuorum[qc.quorumHash]
  IN IF known = None \/ (known # None /\ qc.signers > known.signers)
     THEN /\ minableCommitmentsByQuorum' =
               [minableCommitmentsByQuorum EXCEPT ![qc.quorumHash] = qc]
          /\ minableCommitments' = IF known = None THEN minableCommitments \cup {qc}
                                                   ELSE minableCommitments \ {qc}
     ELSE UNCHANGED minableVars

\* `insertedQuorumHash' is a reference into minableCommitmentsByQuorum: by the
\* time it is used to erase, it already holds the hash of the new commitment.
AddMineableCommitment(qc) ==
  LET known == minableCommitmentsByQuorum[qc.quorumHash]
      better == known # None /\ qc.signers > known.signers
  IN IF known = None \/ better
     THEN /\ minableCommitmentsByQuorum' =
               [minableCommitmentsByQuorum EXCEPT ![qc.quorumHash] = qc]
          /\ minableCommitments' =
               (IF better THEN minableCommitments \ {qc} ELSE minableCommitments)
                 \cup {qc}
     ELSE UNCHANGED minableVars

\* The commitment of the local DKG session, when its Commit phase is over.
FinalizeCommitments(qc) ==
  /\ qc.valid /\ qc.quorumHash \in Quorums
  /\ AddMineableCommitment(qc)
  /\ UNCHANGED <<chainVars, mined, minedDisk, message, crashes>>

\* QFCOMMITMENT: the checks made under cs_main.  A commitment that fails one
\* is dropped, which changes nothing here.
ProcessMessage(t, qc) ==
  LET base == qc.quorumHash
  IN /\ message[t] = NoMessage
     /\ ~IsNull(qc)
     /\ GetAncestor(tip, nHeight[base]) = base
     /\ base \in Quorums
     /\ nHeight[base] >= nHeight[tip] - dkgInterval
     /\ ~HasMinedCommitment(base)
     /\ message' = [message EXCEPT ![t] = [qc |-> qc, pc |-> "onChain"]]
     /\ UNCHANGED <<chainVars, mined, minedDisk, minableVars, crashes>>

\* Faulty variant: the signatures are not verified.
CheckBetterUnverified(t) ==
  LET qc == message[t].qc
      known == minableCommitmentsByQuorum[qc.quorumHash]
  IN /\ message[t].pc = "onChain"
     /\ message' = [message EXCEPT ![t] =
          IF known # None /\ known.signers >= qc.signers
          THEN NoMessage ELSE [qc |-> qc, pc |-> "verified"]]
     /\ UNCHANGED <<chainVars, mined, minedDisk, minableVars, crashes>>

\* Under minableCommitmentsCs: is a commitment at least as good known?  If not,
\* the signatures are verified without a lock.
CheckBetter(t) ==
  LET qc == message[t].qc
      known == minableCommitmentsByQuorum[qc.quorumHash]
      haveBetter == known # None /\ known \in minableCommitments
                      /\ known.signers >= qc.signers
  IN /\ message[t].pc = "onChain"
     /\ message' = [message EXCEPT ![t] =
          IF haveBetter \/ ~qc.valid THEN NoMessage
                                     ELSE [qc |-> qc, pc |-> "verified"]]
     /\ UNCHANGED <<chainVars, mined, minedDisk, minableVars, crashes>>

AddVerified(t) ==
  /\ message[t].pc = "verified"
  /\ AddMineableCommitment(message[t].qc)
  /\ message' = [message EXCEPT ![t] = NoMessage]
  /\ UNCHANGED <<chainVars, mined, minedDisk, crashes>>

-----------------------------------------------------------------------------
(* Connecting and disconnecting blocks. *)

\* Faulty variant: the mining window is not looked at.
ProcessBlockAcceptsAnyHeight(h, qc) ==
  \/ h < nNexusStartBlock
  \/ qc = None
  \/ /\ qc # None
     /\ GetQuorumBlockHash(h) = qc.quorumHash
     /\ IsNull(qc) \/ qc.valid

\* ProcessBlock and ProcessCommitment, up to the point where they write: may a
\* block of height h on the tip carry `qc' (None: no commitment transaction)?
ProcessBlockAccepts(h, qc) ==
  \/ h < nNexusStartBlock
  \/ qc = None /\ ~IsCommitmentRequired(h)
  \/ /\ qc # None
     /\ IsCommitmentRequired(h)
     /\ GetQuorumBlockHash(h) = qc.quorumHash
     /\ \/ IsNull(qc)
        \/ ~HasMinedCommitment(qc.quorumHash) /\ qc.valid

\* Faulty variant: the mining block is not recorded.
ProcessCommitmentNoBlock(b, qc) ==
  /\ mined' = [mined EXCEPT ![qc.quorumHash] = <<qc, None>>]
  /\ minableCommitmentsByQuorum' =
       [minableCommitmentsByQuorum EXCEPT ![qc.quorumHash] = None]
  /\ minableCommitments' = minableCommitments \ {qc}
  /\ UNCHANGED minedDisk

\* What ProcessCommitment writes when the block is not just checked.
ProcessCommitment(b, qc) ==
  /\ DB!Put(qc.quorumHash, <<qc, b>>)
  /\ minableCommitmentsByQuorum' =
       [minableCommitmentsByQuorum EXCEPT ![qc.quorumHash] = None]
  /\ minableCommitments' = minableCommitments \ {qc}

\* ConnectTip: ProcessBlock runs early in ConnectBlock, so that a block which
\* a later check rejects has already written its commitment.
ConnectTip(b) ==
  LET qc == qcTx[b]
      writes == nHeight[b] >= nNexusStartBlock /\ qc # None /\ ~IsNull(qc)
  IN /\ b # Root /\ pprev[b] = tip /\ b \notin failed
     /\ IF ProcessBlockAccepts(nHeight[b], qc)
        THEN /\ IF writes THEN ProcessCommitment(b, qc)
                          ELSE UNCHANGED <<mined, minedDisk, minableVars>>
             /\ IF b \in Invalid
                THEN failed' = failed \cup {b} /\ UNCHANGED tip
                ELSE tip' = b /\ UNCHANGED failed
        ELSE /\ failed' = failed \cup {b}
             /\ UNCHANGED <<tip, mined, minedDisk, minableVars>>
     /\ UNCHANGED <<coinsTip, message, crashes>>

\* Faulty variant: the commitment is not offered for mining again.
UndoBlockForgets(b) ==
  LET qc == qcTx[b]
  IN IF nHeight[b] < nNexusStartBlock \/ qc = None \/ (qc # None /\ IsNull(qc))
     THEN UNCHANGED <<mined, minedDisk, minableVars>>
     ELSE DB!Del(qc.quorumHash) /\ UNCHANGED minableVars

\* Faulty variant: the commitment stays mined.
UndoBlockKeepsMined(b) ==
  LET qc == qcTx[b]
  IN IF nHeight[b] < nNexusStartBlock \/ qc = None \/ (qc # None /\ IsNull(qc))
     THEN UNCHANGED <<mined, minedDisk, minableVars>>
     ELSE UNCHANGED <<mined, minedDisk>> /\ AddMineableCommitment(qc)

UndoBlock(b) ==
  LET qc == qcTx[b]
  IN IF nHeight[b] < nNexusStartBlock \/ qc = None \/ (qc # None /\ IsNull(qc))
     THEN UNCHANGED <<mined, minedDisk, minableVars>>
     ELSE DB!Del(qc.quorumHash) /\ AddMineableCommitment(qc)

\* DisconnectTip; a block with a mint flushes the coins at its parent at once.
DisconnectTip ==
  /\ tip # Root
  /\ UndoBlock(tip)
  /\ tip' = pprev[tip]
  /\ coinsTip' = IF tip \in Mints THEN pprev[tip] ELSE coinsTip
  /\ UNCHANGED <<failed, message, crashes>>

-----------------------------------------------------------------------------
(* Persistence. *)

\* An ordinary periodic write of FlushStateToDisk, or the flush that a read
\* after an erasure does first: the commitments, and not the coins.
PeriodicWrite ==
  /\ DB!Sync
  /\ UNCHANGED <<chainVars, minableVars, message, crashes>>

\* A full flush: the commitments, then the coins.
FullFlush ==
  /\ minedDisk' = mined
  /\ coinsTip' = tip
  /\ UNCHANGED <<tip, failed, mined, minableVars, message, crashes>>

\* The process stops and starts again: the chain resumes at the coins' best
\* block (LoadChainTip); status flags not yet written are lost.
CrashAndRestart ==
  /\ crashes < MaxCrashes
  /\ crashes' = crashes + 1
  /\ tip' = coinsTip
  /\ failed' \in SUBSET failed
  /\ DB!Crash
  /\ minableCommitments' = {}
  /\ minableCommitmentsByQuorum' = [q \in Quorums |-> None]
  /\ message' = [t \in Threads |-> NoMessage]
  /\ UNCHANGED coinsTip

Next ==
  \/ \E t \in Threads, qc \in Commitments : ProcessMessage(t, qc)
  \/ \E t \in Threads : CheckBetter(t)
  \/ \E t \in Threads : AddVerified(t)
  \/ \E qc \in Commitments : FinalizeCommitments(qc)
  \/ \E b \in Blocks : ConnectTip(b)
  \/ DisconnectTip
  \/ PeriodicWrite
  \/ FullFlush
  \/ CrashAndRestart

Spec == Init /\ [][Next]_vars

-----------------------------------------------------------------------------
(* Properties. *)

\* Every variable has its type.
TypeOK ==
  /\ tip \in Blocks /\ coinsTip \in Blocks /\ failed \subseteq Blocks
  /\ mined \in [Quorums -> MinedEntries \cup {None}]
  /\ minedDisk \in [Quorums -> MinedEntries \cup {None}]
  /\ minableCommitments \subseteq Commitments
  /\ minableCommitmentsByQuorum \in [Quorums -> Commitments \cup {None}]
  /\ message \in [Threads -> [qc : Commitments \cup {None},
                              pc : {"idle", "onChain", "verified"}]]
  /\ crashes \in 0..MaxCrashes

\* Block b carries a non-null commitment; of the session that starts at q.
Carries(b) ==
  nHeight[b] >= nNexusStartBlock /\ qcTx[b] # None /\ ~IsNull(qcTx[b])
Mines(b, q) == Carries(b) /\ qcTx[b].quorumHash = q

\* The store is what the active chain makes of it: nothing crashed, and no
\* block failed after ProcessBlock.
Undisturbed == crashes = 0 /\ failed \cap Invalid = {}

\* Undisturbed, the store of mined commitments is a function of the active
\* chain: it has the commitment of a quorum, with the block that mined it,
\* exactly when a block of the chain mines it (ProcessCommitment and UndoBlock
\* over reorgs).
MinedMatchesChain ==
  Undisturbed => \A q \in Quorums :
    \/ \E b \in Anc[tip] : Mines(b, q) /\ mined[q] = <<qcTx[b], b>>
    \/ mined[q] = None /\ \A b \in Anc[tip] : ~Mines(b, q)

\* Undisturbed, a session has over the whole chain at most one non-null
\* commitment; every block of its mining window before that one carries a null
\* one, and no other block carries any (the rules ProcessBlock enforces block by
\* block).
SessionRules ==
  Undisturbed => \A b \in Anc[tip] \ {Root} : nHeight[b] >= nNexusStartBlock =>
    LET start == nHeight[b] - (nHeight[b] % dkgInterval)
        q == GetAncestor(tip, start)
        earlier == \E a \in Anc[b] \ {b} : Mines(a, q)
    IN qcTx[b] # None <=>
         IsMiningPhase(nHeight[b]) /\ start >= nHeight[Root] /\ ~earlier

\* What minableCommitmentsByQuorum names is there and belongs to that quorum, so
\* that minableCommitments.at() never throws in GetMinableCommitment and
\* AddMineableCommitment.
MinableResolves ==
  \A q \in Quorums : minableCommitmentsByQuorum[q] # None =>
    LET qc == minableCommitmentsByQuorum[q]
    IN qc \in minableCommitments /\ qc.quorumHash = q

\* A block template built with GetMinableCommitment passes ProcessBlock on the
\* tip it was built for, whatever messages and reorganisations came before.
TemplateConnects ==
  LET h == nHeight[tip] + 1
  IN IF GetMinableCommitment(h) = {}
     THEN ProcessBlockAccepts(h, None)
     ELSE \A qc \in GetMinableCommitment(h) : ProcessBlockAccepts(h, qc)

\* Inductive: what is offered for mining and what a message thread has verified
\* is valid, and so is what the blocks of the two chains carry.
Good(qc) == qc \in Commitments /\ qc.quorumHash \in Quorums /\ qc.valid

MinableInv ==
  /\ tip \in Blocks /\ coinsTip \in Blocks
  /\ minableCommitmentsByQuorum \in [Quorums -> Commitments \cup {None}]
  /\ \A q \in Quorums : minableCommitmentsByQuorum[q] # None =>
       /\ Good(minableCommitmentsByQuorum[q])
       /\ minableCommitmentsByQuorum[q].quorumHash = q
       /\ minableCommitmentsByQuorum[q] \in minableCommitments
  /\ \A t \in Threads : message[t].pc # "idle" =>
       message[t].qc \in Commitments /\ message[t].qc.quorumHash \in Quorums
  /\ \A t \in Threads : message[t].pc = "verified" => message[t].qc.valid
  /\ \A b \in Anc[tip] \cup Anc[coinsTip] : Carries(b) => Good(qcTx[b])

\* Inductive, when nothing is evicted: MinedMatchesChain, and no session is
\* mined twice.
MinedInv ==
  /\ tip \in Blocks /\ coinsTip \in Blocks /\ crashes \in Nat
  /\ mined \in [Quorums -> MinedEntries \cup {None}]
  /\ minedDisk \in [Quorums -> MinedEntries \cup {None}]
  /\ MinedMatchesChain
  /\ Undisturbed => \A q \in Quorums : \A a, b \in Anc[tip] :
       Mines(a, q) /\ Mines(b, q) => a = b

\* A quorum with a commitment to offer, or mined on the active chain, keeps one
\* of the two over every step but a restart and a block that fails late ("if a
\* reorg happened, we should allow to mine this commitment later", UndoBlock).
Known(q) ==
  minableCommitmentsByQuorum[q] # None \/ \E b \in Anc[tip] : Mines(b, q)

CommitmentNotForgotten ==
  [][crashes' = crashes /\ failed' \cap Invalid = failed \cap Invalid =>
       \A q \in Quorums : Known(q) => Known(q)']_vars

\* While a quorum has a commitment to offer, it is never replaced by one with
\* fewer signers, although two threads compare and store without one lock over
\* both (ProcessMessage, AddMineableCommitment).
BestCommitmentKept ==
  [][\A q \in Quorums :
       LET old == minableCommitmentsByQuorum[q]
           new == minableCommitmentsByQuorum'[q]
       IN old # None /\ new # None => new.signers >= old.signers]_vars

\* "there is always a (possibly null) commitment while in the mining phase until
\* the first non-null commitment has been mined. After the non-null commitment,
\* no other commitments are allowed" (ProcessBlock), judged on the active chain.
WindowFollowsChain ==
  LET h == nHeight[tip] + 1
      q == GetQuorumBlockHash(h)
  IN IsCommitmentRequired(h) <=>
       q # None /\ IsMiningPhase(h) /\ ~\E b \in Anc[tip] : Mines(b, q)
=============================================================================
