-------------------------- MODULE DKGSessionProofs --------------------------
(***************************************************************************)
(* Proofs about DKGSession for any quorum, faulty members, topology and    *)
(* delays.  The inductive invariant says that a message goes out only      *)
(* after its sender's start function (SentInv), what a verified share      *)
(* rests on (ShareInv), and what a commitment and a final commitment rest  *)
(* on (CommitInv).  Agreement then follows from two sets of signers having *)
(* common members, of whom the honest ones committed once.                 *)
(*                                                                         *)
(* The second part is about rounds in which everybody keeps up.  TimelyInv *)
(* says that nobody is more than a step behind the chain and has, by then, *)
(* every message of the phases before (InStep), and what the messages then *)
(* make of each session: its votes and open complaints (TallyInv), what it *)
(* answered (AnswerInv), stored (StoredInv) and committed to               *)
(* (CommittedInv), and whom it holds for bad, which is the same set at     *)
(* every member by the time it commits (SameBad).                          *)
(***************************************************************************)
EXTENDS DKGSession, FiniteSetTheorems, TLAPS

\* m has run its start function of phase k.
Passed(m, k) == cur[m] > k \/ (cur[m] = k /\ m \in started)

SentInv ==
    \A k \in Kinds :
        /\ relayed[k] \subseteq sent[k]
        /\ \A i \in Members : heard[k][i] \subseteq sent[k]
        /\ \A m \in sent[k] : Passed(m, k)

ShareInv ==
    /\ \A i, m \in Members : m \in share[i] =>
          /\ Passed(m, Contribution)
          /\ i \in lieTo[m] => i \in just[m].about \ just[m].lies
    /\ \A m \in Members : just[m].about # {} => Passed(m, Justification)

\* What is behind a commitment of m to V: its shares, and for an honest member
\* the one commitment it sent.
CommittedTo(m, V) ==
    /\ Passed(m, Commitment) /\ V \subseteq share[m]
    /\ m \in Faulty \/ (m \in sent[Commitment] /\ valid[m] = V)

CommitInv ==
    /\ \A m \in sent[Commitment] : valid[m] \subseteq share[m]
    /\ \A i \in Members : \A m \in heard[Commitment][i] : <<m, valid[m]>> \in kept[i]
    /\ \A i, m \in Members : \A V \in SUBSET Members : <<m, V>> \in kept[i] => CommittedTo(m, V)
    /\ \A i \in Members : \A c \in final[i] :
          /\ Cardinality(c.signers) >= MinSize
          /\ \A s \in c.signers : CommittedTo(s, c.valid)

IInv == TypeOK /\ SentInv /\ ShareInv /\ CommitInv

Phases == {Initialized, Contribution, Complaint, Justification, Commitment, Finalize, Idle}

LEMMA PhaseNumbers ==
    /\ Initialized..Idle = Phases
    /\ Kinds = {Contribution, Complaint, Justification, Commitment}
    /\ Kinds \subseteq Initialized..Idle
  BY SMT, Z3, SMTT(10), Z3T(10) DEF Phases, Kinds, Initialized, Contribution, Complaint, Justification, Commitment,
         Finalize, Idle

LEMMA InitIInv == Init => IInv
<1> SUFFICES ASSUME Init PROVE IInv
  OBVIOUS
<1>1. TypeOK
  BY SMT, Z3, SMTT(10), Z3T(10), QuorumAssumption, TopologyAssumption
     DEF Init, TypeOK, None, Sets, Complaints, Justifications, Initialized, Idle
<1>2. SentInv
  BY DEF Init, SentInv, None
<1>3. ShareInv
  BY DEF Init, ShareInv, None
<1>4. CommitInv
  BY DEF Init, CommitInv, None, Kinds, Contribution, Commitment
<1> QED BY <1>1, <1>2, <1>3, <1>4 DEF IInv

LEMMA InitNewQuorumIInv ==
    ASSUME InitNewQuorum
    PROVE  IInv'
<1>1. TypeOK'
  BY SMT, Z3, SMTT(10), Z3T(10), QuorumAssumption, TopologyAssumption
     DEF InitNewQuorum, TypeOK, None, Sets, Complaints, Justifications, Initialized, Idle
<1>2. SentInv'
  BY DEF InitNewQuorum, SentInv, None
<1>3. ShareInv'
  BY DEF InitNewQuorum, ShareInv, None
<1>4. CommitInv'
  BY DEF InitNewQuorum, CommitInv, None, Kinds, Contribution, Commitment
<1> QED BY <1>1, <1>2, <1>3, <1>4 DEF IInv

\* What a step does to the threads: nothing, a start, or a later phase.
Moves(i) ==
    \/ UNCHANGED <<cur, started>>
    \/ i \in Members /\ UNCHANGED cur /\ started' = started \cup {i}
    \/ /\ i \in Members
       /\ \E k \in Initialized..Idle : k > cur[i] /\ cur' = [cur EXCEPT ![i] = k]
       /\ started' = started \ {i}

\* A thread never goes back within a round.
LEMMA PassedStays ==
    ASSUME TypeOK, NEW i, Moves(i),
           NEW m \in Members, NEW k \in Initialized..Idle, Passed(m, k)
    PROVE  Passed(m, k)'
  BY SMT, Z3, SMTT(10), Z3T(10) DEF Passed, Moves, TypeOK, Initialized, Idle

\* A step that leaves commitments alone and takes no share away.
LEMMA CommitStays ==
    ASSUME IInv, UNCHANGED <<valid, kept, final>>, sent'[Commitment] = sent[Commitment],
           \A j \in Members : heard'[Commitment][j] = heard[Commitment][j],
           \A m \in Members : Passed(m, Commitment) =>
               Passed(m, Commitment)' /\ share[m] \subseteq share'[m]
    PROVE  CommitInv'
<1>1. \A m \in Members : \A V : CommittedTo(m, V) => CommittedTo(m, V)'
  BY Zenon DEF CommittedTo
<1>2. sent[Commitment] \subseteq Members /\ \A m \in sent[Commitment] : Passed(m, Commitment)
  BY Zenon, PhaseNumbers DEF IInv, TypeOK, SentInv
<1>3. \A i \in Members : \A c \in final[i] : \A s \in c.signers : s \in Members
  <2>1. \A i \in Members : \A c \in final[i] : c \in [valid : SUBSET Members, signers : SUBSET Members]
    BY Zenon DEF IInv, TypeOK
  <2> QED BY <2>1
<1>4. \A m \in sent'[Commitment] : valid'[m] \subseteq share'[m]
  BY Zenon, <1>2 DEF IInv, CommitInv
<1>5. \A i \in Members : \A m \in heard'[Commitment][i] : <<m, valid'[m]>> \in kept'[i]
  BY Zenon DEF IInv, CommitInv
<1>6. \A i, m \in Members : \A V \in SUBSET Members : <<m, V>> \in kept'[i] => CommittedTo(m, V)'
  BY Zenon, <1>1 DEF IInv, CommitInv
<1>7. \A i \in Members : \A c \in final'[i] :
          /\ Cardinality(c.signers) >= MinSize
          /\ \A s \in c.signers : CommittedTo(s, c.valid)'
  BY Zenon, <1>1, <1>3 DEF IInv, CommitInv
<1> QED BY Zenon, <1>4, <1>5, <1>6, <1>7 DEF CommitInv

\* Steps of a thread that touch neither messages nor the session.
LEMMA ThreadIInv ==
    ASSUME IInv, NEW i, Moves(i),
           UNCHANGED <<netVars, msgVars, conn, sessVars, kept, final>>,
           phase' \in Initialized..Idle, late' \in 0..MaxLate
    PROVE  IInv'
<1>1. TypeOK'
  BY DEF IInv, TypeOK, Moves, netVars, msgVars, sessVars
<1>2. \A m \in Members : \A k \in Initialized..Idle : Passed(m, k) => Passed(m, k)'
  BY PassedStays DEF IInv
<1>3. Kinds \subseteq Initialized..Idle /\ Contribution \in Kinds /\ Justification \in Kinds
  BY PhaseNumbers
<1>4. SentInv'
  <2>1. \A k \in Kinds : sent[k] \subseteq Members
    BY DEF IInv, TypeOK
  <2> QED BY <1>2, <1>3, <2>1 DEF IInv, SentInv, netVars
<1>5. ShareInv'
  BY <1>2, <1>3 DEF IInv, ShareInv, msgVars, sessVars
<1>6. CommitInv'
  <2>1. UNCHANGED <<heard, sent, valid, kept, final, share>> /\ Commitment \in Initialized..Idle
    BY PhaseNumbers DEF netVars, msgVars, sessVars
  <2> QED BY Zenon, <1>2, <2>1, CommitStays
<1> QED BY <1>1, <1>4, <1>5, <1>6 DEF IInv

LEMMA UndoneFinite == IsFiniteSet(Undone)
<1>1. IsFiniteSet({"phase", "start"})
  <2>1. IsFiniteSet({"phase"} \cup {"start"})
    BY Zenon, FS_Singleton, FS_Union
  <2> QED BY <2>1
<1>2. IsFiniteSet(Members \X Members) /\ IsFiniteSet(Members \X {"phase", "start"})
  BY QuorumAssumption, FS_Product, <1>1
<1>3. IsFiniteSet((Members \X {"phase", "start"}) \cup (Members \X Members))
  BY Zenon, <1>2, FS_Union
<1>4. Undone \subseteq (Members \X {"phase", "start"}) \cup (Members \X Members)
  BY SMT, Z3, SMTT(10), Z3T(10) DEF Undone
<1> QED BY <1>3, <1>4, FS_Subset

LEMMA UpdatedBlockTipIInv ==
    ASSUME IInv, UpdatedBlockTip
    PROVE  IInv'
<1>1. phase' \in Initialized..Idle
  BY SMT, Z3, SMTT(10), Z3T(10) DEF IInv, TypeOK, UpdatedBlockTip, Initialized, Idle
<1>2. late' \in 0..MaxLate
  BY SMT, Z3, SMTT(10), Z3T(10), UndoneFinite, FS_CardinalityType, QuorumAssumption DEF IInv, TypeOK, UpdatedBlockTip
<1> QED BY <1>1, <1>2, ThreadIInv DEF UpdatedBlockTip, Moves

LEMMA WaitForNextPhaseIInv ==
    ASSUME IInv, NEW i \in Members, WaitForNextPhase(i)
    PROVE  IInv'
<1>1. cur[i] \in Int /\ phase \in Initialized..Idle /\ late \in 0..MaxLate
  BY SMT, Z3, SMTT(10), Z3T(10) DEF IInv, TypeOK, Initialized, Idle
<1>2. Moves(i)
  <2>1. phase > cur[i] /\ cur' = [cur EXCEPT ![i] = phase] /\ started' = started \ {i}
    BY SMT, Z3, SMTT(10), Z3T(10), <1>1 DEF WaitForNextPhase
  <2> QED BY Zenon, <1>1, <2>1 DEF Moves
<1> QED BY <1>1, <1>2, ThreadIInv DEF WaitForNextPhase

LEMMA AbortIInv ==
    ASSUME IInv, NEW i \in Members, Abort(i)
    PROVE  IInv'
<1>1. cur[i] \in Int /\ phase \in Initialized..Idle /\ late \in 0..MaxLate
  BY SMT, Z3, SMTT(10), Z3T(10) DEF IInv, TypeOK, Initialized, Idle
<1>2. Moves(i)
  BY SMT, Z3, SMTT(10), Z3T(10), <1>1 DEF Abort, Moves, Initialized, Finalize, Idle
<1> QED BY <1>1, <1>2, ThreadIInv DEF Abort

-----------------------------------------------------------------------------
(***************************************************************************)
(* Receiving: the message was sent, and nothing is sent or started.        *)
(***************************************************************************)
LEMMA ReceiveNet ==
    ASSUME IInv, NEW i \in Members, NEW m \in Members, NEW k \in Kinds, Receive(i, m, k)
    PROVE  /\ heard' \in [Kinds -> Sets]
           /\ relayed' \in [Kinds -> SUBSET Members]
           /\ SentInv'
           /\ m \in sent[k]
<1>1. m \in sent[k]
  BY DEF Receive, Waiting, IInv, SentInv
<1>2. heard' \in [Kinds -> Sets] /\ relayed' \in [Kinds -> SUBSET Members]
  <2>1. heard[k] \in Sets /\ heard[k][i] \cup {m} \in SUBSET Members
    BY SMT, Z3, SMTT(10), Z3T(10) DEF IInv, TypeOK, Sets
  <2>2. [heard[k] EXCEPT ![i] = heard[k][i] \cup {m}] \in Sets
    BY <2>1 DEF Sets
  <2>3. heard' = [heard EXCEPT ![k] = [heard[k] EXCEPT ![i] = heard[k][i] \cup {m}]]
    BY DEF Receive
  <2> QED BY SMT, Z3, SMTT(10), Z3T(10), <2>2, <2>3 DEF IInv, TypeOK, Receive
<1>3. SentInv'
  <2> SUFFICES ASSUME NEW n \in Kinds
               PROVE  /\ relayed'[n] \subseteq sent[n]
                      /\ \A j \in Members : heard'[n][j] \subseteq sent[n]
                      /\ \A x \in sent[n] : Passed(x, n)'
    BY DEF SentInv, Receive
  <2>1. relayed'[n] \subseteq sent[n]
    BY <1>1 DEF IInv, TypeOK, SentInv, Receive
  <2>2. ASSUME NEW j \in Members
        PROVE  heard'[n][j] \subseteq sent[n]
    BY <1>1 DEF IInv, TypeOK, Sets, SentInv, Receive
  <2>3. \A x \in sent[n] : Passed(x, n)'
    BY DEF IInv, SentInv, Passed, Receive, threadVars
  <2> QED BY <2>1, <2>2, <2>3
<1> QED BY <1>1, <1>2, <1>3

LEMMA SetsExcept ==
    ASSUME NEW A \in Sets, NEW i \in Members, NEW S, S \subseteq Members
    PROVE  [A EXCEPT ![i] = S] \in Sets
  BY DEF Sets

LEMMA KindsListed ==
    /\ Contribution \in Kinds /\ Complaint \in Kinds
    /\ Justification \in Kinds /\ Commitment \in Kinds
  BY PhaseNumbers

\* The parts of a complaint and of a justification.
LEMMA ComplaintBad ==
    ASSUME NEW x, NEW y
    PROVE  [bad |-> x, about |-> y].bad = x
  BY Zenon

LEMMA ComplaintAbout ==
    ASSUME NEW x, NEW y
    PROVE  [bad |-> x, about |-> y].about = y
  BY Zenon

LEMMA JustificationAbout ==
    ASSUME NEW x, NEW y
    PROVE  [about |-> x, lies |-> y].about = x
  BY Zenon

LEMMA JustificationLies ==
    ASSUME NEW x, NEW y
    PROVE  [about |-> x, lies |-> y].lies = y
  BY Zenon

\* The order of the kinds, for steps without arithmetic.
LEMMA KindOrder ==
    /\ Contribution < Complaint /\ Contribution < Justification /\ Contribution < Commitment
    /\ Complaint < Justification /\ Complaint < Commitment /\ Justification < Commitment
    /\ Complaint > Contribution /\ Justification > Contribution /\ Commitment > Contribution
    /\ Justification > Complaint /\ Commitment > Complaint /\ Commitment > Justification
    /\ Contribution # Complaint /\ Contribution # Justification /\ Contribution # Commitment
    /\ Complaint # Justification /\ Complaint # Commitment /\ Justification # Commitment
  BY SMT, Z3, SMTT(10), Z3T(10) DEF Contribution, Complaint, Justification, Commitment

\* Receiving a message leaves the other kinds alone.
LEMMA HeardOther ==
    ASSUME TypeOK, NEW i \in Members, NEW m \in Members, NEW k \in Kinds, Receive(i, m, k),
           NEW n \in Kinds, n # k, NEW j \in Members
    PROVE  heard'[n][j] = heard[n][j]
  BY DEF TypeOK, Receive

LEMMA ReceiveContributionIInv ==
    ASSUME IInv, NEW i \in Members, NEW m \in Members, ReceiveContribution(i, m)
    PROVE  IInv'
<1>0. Receive(i, m, Contribution) /\ UNCHANGED <<threadVars, sent, msgVars, conn, final, late>>
      /\ UNCHANGED <<bad, share, votes, open, kept>>
  BY DEF ReceiveContribution, Receive
<1>1. /\ heard' \in [Kinds -> Sets] /\ relayed' \in [Kinds -> SUBSET Members] /\ SentInv'
  BY <1>0, ReceiveNet, KindsListed
<1>2. weComplain' \in Sets
  <2>1. weComplain \in Sets /\ weComplain[i] \cup {m} \subseteq Members
    BY DEF IInv, TypeOK, Sets
  <2>2. \/ weComplain' = weComplain
        \/ weComplain' = [weComplain EXCEPT ![i] = weComplain[i] \cup {m}]
    BY DEF ReceiveContribution
  <2> QED BY <2>1, <2>2, SetsExcept
<1>3. TypeOK'
  BY <1>0, <1>1, <1>2 DEF IInv, TypeOK, threadVars, msgVars
<1>4. ShareInv'
  BY <1>0 DEF IInv, ShareInv, Passed, threadVars, msgVars
<1>5. CommitInv'
  <2>1. UNCHANGED <<cur, started, sent, valid, kept, final, share>>
    BY <1>0 DEF threadVars, msgVars
  <2>2. \A j \in Members : heard'[Commitment][j] = heard[Commitment][j]
    <3>1. TypeOK /\ Contribution \in Kinds /\ Commitment \in Kinds
      BY Zenon, KindsListed DEF IInv
    <3>2. Commitment # Contribution
      BY Zenon, KindOrder
    <3>3. Receive(i, m, Contribution)
      BY Zenon, <1>0
    <3> QED BY ZenonT(40), <3>1, <3>2, <3>3, HeardOther
  <2>3. \A x \in Members : Passed(x, Commitment) => Passed(x, Commitment)'
    BY Zenon, <2>1 DEF Passed
  <2> QED BY Zenon, <2>1, <2>2, <2>3, CommitStays
<1> QED BY <1>1, <1>3, <1>4, <1>5 DEF IInv

LEMMA ReceiveComplaintIInv ==
    ASSUME IInv, NEW i \in Members, NEW m \in Members, ReceiveComplaint(i, m)
    PROVE  IInv'
<1>0. Receive(i, m, Complaint) /\ UNCHANGED <<threadVars, sent, msgVars, conn, final, late>>
      /\ UNCHANGED <<bad, share, weComplain, kept>>
  BY DEF ReceiveComplaint, Receive
<1>1. /\ heard' \in [Kinds -> Sets] /\ relayed' \in [Kinds -> SUBSET Members] /\ SentInv'
  BY <1>0, ReceiveNet, KindsListed
<1>2. votes' \in [Members -> Sets] /\ open' \in [Members -> Sets]
  <2>1. votes[i] \in Sets /\ open[i] \in Sets
    BY DEF IInv, TypeOK
  <2>2. [x \in Members |-> IF x \in compl[m].bad THEN votes[i][x] \cup {m} ELSE votes[i][x]]
           \in Sets
    BY <2>1 DEF Sets
  <2>3. [x \in Members |-> IF x \in compl[m].about THEN open[i][x] \cup {m} ELSE open[i][x]]
           \in Sets
    BY <2>1 DEF Sets
  <2> QED BY <2>2, <2>3 DEF IInv, TypeOK, ReceiveComplaint
<1>3. TypeOK'
  BY <1>0, <1>1, <1>2 DEF IInv, TypeOK, threadVars, msgVars
<1>4. ShareInv'
  BY <1>0 DEF IInv, ShareInv, Passed, threadVars, msgVars
<1>5. CommitInv'
  <2>1. UNCHANGED <<cur, started, sent, valid, kept, final, share>>
    BY <1>0 DEF threadVars, msgVars
  <2>2. \A j \in Members : heard'[Commitment][j] = heard[Commitment][j]
    <3>1. TypeOK /\ Complaint \in Kinds /\ Commitment \in Kinds
      BY Zenon, KindsListed DEF IInv
    <3>2. Commitment # Complaint
      BY Zenon, KindOrder
    <3>3. Receive(i, m, Complaint)
      BY Zenon, <1>0
    <3> QED BY ZenonT(40), <3>1, <3>2, <3>3, HeardOther
  <2>3. \A x \in Members : Passed(x, Commitment) => Passed(x, Commitment)'
    BY Zenon, <2>1 DEF Passed
  <2> QED BY Zenon, <2>1, <2>2, <2>3, CommitStays
<1> QED BY <1>1, <1>3, <1>4, <1>5 DEF IInv

LEMMA ReceiveJustificationIInv ==
    ASSUME IInv, NEW i \in Members, NEW m \in Members, ReceiveJustification(i, m)
    PROVE  IInv'
<1>0. Receive(i, m, Justification) /\ UNCHANGED <<threadVars, sent, msgVars, conn, final, late>>
      /\ UNCHANGED <<votes, kept>>
  BY DEF ReceiveJustification, Receive
<1>1. /\ heard' \in [Kinds -> Sets] /\ relayed' \in [Kinds -> SUBSET Members] /\ SentInv'
      /\ m \in sent[Justification]
  BY <1>0, ReceiveNet, KindsListed
<1>2. bad' \in Sets /\ weComplain' \in Sets /\ share' \in Sets
  <2>1. bad \in Sets /\ weComplain \in Sets /\ share \in Sets
    BY DEF IInv, TypeOK
  <2>2. \A A \in Sets : A[i] \subseteq Members
    BY DEF Sets
  <2>3. bad' \in Sets
    <3>1. \/ bad' = bad
          \/ bad' = [bad EXCEPT ![i] = bad[i]]
          \/ bad' = [bad EXCEPT ![i] = bad[i] \cup {m}]
      BY DEF ReceiveJustification
    <3> QED BY SMT, Z3, SMTT(10), Z3T(10), <2>1, <2>2, <3>1, SetsExcept
  <2>4. weComplain' \in Sets
    <3>1. \/ weComplain' = weComplain
          \/ weComplain' = [weComplain EXCEPT ![i] = weComplain[i] \ {m}]
          \/ weComplain' = [weComplain EXCEPT ![i] = weComplain[i]]
      BY DEF ReceiveJustification
    <3> QED BY SMT, Z3, SMTT(10), Z3T(10), <2>1, <2>2, <3>1, SetsExcept
  <2>5. share' \in Sets
    <3>1. \/ share' = share
          \/ share' = [share EXCEPT ![i] = share[i] \cup {m}]
          \/ share' = [share EXCEPT ![i] = share[i]]
      BY DEF ReceiveJustification
    <3> QED BY SMT, Z3, SMTT(10), Z3T(10), <2>1, <2>2, <3>1, SetsExcept
  <2> QED BY <2>3, <2>4, <2>5
<1>3. open' \in [Members -> Sets]
  <2>1. open[i] \in Sets
    BY DEF IInv, TypeOK
  <2>2. [open[i] EXCEPT ![m] = open[i][m] \ (just[m].about \ just[m].lies)] \in Sets
    BY <2>1 DEF Sets
  <2>3. \/ open' = open
        \/ open' = [open EXCEPT ![i] =
                       [open[i] EXCEPT ![m] = open[i][m] \ (just[m].about \ just[m].lies)]]
    BY DEF ReceiveJustification
  <2> QED BY Zenon, <2>2, <2>3 DEF IInv, TypeOK
<1>4. TypeOK'
  BY <1>0, <1>1, <1>2, <1>3 DEF IInv, TypeOK, threadVars, msgVars
<1>5. /\ \A j \in Members : share[j] \subseteq share'[j]
      /\ \A j, x \in Members : x \in share'[j] =>
            x \in share[j] \/ (j = i /\ x = m /\ i \in just[m].about \ just[m].lies)
  <2>1. \/ share' = share
        \/ share' = [share EXCEPT ![i] = share[i]]
        \/ /\ i \in just[m].about \ just[m].lies
           /\ share' = [share EXCEPT ![i] = share[i] \cup {m}]
    BY DEF ReceiveJustification
  <2>2. share \in Sets
    BY DEF IInv, TypeOK
  <2> QED BY <2>1, <2>2 DEF Sets
<1>6. ShareInv'
  <2>0. Passed(m, Justification) /\ cur[m] \in Int
    <3>1. Passed(m, Justification)
      BY <1>1, KindsListed DEF IInv, SentInv
    <3>2. cur[m] \in Initialized..Idle
      BY DEF IInv, TypeOK
    <3> QED BY SMT, Z3, SMTT(10), Z3T(10), <3>1, <3>2 DEF Initialized, Idle
  <2>1. Passed(m, Contribution)
    BY SMT, Z3, SMTT(10), Z3T(10), <2>0 DEF Passed, Contribution, Justification
  <2>2. UNCHANGED <<cur, started, lieTo, just>> /\ ShareInv
    BY <1>0 DEF IInv, threadVars, msgVars
  <2>3. \A x \in Members : \A k \in Kinds : Passed(x, k) => Passed(x, k)'
    BY <2>2 DEF Passed
  <2>4. ASSUME NEW j \in Members, NEW x \in Members, x \in share'[j]
        PROVE  Passed(x, Contribution)' /\ (j \in lieTo'[x] => j \in just'[x].about \ just'[x].lies)
    <3>1. CASE x \in share[j]
      <4>1. Passed(x, Contribution) /\ (j \in lieTo[x] => j \in just[x].about \ just[x].lies)
        BY <2>2, <3>1 DEF ShareInv
      <4> QED BY <2>2, <2>3, <4>1, KindsListed
    <3>2. CASE j = i /\ x = m /\ i \in just[m].about \ just[m].lies
      BY <2>1, <2>2, <2>3, <3>2, KindsListed
    <3> QED BY <1>5, <2>4, <3>1, <3>2
  <2>5. \A x \in Members : just'[x].about # {} => Passed(x, Justification)'
    BY <2>2, <2>3, KindsListed DEF ShareInv
  <2> QED BY <2>4, <2>5 DEF ShareInv
<1>7. CommitInv'
  <2>1. UNCHANGED <<cur, started, sent, valid, kept, final>>
    BY <1>0 DEF threadVars, msgVars
  <2>2. \A j \in Members : heard'[Commitment][j] = heard[Commitment][j]
    <3>1. TypeOK /\ Justification \in Kinds /\ Commitment \in Kinds
      BY Zenon, KindsListed DEF IInv
    <3>2. Commitment # Justification
      BY Zenon, KindOrder
    <3>3. Receive(i, m, Justification)
      BY Zenon, <1>0
    <3> QED BY ZenonT(40), <3>1, <3>2, <3>3, HeardOther
  <2>3. \A x \in Members : Passed(x, Commitment) => Passed(x, Commitment)'
    BY Zenon, <2>1 DEF Passed
  <2> QED BY Zenon, <1>5, <2>1, <2>2, <2>3, CommitStays
<1> QED BY <1>1, <1>4, <1>6, <1>7 DEF IInv

\* One commitment more is kept.
LEMMA KeptMore ==
    ASSUME NEW K \in [Members -> SUBSET (Members \X SUBSET Members)],
           NEW i \in Members, NEW m \in Members, NEW V \in SUBSET Members
    PROVE  LET L == [K EXCEPT ![i] = K[i] \cup {<<m, V>>}]
           IN  /\ L \in [Members -> SUBSET (Members \X SUBSET Members)]
               /\ \A j \in Members : K[j] \subseteq L[j]
               /\ <<m, V>> \in L[i]
               /\ \A j \in Members : \A c \in L[j] : c \in K[j] \/ c = <<m, V>>
<1>1. <<m, V>> \in Members \X SUBSET Members
  OBVIOUS
<1> DEFINE c == <<m, V>>
<1> HIDE DEF c
<1>2. LET L == [K EXCEPT ![i] = K[i] \cup {c}]
      IN  /\ L \in [Members -> SUBSET (Members \X SUBSET Members)]
          /\ \A j \in Members : K[j] \subseteq L[j]
          /\ c \in L[i]
          /\ \A j \in Members : \A d \in L[j] : d \in K[j] \/ d = c
  BY <1>1 DEF c
<1> QED BY <1>2 DEF c

LEMMA ReceiveCommitmentIInv ==
    ASSUME IInv, NEW i \in Members, NEW m \in Members, ReceiveCommitment(i, m)
    PROVE  IInv'
<1>0. Receive(i, m, Commitment) /\ UNCHANGED <<threadVars, sent, msgVars, conn, final, late>>
      /\ UNCHANGED sessVars
      /\ kept' = [kept EXCEPT ![i] = kept[i] \cup {<<m, valid[m]>>}]
  BY DEF ReceiveCommitment, Receive
<1>1. /\ heard' \in [Kinds -> Sets] /\ relayed' \in [Kinds -> SUBSET Members] /\ SentInv'
      /\ m \in sent[Commitment]
  BY <1>0, ReceiveNet, KindsListed
<1>2. UNCHANGED <<cur, started, sent, valid, share, final>>
  BY <1>0 DEF threadVars, msgVars, sessVars
<1>3. valid[m] \in SUBSET Members
  BY DEF IInv, TypeOK, Sets
<1>4. /\ kept' \in [Members -> SUBSET (Members \X SUBSET Members)]
      /\ \A j \in Members : kept[j] \subseteq kept'[j]
      /\ <<m, valid[m]>> \in kept'[i]
      /\ \A j \in Members : \A c \in kept'[j] : c \in kept[j] \/ c = <<m, valid[m]>>
  BY <1>0, <1>3, KeptMore DEF IInv, TypeOK
<1>5. TypeOK'
  BY <1>0, <1>1, <1>4 DEF IInv, TypeOK, threadVars, msgVars, sessVars
<1>6. ShareInv'
  BY <1>0 DEF IInv, ShareInv, Passed, threadVars, msgVars, sessVars
<1>7. \A x, V : CommittedTo(x, V) => CommittedTo(x, V)'
  BY Zenon, <1>2 DEF CommittedTo, Passed
<1>8. CommittedTo(m, valid[m])
  BY Zenon, <1>1, KindsListed DEF IInv, SentInv, CommitInv, CommittedTo
<1>9. CommitInv'
  <2>1. \A j \in Members : \A x \in heard'[Commitment][j] : <<x, valid'[x]>> \in kept'[j]
    <3> SUFFICES ASSUME NEW j \in Members, NEW x \in heard'[Commitment][j]
                 PROVE  <<x, valid[x]>> \in kept'[j]
      BY Zenon, <1>2
    <3>1. x \in heard[Commitment][j] \/ (j = i /\ x = m)
      BY <1>0, KindsListed DEF Receive, IInv, TypeOK, Sets
    <3> QED BY Zenon, <1>4, <3>1 DEF IInv, CommitInv
  <2>2. \A j, x \in Members : \A V \in SUBSET Members : <<x, V>> \in kept'[j] => CommittedTo(x, V)'
    <3> SUFFICES ASSUME NEW j \in Members, NEW x \in Members, NEW V \in SUBSET Members,
                        <<x, V>> \in kept'[j]
                 PROVE  CommittedTo(x, V)
      BY Zenon, <1>7
    <3>1. CASE <<x, V>> \in kept[j]
      BY Zenon, <3>1 DEF IInv, CommitInv
    <3>2. CASE <<x, V>> = <<m, valid[m]>>
      <4>1. x = m /\ V = valid[m]
        BY <3>2
      <4> QED BY Zenon, <1>8, <4>1
    <3> QED BY Zenon, <1>4, <3>1, <3>2
  <2> QED BY Zenon, <1>2, <1>7, <2>1, <2>2 DEF IInv, CommitInv
<1> QED BY <1>1, <1>5, <1>6, <1>9 DEF IInv

\* A further commitment rests on the shares of a faulty member.
LEMMA ReceiveFurtherIInv ==
    ASSUME IInv, NEW i \in Members, NEW m \in Members, ReceiveFurther(i, m)
    PROVE  IInv'
<1>1. PICK V \in Further : /\ V \subseteq share[m]
                           /\ kept' = [kept EXCEPT ![i] = kept[i] \cup {<<m, V>>}]
  BY Zenon DEF ReceiveFurther
<1>2. /\ UNCHANGED <<threadVars, netVars, msgVars, conn, sessVars, final, late>>
      /\ m \in Faulty /\ cur[m] >= Commitment /\ ~Due(m, Commitment)
  BY Zenon DEF ReceiveFurther
<1>3. UNCHANGED <<phase, cur, started, heard, relayed, sent, lieTo, compl, just, valid, conn,
                  bad, weComplain, share, votes, open, final, late>>
  BY <1>2 DEF threadVars, netVars, msgVars, sessVars
<1>4. V \in SUBSET Members
  BY QuorumAssumption
<1>5. /\ kept' \in [Members -> SUBSET (Members \X SUBSET Members)]
      /\ \A j \in Members : kept[j] \subseteq kept'[j]
      /\ \A j \in Members : \A c \in kept'[j] : c \in kept[j] \/ c = <<m, V>>
  BY <1>1, <1>4, KeptMore DEF IInv, TypeOK
<1>6. TypeOK'
  BY Zenon, <1>3, <1>5 DEF IInv, TypeOK
<1>7. SentInv' /\ ShareInv'
  BY Zenon, <1>3 DEF IInv, SentInv, ShareInv, Passed
<1>8. \A x, W : CommittedTo(x, W) => CommittedTo(x, W)'
  BY Zenon, <1>3 DEF CommittedTo, Passed
<1>9. CommittedTo(m, V)
  <2>1. cur[m] \in Int
    BY SMT, Z3, SMTT(10), Z3T(10) DEF IInv, TypeOK, Initialized, Idle
  <2>2. Passed(m, Commitment)
    BY SMT, Z3, SMTT(10), Z3T(10), <1>2, <2>1 DEF Passed, Due, Commitment
  <2> QED BY Zenon, <1>1, <1>2, <2>2 DEF CommittedTo
<1>10. CommitInv'
  <2>1. \A j, x \in Members : \A W \in SUBSET Members : <<x, W>> \in kept'[j] => CommittedTo(x, W)'
    <3> SUFFICES ASSUME NEW j \in Members, NEW x \in Members, NEW W \in SUBSET Members,
                        <<x, W>> \in kept'[j]
                 PROVE  CommittedTo(x, W)
      BY Zenon, <1>8
    <3>1. CASE <<x, W>> \in kept[j]
      BY Zenon, <3>1 DEF IInv, CommitInv
    <3>2. CASE <<x, W>> = <<m, V>>
      <4>1. x = m /\ W = V
        BY <3>2
      <4> QED BY Zenon, <1>9, <4>1
    <3> QED BY Zenon, <1>5, <3>1, <3>2
  <2> QED BY Zenon, <1>3, <1>5, <1>8, <2>1 DEF IInv, CommitInv
<1> QED BY Zenon, <1>6, <1>7, <1>10 DEF IInv

-----------------------------------------------------------------------------
(***************************************************************************)
(* Start functions: the member had not passed the phase, so whatever rests *)
(* on its having done so is about others.                                  *)
(***************************************************************************)
LEMMA StartNet ==
    ASSUME IInv, NEW i \in Members, NEW k \in Kinds, Due(i, k), Start(i),
           UNCHANGED netVars \/ Push(i, k)
    PROVE  /\ phase' \in Initialized..Idle
           /\ cur' \in [Members -> Initialized..Idle]
           /\ started' \subseteq Members
           /\ heard' \in [Kinds -> Sets]
           /\ relayed' \in [Kinds -> SUBSET Members]
           /\ sent' \in [Kinds -> SUBSET Members]
           /\ SentInv'
           /\ ~Passed(i, k) /\ Passed(i, k)'
           /\ i \notin sent[k]
           /\ sent' = sent \/ sent' = [sent EXCEPT ![k] = sent[k] \cup {i}]
           /\ \A m \in Members : \A n \in Initialized..Idle : Passed(m, n) => Passed(m, n)'
<1>1. Moves(i)
  BY DEF Start, Moves
<1>2. \A m \in Members : \A n \in Initialized..Idle : Passed(m, n) => Passed(m, n)'
  BY <1>1, PassedStays DEF IInv
<1>3. ~Passed(i, k) /\ Passed(i, k)'
  BY SMT, Z3, SMTT(10), Z3T(10), PhaseNumbers DEF Due, Start, Passed, IInv, TypeOK, Kinds, Contribution, Commitment
<1>4. i \notin sent[k]
  BY <1>3 DEF IInv, SentInv
<1>5. UNCHANGED <<heard, relayed>>
      /\ (sent' = sent \/ sent' = [sent EXCEPT ![k] = sent[k] \cup {i}])
  BY DEF netVars, Push
<1>6. sent' \in [Kinds -> SUBSET Members] /\ (\A n \in Kinds : sent[n] \subseteq sent'[n])
      /\ (\A n \in Kinds : \A m \in sent'[n] : m \in sent[n] \/ (m = i /\ n = k))
  BY SMT, Z3, SMTT(10), Z3T(10), <1>5 DEF IInv, TypeOK
<1>7. SentInv'
  <2> SUFFICES ASSUME NEW n \in Kinds
               PROVE  /\ relayed[n] \subseteq sent'[n]
                      /\ \A j \in Members : heard[n][j] \subseteq sent'[n]
                      /\ \A m \in sent'[n] : Passed(m, n)'
    BY <1>5 DEF SentInv
  <2>1. ASSUME NEW m \in sent'[n]
        PROVE  Passed(m, n)'
    <3>1. CASE m \in sent[n]
      <4>1. Passed(m, n) /\ m \in Members
        BY <3>1 DEF IInv, SentInv, TypeOK
      <4> QED BY <1>2, <4>1, PhaseNumbers
    <3>2. CASE m = i /\ n = k
      BY <1>3, <3>2
    <3> QED BY <1>6, <2>1, <3>1, <3>2
  <2> QED BY <1>6, <2>1 DEF IInv, SentInv
<1> QED BY <1>2, <1>3, <1>4, <1>5, <1>6, <1>7 DEF IInv, TypeOK, Start

LEMMA ContributeIInv ==
    ASSUME IInv, NEW i \in Members, Contribute(i)
    PROVE  IInv'
<1>0. /\ UNCHANGED <<compl, just, valid, conn, sessVars, kept, final, late>>
      /\ Due(i, Contribution) /\ Start(i)
      /\ UNCHANGED netVars \/ Push(i, Contribution)
  BY DEF Contribute, netVars
<1>1. PICK S \in SUBSET Members : lieTo' = lieTo \/ lieTo' = [lieTo EXCEPT ![i] = S]
  BY DEF Contribute
<1>2. /\ phase' \in Initialized..Idle /\ cur' \in [Members -> Initialized..Idle]
      /\ started' \subseteq Members /\ heard' \in [Kinds -> Sets]
      /\ relayed' \in [Kinds -> SUBSET Members] /\ sent' \in [Kinds -> SUBSET Members]
      /\ SentInv' /\ ~Passed(i, Contribution)
      /\ sent' = sent \/ sent' = [sent EXCEPT ![Contribution] = sent[Contribution] \cup {i}]
      /\ \A m \in Members : \A n \in Initialized..Idle : Passed(m, n) => Passed(m, n)'
  BY <1>0, StartNet, KindsListed
<1>3. lieTo' \in Sets
  BY Zenon, <1>1 DEF IInv, TypeOK, Sets
<1>4. TypeOK'
  BY <1>0, <1>2, <1>3 DEF IInv, TypeOK, sessVars
<1>5. ShareInv'
  <2>1. \A m \in Members : m # i => lieTo'[m] = lieTo[m]
    BY <1>1 DEF IInv, TypeOK, Sets
  <2>2. Contribution \in Initialized..Idle /\ Justification \in Initialized..Idle
    BY Zenon, PhaseNumbers
  <2> QED BY <1>0, <1>2, <2>1, <2>2 DEF IInv, ShareInv, sessVars
<1>6. CommitInv'
  <2>1. sent'[Commitment] = sent[Commitment]
    BY SMT, Z3, SMTT(10), Z3T(10), <1>2, KindsListed DEF IInv, TypeOK, Contribution, Commitment
  <2>2. UNCHANGED <<heard, valid, kept, final, share>> /\ Commitment \in Initialized..Idle
    BY <1>0, PhaseNumbers DEF netVars, Push, sessVars
  <2> QED BY Zenon, <1>2, <2>1, <2>2, CommitStays
<1> QED BY <1>2, <1>4, <1>5, <1>6 DEF IInv

LEMMA VerifyAndComplainIInv ==
    ASSUME IInv, NEW i \in Members, VerifyAndComplain(i)
    PROVE  IInv'
<1> DEFINE got == heard[Contribution][i]
           complain == weComplain[i] \cup {m \in got : i \in lieTo[m]}
           badNow == bad[i] \cup (Members \ got)
           badOut == badNow \cup conn[i]
           forOut == complain \ badOut
<1>0. /\ UNCHANGED <<lieTo, just, valid, conn, votes, open, kept, final, late>>
      /\ Due(i, Complaint) /\ Start(i)
      /\ UNCHANGED netVars \/ Push(i, Complaint)
      /\ weComplain' = [weComplain EXCEPT ![i] = complain]
      /\ share' = [share EXCEPT ![i] = got \ complain]
      /\ bad' = [bad EXCEPT ![i] = badNow]
      /\ compl' = compl \/ compl' = [compl EXCEPT ![i] = [bad |-> badOut, about |-> forOut]]
  BY DEF VerifyAndComplain, netVars
<1>1. /\ got \subseteq Members /\ weComplain[i] \subseteq Members /\ bad[i] \subseteq Members
      /\ conn[i] \subseteq Members
  BY SMT, Z3, SMTT(10), Z3T(10), KindsListed DEF IInv, TypeOK, Sets
<1>2. /\ phase' \in Initialized..Idle /\ cur' \in [Members -> Initialized..Idle]
      /\ started' \subseteq Members /\ heard' \in [Kinds -> Sets]
      /\ relayed' \in [Kinds -> SUBSET Members] /\ sent' \in [Kinds -> SUBSET Members]
      /\ SentInv' /\ ~Passed(i, Complaint)
      /\ sent' = sent \/ sent' = [sent EXCEPT ![Complaint] = sent[Complaint] \cup {i}]
      /\ \A m \in Members : \A n \in Initialized..Idle : Passed(m, n) => Passed(m, n)'
  BY Zenon, <1>0, StartNet, KindsListed
<1>3. weComplain' \in Sets /\ share' \in Sets /\ bad' \in Sets
  <2>1. complain \subseteq Members /\ got \ complain \subseteq Members /\ badNow \subseteq Members
    BY <1>1
  <2> HIDE DEF complain, badNow
  <2> QED BY Zenon, <1>0, <2>1, SetsExcept DEF IInv, TypeOK
<1>4. compl' \in [Members -> Complaints]
  <2>1. [bad |-> badOut, about |-> forOut] \in Complaints
    BY <1>1 DEF Complaints
  <2> HIDE DEF badOut, forOut
  <2> QED BY <1>0, <2>1 DEF IInv, TypeOK
<1>5. TypeOK'
  BY Zenon, <1>0, <1>2, <1>3, <1>4 DEF IInv, TypeOK
<1>6. ShareInv'
  <2>1. \A j, m \in Members : m \in share'[j] =>
           m \in share[j] \/ (j = i /\ m \in got /\ i \notin lieTo[m])
    BY <1>0 DEF IInv, TypeOK, Sets
  <2>2. \A m \in got : Passed(m, Contribution)
    BY KindsListed DEF IInv, SentInv
  <2>3. Contribution \in Initialized..Idle /\ Justification \in Initialized..Idle
    BY PhaseNumbers
  <2>4. UNCHANGED <<lieTo, just>> /\ ShareInv /\ got \subseteq Members
    BY <1>0, <1>1 DEF IInv
  <2> HIDE DEF got
  <2>5. ASSUME NEW j \in Members, NEW x \in Members, x \in share'[j]
        PROVE  Passed(x, Contribution)' /\ (j \in lieTo'[x] => j \in just'[x].about \ just'[x].lies)
    <3>1. CASE x \in share[j]
      <4>1. Passed(x, Contribution) /\ (j \in lieTo[x] => j \in just[x].about \ just[x].lies)
        BY <2>4, <3>1 DEF ShareInv
      <4> QED BY <1>2, <2>3, <2>4, <4>1
    <3>2. CASE j = i /\ x \in got /\ i \notin lieTo[x]
      BY <1>2, <2>2, <2>3, <2>4, <3>2
    <3> QED BY <2>1, <2>5, <3>1, <3>2
  <2>6. \A x \in Members : just'[x].about # {} => Passed(x, Justification)'
    BY Zenon, <1>2, <2>3, <2>4 DEF ShareInv
  <2> QED BY <2>5, <2>6 DEF ShareInv
<1>7. CommitInv'
  <2>1. sent'[Commitment] = sent[Commitment]
    BY SMT, Z3, SMTT(10), Z3T(10), <1>2, KindsListed DEF IInv, TypeOK, Complaint, Commitment
  <2>2. ~Passed(i, Commitment)
    <3>1. cur[i] = Complaint
      BY <1>0 DEF Due
    <3> QED BY SMT, Z3, SMTT(10), Z3T(10), <3>1 DEF Passed, Complaint, Commitment
  <2>3. \A m \in Members : Passed(m, Commitment) => share'[m] = share[m]
    BY <1>0, <2>2 DEF IInv, TypeOK, Sets
  <2>4. UNCHANGED <<heard, valid, kept, final>> /\ Commitment \in Initialized..Idle
    BY <1>0, PhaseNumbers DEF netVars, Push
  <2> QED BY Zenon, <1>2, <2>1, <2>3, <2>4, CommitStays
<1> QED BY Zenon, <1>2, <1>5, <1>6, <1>7 DEF IInv

LEMMA VerifyAndJustifyIInv ==
    ASSUME IInv, NEW i \in Members, VerifyAndJustify(i)
    PROVE  IInv'
<1>0. /\ UNCHANGED <<lieTo, compl, valid, conn, weComplain, share, votes, open, kept, final, late>>
      /\ Due(i, Justification) /\ Start(i)
      /\ UNCHANGED netVars \/ Push(i, Justification)
  BY Zenon DEF VerifyAndJustify, netVars
<1>1. PICK B \in SUBSET Members : bad' = [bad EXCEPT ![i] = B]
  <2>1. bad[i] \subseteq Members
    BY DEF IInv, TypeOK, Sets
  <2> QED BY Zenon, <2>1 DEF VerifyAndJustify
<1>2. PICK J \in Justifications : just' = just \/ just' = [just EXCEPT ![i] = J]
  <2>1. heard[Complaint][i] \subseteq Members
    BY SMT, Z3, SMTT(10), Z3T(10), KindsListed DEF IInv, TypeOK, Sets
  <2>2. \A A, L \in SUBSET Members : [about |-> A, lies |-> L] \in Justifications
    BY DEF Justifications
  <2>3. just' = just \/ \E A, L \in SUBSET Members :
                           just' = [just EXCEPT ![i] = [about |-> A, lies |-> L]]
    BY Zenon, <2>1 DEF VerifyAndJustify
  <2>4. just[i] \in Justifications
    BY DEF IInv, TypeOK
  <2> QED BY <2>2, <2>3, <2>4
<1>3. /\ phase' \in Initialized..Idle /\ cur' \in [Members -> Initialized..Idle]
      /\ started' \subseteq Members /\ heard' \in [Kinds -> Sets]
      /\ relayed' \in [Kinds -> SUBSET Members] /\ sent' \in [Kinds -> SUBSET Members]
      /\ SentInv' /\ ~Passed(i, Justification) /\ Passed(i, Justification)'
      /\ sent' = sent \/ sent' = [sent EXCEPT ![Justification] = sent[Justification] \cup {i}]
      /\ \A m \in Members : \A n \in Initialized..Idle : Passed(m, n) => Passed(m, n)'
  BY <1>0, StartNet, KindsListed
<1>4. bad' \in Sets
  BY Zenon, <1>1, SetsExcept DEF IInv, TypeOK
<1>5. just' \in [Members -> Justifications]
  BY <1>2 DEF IInv, TypeOK
<1>6. TypeOK'
  BY ZenonT(40), <1>0, <1>3, <1>4, <1>5 DEF IInv, TypeOK
<1>7. ShareInv'
  <2>1. \A m \in Members : m # i => just'[m] = just[m]
    BY <1>2 DEF IInv, TypeOK
  <2>2. just[i].about = {}
    BY <1>3 DEF IInv, ShareInv
  <2>3. Contribution \in Initialized..Idle /\ Justification \in Initialized..Idle
    BY PhaseNumbers
  <2> QED BY <1>0, <1>3, <2>1, <2>2, <2>3 DEF IInv, ShareInv
<1>8. CommitInv'
  <2>1. sent'[Commitment] = sent[Commitment]
    BY SMT, Z3, SMTT(10), Z3T(10), <1>3, KindsListed DEF IInv, TypeOK, Justification, Commitment
  <2>2. UNCHANGED <<heard, valid, kept, final, share>> /\ Commitment \in Initialized..Idle
    BY <1>0, PhaseNumbers DEF netVars, Push, sessVars
  <2> QED BY Zenon, <1>3, <2>1, <2>2, CommitStays
<1> QED BY <1>3, <1>6, <1>7, <1>8 DEF IInv

LEMMA VerifyAndCommitIInv ==
    ASSUME IInv, NEW i \in Members, VerifyAndCommit(i)
    PROVE  IInv'
<1>0. /\ UNCHANGED <<lieTo, compl, just, conn, weComplain, share, votes, open, kept, final, late>>
      /\ Due(i, Commitment) /\ Start(i)
      /\ UNCHANGED netVars \/ Push(i, Commitment)
  BY DEF VerifyAndCommit, netVars
<1>1. PICK B \in SUBSET Members : bad' = [bad EXCEPT ![i] = B]
  <2>1. bad[i] \subseteq Members
    BY DEF IInv, TypeOK, Sets
  <2> QED BY Zenon, <2>1 DEF VerifyAndCommit
<1>2. \/ UNCHANGED <<netVars, valid>>
      \/ \E G \in SUBSET Members : G \subseteq share[i] /\ valid' = [valid EXCEPT ![i] = G]
  BY DEF VerifyAndCommit
<1>3. /\ phase' \in Initialized..Idle /\ cur' \in [Members -> Initialized..Idle]
      /\ started' \subseteq Members /\ heard' \in [Kinds -> Sets]
      /\ relayed' \in [Kinds -> SUBSET Members] /\ sent' \in [Kinds -> SUBSET Members]
      /\ SentInv' /\ i \notin sent[Commitment]
      /\ sent' = sent \/ sent' = [sent EXCEPT ![Commitment] = sent[Commitment] \cup {i}]
      /\ \A m \in Members : \A n \in Initialized..Idle : Passed(m, n) => Passed(m, n)'
  BY <1>0, StartNet, KindsListed
<1>4. bad' \in Sets
  BY Zenon, <1>1, SetsExcept DEF IInv, TypeOK
<1>5. valid' \in Sets
  BY Zenon, <1>2 DEF IInv, TypeOK, Sets
<1>6. TypeOK'
  BY Zenon, <1>0, <1>3, <1>4, <1>5 DEF IInv, TypeOK
<1>7. ShareInv'
  <2>3. Contribution \in Initialized..Idle /\ Justification \in Initialized..Idle
    BY PhaseNumbers
  <2> QED BY <1>0, <1>3, <2>3 DEF IInv, ShareInv
<1>8. CommitInv'
  <2>1. \A m \in Members : m # i => valid'[m] = valid[m]
    BY <1>2 DEF IInv, TypeOK, Sets
  <2>2. sent[Commitment] \subseteq Members /\ sent[Commitment] \subseteq sent'[Commitment]
        /\ sent'[Commitment] \subseteq sent[Commitment] \cup {i}
    BY <1>3, KindsListed DEF IInv, TypeOK
  <2>3. i \in sent'[Commitment] => valid'[i] \subseteq share[i]
    <3>1. CASE UNCHANGED <<netVars, valid>>
      BY <1>3, <3>1 DEF netVars
    <3>2. CASE \E G \in SUBSET Members : G \subseteq share[i] /\ valid' = [valid EXCEPT ![i] = G]
      <4>1. valid \in Sets
        BY DEF IInv, TypeOK
      <4> QED BY <3>2, <4>1 DEF Sets
    <3> QED BY <1>2, <3>1, <3>2
  <2>4. \A m \in sent[Commitment] : m \in Members /\ m # i
    BY <1>3, <2>2
  <2>5. UNCHANGED <<heard, kept, final, share>> /\ Commitment \in Initialized..Idle
    BY <1>0, PhaseNumbers DEF netVars, Push
  <2>6. \A m \in Members : \A V : CommittedTo(m, V) => CommittedTo(m, V)'
    BY Zenon, <1>3, <2>1, <2>2, <2>4, <2>5 DEF CommittedTo
  <2>7. \A j \in Members : \A m \in heard'[Commitment][j] : <<m, valid'[m]>> \in kept'[j]
    <3>1. \A j \in Members : \A m \in heard[Commitment][j] : valid'[m] = valid[m]
      BY Zenon, <2>1, <2>4, KindsListed DEF IInv, SentInv
    <3> QED BY Zenon, <2>5, <3>1 DEF IInv, CommitInv
  <2>8. \A j \in Members : \A c \in final[j] : \A s \in c.signers : s \in Members
    <3>1. \A j \in Members : \A c \in final[j] : c \in [valid : SUBSET Members, signers : SUBSET Members]
      BY Zenon DEF IInv, TypeOK
    <3> QED BY <3>1
  <2>9. \A m \in sent'[Commitment] : valid'[m] \subseteq share'[m]
    BY Zenon, <2>1, <2>2, <2>3, <2>4, <2>5 DEF IInv, CommitInv
  <2> QED BY Zenon, <2>5, <2>6, <2>7, <2>8, <2>9 DEF IInv, CommitInv
<1> QED BY <1>3, <1>6, <1>7, <1>8 DEF IInv

\* What is final is made of commitments that reached the member.
LEMMA FinalizeCommitmentsIInv ==
    ASSUME IInv, NEW i \in Members, FinalizeCommitments(i)
    PROVE  IInv'
<1> DEFINE signers(V) == {m \in Members : <<m, V>> \in kept[i]}
           made == {[valid |-> V, signers |-> signers(V)] :
                       V \in {W \in SUBSET Members : Cardinality(signers(W)) >= MinSize}}
<1>0. /\ UNCHANGED <<phase, netVars, msgVars, conn, sessVars, kept, late>>
      /\ final' = [final EXCEPT ![i] = made]
      /\ cur[i] = Commitment
      /\ cur' = [cur EXCEPT ![i] = Idle] /\ started' = started \ {i}
  BY DEF FinalizeCommitments
<1>1. Moves(i)
  <2>1. Idle \in Initialized..Idle /\ Idle > Commitment
    BY SMT, Z3, SMTT(10), Z3T(10) DEF Initialized, Commitment, Idle
  <2> QED BY Zenon, <1>0, <2>1 DEF Moves
<1>2. \A m \in Members : \A n \in Initialized..Idle : Passed(m, n) => Passed(m, n)'
  BY <1>1, PassedStays DEF IInv
<1>3. \A V \in SUBSET Members : \A m \in signers(V) : CommittedTo(m, V)
  BY Zenon DEF IInv, CommitInv
<1>4. \A c \in made : /\ c \in [valid : SUBSET Members, signers : SUBSET Members]
                      /\ Cardinality(c.signers) >= MinSize
                      /\ \A s \in c.signers : s \in Members /\ CommittedTo(s, c.valid)
  <2> TAKE c \in made
  <2>1. PICK V \in SUBSET Members : /\ Cardinality(signers(V)) >= MinSize
                                    /\ c = [valid |-> V, signers |-> signers(V)]
    BY Zenon
  <2>2. c.valid = V /\ c.signers = signers(V)
    BY <2>1
  <2>3. signers(V) \subseteq Members
    OBVIOUS
  <2>4. c \in [valid : SUBSET Members, signers : SUBSET Members]
    BY <2>1, <2>3
  <2> HIDE DEF signers, made
  <2> QED BY Zenon, <1>3, <2>1, <2>2, <2>3, <2>4
<1> HIDE DEF made
<1>5. final' \in [Members -> SUBSET [valid : SUBSET Members, signers : SUBSET Members]]
  <2>1. made \in SUBSET [valid : SUBSET Members, signers : SUBSET Members]
    BY <1>4
  <2> QED BY <1>0, <2>1 DEF IInv, TypeOK
<1>6. TypeOK'
  <2>1. cur' \in [Members -> Initialized..Idle]
    BY SMT, Z3, SMTT(10), Z3T(10), <1>0 DEF IInv, TypeOK, Initialized, Idle
  <2> QED BY <1>0, <1>5, <2>1 DEF IInv, TypeOK, netVars, msgVars, sessVars
<1>7. SentInv'
  <2>1. \A n \in Kinds : \A m \in sent[n] : m \in Members /\ n \in Initialized..Idle
    BY PhaseNumbers DEF IInv, TypeOK
  <2> QED BY <1>0, <1>2, <2>1 DEF IInv, SentInv, netVars
<1>8. ShareInv'
  <2>1. Contribution \in Initialized..Idle /\ Justification \in Initialized..Idle
    BY PhaseNumbers
  <2> QED BY <1>0, <1>2, <2>1 DEF IInv, ShareInv, msgVars, sessVars
<1>9. CommitInv'
  <2>1. \A j \in Members : \A c \in final'[j] : c \in made \/ c \in final[j]
    BY <1>0 DEF IInv, TypeOK
  <2>2. UNCHANGED <<heard, sent, valid, kept, share>> /\ Commitment \in Initialized..Idle
    BY <1>0, PhaseNumbers DEF netVars, msgVars, sessVars
  <2>3. \A m \in Members : \A V : CommittedTo(m, V) => CommittedTo(m, V)'
    BY Zenon, <1>2, <2>2 DEF CommittedTo
  <2>4. \A j \in Members : \A c \in final[j] : \A s \in c.signers : s \in Members
    <3>1. \A j \in Members : \A c \in final[j] : c \in [valid : SUBSET Members, signers : SUBSET Members]
      BY Zenon DEF IInv, TypeOK
    <3> QED BY <3>1
  <2>5. \A j \in Members : \A c \in final'[j] :
           /\ Cardinality(c.signers) >= MinSize
           /\ \A s \in c.signers : CommittedTo(s, c.valid)'
    <3> SUFFICES ASSUME NEW j \in Members, NEW c \in final'[j]
                 PROVE  /\ Cardinality(c.signers) >= MinSize
                        /\ \A s \in c.signers : s \in Members /\ CommittedTo(s, c.valid)
      BY Zenon, <2>3
    <3>1. CASE c \in made
      BY Zenon, <1>4, <3>1
    <3>2. CASE c \in final[j]
      BY Zenon, <2>4, <3>2 DEF IInv, CommitInv
    <3> QED BY Zenon, <2>1, <3>1, <3>2
  <2> QED BY Zenon, <2>2, <2>3, <2>5 DEF IInv, CommitInv
<1> QED BY Zenon, <1>6, <1>7, <1>8, <1>9 DEF IInv

LEMMA NextIInv == IInv /\ [Next]_vars => IInv'
<1> SUFFICES ASSUME IInv, [Next]_vars PROVE IInv'
  OBVIOUS
<1>1. CASE UpdatedBlockTip
  BY <1>1, UpdatedBlockTipIInv
<1>2. CASE InitNewQuorum
  BY <1>2, InitNewQuorumIInv
<1>3. ASSUME NEW i \in Members, HandleDKGRound(i)
      PROVE  IInv'
  <2>1. CASE WaitForNextPhase(i)
    BY <2>1, WaitForNextPhaseIInv
  <2>2. CASE Abort(i)
    BY <2>2, AbortIInv
  <2>3. CASE Contribute(i)
    BY <2>3, ContributeIInv
  <2>4. CASE VerifyAndComplain(i)
    BY <2>4, VerifyAndComplainIInv
  <2>5. CASE VerifyAndJustify(i)
    BY <2>5, VerifyAndJustifyIInv
  <2>6. CASE VerifyAndCommit(i)
    BY <2>6, VerifyAndCommitIInv
  <2>7. CASE FinalizeCommitments(i)
    BY <2>7, FinalizeCommitmentsIInv
  <2>8. ASSUME NEW m \in Members,
               \/ ReceiveContribution(i, m) \/ ReceiveComplaint(i, m)
               \/ ReceiveJustification(i, m) \/ ReceiveCommitment(i, m)
               \/ ReceiveFurther(i, m)
        PROVE  IInv'
    BY <2>8, ReceiveContributionIInv, ReceiveComplaintIInv, ReceiveJustificationIInv,
       ReceiveCommitmentIInv, ReceiveFurtherIInv
  <2> QED BY <1>3, <2>1, <2>2, <2>3, <2>4, <2>5, <2>6, <2>7, <2>8 DEF HandleDKGRound
<1>4. CASE UNCHANGED vars
  <2>0. /\ phase' = phase /\ cur' = cur /\ started' = started
        /\ heard' = heard /\ relayed' = relayed /\ sent' = sent
        /\ lieTo' = lieTo /\ compl' = compl /\ just' = just /\ valid' = valid
        /\ conn' = conn /\ bad' = bad /\ weComplain' = weComplain /\ share' = share
        /\ votes' = votes /\ open' = open /\ kept' = kept /\ final' = final /\ late' = late
    BY <1>4 DEF vars, threadVars, netVars, msgVars, sessVars
  <2>1. TypeOK'
    BY <2>0 DEF IInv, TypeOK
  <2>2. SentInv'
    BY <2>0 DEF IInv, SentInv, Passed
  <2>3. ShareInv'
    BY <2>0 DEF IInv, ShareInv, Passed
  <2>4. CommitInv'
    <3>1. UNCHANGED <<valid, kept, final>> /\ sent'[Commitment] = sent[Commitment]
          /\ \A j \in Members : heard'[Commitment][j] = heard[Commitment][j]
      BY <2>0
    <3>2. \A m \in Members : Passed(m, Commitment) =>
              Passed(m, Commitment)' /\ share[m] \subseteq share'[m]
      BY Zenon, <2>0 DEF Passed
    <3> QED BY Zenon, <3>1, <3>2, CommitStays
  <2> QED BY <2>1, <2>2, <2>3, <2>4 DEF IInv
<1> QED BY <1>1, <1>2, <1>3, <1>4 DEF Next

-----------------------------------------------------------------------------
\* Two sets of signers of at least minSize members each share this many.
LEMMA SignersMeet ==
    ASSUME NEW S \in SUBSET Members, NEW T \in SUBSET Members,
           Cardinality(S) >= MinSize, Cardinality(T) >= MinSize
    PROVE  Cardinality(S \cap T) >= 2 * MinSize - Cardinality(Members)
<1>1. IsFiniteSet(S) /\ IsFiniteSet(T) /\ IsFiniteSet(S \cap T)
  <2>1. S \cap T \subseteq Members
    OBVIOUS
  <2> QED BY <2>1, FS_Subset, QuorumAssumption
<1>2. Cardinality(S \cup T) <= Cardinality(Members)
  <2>1. S \cup T \subseteq Members
    OBVIOUS
  <2> QED BY <2>1, FS_Subset, QuorumAssumption
<1>3. Cardinality(S \cup T) = Cardinality(S) + Cardinality(T) - Cardinality(S \cap T)
  BY <1>1, FS_Union
<1>4. Cardinality(S) \in Nat /\ Cardinality(T) \in Nat /\ Cardinality(Members) \in Nat
      /\ Cardinality(S \cap T) \in Nat /\ MinSize \in Nat
  BY <1>1, FS_CardinalityType, QuorumAssumption
<1> QED BY SMT, Z3, SMTT(10), Z3T(10), <1>2, <1>3, <1>4

\* The signers that two different final commitments have in common.
LEMMA SignersOfTwo ==
    ASSUME IInv, NEW i \in Members, NEW j \in Members,
           NEW f \in final[i], NEW g \in final[j], f.valid # g.valid
    PROVE  /\ f.signers \cap g.signers \subseteq Faulty
           /\ Cardinality(f.signers \cap g.signers) >= 2 * MinSize - Cardinality(Members)
<1>1. /\ f \in [valid : SUBSET Members, signers : SUBSET Members]
      /\ g \in [valid : SUBSET Members, signers : SUBSET Members]
  BY Zenon DEF IInv, TypeOK
<1>2. f.signers \in SUBSET Members /\ g.signers \in SUBSET Members
  BY <1>1
<1>3. /\ Cardinality(f.signers) >= MinSize /\ \A s \in f.signers : CommittedTo(s, f.valid)
      /\ Cardinality(g.signers) >= MinSize /\ \A s \in g.signers : CommittedTo(s, g.valid)
  BY Zenon DEF IInv, CommitInv
<1>4. f.signers \cap g.signers \subseteq Faulty
  <2> SUFFICES ASSUME NEW s, s \in f.signers, s \in g.signers, s \notin Faulty PROVE FALSE
    BY Zenon
  <2>1. valid[s] = f.valid /\ valid[s] = g.valid
    BY Zenon, <1>3 DEF CommittedTo
  <2> QED BY <2>1
<1> QED BY Zenon, <1>2, <1>3, <1>4, SignersMeet

\* Two final commitments of a round, of one node or of two, name the same valid
\* members unless at least 2 * minSize - size faulty members signed both:
\* FinalizeCommitments asks for minSize equal commitments, and VerifyAndCommit
\* of an honest member lets one out.
THEOREM DKGAgreement == Spec => []FinalAgreement
<1>1. IInv => FinalAgreement
  BY SignersOfTwo DEF FinalAgreement
<1> QED BY <1>1, InitIInv, NextIInv, PTL DEF Spec

OneKey == \A i, j \in Members : \A f \in final[i], g \in final[j] : f.valid = g.valid

\* With fewer than 2 * minSize - size faulty members (200 of 400 for llmq_400_60)
\* all final commitments of a round are to one set of valid members and one
\* quorum key, also where ReceiveMessage keeps several commitments of a member.
THEOREM DKGOneKey ==
    Cardinality(Faulty) < 2 * MinSize - Cardinality(Members) => (Spec => []OneKey)
<1> SUFFICES ASSUME Cardinality(Faulty) < 2 * MinSize - Cardinality(Members)
             PROVE  Spec => []OneKey
  OBVIOUS
<1>1. IInv => OneKey
  <2> SUFFICES ASSUME IInv, NEW i \in Members, NEW j \in Members,
                      NEW f \in final[i], NEW g \in final[j], f.valid # g.valid
               PROVE  FALSE
    BY Zenon DEF OneKey
  <2> DEFINE C == f.signers \cap g.signers
  <2>1. C \subseteq Faulty /\ Cardinality(C) >= 2 * MinSize - Cardinality(Members)
    BY Zenon, SignersOfTwo
  <2> HIDE DEF C
  <2>2. IsFiniteSet(Faulty) /\ IsFiniteSet(C) /\ Cardinality(C) <= Cardinality(Faulty)
    BY <2>1, FS_Subset, QuorumAssumption
  <2>3. Cardinality(C) \in Nat /\ Cardinality(Faulty) \in Nat /\ Cardinality(Members) \in Nat
        /\ MinSize \in Nat
    BY <2>2, FS_CardinalityType, QuorumAssumption
  <2> QED BY SMT, Z3, SMTT(10), Z3T(10), <2>1, <2>2, <2>3
<1> QED BY <1>1, InitIInv, NextIInv, PTL DEF Spec

\* The signers of a final commitment hold a right share from each member it
\* calls valid: a share is right when it is verified or justified, and
\* SendCommitment gives up unless the member has one from all it counts as good.
THEOREM DKGShares == Spec => [](TypeOK /\ SignersHoldShares)
<1>1. Init => IInv
  BY InitIInv
<1>2. IInv /\ [Next]_vars => IInv'
  BY NextIInv
<1>3. IInv => TypeOK /\ SignersHoldShares
  <2> SUFFICES ASSUME IInv, NEW i \in Members, NEW f \in final[i], NEW s \in f.signers
               PROVE  /\ f.valid \subseteq share[s]
                      /\ \A m \in f.valid : s \in lieTo[m] => s \in just[m].about \ just[m].lies
    BY DEF IInv, SignersHoldShares
  <2>1. f.valid \subseteq share[s]
    BY Zenon DEF IInv, CommitInv, CommittedTo
  <2>2. f.valid \subseteq share[s] /\ s \in Members /\ share[s] \subseteq Members
    <3>1. f \in [valid : SUBSET Members, signers : SUBSET Members]
      BY Zenon DEF IInv, TypeOK
    <3>2. s \in Members
      BY <3>1
    <3> QED BY <2>1, <3>2 DEF IInv, TypeOK, Sets
  <2> QED BY <2>2 DEF IInv, ShareInv
<1> QED BY <1>1, <1>2, <1>3, PTL DEF Spec

-----------------------------------------------------------------------------
(***************************************************************************)
(* Rounds in which everybody keeps up: what messages and sessions then say *)
(* of each other.                                                          *)
(***************************************************************************)
\* The complaints about x that i has received.
Against(i, x) == {m \in heard[Complaint][i] : x \in compl[m].about}

\* Those of the complaints i has received that hold x for bad.
Blaming(i, x) == {m \in heard[Complaint][i] : x \in compl[m].bad}

\* A message is received in its phase and served from then on.
HeardInv ==
    \A k \in Kinds : \A i \in Members :
        /\ heard[k][i] \subseteq relayed[k]
        /\ heard[k][i] # {} => cur[i] >= k

\* An honest member contributes; nobody is bad before VerifyAndComplain.
OpenInv ==
    /\ \A h \in Honest : Passed(h, Contribution) => h \in sent[Contribution]
    /\ \A i \in Members : ~Passed(i, Complaint) => bad[i] = {}
    /\ \A h \in Honest : ~Passed(h, Complaint) => weComplain[h] = {}

\* Votes and open complaints are those of the complaints received; a
\* justification that was received settled them or made its sender bad.
TallyInv ==
    /\ \A m \in Members \ sent[Complaint] : compl[m] = [bad |-> {}, about |-> {}]
    /\ \A i, x \in Members : votes[i][x] = Blaming(i, x)
    /\ \A i \in Members : \A x \in Members \ heard[Justification][i] :
          open[i][x] = Against(i, x)
    /\ \A i \in Members : \A x \in heard[Justification][i] \ bad[i] :
          /\ just[x].lies = {} /\ just[x].about \subseteq Against(i, x)
          /\ open[i][x] = Against(i, x) \ just[x].about

\* An honest member answers the complaints about it, except those of members
\* it holds for bad.
AnswerInv ==
    /\ \A m \in Members \ sent[Justification] : just[m].about = {} /\ just[m].lies = {}
    /\ \A h \in Honest :
          /\ just[h].lies = {}
          /\ Passed(h, Justification) =>
                /\ just[h].about \subseteq Against(h, h)
                /\ Against(h, h) \ just[h].about \subseteq bad[h]

\* A well connected honest member complains about every contributor it has no
\* share of, until the justification brings the share.
StoredInv ==
    \A h \in Honest : conn[h] = {} /\ Passed(h, Complaint) =>
        \A m \in heard[Contribution][h] \ share[h] :
            /\ h \in sent[Complaint] /\ m \in compl[h].about
            /\ m \in heard[Justification][h] \ bad[h] => h \notin just[m].about

\* An honest member commits to the members it holds for good if they are enough
\* and it has their shares.
CommittedInv ==
    \A h \in Honest :
        /\ Passed(h, Commitment)
        /\ Cardinality(Members \ bad[h]) >= MinSize /\ Members \ bad[h] \subseteq share[h]
        => h \in sent[Commitment] /\ valid[h] = Members \ bad[h]

\* Nobody is more than a step behind the chain, and what was sent in a phase
\* that is over has reached everybody.
InStep ==
    /\ \A i \in Members :
          /\ phase < Finalize => cur[i] = phase \/ cur[i] + 1 = phase
          /\ phase = Finalize => cur[i] \in {Commitment, Idle}
          /\ phase = Idle => cur[i] = Idle
    /\ \A k \in Kinds : k < phase =>
          \A i \in Members : Passed(i, k) /\ heard[k][i] = sent[k]

\* Members that are bad for what they sent or did not send.
Absent == Members \ sent[Contribution]
Voted == {x \in Members :
             Cardinality({m \in sent[Complaint] : x \in compl[m].bad}) >= BadVotes}
About(x) == {m \in sent[Complaint] : x \in compl[m].about}
Refuted == {x \in sent[Justification] : ~(just[x].about \subseteq About(x)) \/ just[x].lies # {}}
Unsettled == {x \in Members : ~(About(x) \subseteq just[x].about)}

\* In step, everybody holds the same members for bad.
SameBad ==
    \A i \in Members :
        /\ bad[i] \subseteq Absent
             \cup (IF cur[i] >= Justification THEN Voted \cup Refuted ELSE {})
             \cup (IF Passed(i, Commitment) THEN Unsettled ELSE {})
        /\ Passed(i, Complaint) => Absent \subseteq bad[i]
        /\ Passed(i, Justification) => Voted \subseteq bad[i]
        /\ heard[Justification][i] \cap Refuted \subseteq bad[i]
        /\ Passed(i, Commitment) => Unsettled \subseteq bad[i]

\* Honest members are called bad only over their connection, and not held for
\* bad by anyone.
KeptInv ==
    /\ \A h \in Honest : \A m \in Members : h \in compl[m].bad => h \in conn[m]
    /\ \A h \in Honest : \A i \in Members :
          ~Shunned(h) /\ ~Unanswered(h) => h \notin bad[i]

\* A thread that is through has made every final commitment there was to make.
FinalInv ==
    \A i \in Members : cur[i] = Idle =>
        \A V \in SUBSET Members :
            Cardinality({m \in sent[Commitment] : valid[m] = V}) >= MinSize =>
                \E c \in final[i] : c.valid = V

Timely ==
    /\ InStep /\ HeardInv /\ OpenInv /\ TallyInv /\ AnswerInv
    /\ StoredInv /\ SameBad /\ CommittedInv /\ KeptInv /\ FinalInv

TimelyInv == late = 0 => Timely


\* A member whose start function is due, and one that receives, are in the
\* chain's phase; earlier phases are complete and later ones have not begun.
LEMMA DueInPhase ==
    ASSUME IInv, InStep, NEW i \in Members, NEW k \in Kinds, Due(i, k)
    PROVE  phase = k
<1>1. cur[i] = k /\ i \notin started /\ phase \in Initialized..Idle
  BY DEF Due, IInv, TypeOK
<1>2. ~Passed(i, k)
  BY SMT, Z3, SMTT(10), Z3T(10), <1>1, PhaseNumbers DEF Passed, Kinds, Contribution, Commitment
<1>3. ~(k < phase)
  BY <1>2 DEF InStep
<1>4. k \in 2..5 /\ phase \in 1..7
  BY <1>1 DEF Kinds, Contribution, Commitment, Initialized, Idle
<1> QED BY SMT, Z3, SMTT(10), Z3T(10), <1>1, <1>3, <1>4 DEF InStep, Finalize, Idle

LEMMA ReceiveInPhase ==
    ASSUME IInv, InStep, NEW i \in Members, NEW m \in Members, NEW k \in Kinds,
           Receive(i, m, k)
    PROVE  phase = k
<1>1. phase \in {k, k + 1} /\ m \in relayed[k] \cup sent[k] /\ m \notin heard[k][i]
  BY DEF Receive, Waiting
<1>2. m \in sent[k]
  BY <1>1 DEF IInv, SentInv
<1>3. ~(k < phase)
  BY <1>1, <1>2 DEF InStep
<1>4. k \in 2..5
  BY DEF Kinds, Contribution, Commitment
<1> QED BY SMT, Z3, SMTT(10), Z3T(10), <1>1, <1>3, <1>4

LEMMA PhaseFacts ==
    ASSUME IInv, InStep, NEW k \in Kinds, phase = k
    PROVE  /\ \A i \in Members : cur[i] <= k
           /\ \A n \in Kinds : n < k =>
                 \A i \in Members : Passed(i, n) /\ heard[n][i] = sent[n]
           /\ \A n \in Kinds : n > k =>
                 sent[n] = {} /\ \A i \in Members : ~Passed(i, n) /\ heard[n][i] = {}
<1>1. k \in 2..5 /\ \A n \in Kinds : n \in 2..5
  BY DEF Kinds, Contribution, Commitment
<1>2. \A i \in Members : cur[i] \in 1..7 /\ cur[i] <= k
  BY SMT, Z3, SMTT(10), Z3T(10), <1>1 DEF IInv, TypeOK, InStep, Initialized, Finalize, Idle
<1>3. \A n \in Kinds : n > k => \A i \in Members : ~Passed(i, n)
  BY SMT, Z3, SMTT(10), Z3T(10), <1>1, <1>2 DEF Passed
<1>4. \A n \in Kinds : n > k => sent[n] = {}
  BY Zenon, <1>3 DEF IInv, SentInv, TypeOK
<1>5. \A n \in Kinds : n > k => \A i \in Members : heard[n][i] = {}
  BY <1>4 DEF IInv, SentInv
<1> QED BY <1>2, <1>3, <1>4, <1>5 DEF InStep

\* The same, by phase: nothing of a later one, everything of an earlier one.
Unbegun(n) == sent[n] = {} /\ \A j \in Members : ~Passed(j, n) /\ heard[n][j] = {}
Complete(n) == \A j \in Members : Passed(j, n) /\ heard[n][j] = sent[n]

LEMMA PhasesAround ==
    ASSUME IInv, InStep
    PROVE  /\ phase = Contribution =>
                 Unbegun(Complaint) /\ Unbegun(Justification) /\ Unbegun(Commitment)
           /\ phase = Complaint =>
                 Complete(Contribution) /\ Unbegun(Justification) /\ Unbegun(Commitment)
           /\ phase = Justification =>
                 Complete(Contribution) /\ Complete(Complaint) /\ Unbegun(Commitment)
           /\ phase = Commitment =>
                 Complete(Contribution) /\ Complete(Complaint) /\ Complete(Justification)
<1>1. \A n, k \in Kinds : phase = k => (n > k => Unbegun(n)) /\ (n < k => Complete(n))
  BY Zenon, PhaseFacts DEF Unbegun, Complete
<1> QED BY Zenon, <1>1, KindsListed, KindOrder

\* What a start function of phase k that may send a message does.
Starts(i, k) ==
    /\ phase = k /\ UNCHANGED <<phase, cur, heard, relayed>>
    /\ cur[i] = k /\ ~Passed(i, k) /\ i \notin sent[k]
    /\ \A n \in Kinds : \A j \in Members :
          Passed(j, n)' <=> Passed(j, n) \/ (j = i /\ n = k)
    /\ \A n \in Kinds : n # k => sent'[n] = sent[n]
    /\ sent'[k] = sent[k] \/ (Push(i, k) /\ sent'[k] = sent[k] \cup {i})
    /\ InStep' /\ HeardInv'

LEMMA StartTimely ==
    ASSUME IInv, InStep, HeardInv, NEW i \in Members, NEW k \in Kinds, Due(i, k), Start(i),
           UNCHANGED netVars \/ Push(i, k)
    PROVE  Starts(i, k)
<1>1. phase = k /\ UNCHANGED <<phase, cur, heard, relayed>> /\ cur[i] = k
      /\ i \notin started /\ started' = started \cup {i}
  BY DueInPhase DEF Due, Start, netVars, Push
<1>2. /\ ~Passed(i, k) /\ i \notin sent[k] /\ sent' \in [Kinds -> SUBSET Members]
      /\ sent' = sent \/ sent' = [sent EXCEPT ![k] = sent[k] \cup {i}]
  BY StartNet
<1>3. /\ \A n \in Kinds : n # k => sent'[n] = sent[n]
      /\ sent'[k] = sent[k] \/ (Push(i, k) /\ sent'[k] = sent[k] \cup {i})
  <2>1. sent \in [Kinds -> SUBSET Members]
    BY DEF IInv, TypeOK
  <2>2. UNCHANGED netVars => sent' = sent
    BY DEF netVars
  <2> QED BY <1>2, <2>1, <2>2
<1>4. \A n \in Kinds : \A j \in Members :
         Passed(j, n)' <=> Passed(j, n) \/ (j = i /\ n = k)
  BY <1>1 DEF Passed
<1>5. HeardInv'
  BY <1>1 DEF HeardInv
<1>6. InStep'
  <2>1. \A n \in Kinds : n < phase => n # k
    BY SMT, Z3, SMTT(10), Z3T(10), <1>1 DEF Kinds, Contribution, Commitment
  <2> QED BY Zenon, <1>1, <1>3, <1>4, <2>1 DEF InStep
<1> QED BY Zenon, <1>1, <1>2, <1>3, <1>4, <1>5, <1>6 DEF Starts

\* Steps that leave alone the complaints and justifications that were received.
LEMMA TallyKept ==
    ASSUME TallyInv, UNCHANGED <<votes, open>>,
           \A m \in Members \ sent'[Complaint] : compl'[m] = [bad |-> {}, about |-> {}],
           \A j \in Members :
              /\ heard'[Complaint][j] = heard[Complaint][j]
              /\ heard'[Justification][j] = heard[Justification][j]
              /\ bad[j] \subseteq bad'[j]
              /\ \A m \in heard[Complaint][j] : compl'[m] = compl[m]
              /\ \A m \in heard[Justification][j] : just'[m] = just[m]
    PROVE  TallyInv'
<1>1. ASSUME NEW j \in Members, NEW x
      PROVE  /\ Against(j, x)' = Against(j, x)
             /\ Blaming(j, x)' = Blaming(j, x)
  BY Zenon DEF Against, Blaming
<1>2. ASSUME NEW j \in Members, NEW x \in Members
      PROVE  votes'[j][x] = Blaming(j, x)'
  <2>1. votes[j][x] = Blaming(j, x)
    BY ZenonT(40) DEF TallyInv
  <2>2. votes' = votes
    BY Zenon
  <2> QED BY <1>1, <2>1, <2>2
<1>3. ASSUME NEW j \in Members, NEW x \in Members \ heard'[Justification][j]
      PROVE  open'[j][x] = Against(j, x)'
  <2>1. open' = open /\ x \in Members \ heard[Justification][j]
    BY Zenon
  <2>2. open[j][x] = Against(j, x)
    BY ZenonT(40), <2>1 DEF TallyInv
  <2> QED BY <1>1, <2>1, <2>2
<1>4. ASSUME NEW j \in Members, NEW x \in heard'[Justification][j] \ bad'[j]
      PROVE  /\ just'[x].lies = {} /\ just'[x].about \subseteq Against(j, x)'
             /\ open'[j][x] = Against(j, x)' \ just'[x].about
  <2>1. x \in heard[Justification][j] \ bad[j] /\ just'[x] = just[x] /\ open' = open
    BY Zenon
  <2>2. /\ just[x].lies = {} /\ just[x].about \subseteq Against(j, x)
        /\ open[j][x] = Against(j, x) \ just[x].about
    BY Zenon, <2>1 DEF TallyInv
  <2> QED BY <1>1, <2>1, <2>2
<1> QED BY Zenon, <1>2, <1>3, <1>4 DEF TallyInv

LEMMA TallySame ==
    ASSUME TallyInv, UNCHANGED <<compl, just, votes, open>>, sent'[Complaint] = sent[Complaint],
           \A j \in Members :
              /\ heard'[Complaint][j] = heard[Complaint][j]
              /\ heard'[Justification][j] = heard[Justification][j]
              /\ bad[j] \subseteq bad'[j]
    PROVE  TallyInv'
<1>1. \A m \in Members \ sent'[Complaint] : compl'[m] = [bad |-> {}, about |-> {}]
  BY Zenon DEF TallyInv
<1> QED BY Zenon, <1>1, TallyKept

\* What a receipt does to the threads and to the messages received.
Hears(i, m, k) ==
    \A n \in Kinds : \A j \in Members :
        /\ Passed(j, n)' <=> Passed(j, n)
        /\ heard'[n][j] = IF n = k /\ j = i THEN heard[k][i] \cup {m} ELSE heard[n][j]

\* A message of phase k is received.
LEMMA ReceiveTimely ==
    ASSUME IInv, InStep, HeardInv, NEW i \in Members, NEW m \in Members, NEW k \in Kinds,
           Receive(i, m, k)
    PROVE  /\ phase = k /\ UNCHANGED <<phase, cur, started, sent>> /\ cur[i] = k
           /\ m \in sent[k] /\ m \notin heard[k][i]
           /\ Hears(i, m, k) /\ InStep' /\ HeardInv'
<1>1. phase = k /\ UNCHANGED <<phase, cur, started, sent>> /\ cur[i] = k
      /\ m \notin heard[k][i]
  BY Zenon, ReceiveInPhase DEF Receive, threadVars, Waiting
<1>2. m \in sent[k]
  BY ReceiveNet
<1>3. \A n \in Kinds : \A j \in Members :
         heard'[n][j] = IF n = k /\ j = i THEN heard[k][i] \cup {m} ELSE heard[n][j]
  <2>1. heard \in [Kinds -> Sets] /\ \A n \in Kinds : heard[n] \in [Members -> SUBSET Members]
    BY DEF IInv, TypeOK, Sets
  <2>2. heard' = [heard EXCEPT ![k] = [heard[k] EXCEPT ![i] = heard[k][i] \cup {m}]]
    BY DEF Receive
  <2> QED BY <2>1, <2>2
<1>4. \A n \in Kinds : \A j \in Members : Passed(j, n)' <=> Passed(j, n)
  BY <1>1 DEF Passed
<1>5. HeardInv'
  <2>1. \A n \in Kinds : relayed'[n] = IF n = k THEN relayed[k] \cup {m} ELSE relayed[n]
    BY DEF Receive, IInv, TypeOK
  <2>2. k \in Int
    BY SMT, Z3, SMTT(10), Z3T(10) DEF Kinds, Contribution, Commitment
  <2> QED BY SMT, Z3, SMTT(10), Z3T(10), <1>1, <1>3, <2>1, <2>2 DEF HeardInv
<1>6. InStep'
  <2>1. \A n \in Kinds : n < phase => n # k
    BY SMT, Z3, SMTT(10), Z3T(10), <1>1 DEF Kinds, Contribution, Commitment
  <2> QED BY <1>1, <1>3, <1>4, <2>1 DEF InStep
<1>7. Hears(i, m, k)
  BY Zenon, <1>3, <1>4 DEF Hears
<1> QED BY <1>1, <1>2, <1>5, <1>6, <1>7

LEMMA InitTimely == Init => Timely
<1> SUFFICES ASSUME Init PROVE Timely
  OBVIOUS
<1>1. /\ phase = 1 /\ \A i \in Members : cur[i] = 1 /\ bad[i] = {} /\ weComplain[i] = {}
      /\ \A k \in Kinds : sent[k] = {} /\ relayed[k] = {} /\ \A i \in Members : heard[k][i] = {}
      /\ \A m \in Members : compl[m] = [bad |-> {}, about |-> {}] /\ just[m] = [about |-> {}, lies |-> {}]
      /\ \A i, x \in Members : votes[i][x] = {} /\ open[i][x] = {}
  BY Zenon DEF Init, None, Initialized
<1>2. \A k \in Kinds : k \in 2..5 /\ \A i \in Members : ~Passed(i, k)
  <2>1. \A k \in Kinds : k \in 2..5
    BY Zenon DEF Kinds, Contribution, Commitment
  <2>2. \A i \in Members : cur[i] = 1
    BY Zenon, <1>1
  <2> QED BY SMT, Z3, SMTT(10), Z3T(10), <2>1, <2>2 DEF Passed
<1>3. Honest \subseteq Members
  BY DEF Honest
<1>3a. \A m \in Members : compl[m].bad = {} /\ just[m].about = {} /\ just[m].lies = {}
  <2>1. \A m \in Members : compl[m] = [bad |-> {}, about |-> {}]
                           /\ just[m] = [about |-> {}, lies |-> {}]
    BY Zenon, <1>1
  <2> QED BY SMT, Z3, SMTT(10), Z3T(10), <2>1
<1>4. InStep /\ HeardInv
  <2>1. phase = 1 /\ \A i \in Members : cur[i] = 1
    BY Zenon, <1>1
  <2>2. \A k \in Kinds : k \in 2..5
    BY Zenon, <1>2
  <2>3. InStep
    BY SMT, Z3, SMTT(10), Z3T(10), <2>1, <2>2 DEF InStep, Finalize, Idle
  <2>4. HeardInv
    BY Zenon, <1>1 DEF HeardInv
  <2> QED BY Zenon, <2>3, <2>4
<1>5. OpenInv /\ AnswerInv /\ CommittedInv /\ StoredInv
  <2>1. \A i \in Members : \A k \in Kinds : ~Passed(i, k)
    BY Zenon, <1>2
  <2> QED BY Zenon, <1>1, <1>3, <1>3a, <2>1, KindsListed DEF OpenInv, AnswerInv, CommittedInv, StoredInv
<1>6. TallyInv
  <2>1. \A i, x \in Members : Against(i, x) = {} /\ Blaming(i, x) = {}
    BY Zenon, <1>1, KindsListed DEF Against, Blaming
  <2> QED BY Zenon, <1>1, <2>1, KindsListed DEF TallyInv
<1>7. SameBad /\ KeptInv /\ FinalInv
  <2>1. FinalInv
    <3>1. \A i \in Members : cur[i] # Idle
      BY SMT, Z3, SMTT(10), Z3T(10), <1>1 DEF Idle
    <3> QED BY Zenon, <3>1 DEF FinalInv
  <2>2. \A i \in Members : \A k \in Kinds : ~Passed(i, k)
    BY Zenon, <1>2
  <2>3. SameBad
    BY Zenon, <1>1, <2>2, KindsListed DEF SameBad
  <2>4. KeptInv
    BY Zenon, <1>1, <1>3, <1>3a DEF KeptInv
  <2> QED BY Zenon, <2>1, <2>3, <2>4
<1> QED BY Zenon, <1>4, <1>5, <1>6, <1>7 DEF Timely

LEMMA InitNewQuorumTimely == InitNewQuorum => Timely'
<1> SUFFICES ASSUME InitNewQuorum PROVE Timely'
  OBVIOUS
<1>1. /\ phase' = 1 /\ \A i \in Members : cur'[i] = 1 /\ bad'[i] = {} /\ weComplain'[i] = {}
      /\ \A k \in Kinds : sent'[k] = {} /\ relayed'[k] = {} /\ \A i \in Members : heard'[k][i] = {}
      /\ \A m \in Members : compl'[m] = [bad |-> {}, about |-> {}] /\ just'[m] = [about |-> {}, lies |-> {}]
      /\ \A i, x \in Members : votes'[i][x] = {} /\ open'[i][x] = {}
  BY Zenon DEF InitNewQuorum, None, Initialized
<1>2. \A k \in Kinds : k \in 2..5 /\ \A i \in Members : ~Passed(i, k)'
  <2>1. \A k \in Kinds : k \in 2..5
    BY Zenon DEF Kinds, Contribution, Commitment
  <2>2. \A i \in Members : cur'[i] = 1
    BY Zenon, <1>1
  <2> QED BY SMT, Z3, SMTT(10), Z3T(10), <2>1, <2>2 DEF Passed
<1>3. Honest \subseteq Members
  BY DEF Honest
<1>3a. \A m \in Members : compl'[m].bad = {} /\ just'[m].about = {} /\ just'[m].lies = {}
  <2>1. \A m \in Members : compl'[m] = [bad |-> {}, about |-> {}]
                           /\ just'[m] = [about |-> {}, lies |-> {}]
    BY Zenon, <1>1
  <2> QED BY SMT, Z3, SMTT(10), Z3T(10), <2>1
<1>4. InStep' /\ HeardInv'
  <2>1. phase' = 1 /\ \A i \in Members : cur'[i] = 1
    BY Zenon, <1>1
  <2>2. \A k \in Kinds : k \in 2..5
    BY Zenon, <1>2
  <2>3. InStep'
    BY SMT, Z3, SMTT(10), Z3T(10), <2>1, <2>2 DEF InStep, Finalize, Idle
  <2>4. HeardInv'
    BY Zenon, <1>1 DEF HeardInv
  <2> QED BY Zenon, <2>3, <2>4
<1>5. OpenInv' /\ AnswerInv' /\ CommittedInv' /\ StoredInv'
  <2>1. \A i \in Members : \A k \in Kinds : ~Passed(i, k)'
    BY Zenon, <1>2
  <2> QED BY Zenon, <1>1, <1>3, <1>3a, <2>1, KindsListed DEF OpenInv, AnswerInv, CommittedInv, StoredInv
<1>6. TallyInv'
  <2>1. \A i, x \in Members : Against(i, x)' = {} /\ Blaming(i, x)' = {}
    BY Zenon, <1>1, KindsListed DEF Against, Blaming
  <2> QED BY Zenon, <1>1, <2>1, KindsListed DEF TallyInv
<1>7. SameBad' /\ KeptInv' /\ FinalInv'
  <2>1. FinalInv'
    <3>1. \A i \in Members : cur'[i] # Idle
      BY SMT, Z3, SMTT(10), Z3T(10), <1>1 DEF Idle
    <3> QED BY Zenon, <3>1 DEF FinalInv
  <2>2. \A i \in Members : \A k \in Kinds : ~Passed(i, k)'
    BY Zenon, <1>2
  <2>3. SameBad'
    BY Zenon, <1>1, <2>2, KindsListed DEF SameBad
  <2>4. KeptInv'
    BY Zenon, <1>1, <1>3, <1>3a DEF KeptInv
  <2> QED BY Zenon, <2>1, <2>3, <2>4
<1> QED BY Zenon, <1>4, <1>5, <1>6, <1>7 DEF Timely


\* Steps of the chain and of a thread that leave messages and sessions alone.
LEMMA ThreadTimely ==
    ASSUME IInv, Timely, UNCHANGED <<netVars, msgVars, conn, sessVars>>,
           \A j \in Members : cur'[j] \in Int /\ cur'[j] >= cur[j],
           \A n \in Kinds : \A j \in Members : Passed(j, n)' <=> Passed(j, n)
    PROVE  /\ HeardInv' /\ OpenInv' /\ TallyInv' /\ AnswerInv'
           /\ StoredInv' /\ SameBad' /\ CommittedInv' /\ KeptInv'
<1>1. Honest \subseteq Members /\ \A j \in Members : cur[j] \in Int
  BY SMT, Z3, SMTT(10), Z3T(10) DEF Honest, IInv, TypeOK, Initialized, Idle
<1>2. \A n \in Kinds : n \in Int
  BY SMT, Z3, SMTT(10), Z3T(10) DEF Kinds, Contribution, Commitment
<1>3. UNCHANGED <<heard, relayed, sent, lieTo, compl, just, valid, conn, bad, weComplain, share, votes, open>>
  BY DEF netVars, msgVars, sessVars
<1>4. HeardInv'
  <2>1. \A n \in Kinds : \A j \in Members : cur[j] >= n => cur'[j] >= n
    BY SMT, Z3, SMTT(10), Z3T(10), <1>1, <1>2
  <2> QED BY Zenon, <1>3, <2>1 DEF Timely, HeardInv
<1>5. OpenInv' /\ TallyInv'
  <2>1. OpenInv'
    BY Zenon, <1>1, <1>3, KindsListed DEF Timely, OpenInv
  <2>2. TallyInv'
    BY Zenon, <1>3, TallySame DEF Timely
  <2> QED BY Zenon, <2>1, <2>2
<1>6. AnswerInv' /\ StoredInv'
  BY Zenon, <1>1, <1>3, KindsListed DEF Timely, AnswerInv, StoredInv, Against
<1>7. SameBad'
  <2>1. Absent' = Absent /\ Voted' = Voted /\ Refuted' = Refuted /\ Unsettled' = Unsettled
    BY <1>3 DEF Absent, Voted, Refuted, Unsettled, About
  <2>2. \A j \in Members : cur[j] >= Justification => cur'[j] >= Justification
    BY SMT, Z3, SMTT(10), Z3T(10), <1>1 DEF Justification
  <2> QED BY Zenon, <1>3, <2>1, <2>2, KindsListed DEF Timely, SameBad
<1>8. CommittedInv'
  BY Zenon, <1>1, <1>3, KindsListed DEF Timely, CommittedInv
<1>9. KeptInv'
  BY Zenon, <1>3 DEF Timely, KeptInv, Shunned, Unanswered
<1> QED BY Zenon, <1>4, <1>5, <1>6, <1>7, <1>8, <1>9

LEMMA UpdatedBlockTipTimely ==
    ASSUME IInv, Timely, late = 0, UpdatedBlockTip, late' = 0
    PROVE  Timely'
<1>1. Undone = {}
  <2>1. IsFiniteSet(Undone)
    BY UndoneFinite
  <2>2. Cardinality(Undone) = 0
    <3>1. Cardinality(Undone) \in Nat
      BY Zenon, <2>1, FS_CardinalityType
    <3>2. late' = late + Cardinality(Undone)
      BY Zenon DEF UpdatedBlockTip
    <3> QED BY SMT, Z3, SMTT(10), Z3T(10), <3>1, <3>2
  <2> QED BY <2>1, <2>2, FS_EmptySet
<1>2. /\ \A j \in Members : cur[j] \in {phase, Idle}
      /\ phase \in Kinds => \A j \in Members : ~Due(j, phase)
      /\ \A j, m \in Members : phase \in Kinds /\ cur[j] = phase => m \notin Waiting(j, phase)
  <2>1. \A j \in Members : cur[j] \notin {phase, Idle} => <<j, "phase">> \in Undone
    BY DEF Undone
  <2>2. \A j \in Members : phase \in Kinds /\ Due(j, phase) => <<j, "start">> \in Undone
    BY DEF Undone
  <2>3. \A j, m \in Members :
           phase \in Kinds /\ cur[j] = phase /\ m \in Waiting(j, phase) => <<j, m>> \in Undone
    BY DEF Undone
  <2> QED BY Zenon, <1>1, <2>1, <2>2, <2>3
<1>3. /\ phase \in 1..6 /\ phase' = phase + 1
      /\ UNCHANGED <<cur, started, netVars, msgVars, conn, sessVars, kept, final>>
  BY SMT, Z3, SMTT(10), Z3T(10) DEF UpdatedBlockTip, IInv, TypeOK, Initialized, Idle
<1>4. \A j \in Members : cur[j] = IF phase = 6 THEN 7 ELSE phase
  <2>1. \A j \in Members : /\ phase < Finalize => cur[j] = phase \/ cur[j] + 1 = phase
                           /\ phase = Finalize => cur[j] \in {Commitment, Idle}
    BY Zenon DEF Timely, InStep
  <2>2. phase \in 1..6 /\ \A j \in Members : cur[j] \in {phase, Idle}
    BY Zenon, <1>2, <1>3
  <2> QED BY SMT, Z3, SMTT(10), Z3T(10), <2>1, <2>2 DEF Finalize, Idle, Commitment
<1>5. /\ \A n \in Kinds : \A j \in Members : Passed(j, n)' <=> Passed(j, n)
      /\ \A j \in Members : cur'[j] \in Int /\ cur'[j] >= cur[j]
  <2>1. cur' = cur /\ started' = started
    BY Zenon, <1>3
  <2>2. \A j \in Members : cur[j] \in Int
    BY SMT, Z3, SMTT(10), Z3T(10), <1>3, <1>4
  <2>3. \A n \in Kinds : \A j \in Members : Passed(j, n)' <=> Passed(j, n)
    BY Zenon, <2>1 DEF Passed
  <2> QED BY SMT, Z3, SMTT(10), Z3T(10), <2>1, <2>2, <2>3
<1>6. InStep'
  <2>1. \A j \in Members : /\ phase' < Finalize => cur'[j] = phase' \/ cur'[j] + 1 = phase'
                           /\ phase' = Finalize => cur'[j] \in {Commitment, Idle}
                           /\ phase' = Idle => cur'[j] = Idle
    BY SMT, Z3, SMTT(10), Z3T(10), <1>3, <1>4 DEF Finalize, Idle, Commitment
  <2>2. ASSUME NEW k \in Kinds, k < phase', NEW j \in Members
        PROVE  Passed(j, k)' /\ heard'[k][j] = sent'[k]
    <3>1. heard' = heard /\ sent' = sent /\ k \in 2..5
      BY Zenon, <1>3 DEF netVars, Kinds, Contribution, Commitment
    <3>2. CASE k < phase
      BY Zenon, <1>5, <3>1, <3>2 DEF Timely, InStep
    <3>3. CASE k = phase
      <4>1. \A x \in Members : cur[x] = k /\ x \in started
        BY SMT, Z3, SMTT(10), Z3T(10), <1>2, <1>4, <3>1, <3>3 DEF Due
      <4>2. \A x, m \in Members : m \in relayed[k] \cup (sent[k] \cap {x}) => m \in heard[k][x]
        BY Zenon, <1>2, <3>3, <4>1 DEF Waiting
      <4>3. sent[k] \subseteq Members /\ heard[k][j] \subseteq sent[k]
        BY DEF IInv, TypeOK, SentInv
      <4>4. \A x \in sent[k] : x \in relayed[k]
        BY Zenon, <4>2, <4>3 DEF Timely, HeardInv
      <4>5. heard[k][j] = sent[k]
        BY Zenon, <4>2, <4>3, <4>4
      <4> QED BY <1>5, <3>1, <4>1, <4>5 DEF Passed
    <3>4. k < phase \/ k = phase
      BY SMT, Z3, SMTT(10), Z3T(10), <1>3, <2>2, <3>1
    <3> QED BY Zenon, <3>2, <3>3, <3>4
  <2> QED BY Zenon, <2>1, <2>2 DEF InStep
<1>7. FinalInv'
  BY Zenon, <1>3 DEF Timely, FinalInv, netVars, msgVars
<1> QED BY Zenon, <1>3, <1>5, <1>6, <1>7, ThreadTimely DEF Timely

LEMMA WaitForNextPhaseTimely ==
    ASSUME IInv, Timely, NEW i \in Members, WaitForNextPhase(i)
    PROVE  Timely'
<1>1. /\ cur[i] \in 1..4 /\ (cur[i] = 1 \/ i \in started) /\ phase = cur[i] + 1
      /\ started' = started \ {i} /\ phase' = phase
      /\ UNCHANGED <<netVars, msgVars, conn, sessVars, final>>
      /\ \A j \in Members : cur[j] \in Int /\ cur'[j] = IF j = i THEN phase ELSE cur[j]
  BY SMT, Z3, SMTT(10), Z3T(10) DEF WaitForNextPhase, IInv, TypeOK, Initialized, Justification, Idle
<1>2. /\ \A n \in Kinds : \A j \in Members : Passed(j, n)' <=> Passed(j, n)
      /\ \A j \in Members : cur'[j] \in Int /\ cur'[j] >= cur[j]
  <2>1. \A n \in Kinds : n \in 2..5
    BY Zenon DEF Kinds, Contribution, Commitment
  <2> QED BY SMT, Z3, SMTT(10), Z3T(10), <1>1, <2>1 DEF Passed
<1>3. InStep'
  <2>1. heard' = heard /\ sent' = sent /\ phase' = phase
    BY Zenon, <1>1 DEF netVars
  <2>2. \A j \in Members : /\ phase < Finalize => cur[j] = phase \/ cur[j] + 1 = phase
                           /\ phase = Finalize => cur[j] \in {Commitment, Idle}
                           /\ phase = Idle => cur[j] = Idle
    BY Zenon DEF Timely, InStep
  <2>3. phase \in 2..5 /\ \A j \in Members : cur'[j] = IF j = i THEN phase ELSE cur[j]
    BY SMT, Z3, SMTT(10), Z3T(10), <1>1
  <2>4. \A j \in Members : /\ phase' < Finalize => cur'[j] = phase' \/ cur'[j] + 1 = phase'
                           /\ phase' = Finalize => cur'[j] \in {Commitment, Idle}
                           /\ phase' = Idle => cur'[j] = Idle
    BY SMT, Z3, SMTT(10), Z3T(10), <2>1, <2>2, <2>3 DEF Finalize, Idle
  <2> QED BY Zenon, <1>2, <2>1, <2>4 DEF Timely, InStep
<1>4. FinalInv'
  <2>1. sent' = sent /\ valid' = valid /\ final' = final
    BY <1>1 DEF netVars, msgVars
  <2>2. \A j \in Members : cur'[j] = Idle => cur[j] = Idle
    BY SMT, Z3, SMTT(10), Z3T(10), <1>1 DEF Idle
  <2> QED BY Zenon, <2>1, <2>2 DEF Timely, FinalInv
<1> QED BY Zenon, <1>1, <1>2, <1>3, <1>4, ThreadTimely DEF Timely

LEMMA AbortTimely ==
    ASSUME IInv, Timely, NEW i \in Members
    PROVE  ~Abort(i)
<1> SUFFICES ASSUME Abort(i) PROVE FALSE
  OBVIOUS
<1>1. /\ cur[i] \in 1..5 /\ phase \in 1..7
      /\ phase > cur[i] + 1 \/ (cur[i] \in Kinds /\ i \notin started /\ phase # cur[i])
  BY SMT, Z3, SMTT(10), Z3T(10) DEF Abort, IInv, TypeOK, Initialized, Finalize, Idle
<1>2. phase = cur[i] \/ phase = cur[i] + 1
  <2>1. /\ phase < Finalize => cur[i] = phase \/ cur[i] + 1 = phase
        /\ phase = Finalize => cur[i] \in {Commitment, Idle}
        /\ phase = Idle => cur[i] = Idle
    BY Zenon DEF Timely, InStep
  <2> QED BY SMT, Z3, SMTT(10), Z3T(10), <1>1, <2>1 DEF Finalize, Commitment, Idle
<1>3. cur[i] \in Kinds /\ cur[i] < phase /\ i \notin started
  BY SMT, Z3, SMTT(10), Z3T(10), <1>1, <1>2
<1>4. Passed(i, cur[i])
  BY Zenon, <1>3 DEF Timely, InStep
<1> QED BY SMT, Z3, SMTT(10), Z3T(10), <1>1, <1>3, <1>4 DEF Passed

LEMMA FinalizeCommitmentsTimely ==
    ASSUME IInv, Timely, NEW i \in Members, FinalizeCommitments(i)
    PROVE  Timely'
<1>1. /\ cur[i] = 5 /\ i \in started /\ phase = 6 /\ phase' = 6
      /\ UNCHANGED <<netVars, msgVars, conn, sessVars>>
      /\ started' = started \ {i}
      /\ \A j \in Members : cur[j] \in Int /\ cur'[j] = IF j = i THEN 7 ELSE cur[j]
  BY SMT, Z3, SMTT(10), Z3T(10) DEF FinalizeCommitments, IInv, TypeOK, Initialized, Commitment, Finalize, Idle
<1>2. /\ \A n \in Kinds : \A j \in Members : Passed(j, n)' <=> Passed(j, n)
      /\ \A j \in Members : cur'[j] \in Int /\ cur'[j] >= cur[j]
  <2>1. \A n \in Kinds : n \in 2..5
    BY DEF Kinds, Contribution, Commitment
  <2> QED BY SMT, Z3, SMTT(10), Z3T(10), <1>1, <2>1 DEF Passed
<1>3. InStep'
  <2>1. heard' = heard /\ sent' = sent /\ phase' = phase
    BY Zenon, <1>1 DEF netVars
  <2>2. phase = Finalize => \A j \in Members : cur[j] \in {Commitment, Idle}
    BY Zenon DEF Timely, InStep
  <2>3. phase = 6 /\ \A j \in Members : cur'[j] = IF j = i THEN 7 ELSE cur[j]
    BY Zenon, <1>1
  <2>4. \A j \in Members : /\ phase' < Finalize => cur'[j] = phase' \/ cur'[j] + 1 = phase'
                           /\ phase' = Finalize => cur'[j] \in {Commitment, Idle}
                           /\ phase' = Idle => cur'[j] = Idle
    BY SMT, Z3, SMTT(10), Z3T(10), <2>1, <2>2, <2>3 DEF Finalize, Commitment, Idle
  <2> QED BY Zenon, <1>2, <2>1, <2>4 DEF Timely, InStep
<1>4. FinalInv'
  <2> SUFFICES ASSUME NEW j \in Members, cur'[j] = Idle, NEW V \in SUBSET Members,
                      Cardinality({m \in sent[Commitment] : valid[m] = V}) >= MinSize
               PROVE  \E c \in final'[j] : c.valid = V
    BY Zenon, <1>1 DEF FinalInv, netVars, msgVars
  <2>1. CASE j # i
    <3>1. cur[j] = Idle /\ final'[j] = final[j]
      BY Zenon, <1>1, <2>1 DEF FinalizeCommitments, IInv, TypeOK
    <3> QED BY Zenon, <3>1 DEF Timely, FinalInv
  <2>2. CASE j = i
    <3> DEFINE signers(W) == {m \in Members : <<m, W>> \in kept[i]}
               c == [valid |-> V, signers |-> signers(V)]
    <3>1. heard[Commitment][i] = sent[Commitment]
      <4>1. Commitment < phase
        BY SMT, Z3, SMTT(10), Z3T(10), <1>1 DEF Commitment
      <4> QED BY Zenon, <4>1, KindsListed DEF Timely, InStep
    <3>2. final'[i] = {[valid |-> W, signers |-> signers(W)] :
                          W \in {U \in SUBSET Members : Cardinality(signers(U)) >= MinSize}}
      BY Zenon DEF FinalizeCommitments, IInv, TypeOK
    <3>3. Cardinality(signers(V)) >= MinSize
      <4> DEFINE S == {m \in sent[Commitment] : valid[m] = V}
      <4>1. S \subseteq signers(V)
        BY Zenon, <3>1, KindsListed DEF IInv, TypeOK, CommitInv
      <4>2. signers(V) \subseteq Members /\ Cardinality(S) >= MinSize
        BY Zenon
      <4> HIDE DEF S, signers
      <4>3. IsFiniteSet(signers(V)) /\ IsFiniteSet(S) /\ Cardinality(S) <= Cardinality(signers(V))
        BY Zenon, <4>1, <4>2, FS_Subset, QuorumAssumption
      <4>4. Cardinality(S) \in Nat /\ Cardinality(signers(V)) \in Nat /\ MinSize \in Nat
        BY Zenon, <4>3, FS_CardinalityType, QuorumAssumption
      <4> QED BY SMT, Z3, SMTT(10), Z3T(10), <4>2, <4>3, <4>4
    <3>4. c \in final'[i] /\ c.valid = V
      BY Zenon, <3>2, <3>3
    <3> QED BY Zenon, <2>2, <3>4
  <2> QED BY <2>1, <2>2
<1> QED BY Zenon, <1>1, <1>2, <1>3, <1>4, ThreadTimely DEF Timely


\* In the phases up to the commitments no thread is through.
LEMMA NotFinal ==
    ASSUME IInv, InStep, NEW k \in Kinds, phase = k, UNCHANGED cur
    PROVE  FinalInv'
<1>1. k \in 2..5 /\ \A j \in Members : cur[j] <= k
  BY Zenon, PhaseFacts DEF Kinds, Contribution, Commitment
<1>2. \A j \in Members : cur'[j] # Idle
  BY SMT, Z3, SMTT(10), Z3T(10), <1>1 DEF Idle
<1> QED BY Zenon, <1>2 DEF FinalInv

LEMMA ContributeTimely ==
    ASSUME IInv, Timely, NEW i \in Members, Contribute(i)
    PROVE  Timely'
<1>1. /\ Due(i, Contribution) /\ Start(i)
      /\ \/ i \in Faulty /\ UNCHANGED netVars
         \/ Push(i, Contribution)
      /\ UNCHANGED <<compl, just, valid, conn, bad, weComplain, share, votes, open>>
  BY DEF Contribute, sessVars
<1>2. Contribution \in Kinds /\ Contribution = 2 /\ Complaint = 3 /\ Justification = 4 /\ Commitment = 5
  BY KindsListed DEF Contribution, Complaint, Justification, Commitment
<1>3. /\ phase = Contribution /\ UNCHANGED <<cur, heard>> /\ InStep' /\ HeardInv'
      /\ \A n \in Kinds : \A j \in Members :
            Passed(j, n)' <=> Passed(j, n) \/ (j = i /\ n = Contribution)
      /\ \A n \in Kinds : n # Contribution => sent'[n] = sent[n]
      /\ sent'[Contribution] = sent[Contribution]
            \/ (Push(i, Contribution) /\ sent'[Contribution] = sent[Contribution] \cup {i})
  <2>1. UNCHANGED netVars \/ Push(i, Contribution)
    BY <1>1
  <2>2. Starts(i, Contribution)
    BY Zenon, <1>1, <1>2, <2>1, StartTimely DEF Timely
  <2> QED BY Zenon, <2>2 DEF Starts
<1>4. \A n \in {Complaint, Justification, Commitment} : \A j \in Members :
         ~Passed(j, n)' /\ ~Passed(j, n) /\ heard'[n][j] = {} /\ sent'[n] = sent[n]
  <2>1. Unbegun(Complaint) /\ Unbegun(Justification) /\ Unbegun(Commitment)
    BY Zenon, <1>3, PhasesAround DEF Timely
  <2> QED BY Zenon, <1>3, <2>1, KindsListed, KindOrder DEF Unbegun
<1>5. Honest \subseteq Members /\ Honest \cap Faulty = {}
  BY DEF Honest
<1>6. OpenInv'
  <2>1. i \in Honest => i \in sent'[Contribution]
    <3>1. sent \in [Kinds -> SUBSET Members]
      BY DEF IInv, TypeOK
    <3> QED BY <1>1, <1>2, <1>5, <3>1 DEF Push
  <2>2. \A h \in Honest : Passed(h, Contribution)' => h \in sent'[Contribution]
    BY Zenon, KindsListed, KindOrder, <1>3, <1>5, <2>1 DEF Timely, OpenInv
  <2> QED BY Zenon, <1>1, <1>4, <1>5, <2>2 DEF Timely, OpenInv
<1>7. TallyInv'
  BY Zenon, <1>1, <1>3, <1>4, TallySame DEF Timely
<1>8. AnswerInv' /\ StoredInv' /\ CommittedInv'
  BY ZenonT(40), <1>1, <1>3, <1>4, <1>5 DEF Timely, AnswerInv, StoredInv, CommittedInv, Against
<1>9. SameBad'
  <2>1. \A j \in Members : bad'[j] = {}
    BY Zenon, <1>1, <1>4 DEF Timely, OpenInv
  <2> QED BY Zenon, <1>4, <2>1 DEF SameBad
<1>10. KeptInv'
  BY Zenon, <1>1 DEF Timely, KeptInv, Shunned, Unanswered
<1>11. FinalInv'
  BY Zenon, <1>2, <1>3, NotFinal DEF Timely
<1> QED BY Zenon, <1>3, <1>6, <1>7, <1>8, <1>9, <1>10, <1>11 DEF Timely

LEMMA ReceiveContributionTimely ==
    ASSUME IInv, Timely, NEW i \in Members, NEW m \in Members, ReceiveContribution(i, m)
    PROVE  Timely'
<1>1. /\ Receive(i, m, Contribution)
      /\ UNCHANGED <<sent, compl, just, valid, conn, bad, share, votes, open>>
      /\ \A h \in Members \ Faulty : weComplain'[h] = weComplain[h]
  BY DEF ReceiveContribution, Receive, msgVars, IInv, TypeOK, Sets
<1>2. Contribution \in Kinds /\ Contribution = 2 /\ Complaint = 3 /\ Justification = 4 /\ Commitment = 5
  BY KindsListed DEF Contribution, Complaint, Justification, Commitment
<1>3. /\ phase = Contribution /\ UNCHANGED cur /\ InStep' /\ HeardInv'
      /\ \A n \in Kinds : \A j \in Members : Passed(j, n)' <=> Passed(j, n)
      /\ \A n \in Kinds : \A j \in Members : n # Contribution => heard'[n][j] = heard[n][j]
  <2>1. InStep /\ HeardInv /\ Receive(i, m, Contribution) /\ Contribution \in Kinds
    BY Zenon, <1>1, <1>2 DEF Timely
  <2>2. /\ phase = Contribution /\ UNCHANGED <<phase, cur, started, sent>> /\ cur[i] = Contribution
        /\ m \in sent[Contribution] /\ m \notin heard[Contribution][i]
        /\ Hears(i, m, Contribution) /\ InStep' /\ HeardInv'
    BY Zenon, <2>1, ReceiveTimely
  <2> QED BY Zenon, <1>2, <2>2 DEF Hears
<1>4. \A n \in {Complaint, Justification, Commitment} : \A j \in Members :
         ~Passed(j, n)' /\ ~Passed(j, n) /\ heard'[n][j] = {} /\ heard[n][j] = {}
  <2>1. Unbegun(Complaint) /\ Unbegun(Justification) /\ Unbegun(Commitment)
    BY Zenon, <1>3, PhasesAround DEF Timely
  <2> SUFFICES ASSUME NEW n \in {Complaint, Justification, Commitment}, NEW j \in Members
               PROVE  ~Passed(j, n)' /\ ~Passed(j, n) /\ heard'[n][j] = {} /\ heard[n][j] = {}
    BY Zenon
  <2>2. n \in Kinds /\ n # Contribution /\ Unbegun(n)
    BY Zenon, <2>1, KindsListed, KindOrder
  <2> QED BY Zenon, <1>3, <2>2 DEF Unbegun
<1>5. OpenInv'
  <2>1. Honest \subseteq Members /\ \A h \in Honest : weComplain'[h] = weComplain[h]
    BY Zenon, <1>1 DEF Honest
  <2> QED BY Zenon, KindsListed, KindOrder, <1>1, <1>3, <1>4, <2>1 DEF Timely, OpenInv
<1>6. TallyInv'
  BY Zenon, <1>1, <1>4, TallySame DEF Timely
<1>7. AnswerInv' /\ StoredInv' /\ CommittedInv'
  BY Zenon, <1>1, <1>4 DEF Timely, AnswerInv, StoredInv, CommittedInv, Honest
<1>8. SameBad'
  <2>1. \A j \in Members : bad'[j] = {}
    BY Zenon, <1>1, <1>4 DEF Timely, OpenInv
  <2> QED BY Zenon, <1>4, <2>1 DEF SameBad
<1>9. KeptInv'
  BY Zenon, <1>1 DEF Timely, KeptInv, Shunned, Unanswered
<1>10. FinalInv'
  BY Zenon, <1>2, <1>3, NotFinal DEF Timely
<1> QED BY Zenon, <1>3, <1>5, <1>6, <1>7, <1>8, <1>9, <1>10 DEF Timely

LEMMA VerifyAndComplainTimely ==
    ASSUME IInv, Timely, NEW i \in Members, VerifyAndComplain(i)
    PROVE  Timely'
<1> DEFINE got == heard[Contribution][i]
           complain == weComplain[i] \cup {m \in got : i \in lieTo[m]}
           badNow == bad[i] \cup (Members \ got)
           badOut == badNow \cup conn[i]
           forOut == complain \ badOut
<1>1. /\ Due(i, Complaint) /\ Start(i)
      /\ \/ UNCHANGED netVars /\ UNCHANGED compl /\ badOut \cup forOut = {}
         \/ /\ Push(i, Complaint)
            /\ compl' = [compl EXCEPT ![i] = [bad |-> badOut, about |-> forOut]]
      /\ UNCHANGED <<just, valid, conn, votes, open>>
      /\ weComplain' = [weComplain EXCEPT ![i] = complain]
      /\ share' = [share EXCEPT ![i] = got \ complain]
      /\ bad' = [bad EXCEPT ![i] = badNow]
  BY Zenon DEF VerifyAndComplain
<1> HIDE DEF complain, badNow, badOut, forOut
<1>2. Complaint \in Kinds /\ Contribution = 2 /\ Complaint = 3 /\ Justification = 4 /\ Commitment = 5
      /\ Contribution \in Kinds /\ Justification \in Kinds /\ Commitment \in Kinds
  BY Zenon, KindsListed, KindOrder DEF Contribution, Complaint, Justification, Commitment
<1>3. /\ phase = Complaint /\ UNCHANGED <<cur, heard>> /\ InStep' /\ HeardInv'
      /\ ~Passed(i, Complaint) /\ i \notin sent[Complaint]
      /\ \A n \in Kinds : \A j \in Members :
            Passed(j, n)' <=> Passed(j, n) \/ (j = i /\ n = Complaint)
      /\ \A n \in Kinds : n # Complaint => sent'[n] = sent[n]
      /\ sent'[Complaint] = sent[Complaint]
            \/ (Push(i, Complaint) /\ sent'[Complaint] = sent[Complaint] \cup {i})
  <2>1. UNCHANGED netVars \/ Push(i, Complaint)
    BY Zenon, <1>1
  <2>2. Starts(i, Complaint)
    BY Zenon, <1>1, <1>2, <2>1, StartTimely DEF Timely
  <2> QED BY Zenon, <2>2 DEF Starts
<1>4. \A j \in Members :
         /\ Passed(j, Contribution) /\ heard[Contribution][j] = sent[Contribution]
         /\ \A n \in {Justification, Commitment} :
               ~Passed(j, n)' /\ ~Passed(j, n) /\ heard[n][j] = {}
         /\ cur[j] <= Complaint
  <2>1. Complete(Contribution) /\ Unbegun(Justification) /\ Unbegun(Commitment)
    BY Zenon, <1>3, PhasesAround DEF Timely
  <2>2. \A j \in Members : cur[j] <= Complaint
    BY Zenon, <1>2, <1>3, PhaseFacts DEF Timely
  <2> QED BY ZenonT(40), <1>3, <2>1, <2>2, KindsListed, KindOrder DEF Complete, Unbegun
<1>5. Honest \subseteq Members
  BY DEF Honest
<1>6. /\ weComplain \in [Members -> SUBSET Members] /\ share \in [Members -> SUBSET Members]
      /\ bad \in [Members -> SUBSET Members] /\ sent \in [Kinds -> SUBSET Members]
      /\ compl \in [Members -> Complaints]
  BY DEF IInv, TypeOK, Sets
<1>7. badNow = Absent /\ Absent' = Absent
  BY ZenonT(40), <1>2, <1>3, <1>4 DEF badNow, Absent, Timely, OpenInv
<1>8. /\ \A m \in Members \ {i} : compl'[m] = compl[m]
      /\ sent[Complaint] \subseteq sent'[Complaint]
      /\ \/ compl' = compl /\ badOut \cup forOut = {}
         \/ compl'[i].bad = badOut /\ compl'[i].about = forOut /\ i \in sent'[Complaint]
  <2>1. CASE UNCHANGED compl /\ badOut \cup forOut = {}
    BY Zenon, <1>3, <2>1
  <2>2. CASE Push(i, Complaint)
             /\ compl' = [compl EXCEPT ![i] = [bad |-> badOut, about |-> forOut]]
    <3>1. compl'[i] = [bad |-> badOut, about |-> forOut]
      BY Zenon, <1>6, <2>2
    <3>2. compl'[i].bad = badOut
      BY Zenon, <3>1, ComplaintBad
    <3>3. compl'[i].about = forOut
      BY Zenon, <3>1, ComplaintAbout
    <3>4. i \in sent'[Complaint]
      BY Zenon, <1>2, <1>6, <2>2 DEF Push
    <3> QED BY Zenon, <1>3, <1>6, <2>2, <3>2, <3>3, <3>4
  <2> QED BY Zenon, <1>1, <2>1, <2>2
<1>9. \A j \in Members : \A m \in heard[Complaint][j] : m \in Members /\ compl'[m] = compl[m]
  <2>1. \A j \in Members : heard[Complaint][j] \subseteq sent[Complaint] /\ sent[Complaint] \subseteq Members
    BY Zenon, <1>2, <1>6 DEF IInv, SentInv
  <2> QED BY Zenon, <1>3, <1>8, <2>1
<1>10. OpenInv'
  <2>1. \A j \in Members \ {i} : bad'[j] = bad[j] /\ weComplain'[j] = weComplain[j]
    BY Zenon, <1>1, <1>6
  <2>2. Passed(i, Complaint)' /\ sent'[Contribution] = sent[Contribution]
    BY Zenon, KindsListed, KindOrder, <1>2, <1>3
  <2> QED BY Zenon, KindsListed, KindOrder, <1>2, <1>3, <1>5, <2>1, <2>2 DEF Timely, OpenInv
<1>11. TallyInv'
  <2>1. \A m \in Members \ sent'[Complaint] : compl'[m] = [bad |-> {}, about |-> {}]
    <3>1. compl[i] = [bad |-> {}, about |-> {}]
      BY Zenon, <1>3 DEF Timely, TallyInv
    <3> QED BY Zenon, <1>8, <3>1 DEF Timely, TallyInv
  <2>2. \A j \in Members : bad[j] \subseteq bad'[j]
    BY Zenon, <1>1, <1>6 DEF badNow
  <2> QED BY Zenon, <1>1, <1>3, <1>9, <2>1, <2>2, TallyKept DEF Timely
<1>12. AnswerInv' /\ CommittedInv'
  BY ZenonT(40), <1>1, <1>2, <1>3, <1>4, <1>5 DEF Timely, AnswerInv, CommittedInv
<1>13. StoredInv'
  <2> SUFFICES ASSUME NEW h \in Honest, conn'[h] = {}, Passed(h, Complaint)',
                      NEW m \in heard'[Contribution][h] \ share'[h]
               PROVE  h \in sent'[Complaint] /\ m \in compl'[h].about
    BY Zenon, <1>3, <1>4, <1>5 DEF StoredInv
  <2>1. CASE h # i
    <3>1. share'[h] = share[h] /\ compl'[h] = compl[h] /\ Passed(h, Complaint)
      BY Zenon, KindsListed, KindOrder, <1>1, <1>2, <1>3, <1>5, <1>6, <1>8, <2>1
    <3> QED BY Zenon, <1>1, <1>3, <1>8, <3>1 DEF Timely, StoredInv
  <2>2. CASE h = i
    <3>1. m \in got /\ m \in complain
      BY Zenon, <1>1, <1>3, <1>6, <2>2
    <3>2. m \notin badOut
      BY Zenon, <1>1, <1>4, <1>7, <2>2, <3>1 DEF badOut, Absent
    <3>3. m \in forOut
      BY Zenon, <3>1, <3>2 DEF forOut
    <3>4. compl'[i].about = forOut /\ i \in sent'[Complaint]
      BY Zenon, <1>8, <3>3
    <3> QED BY Zenon, <2>2, <3>3, <3>4
  <2> QED BY Zenon, <2>1, <2>2
<1>14. \A j \in Members : bad'[j] \subseteq Absent
  <2>1. \A j \in Members : bad[j] \subseteq Absent
    <3>1. \A j \in Members : cur[j] \in Int
      BY SMT, Z3, SMTT(10), Z3T(10) DEF IInv, TypeOK, Initialized, Idle
    <3>2. \A j \in Members : ~(cur[j] >= Justification)
      BY SMT, Z3, SMTT(10), Z3T(10), <1>4, <3>1 DEF Complaint, Justification
    <3>3. \A j \in Members : ~Passed(j, Commitment)
      BY Zenon, <1>4
    <3> QED BY Zenon, <3>2, <3>3 DEF Timely, SameBad
  <2> QED BY Zenon, <1>1, <1>6, <1>7, <2>1
<1>15. SameBad'
  <2>1. \A j \in Members : Passed(j, Complaint)' => Absent \subseteq bad'[j]
    <3>1. \A j \in Members : j # i => bad'[j] = bad[j]
      BY Zenon, <1>1, <1>6
    <3>2. bad'[i] = Absent
      BY Zenon, <1>1, <1>6, <1>7
    <3>3. \A j \in Members : j # i /\ Passed(j, Complaint)' => Passed(j, Complaint)
      BY Zenon, <1>2, <1>3
    <3> QED BY Zenon, <3>1, <3>2, <3>3 DEF Timely, SameBad
  <2> QED BY Zenon, <1>3, <1>4, <1>7, <1>14, <2>1 DEF SameBad
<1>16. KeptInv'
  <2>1. \A h \in Honest : h \notin Absent
    BY Zenon, <1>4, <1>5 DEF Absent, Timely, OpenInv
  <2>2. ASSUME NEW h \in Honest, NEW m \in Members, h \in compl'[m].bad
        PROVE  h \in conn[m]
    <3>1. CASE m # i \/ compl' = compl
      BY Zenon, <1>8, <2>2, <3>1 DEF Timely, KeptInv
    <3>2. CASE m = i /\ compl'[i].bad = badOut
      BY Zenon, <1>7, <2>1, <2>2, <3>2 DEF badOut
    <3> QED BY Zenon, <1>8, <3>1, <3>2
  <2> QED BY Zenon, <1>1, <1>5, <1>14, <2>1, <2>2 DEF KeptInv
<1>17. FinalInv'
  BY Zenon, <1>2, <1>3, NotFinal DEF Timely
<1> QED BY Zenon, <1>3, <1>10, <1>11, <1>12, <1>13, <1>15, <1>16, <1>17 DEF Timely


LEMMA ReceiveComplaintTimely ==
    ASSUME IInv, Timely, NEW i \in Members, NEW m \in Members, ReceiveComplaint(i, m)
    PROVE  Timely'
<1>1. /\ Receive(i, m, Complaint)
      /\ UNCHANGED <<sent, compl, just, valid, conn, bad, weComplain, share>>
  BY DEF ReceiveComplaint, Receive, msgVars
<1>2. Complaint \in Kinds /\ Contribution = 2 /\ Complaint = 3 /\ Justification = 4 /\ Commitment = 5
      /\ Contribution \in Kinds /\ Justification \in Kinds /\ Commitment \in Kinds
  BY KindsListed DEF Contribution, Complaint, Justification, Commitment
<1>3. /\ phase = Complaint /\ UNCHANGED cur /\ InStep' /\ HeardInv'
      /\ \A n \in Kinds : \A j \in Members : Passed(j, n)' <=> Passed(j, n)
      /\ \A n \in Kinds : \A j \in Members :
            heard'[n][j] = IF n = Complaint /\ j = i THEN heard[Complaint][i] \cup {m}
                           ELSE heard[n][j]
  <2>1. InStep /\ HeardInv /\ Receive(i, m, Complaint) /\ Complaint \in Kinds
    BY Zenon, <1>1, <1>2 DEF Timely
  <2>2. /\ phase = Complaint /\ UNCHANGED <<phase, cur, started, sent>> /\ cur[i] = Complaint
        /\ m \in sent[Complaint] /\ m \notin heard[Complaint][i]
        /\ Hears(i, m, Complaint) /\ InStep' /\ HeardInv'
    BY Zenon, <2>1, ReceiveTimely
  <2> QED BY Zenon, <1>2, <2>2 DEF Hears
<1>4. \A n \in {Justification, Commitment} : \A j \in Members :
         ~Passed(j, n)' /\ ~Passed(j, n) /\ heard'[n][j] = {} /\ heard[n][j] = {}
  <2>1. Unbegun(Justification) /\ Unbegun(Commitment)
    BY Zenon, <1>3, PhasesAround DEF Timely
  <2> SUFFICES ASSUME NEW n \in {Justification, Commitment}, NEW j \in Members
               PROVE  ~Passed(j, n)' /\ ~Passed(j, n) /\ heard'[n][j] = {} /\ heard[n][j] = {}
    BY Zenon
  <2>2. n \in Kinds /\ n # Complaint /\ Unbegun(n)
    BY Zenon, <2>1, KindsListed, KindOrder
  <2> QED BY Zenon, <1>3, <2>2 DEF Unbegun
<1>5. Honest \subseteq Members
  BY DEF Honest
<1>6. OpenInv' /\ CommittedInv' /\ AnswerInv'
  BY Zenon, <1>1, <1>2, <1>3, <1>4, <1>5 DEF Timely, OpenInv, CommittedInv, AnswerInv
<1>7. TallyInv'
  <2>1. ASSUME NEW j \in Members, NEW x \in Members
        PROVE  votes'[j][x] = Blaming(j, x)' /\ open'[j][x] = Against(j, x)'
    <3>1. votes[j][x] = Blaming(j, x) /\ open[j][x] = Against(j, x)
      BY Zenon, <1>4 DEF Timely, TallyInv
    <3>2. compl' = compl
      BY Zenon, <1>1
    <3>3. /\ votes'[j][x] = IF j = i /\ x \in compl[m].bad THEN votes[j][x] \cup {m} ELSE votes[j][x]
          /\ open'[j][x] = IF j = i /\ x \in compl[m].about THEN open[j][x] \cup {m} ELSE open[j][x]
      BY Zenon DEF ReceiveComplaint, IInv, TypeOK
    <3>4. heard'[Complaint][j] = IF j = i THEN heard[Complaint][j] \cup {m} ELSE heard[Complaint][j]
      BY Zenon, KindsListed, <1>3
    <3>5. votes'[j][x] = Blaming(j, x)'
      BY Zenon, <3>1, <3>2, <3>3, <3>4 DEF Blaming
    <3>6. open'[j][x] = Against(j, x)'
      BY Zenon, <3>1, <3>2, <3>3, <3>4 DEF Against
    <3> QED BY Zenon, <3>5, <3>6
  <2>2. \A c \in Members \ sent'[Complaint] : compl'[c] = [bad |-> {}, about |-> {}]
    BY Zenon, <1>1 DEF Timely, TallyInv
  <2> QED BY Zenon, <1>4, <2>1, <2>2 DEF TallyInv
<1>8. StoredInv'
  <2>1. \A j \in Members : /\ heard'[Contribution][j] = heard[Contribution][j]
                           /\ heard'[Justification][j] = heard[Justification][j]
                           /\ Passed(j, Complaint)' <=> Passed(j, Complaint)
    BY Zenon, KindsListed, KindOrder, <1>3
  <2> QED BY Zenon, <1>1, <1>5, <2>1 DEF Timely, StoredInv
<1>9. SameBad'
  <2>1. Absent' = Absent /\ Voted' = Voted /\ Refuted' = Refuted /\ Unsettled' = Unsettled
    BY Zenon, <1>1 DEF Absent, Voted, Refuted, Unsettled, About
  <2> QED BY Zenon, <1>1, <1>2, <1>3, <1>4, <2>1 DEF Timely, SameBad
<1>10. KeptInv'
  BY Zenon, <1>1 DEF Timely, KeptInv, Shunned, Unanswered
<1>11. FinalInv'
  BY Zenon, <1>2, <1>3, NotFinal DEF Timely
<1> QED BY Zenon, <1>3, <1>6, <1>7, <1>8, <1>9, <1>10, <1>11 DEF Timely

LEMMA VerifyAndJustifyTimely ==
    ASSUME IInv, Timely, NEW i \in Members, VerifyAndJustify(i)
    PROVE  Timely'
<1> DEFINE badNow == bad[i] \cup {m \in Members : Cardinality(votes[i][m]) >= BadVotes}
           justifyFor == {m \in heard[Complaint][i] \ badNow : i \in compl[m].about}
<1>1. /\ Due(i, Justification) /\ Start(i)
      /\ \/ UNCHANGED netVars /\ UNCHANGED just /\ (justifyFor = {} \/ i \in Faulty)
         \/ /\ Push(i, Justification)
            /\ \E lies \in SUBSET (IF i \in Faulty THEN justifyFor ELSE {}) :
                  just' = [just EXCEPT ![i] = [about |-> justifyFor, lies |-> lies]]
      /\ UNCHANGED <<compl, valid, conn, weComplain, share, votes, open>>
      /\ bad' = [bad EXCEPT ![i] = badNow]
  BY Zenon DEF VerifyAndJustify
<1> HIDE DEF badNow, justifyFor
<1>2. Complaint \in Kinds /\ Contribution = 2 /\ Complaint = 3 /\ Justification = 4 /\ Commitment = 5
      /\ Contribution \in Kinds /\ Justification \in Kinds /\ Commitment \in Kinds
  BY KindsListed DEF Contribution, Complaint, Justification, Commitment
<1>3. /\ phase = Justification /\ UNCHANGED <<cur, heard>> /\ InStep' /\ HeardInv'
      /\ cur[i] = Justification /\ i \notin sent[Justification]
      /\ \A n \in Kinds : \A j \in Members :
            Passed(j, n)' <=> Passed(j, n) \/ (j = i /\ n = Justification)
      /\ \A n \in Kinds : n # Justification => sent'[n] = sent[n]
      /\ sent'[Justification] = sent[Justification]
            \/ (Push(i, Justification) /\ sent'[Justification] = sent[Justification] \cup {i})
  <2>1. UNCHANGED netVars \/ Push(i, Justification)
    BY <1>1
  <2>2. Starts(i, Justification)
    BY Zenon, <1>1, <1>2, <2>1, StartTimely DEF Timely
  <2> QED BY Zenon, <2>2 DEF Starts
<1>4. \A j \in Members :
         /\ Passed(j, Complaint) /\ heard[Complaint][j] = sent[Complaint]
         /\ ~Passed(j, Commitment)' /\ ~Passed(j, Commitment) /\ Passed(j, Complaint)'
  <2>1. Complete(Complaint) /\ Unbegun(Commitment)
    BY Zenon, <1>3, PhasesAround DEF Timely
  <2> QED BY Zenon, <1>3, <2>1, KindsListed, KindOrder DEF Complete, Unbegun
<1>5. Honest \subseteq Members /\ Honest \cap Faulty = {}
  BY DEF Honest
<1>6. /\ bad \in [Members -> SUBSET Members] /\ sent \in [Kinds -> SUBSET Members]
      /\ just \in [Members -> Justifications]
      /\ \A j \in Members : heard[Justification][j] \subseteq sent[Justification]
  BY <1>2 DEF IInv, TypeOK, Sets, SentInv
<1>7. badNow = bad[i] \cup Voted
  <2>1. \A x \in Members : votes[i][x] = {m \in sent[Complaint] : x \in compl[m].bad}
    <3>1. heard[Complaint][i] = sent[Complaint]
      BY Zenon, <1>4
    <3>2. \A x \in Members : votes[i][x] = Blaming(i, x)
      BY Zenon DEF Timely, TallyInv
    <3> QED BY Zenon, <3>1, <3>2 DEF Blaming
  <2>2. {m \in Members : Cardinality(votes[i][m]) >= BadVotes} = Voted
    BY Zenon, <2>1 DEF Voted
  <2> QED BY Zenon, <2>2 DEF badNow
<1>8. /\ \A m \in Members \ {i} : just'[m] = just[m] /\ bad'[m] = bad[m]
      /\ bad'[i] = badNow /\ \A j \in Members : bad[j] \subseteq bad'[j]
      /\ sent[Justification] \subseteq sent'[Justification]
  BY Zenon, <1>1, <1>3, <1>6, <1>7
<1>9. /\ just[i].about = {} /\ just[i].lies = {}
      /\ \/ just' = just /\ (justifyFor = {} \/ i \in Faulty)
         \/ /\ i \in sent'[Justification] /\ just'[i].about = justifyFor
            /\ i \notin Faulty => just'[i].lies = {}
  <2>1. just[i].about = {} /\ just[i].lies = {}
    BY Zenon, <1>3 DEF Timely, AnswerInv
  <2>2. CASE Push(i, Justification)
             /\ \E lies \in SUBSET (IF i \in Faulty THEN justifyFor ELSE {}) :
                  just' = [just EXCEPT ![i] = [about |-> justifyFor, lies |-> lies]]
    <3>1. PICK lies \in SUBSET (IF i \in Faulty THEN justifyFor ELSE {}) :
                  just' = [just EXCEPT ![i] = [about |-> justifyFor, lies |-> lies]]
      BY Zenon, <2>2
    <3>2. just'[i] = [about |-> justifyFor, lies |-> lies]
      BY Zenon, <1>6, <3>1
    <3>3. i \in sent'[Justification]
      BY Zenon, <1>2, <1>6, <2>2 DEF Push
    <3>4. just'[i].about = justifyFor
      BY Zenon, <3>2, JustificationAbout
    <3>5. just'[i].lies = lies
      BY Zenon, <3>2, JustificationLies
    <3>6. i \notin Faulty => lies = {}
      BY Zenon, <3>1
    <3> QED BY Zenon, <2>1, <3>3, <3>4, <3>5, <3>6
  <2> QED BY Zenon, <1>1, <2>1, <2>2
<1>10. OpenInv'
  BY Zenon, <1>1, <1>2, <1>3, <1>4, <1>5 DEF Timely, OpenInv
<1>11. \A j, x \in Members : Against(j, x)' = Against(j, x)
  BY Zenon, <1>1, <1>3 DEF Against
<1>12. \A j \in Members : \A x \in heard[Justification][j] : x \in Members /\ just'[x] = just[x]
  BY ZenonT(40), <1>2, <1>3, <1>6, <1>8
<1>13. TallyInv'
  <2>1. \A m \in Members \ sent'[Complaint] : compl'[m] = [bad |-> {}, about |-> {}]
    BY Zenon, KindsListed, KindOrder, <1>1, <1>3 DEF Timely, TallyInv
  <2> QED BY Zenon, <1>1, <1>3, <1>8, <1>12, <2>1, TallyKept DEF Timely
<1>14. AnswerInv'
  <2>1. \A m \in Members \ sent'[Justification] : just'[m].about = {} /\ just'[m].lies = {}
    <3> SUFFICES ASSUME NEW m \in Members, m \notin sent'[Justification]
                 PROVE  just'[m].about = {} /\ just'[m].lies = {}
      BY Zenon
    <3>1. just[m].about = {} /\ just[m].lies = {}
      BY Zenon, <1>8 DEF Timely, AnswerInv
    <3>2. just'[m] = just[m]
      BY Zenon, <1>8, <1>9
    <3> QED BY Zenon, <3>1, <3>2
  <2>2. ASSUME NEW h \in Honest
        PROVE  /\ just'[h].lies = {}
               /\ Passed(h, Justification)' =>
                    /\ just'[h].about \subseteq Against(h, h)'
                    /\ Against(h, h)' \ just'[h].about \subseteq bad'[h]
    <3>1. CASE h # i
      <4>1. just'[h] = just[h] /\ bad'[h] = bad[h] /\ Against(h, h)' = Against(h, h)
            /\ (Passed(h, Justification)' => Passed(h, Justification))
        BY Zenon, KindsListed, KindOrder, <1>2, <1>3, <1>5, <1>8, <1>11, <3>1
      <4> QED BY Zenon, <4>1 DEF Timely, AnswerInv
    <3>2. CASE h = i
      <4>1. just'[i].about = justifyFor /\ just'[i].lies = {}
        BY Zenon, <1>5, <1>9, <3>2
      <4>2. justifyFor = Against(i, i) \ badNow
        BY DEF justifyFor, Against
      <4> QED BY Zenon, <1>8, <1>11, <3>2, <4>1, <4>2
    <3> QED BY Zenon, <3>1, <3>2
  <2> QED BY Zenon, <2>1, <2>2 DEF AnswerInv
<1>15. StoredInv' /\ CommittedInv'
  <2>1. StoredInv'
    <3> SUFFICES ASSUME NEW h \in Honest, conn'[h] = {},
                        NEW m \in heard'[Contribution][h] \ share'[h]
                 PROVE  /\ h \in sent'[Complaint] /\ m \in compl'[h].about
                        /\ m \in heard'[Justification][h] \ bad'[h] => h \notin just'[m].about
      BY Zenon DEF StoredInv
    <3>1. h \in Members /\ Passed(h, Complaint) /\ m \in heard[Contribution][h] \ share[h]
      BY Zenon, <1>1, <1>3, <1>4, <1>5
    <3>2. /\ h \in sent[Complaint] /\ m \in compl[h].about
          /\ m \in heard[Justification][h] \ bad[h] => h \notin just[m].about
      BY Zenon, <1>1, <3>1 DEF Timely, StoredInv
    <3> QED BY ZenonT(40), <1>1, <1>2, <1>3, <1>8, <1>12, <3>1, <3>2
  <2>2. CommittedInv'
    BY Zenon, <1>4, <1>5 DEF CommittedInv
  <2> QED BY Zenon, <2>1, <2>2
<1>16. /\ Absent' = Absent /\ Voted' = Voted
       /\ \A x \in sent[Justification] : x \in Refuted' <=> x \in Refuted
  <2>1. Absent' = Absent /\ Voted' = Voted /\ \A x \in Members : About(x)' = About(x)
    <3>1. sent'[Contribution] = sent[Contribution] /\ sent'[Complaint] = sent[Complaint] /\ compl' = compl
      BY Zenon, KindsListed, KindOrder, <1>1, <1>2, <1>3
    <3> QED BY Zenon, <3>1 DEF Absent, Voted, About
  <2>2. \A x \in sent[Justification] : x \in Members /\ just'[x] = just[x] /\ x \in sent'[Justification]
    BY Zenon, <1>2, <1>3, <1>6, <1>8
  <2> QED BY <2>1, <2>2 DEF Refuted
<1>17. SameBad'
  <2>1. Refuted \subseteq Refuted'
    <3>1. Refuted \subseteq sent[Justification]
      BY DEF Refuted
    <3> QED BY Zenon, <3>1, <1>16
  <2>2. \A j \in Members : bad'[j] \subseteq Absent
             \cup (IF cur[j] >= Justification THEN Voted \cup Refuted' ELSE {})
    <3>1. \A j \in Members : bad[j] \subseteq Absent
             \cup (IF cur[j] >= Justification THEN Voted \cup Refuted ELSE {})
      BY Zenon, <1>4 DEF Timely, SameBad
    <3>2. cur[i] >= Justification
      BY SMT, Z3, SMTT(10), Z3T(10), <1>3 DEF Justification
    <3> QED BY Zenon, <1>7, <1>8, <2>1, <3>1, <3>2
  <2>3. \A j \in Members : Absent \subseteq bad'[j]
    BY Zenon, <1>4, <1>8 DEF Timely, SameBad
  <2>4. \A j \in Members : Passed(j, Justification)' => Voted \subseteq bad'[j]
    BY Zenon, <1>2, <1>3, <1>7, <1>8 DEF Timely, SameBad
  <2>5. \A j \in Members : heard'[Justification][j] \cap Refuted' \subseteq bad'[j]
    BY Zenon, <1>3, <1>6, <1>8, <1>16 DEF Timely, SameBad
  <2> QED BY Zenon, <1>3, <1>4, <1>16, <2>2, <2>3, <2>4, <2>5 DEF SameBad
<1>18. KeptInv'
  <2>1. \A h \in Honest : Unanswered(h) => Unanswered(h)'
    <3> SUFFICES ASSUME NEW h \in Honest, NEW m \in bad[h], h \in compl[m].about,
                        m \notin just[h].about
                 PROVE  m \in bad'[h] /\ h \in compl'[m].about /\ m \notin just'[h].about
      BY DEF Unanswered
    <3>1. m \in bad'[h] /\ compl' = compl
      BY Zenon, <1>1, <1>5, <1>8
    <3>2. CASE h # i
      BY Zenon, <1>5, <1>8, <3>1, <3>2
    <3>3. CASE h = i
      <4>1. m \notin justifyFor
        BY <1>7, <3>3 DEF justifyFor
      <4> QED BY Zenon, <1>9, <3>1, <3>3, <4>1
    <3> QED BY Zenon, <3>2, <3>3
  <2>2. \A h \in Honest : h \in Voted => Shunned(h)
    <3> SUFFICES ASSUME NEW h \in Honest, h \in Voted PROVE Shunned(h)
      BY Zenon
    <3> DEFINE A == {m \in sent[Complaint] : h \in compl[m].bad}
               B == {m \in Members : h \in conn[m]}
    <3>1. A \subseteq B /\ B \subseteq Members
      BY Zenon, <1>2, <1>6 DEF Timely, KeptInv
    <3>2. IsFiniteSet(B)
      BY Zenon, <3>1, QuorumAssumption, FS_Subset
    <3>3. Cardinality(A) <= Cardinality(B) /\ Cardinality(A) \in Nat /\ Cardinality(B) \in Nat
      BY <3>1, <3>2, FS_Subset, FS_CardinalityType
    <3>4. Cardinality(A) >= BadVotes /\ BadVotes \in Nat
      BY QuorumAssumption DEF Voted
    <3> HIDE DEF A
    <3> QED BY SMT, Z3, SMTT(10), Z3T(10), <3>3, <3>4 DEF Shunned
  <2>3. \A h \in Honest : Shunned(h)' <=> Shunned(h)
    BY Zenon, <1>1 DEF Shunned
  <2>4. \A h \in Honest : \A m \in Members : h \in compl'[m].bad => h \in conn'[m]
    BY Zenon, <1>1 DEF Timely, KeptInv
  <2>5. \A h \in Honest : \A j \in Members : ~Shunned(h) /\ ~Unanswered(h)' => h \notin bad'[j]
    <3>1. \A h \in Honest : \A j \in Members : ~Shunned(h) /\ ~Unanswered(h) => h \notin bad[j]
      BY DEF Timely, KeptInv
    <3> QED BY Zenon, <1>7, <1>8, <2>1, <2>2, <3>1
  <2> QED BY Zenon, <2>3, <2>4, <2>5 DEF KeptInv
<1>19. FinalInv'
  BY Zenon, <1>2, <1>3, NotFinal DEF Timely
<1> QED BY Zenon, <1>3, <1>10, <1>13, <1>14, <1>15, <1>17, <1>18, <1>19 DEF Timely


LEMMA ReceiveJustificationTimely ==
    ASSUME IInv, Timely, NEW i \in Members, NEW m \in Members, ReceiveJustification(i, m)
    PROVE  Timely'
<1>1. /\ Receive(i, m, Justification)
      /\ UNCHANGED <<sent, compl, just, valid, conn, votes>>
  BY DEF ReceiveJustification, Receive, msgVars
<1>2. Complaint \in Kinds /\ Contribution = 2 /\ Complaint = 3 /\ Justification = 4 /\ Commitment = 5
      /\ Contribution \in Kinds /\ Justification \in Kinds /\ Commitment \in Kinds
  BY KindsListed DEF Contribution, Complaint, Justification, Commitment
<1>3. /\ phase = Justification /\ UNCHANGED cur /\ InStep' /\ HeardInv'
      /\ cur[i] = Justification /\ m \in sent[Justification] /\ m \notin heard[Justification][i]
      /\ \A n \in Kinds : \A j \in Members : Passed(j, n)' <=> Passed(j, n)
      /\ \A n \in Kinds : \A j \in Members :
            heard'[n][j] = IF n = Justification /\ j = i THEN heard[Justification][i] \cup {m}
                           ELSE heard[n][j]
  <2>1. InStep /\ HeardInv /\ Receive(i, m, Justification) /\ Justification \in Kinds
    BY Zenon, <1>1, <1>2 DEF Timely
  <2>2. /\ phase = Justification /\ UNCHANGED <<phase, cur, started, sent>> /\ cur[i] = Justification
        /\ m \in sent[Justification] /\ m \notin heard[Justification][i]
        /\ Hears(i, m, Justification) /\ InStep' /\ HeardInv'
    BY Zenon, <2>1, ReceiveTimely
  <2> QED BY Zenon, <1>2, <2>2 DEF Hears
<1>4. \A j \in Members :
         /\ Passed(j, Complaint) /\ heard[Complaint][j] = sent[Complaint]
         /\ heard'[Complaint][j] = sent[Complaint] /\ heard'[Contribution][j] = heard[Contribution][j]
         /\ ~Passed(j, Commitment)' /\ ~Passed(j, Commitment) /\ Passed(j, Complaint)'
  <2>1. Complete(Complaint) /\ Unbegun(Commitment)
    BY Zenon, <1>3, PhasesAround DEF Timely
  <2>2. \A j \in Members : /\ heard'[Complaint][j] = heard[Complaint][j]
                           /\ heard'[Contribution][j] = heard[Contribution][j]
    BY Zenon, <1>3, KindsListed, KindOrder
  <2> QED BY Zenon, <1>3, <2>1, <2>2, KindsListed DEF Complete, Unbegun
<1>5. Honest \subseteq Members
  BY DEF Honest
<1>5a. \A j \in Members : heard'[Justification][j] =
           IF j = i THEN heard[Justification][j] \cup {m} ELSE heard[Justification][j]
  BY Zenon, <1>2, <1>3
<1>6. \A j, x \in Members : Against(j, x) = About(x) /\ Against(j, x)' = About(x)
  BY Zenon, <1>1, <1>4 DEF Against, About
<1>7. open[i][m] = About(m)
  <2>1. open[i][m] = Against(i, m)
    BY Zenon, <1>3 DEF Timely, TallyInv
  <2>2. Against(i, m) = About(m)
    BY Zenon, <1>6
  <2> QED BY <2>1, <2>2
<1>8. /\ \A j \in Members \ {i} : bad'[j] = bad[j] /\ share'[j] = share[j] /\ open'[j] = open[j]
      /\ \A x \in Members \ {m} : open'[i][x] = open[i][x]
      /\ share[i] \subseteq share'[i]
      /\ bad'[i] = bad[i] \cup ({m} \cap Refuted)
      /\ m \notin bad'[i] =>
            /\ just[m].lies = {} /\ just[m].about \subseteq About(m)
            /\ open'[i][m] = About(m) \ just[m].about
            /\ i \in just[m].about => m \in share'[i]
  <2> DEFINE right == just[m].about \ just[m].lies
  <2>1. /\ bad \in [Members -> SUBSET Members] /\ share \in [Members -> SUBSET Members]
        /\ open \in [Members -> [Members -> SUBSET Members]]
    BY DEF IInv, TypeOK, Sets
  <2>2. m \in Refuted <=> ~(just[m].about \subseteq About(m)) \/ just[m].lies # {}
    BY Zenon, <1>3 DEF Refuted
  <2>3. CASE m \in bad[i] /\ UNCHANGED <<bad, weComplain, share, open>>
    BY Zenon, <2>3
  <2>4. CASE m \notin bad[i] /\ ~(just[m].about \subseteq open[i][m])
             /\ bad' = [bad EXCEPT ![i] = bad[i] \cup {m}] /\ UNCHANGED <<weComplain, share, open>>
    BY Zenon, <1>7, <2>1, <2>2, <2>4
  <2>5. CASE /\ m \notin bad[i] /\ just[m].about \subseteq open[i][m]
             /\ bad' = [bad EXCEPT ![i] = IF just[m].lies # {} THEN bad[i] \cup {m} ELSE bad[i]]
             /\ share' = [share EXCEPT ![i] = IF i \in right THEN share[i] \cup {m} ELSE share[i]]
             /\ open' = [open EXCEPT ![i] = [open[i] EXCEPT ![m] = open[i][m] \ right]]
    <3>1. /\ \A j \in Members \ {i} : bad'[j] = bad[j] /\ share'[j] = share[j] /\ open'[j] = open[j]
          /\ \A x \in Members \ {m} : open'[i][x] = open[i][x]
          /\ open'[i][m] = open[i][m] \ right
      BY Zenon, <2>1, <2>5
    <3>2. /\ share'[i] = IF i \in right THEN share[i] \cup {m} ELSE share[i]
          /\ bad'[i] = IF just[m].lies # {} THEN bad[i] \cup {m} ELSE bad[i]
      BY <2>1, <2>5
    <3>3. bad'[i] = bad[i] \cup ({m} \cap Refuted)
      <4>1. m \in Refuted <=> just[m].lies # {}
        BY Zenon, <1>7, <2>2, <2>5
      <4> QED BY Zenon, <3>2, <4>1
    <3>4. m \notin bad'[i] => just[m].lies = {}
      BY <3>2
    <3>5. just[m].lies = {} => right = just[m].about
      BY Zenon
    <3> HIDE DEF right
    <3>6. m \notin bad'[i] =>
            /\ just[m].about \subseteq About(m)
            /\ open'[i][m] = About(m) \ just[m].about
            /\ i \in just[m].about => m \in share'[i]
      <4> SUFFICES ASSUME m \notin bad'[i]
                   PROVE  /\ just[m].about \subseteq About(m)
                          /\ open'[i][m] = About(m) \ just[m].about
                          /\ i \in just[m].about => m \in share'[i]
        BY Zenon
      <4>1. right = just[m].about
        BY Zenon, <3>4, <3>5
      <4>2. open'[i][m] = About(m) \ just[m].about
        BY <1>7, <3>1, <4>1
      <4>3. i \in just[m].about => m \in share'[i]
        BY Zenon, <3>2, <4>1
      <4> QED BY Zenon, <1>7, <2>5, <4>2, <4>3
    <3>7. share[i] \subseteq share'[i]
      BY Zenon, <3>2
    <3> QED BY Zenon, <3>1, <3>3, <3>4, <3>6, <3>7
  <2> QED BY Zenon, <2>3, <2>4, <2>5 DEF ReceiveJustification
<1>9. \A j \in Members : bad[j] \subseteq bad'[j] /\ share[j] \subseteq share'[j]
  BY Zenon, <1>8
<1>10. OpenInv'
  BY Zenon, <1>1, <1>2, <1>3, <1>4, <1>5 DEF Timely, OpenInv
<1>11. TallyInv'
  <2>1. \A j, x \in Members : votes'[j][x] = Blaming(j, x)'
    <3>1. \A j \in Members : heard'[Complaint][j] = heard[Complaint][j]
      BY Zenon, <1>4
    <3>2. compl' = compl /\ votes' = votes
      BY Zenon, <1>1
    <3>3. \A j, x \in Members : Blaming(j, x)' = Blaming(j, x)
      BY Zenon, <3>1, <3>2 DEF Blaming
    <3>4. \A j, x \in Members : votes[j][x] = Blaming(j, x)
      BY Zenon DEF Timely, TallyInv
    <3> QED BY <3>2, <3>3, <3>4
  <2>2. ASSUME NEW j \in Members, NEW x \in Members, x \notin heard'[Justification][j]
        PROVE  open'[j][x] = About(x)
    <3>1. x \notin heard[Justification][j] /\ (j # i \/ x # m)
      BY Zenon, <1>5a, <2>2
    <3>2. open[j][x] = About(x)
      <4>1. open[j][x] = Against(j, x)
        BY Zenon, <3>1 DEF Timely, TallyInv
      <4>2. Against(j, x) = About(x)
        BY Zenon, <1>6
      <4> QED BY <4>1, <4>2
    <3> QED BY Zenon, <1>8, <3>1, <3>2
  <2>3. ASSUME NEW j \in Members, NEW x \in heard'[Justification][j] \ bad'[j]
        PROVE  /\ x \in Members /\ just[x].lies = {} /\ just[x].about \subseteq About(x)
               /\ open'[j][x] = About(x) \ just[x].about
    <3>1. CASE j = i /\ x = m
      BY Zenon, <1>8, <2>3, <3>1
    <3>2. CASE ~(j = i /\ x = m)
      <4>1. x \in heard[Justification][j] \ bad[j]
        BY Zenon, <1>5a, <1>9, <2>3, <3>2
      <4>2. x \in Members
        <5>1. heard[Justification][j] \in SUBSET Members
          <6>1. heard \in [Kinds -> Sets]
            BY Zenon DEF IInv, TypeOK
          <6> QED BY <6>1, KindsListed DEF Sets
        <5> QED BY Zenon, <4>1, <5>1
      <4>3. /\ just[x].lies = {} /\ just[x].about \subseteq About(x)
            /\ open[j][x] = About(x) \ just[x].about
        <5>1. /\ just[x].lies = {} /\ just[x].about \subseteq Against(j, x)
              /\ open[j][x] = Against(j, x) \ just[x].about
          BY Zenon, <4>1 DEF Timely, TallyInv
        <5> QED BY Zenon, <1>6, <4>2, <5>1
      <4> QED BY Zenon, <1>8, <3>2, <4>2, <4>3
    <3> QED BY Zenon, <3>1, <3>2
  <2>4. \A c \in Members \ sent'[Complaint] : compl'[c] = [bad |-> {}, about |-> {}]
    BY Zenon, <1>1 DEF Timely, TallyInv
  <2>5. just' = just
    BY Zenon, <1>1
  <2>6. \A j \in Members : \A x \in Members \ heard'[Justification][j] :
           open'[j][x] = Against(j, x)'
    <3>1. \A j, x \in Members : Against(j, x)' = About(x)
      BY Zenon, <1>6
    <3> QED BY <2>2, <3>1
  <2>7. ASSUME NEW j \in Members, NEW x \in heard'[Justification][j] \ bad'[j]
        PROVE  /\ just'[x].lies = {} /\ just'[x].about \subseteq Against(j, x)'
               /\ open'[j][x] = Against(j, x)' \ just'[x].about
    <3>1. /\ x \in Members /\ just[x].lies = {} /\ just[x].about \subseteq About(x)
          /\ open'[j][x] = About(x) \ just[x].about
      BY Zenon, <2>3
    <3>2. Against(j, x)' = About(x)
      BY Zenon, <1>6, <3>1
    <3> QED BY <2>5, <3>1, <3>2
  <2> QED BY Zenon, <2>1, <2>4, <2>6, <2>7 DEF TallyInv
<1>12. AnswerInv'
  <2>1. \A h \in Honest :
          /\ just[h].lies = {}
          /\ Passed(h, Justification)' =>
                /\ just[h].about \subseteq About(h)
                /\ About(h) \ just[h].about \subseteq bad'[h]
    <3> SUFFICES ASSUME NEW h \in Honest
                 PROVE  /\ just[h].lies = {}
                        /\ Passed(h, Justification)' =>
                              /\ just[h].about \subseteq About(h)
                              /\ About(h) \ just[h].about \subseteq bad'[h]
      BY Zenon
    <3>1. Against(h, h) = About(h) /\ bad[h] \subseteq bad'[h]
          /\ (Passed(h, Justification)' <=> Passed(h, Justification))
      BY Zenon, KindsListed, <1>3, <1>5, <1>6, <1>9
    <3>2. /\ just[h].lies = {}
          /\ Passed(h, Justification) =>
                /\ just[h].about \subseteq Against(h, h)
                /\ Against(h, h) \ just[h].about \subseteq bad[h]
      BY Zenon DEF Timely, AnswerInv
    <3> QED BY Zenon, <3>1, <3>2
  <2> QED BY Zenon, <1>1, <1>5, <1>6, <2>1 DEF Timely, AnswerInv
<1>13. StoredInv'
  <2> SUFFICES ASSUME NEW h \in Honest, conn'[h] = {},
                      NEW x \in heard'[Contribution][h] \ share'[h]
               PROVE  /\ h \in sent[Complaint] /\ x \in compl[h].about
                      /\ x \in heard'[Justification][h] \ bad'[h] => h \notin just[x].about
    BY Zenon, <1>1 DEF StoredInv
  <2>1. h \in Members /\ Passed(h, Complaint) /\ x \in heard[Contribution][h] \ share[h]
    BY Zenon, <1>4, <1>5, <1>9
  <2>2. /\ h \in sent[Complaint] /\ x \in compl[h].about
        /\ x \in heard[Justification][h] \ bad[h] => h \notin just[x].about
    BY Zenon, <1>1, <2>1 DEF Timely, StoredInv
  <2>3. CASE h = i /\ x = m
    BY Zenon, <1>8, <2>2, <2>3
  <2>4. CASE ~(h = i /\ x = m)
    <3>1. x \in heard'[Justification][h] \ bad'[h] => x \in heard[Justification][h] \ bad[h]
      BY Zenon, <1>5a, <1>9, <2>1, <2>4
    <3> QED BY Zenon, <2>2, <3>1
  <2> QED BY Zenon, <2>3, <2>4
<1>14. Absent' = Absent /\ Voted' = Voted /\ Refuted' = Refuted
  BY Zenon, <1>1 DEF Absent, Voted, Refuted, About
<1>15. SameBad'
  <2>1. \A j \in Members : bad'[j] \subseteq Absent
             \cup (IF cur[j] >= Justification THEN Voted \cup Refuted ELSE {})
    <3>1. \A j \in Members : bad[j] \subseteq Absent
             \cup (IF cur[j] >= Justification THEN Voted \cup Refuted ELSE {})
      BY Zenon, <1>4 DEF Timely, SameBad
    <3>2. cur[i] >= Justification
      BY SMT, Z3, SMTT(10), Z3T(10), <1>3 DEF Justification
    <3> QED BY Zenon, <1>8, <3>1, <3>2
  <2>2. \A j \in Members : heard'[Justification][j] \cap Refuted \subseteq bad'[j]
    <3>1. \A j \in Members : heard[Justification][j] \cap Refuted \subseteq bad[j]
      BY Zenon DEF Timely, SameBad
    <3> QED BY ZenonT(40), <1>2, <1>3, <1>8, <3>1
  <2>3. \A j \in Members : /\ Passed(j, Complaint)' => Absent \subseteq bad'[j]
                           /\ Passed(j, Justification)' => Voted \subseteq bad'[j]
    BY Zenon, <1>2, <1>3, <1>9 DEF Timely, SameBad
  <2> QED BY Zenon, <1>3, <1>4, <1>14, <2>1, <2>2, <2>3 DEF SameBad
<1>16. CommittedInv'
  BY Zenon, <1>4, <1>5 DEF CommittedInv
<1>17. KeptInv'
  <2>1. \A h \in Honest : (Unanswered(h) => Unanswered(h)') /\ (Shunned(h)' <=> Shunned(h))
    BY Zenon, <1>1, <1>5, <1>9 DEF Unanswered, Shunned
  <2>2. m \notin Honest \/ m \notin Refuted
    <3>1. Passed(m, Justification)
      BY Zenon, <1>2, <1>3 DEF IInv, SentInv
    <3> QED BY ZenonT(40), <1>3, <1>6, <3>1 DEF Refuted, Timely, AnswerInv
  <2>3. \A h \in Honest : \A j \in Members : ~Shunned(h) /\ ~Unanswered(h)' => h \notin bad'[j]
    <3>1. \A h \in Honest : \A j \in Members : ~Shunned(h) /\ ~Unanswered(h) => h \notin bad[j]
      BY Zenon DEF Timely, KeptInv
    <3> QED BY ZenonT(40), <1>8, <2>1, <2>2, <3>1
  <2> QED BY Zenon, <1>1, <2>1, <2>3 DEF Timely, KeptInv
<1>18. FinalInv'
  BY Zenon, <1>2, <1>3, NotFinal DEF Timely
<1> QED BY Zenon, <1>3, <1>10, <1>11, <1>12, <1>13, <1>15, <1>16, <1>17, <1>18 DEF Timely


LEMMA VerifyAndCommitTimely ==
    ASSUME IInv, Timely, NEW i \in Members, VerifyAndCommit(i)
    PROVE  Timely'
<1> DEFINE badNow == bad[i] \cup {m \in Members : open[i][m] # {}}
           good == Members \ badNow
<1>1. /\ Due(i, Commitment) /\ Start(i)
      /\ \/ /\ UNCHANGED netVars /\ UNCHANGED valid
            /\ i \in Faulty \/ Cardinality(good) < MinSize \/ ~(good \subseteq share[i])
         \/ Push(i, Commitment) /\ valid' = [valid EXCEPT ![i] = good]
      /\ UNCHANGED <<lieTo, compl, just, conn, weComplain, share, votes, open>>
      /\ bad' = [bad EXCEPT ![i] = badNow]
  BY Zenon DEF VerifyAndCommit
<1> HIDE DEF badNow
<1>2. Complaint \in Kinds /\ Contribution = 2 /\ Complaint = 3 /\ Justification = 4 /\ Commitment = 5
      /\ Contribution \in Kinds /\ Justification \in Kinds /\ Commitment \in Kinds
  BY KindsListed DEF Contribution, Complaint, Justification, Commitment
<1>3. /\ phase = Commitment /\ UNCHANGED <<cur, heard>> /\ InStep' /\ HeardInv'
      /\ \A n \in Kinds : \A j \in Members :
            Passed(j, n)' <=> Passed(j, n) \/ (j = i /\ n = Commitment)
      /\ \A n \in Kinds : n # Commitment => sent'[n] = sent[n]
      /\ sent'[Commitment] = sent[Commitment]
            \/ (Push(i, Commitment) /\ sent'[Commitment] = sent[Commitment] \cup {i})
  <2>1. UNCHANGED netVars \/ Push(i, Commitment)
    BY <1>1
  <2>2. Starts(i, Commitment)
    BY Zenon, <1>1, <1>2, <2>1, StartTimely DEF Timely
  <2> QED BY Zenon, <2>2 DEF Starts
<1>4. \A j \in Members : \A n \in {Contribution, Complaint, Justification} :
         /\ Passed(j, n) /\ Passed(j, n)'
         /\ heard[n][j] = sent[n] /\ heard'[n][j] = sent[n] /\ sent'[n] = sent[n]
  <2>1. Complete(Contribution) /\ Complete(Complaint) /\ Complete(Justification)
    BY Zenon, <1>3, PhasesAround DEF Timely
  <2> SUFFICES ASSUME NEW j \in Members, NEW n \in {Contribution, Complaint, Justification}
               PROVE  /\ Passed(j, n) /\ Passed(j, n)'
                      /\ heard[n][j] = sent[n] /\ heard'[n][j] = sent[n] /\ sent'[n] = sent[n]
    BY Zenon
  <2>2. n \in Kinds /\ n # Commitment /\ Complete(n)
    BY Zenon, <2>1, KindsListed, KindOrder
  <2> QED BY Zenon, <1>3, <2>2 DEF Complete
<1>5. Honest \subseteq Members /\ Honest \cap Faulty = {}
  BY DEF Honest
<1>6. /\ bad \in [Members -> SUBSET Members] /\ sent \in [Kinds -> SUBSET Members]
      /\ valid \in [Members -> SUBSET Members]
  BY DEF IInv, TypeOK, Sets
<1>7. \A j, x \in Members : Against(j, x) = About(x) /\ Against(j, x)' = About(x)
  BY Zenon, <1>1, <1>4 DEF Against, About
<1>8. badNow = bad[i] \cup Unsettled
  <2>1. \A x \in Members \ bad[i] : open[i][x] = About(x) \ just[x].about
    <3> SUFFICES ASSUME NEW x \in Members, x \notin bad[i]
                 PROVE  open[i][x] = About(x) \ just[x].about
      BY Zenon
    <3>1. CASE x \in sent[Justification]
      <4>1. open[i][x] = Against(i, x) \ just[x].about
        BY Zenon, <1>4, <3>1 DEF Timely, TallyInv
      <4> QED BY <1>7, <4>1
    <3>2. CASE x \notin sent[Justification]
      <4>1. open[i][x] = About(x) /\ just[x].about = {}
        <5>1. x \notin heard[Justification][i]
          BY Zenon, <1>4, <3>2
        <5>2. open[i][x] = Against(i, x)
          BY Zenon, <5>1 DEF Timely, TallyInv
        <5>3. just[x].about = {}
          BY Zenon, <3>2 DEF Timely, AnswerInv
        <5> QED BY <1>7, <5>2, <5>3
      <4> QED BY Zenon, <4>1
    <3> QED BY Zenon, <3>1, <3>2
  <2>2. \A x \in Members \ bad[i] : open[i][x] # {} <=> x \in Unsettled
    BY <2>1 DEF Unsettled
  <2>3. Unsettled \subseteq Members
    BY DEF Unsettled
  <2> QED BY Zenon, <2>2, <2>3 DEF badNow
<1>9. /\ \A j \in Members \ {i} : bad'[j] = bad[j] /\ valid'[j] = valid[j]
      /\ bad'[i] = badNow /\ \A j \in Members : bad[j] \subseteq bad'[j]
      /\ sent[Commitment] \subseteq sent'[Commitment]
  BY Zenon, <1>1, <1>3, <1>6, <1>8
<1>10. OpenInv'
  BY Zenon, <1>1, <1>4, <1>5 DEF Timely, OpenInv
<1>11. TallyInv'
  BY Zenon, <1>1, <1>4, <1>9, TallySame DEF Timely
<1>12. AnswerInv'
  <2>1. \A h \in Honest :
          /\ just[h].lies = {}
          /\ just[h].about \subseteq About(h)
          /\ About(h) \ just[h].about \subseteq bad[h]
    BY Zenon, <1>4, <1>5, <1>7 DEF Timely, AnswerInv
  <2>2. just' = just /\ sent'[Justification] = sent[Justification]
    BY Zenon, KindsListed, KindOrder, <1>1, <1>2, <1>3
  <2>3. \A h \in Honest : Against(h, h)' = About(h) /\ bad[h] \subseteq bad'[h]
    BY Zenon, <1>5, <1>7, <1>9
  <2>4. \A h \in Honest : /\ just'[h].about \subseteq Against(h, h)'
                          /\ Against(h, h)' \ just'[h].about \subseteq bad'[h]
    BY <2>1, <2>2, <2>3
  <2> QED BY Zenon, <2>1, <2>2, <2>4 DEF Timely, AnswerInv
<1>13. StoredInv'
  <2> SUFFICES ASSUME NEW h \in Honest, conn[h] = {}, NEW x \in sent[Contribution] \ share[h]
               PROVE  /\ h \in sent[Complaint] /\ x \in compl[h].about
                      /\ x \in sent[Justification] \ bad'[h] => h \notin just[x].about
    BY ZenonT(40), <1>1, <1>4, <1>5 DEF StoredInv
  <2>1. /\ h \in sent[Complaint] /\ x \in compl[h].about
        /\ x \in sent[Justification] \ bad[h] => h \notin just[x].about
    BY Zenon, <1>4, <1>5 DEF Timely, StoredInv
  <2> QED BY Zenon, <1>5, <1>9, <2>1
<1>14. /\ Absent' = Absent /\ Voted' = Voted /\ Refuted' = Refuted /\ Unsettled' = Unsettled
       /\ \A x : About(x)' = About(x)
  <2>1. /\ sent'[Contribution] = sent[Contribution] /\ sent'[Complaint] = sent[Complaint]
        /\ sent'[Justification] = sent[Justification] /\ compl' = compl /\ just' = just
    BY Zenon, KindsListed, KindOrder, <1>1, <1>2, <1>3
  <2> QED BY Zenon, <2>1 DEF Absent, Voted, Refuted, Unsettled, About
<1>15. SameBad'
  <2>1. \A j \in Members \ {i} : bad'[j] = bad[j] /\ (Passed(j, Commitment)' <=> Passed(j, Commitment))
    BY ZenonT(40), <1>2, <1>3, <1>9
  <2>2. Passed(i, Commitment)' /\ bad'[i] = bad[i] \cup Unsettled
    BY Zenon, <1>2, <1>3, <1>8, <1>9
  <2>3. \A j \in Members : bad'[j] \subseteq Absent
             \cup (IF cur[j] >= Justification THEN Voted \cup Refuted ELSE {})
             \cup (IF Passed(j, Commitment)' THEN Unsettled ELSE {})
    <3>1. \A j \in Members : bad[j] \subseteq Absent
             \cup (IF cur[j] >= Justification THEN Voted \cup Refuted ELSE {})
             \cup (IF Passed(j, Commitment) THEN Unsettled ELSE {})
      BY Zenon DEF Timely, SameBad
    <3>2. bad'[i] \subseteq Absent
             \cup (IF cur[i] >= Justification THEN Voted \cup Refuted ELSE {}) \cup Unsettled
      BY Zenon, <2>2, <3>1
    <3> QED BY Zenon, <2>1, <2>2, <3>1, <3>2
  <2>4. \A j \in Members : Absent \subseteq bad'[j] /\ Voted \subseteq bad'[j]
                           /\ heard'[Justification][j] \cap Refuted \subseteq bad'[j]
    BY Zenon, <1>3, <1>4, <1>9 DEF Timely, SameBad
  <2>5. \A j \in Members : Passed(j, Commitment)' => Unsettled \subseteq bad'[j]
    BY Zenon, <2>1, <2>2 DEF Timely, SameBad
  <2> QED BY Zenon, <1>3, <1>14, <2>3, <2>4, <2>5 DEF SameBad
<1>16. CommittedInv'
  <2> SUFFICES ASSUME NEW h \in Honest, Passed(h, Commitment)',
                      Cardinality(Members \ bad'[h]) >= MinSize, Members \ bad'[h] \subseteq share[h]
               PROVE  h \in sent'[Commitment] /\ valid'[h] = Members \ bad'[h]
    BY Zenon, <1>1 DEF CommittedInv
  <2>1. CASE h # i
    <3>1. bad'[h] = bad[h] /\ valid'[h] = valid[h] /\ Passed(h, Commitment)
      BY ZenonT(40), <1>2, <1>3, <1>5, <1>9, <2>1
    <3> QED BY Zenon, <1>9, <3>1 DEF Timely, CommittedInv
  <2>2. CASE h = i
    <3>1. Members \ bad'[i] = good
      BY <1>9
    <3>2. IsFiniteSet(good)
      BY QuorumAssumption, FS_Subset
    <3>3. Cardinality(good) \in Nat /\ MinSize \in Nat
      BY <3>2, FS_CardinalityType, QuorumAssumption
    <3>4. ~(Cardinality(good) < MinSize) /\ good \subseteq share[i] /\ i \notin Faulty
      BY SMT, Z3, SMTT(10), Z3T(10), <1>5, <2>2, <3>1, <3>3
    <3>5. Push(i, Commitment) /\ valid' = [valid EXCEPT ![i] = good]
      BY Zenon, <1>1, <3>4
    <3> QED BY Zenon, <1>2, <1>6, <2>2, <3>1, <3>5 DEF Push
  <2> QED BY Zenon, <2>1, <2>2
<1>17. KeptInv'
  <2>1. \A h \in Honest : (Unanswered(h) => Unanswered(h)') /\ (Shunned(h)' <=> Shunned(h))
    BY Zenon, <1>1, <1>5, <1>9 DEF Unanswered, Shunned
  <2>2. \A h \in Honest : h \in Unsettled => Unanswered(h)
    <3> SUFFICES ASSUME NEW h \in Honest, h \in Unsettled PROVE Unanswered(h)
      OBVIOUS
    <3>1. PICK m \in About(h) : m \notin just[h].about
      BY Zenon DEF Unsettled
    <3>2. m \in bad[h]
      BY Zenon, <1>4, <1>5, <1>7, <3>1 DEF Timely, AnswerInv
    <3> QED BY Zenon, <3>1, <3>2 DEF Unanswered, About
  <2>3. \A h \in Honest : \A j \in Members : ~Shunned(h) /\ ~Unanswered(h)' => h \notin bad'[j]
    <3>1. \A h \in Honest : \A j \in Members : ~Shunned(h) /\ ~Unanswered(h) => h \notin bad[j]
      BY Zenon DEF Timely, KeptInv
    <3> QED BY Zenon, <1>8, <1>9, <2>1, <2>2, <3>1
  <2> QED BY Zenon, <1>1, <2>1, <2>3 DEF Timely, KeptInv
<1>18. FinalInv'
  BY Zenon, <1>2, <1>3, NotFinal DEF Timely
<1> QED BY Zenon, <1>3, <1>10, <1>11, <1>12, <1>13, <1>15, <1>16, <1>17, <1>18 DEF Timely

LEMMA ReceiveCommitmentTimely ==
    ASSUME IInv, Timely, NEW i \in Members, NEW m \in Members, ReceiveCommitment(i, m)
    PROVE  Timely'
<1>1. /\ Receive(i, m, Commitment)
      /\ UNCHANGED <<sent, compl, just, valid, conn, bad, weComplain, share, votes, open>>
  BY Zenon DEF ReceiveCommitment, Receive, msgVars, sessVars
<1>2. Complaint \in Kinds /\ Contribution = 2 /\ Complaint = 3 /\ Justification = 4 /\ Commitment = 5
      /\ Contribution \in Kinds /\ Justification \in Kinds /\ Commitment \in Kinds
  BY KindsListed DEF Contribution, Complaint, Justification, Commitment
<1>3. /\ phase = Commitment /\ UNCHANGED cur /\ InStep' /\ HeardInv'
      /\ \A n \in Kinds : \A j \in Members : Passed(j, n)' <=> Passed(j, n)
      /\ \A n \in {Contribution, Complaint, Justification} : \A j \in Members :
            heard'[n][j] = heard[n][j]
  <2>1. InStep /\ HeardInv /\ Receive(i, m, Commitment) /\ Commitment \in Kinds
    BY Zenon, <1>1, <1>2 DEF Timely
  <2>2. /\ phase = Commitment /\ UNCHANGED <<phase, cur, started, sent>> /\ cur[i] = Commitment
        /\ m \in sent[Commitment] /\ m \notin heard[Commitment][i]
        /\ Hears(i, m, Commitment) /\ InStep' /\ HeardInv'
    BY Zenon, <2>1, ReceiveTimely
  <2>3. \A n \in {Contribution, Complaint, Justification} : n \in Kinds /\ n # Commitment
    BY Zenon, KindsListed, KindOrder
  <2> QED BY Zenon, <2>2, <2>3 DEF Hears
<1>4. Honest \subseteq Members
  BY DEF Honest
<1>5. OpenInv' /\ CommittedInv'
  BY Zenon, <1>1, <1>2, <1>3, <1>4 DEF Timely, OpenInv, CommittedInv
<1>6. TallyInv'
  BY Zenon, <1>1, <1>3, TallySame DEF Timely
<1>7. AnswerInv' /\ StoredInv'
  <2>1. \A j \in Members : /\ heard'[Contribution][j] = heard[Contribution][j]
                           /\ heard'[Complaint][j] = heard[Complaint][j]
                           /\ heard'[Justification][j] = heard[Justification][j]
                           /\ Passed(j, Complaint)' <=> Passed(j, Complaint)
                           /\ Passed(j, Justification)' <=> Passed(j, Justification)
    BY Zenon, KindsListed, <1>3
  <2>2. \A j \in Members : Against(j, j)' = Against(j, j)
    BY Zenon, <1>1, <2>1 DEF Against
  <2>3. AnswerInv'
    BY <1>1, <1>4, <2>1, <2>2 DEF Timely, AnswerInv
  <2>4. StoredInv'
    BY Zenon, <1>1, <1>4, <2>1 DEF Timely, StoredInv
  <2> QED BY Zenon, <2>3, <2>4
<1>8. SameBad'
  <2>1. Absent' = Absent /\ Voted' = Voted /\ Refuted' = Refuted /\ Unsettled' = Unsettled
    BY Zenon, <1>1 DEF Absent, Voted, Refuted, Unsettled, About
  <2> QED BY ZenonT(40), <1>1, <1>2, <1>3, <2>1 DEF Timely, SameBad
<1>9. KeptInv'
  BY Zenon, <1>1 DEF Timely, KeptInv, Shunned, Unanswered
<1>10. FinalInv'
  BY Zenon, <1>2, <1>3, NotFinal DEF Timely
<1> QED BY Zenon, <1>3, <1>5, <1>6, <1>7, <1>8, <1>9, <1>10 DEF Timely


\* Which commitments are kept matters only once they are counted.
LEMMA SameTimely ==
    ASSUME IInv, Timely, UNCHANGED <<threadVars, netVars, msgVars, conn, sessVars, final>>
    PROVE  Timely'
<1>1. UNCHANGED <<phase, cur, started, heard, relayed, sent, lieTo, compl, just, valid,
                  conn, bad, weComplain, share, votes, open, final>>
  BY DEF threadVars, netVars, msgVars, sessVars
<1>2. \A j \in Members : cur'[j] \in Int /\ cur'[j] >= cur[j]
  BY SMT, Z3, SMTT(10), Z3T(10), <1>1 DEF IInv, TypeOK, Initialized, Idle
<1>3. \A n \in Kinds : \A j \in Members : Passed(j, n)' <=> Passed(j, n)
  BY <1>1 DEF Passed
<1>4. InStep' /\ FinalInv'
  BY ZenonT(40), <1>1, <1>3 DEF Timely, InStep, FinalInv
<1> QED BY Zenon, <1>2, <1>3, <1>4, ThreadTimely DEF Timely

LEMMA NextTimely == IInv /\ TimelyInv /\ [Next]_vars => TimelyInv'
<1> SUFFICES ASSUME IInv, TimelyInv, [Next]_vars, late' = 0 PROVE Timely'
  BY Zenon DEF TimelyInv
<1>1. CASE UNCHANGED vars
  BY Zenon, <1>1, SameTimely DEF TimelyInv, vars
<1>2. CASE UpdatedBlockTip
  <2>1. late \in Nat /\ Cardinality(Undone) \in Nat
    BY SMT, Z3, SMTT(10), Z3T(10), UndoneFinite, FS_CardinalityType, QuorumAssumption DEF IInv, TypeOK
  <2>2. late = 0
    <3>1. late' = late + Cardinality(Undone)
      BY Zenon, <1>2 DEF UpdatedBlockTip
    <3> QED BY SMT, Z3, SMTT(10), Z3T(10), <2>1, <3>1
  <2> QED BY Zenon, <1>2, <2>2, UpdatedBlockTipTimely DEF TimelyInv
<1>3. CASE InitNewQuorum
  BY Zenon, <1>3, InitNewQuorumTimely
<1>4. CASE \E i \in Members : HandleDKGRound(i)
  <2>1. PICK i \in Members : HandleDKGRound(i)
    BY <1>4
  <2>2. CASE WaitForNextPhase(i)
    <3>1. Timely
      BY Zenon, <2>2 DEF WaitForNextPhase, TimelyInv
    <3> QED BY Zenon, <2>2, <3>1, WaitForNextPhaseTimely
  <2>3. CASE Abort(i)
    <3>1. Timely
      BY Zenon, <2>3 DEF Abort, TimelyInv
    <3> QED BY Zenon, <2>3, <3>1, AbortTimely
  <2>4. CASE Contribute(i)
    <3>1. Timely
      BY Zenon, <2>4 DEF Contribute, TimelyInv
    <3> QED BY Zenon, <2>4, <3>1, ContributeTimely
  <2>5. CASE VerifyAndComplain(i)
    <3>1. Timely
      BY Zenon, <2>5 DEF VerifyAndComplain, TimelyInv
    <3> QED BY Zenon, <2>5, <3>1, VerifyAndComplainTimely
  <2>6. CASE VerifyAndJustify(i)
    <3>1. Timely
      BY Zenon, <2>6 DEF VerifyAndJustify, TimelyInv
    <3> QED BY Zenon, <2>6, <3>1, VerifyAndJustifyTimely
  <2>7. CASE VerifyAndCommit(i)
    <3>1. Timely
      BY Zenon, <2>7 DEF VerifyAndCommit, TimelyInv
    <3> QED BY Zenon, <2>7, <3>1, VerifyAndCommitTimely
  <2>8. CASE FinalizeCommitments(i)
    <3>1. Timely
      BY Zenon, <2>8 DEF FinalizeCommitments, TimelyInv
    <3> QED BY Zenon, <2>8, <3>1, FinalizeCommitmentsTimely
  <2>9. ASSUME NEW m \in Members, ReceiveContribution(i, m) PROVE Timely'
    <3>1. Timely
      BY Zenon, <2>9 DEF ReceiveContribution, Receive, TimelyInv
    <3> QED BY Zenon, <2>9, <3>1, ReceiveContributionTimely
  <2>10. ASSUME NEW m \in Members, ReceiveComplaint(i, m) PROVE Timely'
    <3>1. Timely
      BY Zenon, <2>10 DEF ReceiveComplaint, Receive, TimelyInv
    <3> QED BY Zenon, <2>10, <3>1, ReceiveComplaintTimely
  <2>11. ASSUME NEW m \in Members, ReceiveJustification(i, m) PROVE Timely'
    <3>1. Timely
      BY Zenon, <2>11 DEF ReceiveJustification, Receive, TimelyInv
    <3> QED BY Zenon, <2>11, <3>1, ReceiveJustificationTimely
  <2>12. ASSUME NEW m \in Members, ReceiveCommitment(i, m) PROVE Timely'
    <3>1. Timely
      BY Zenon, <2>12 DEF ReceiveCommitment, Receive, TimelyInv
    <3> QED BY Zenon, <2>12, <3>1, ReceiveCommitmentTimely
  <2>13. ASSUME NEW m \in Members, ReceiveFurther(i, m) PROVE Timely'
    BY Zenon, <2>13, SameTimely DEF ReceiveFurther, TimelyInv
  <2> QED BY Zenon, <2>1, <2>2, <2>3, <2>4, <2>5, <2>6, <2>7, <2>8, <2>9, <2>10, <2>11, <2>12,
            <2>13
         DEF HandleDKGRound
<1> QED BY Zenon, <1>1, <1>2, <1>3, <1>4 DEF Next

\* Every variable of the sessions and their handler threads keeps its type, and
\* the phase never passes QuorumPhase_Idle (UpdatedBlockTip).
THEOREM DKGTyped == Spec => []TypeOK
<1>1. IInv => TypeOK
  BY DEF IInv
<1> QED BY <1>1, InitIInv, NextIInv, PTL DEF Spec

\* In a round in which everybody keeps up no member ever holds an honest,
\* connected and answered member for bad, for any quorum, faulty members and bad
\* connections: what the faulty omit, claim or reveal in VerifyAndComplain,
\* VerifyAndJustify and VerifyAndCommit falls back on themselves.
THEOREM HonestAreKept == Spec => []HonestKept
<1>1. Init => TimelyInv
  BY InitTimely DEF TimelyInv
<1>2. TimelyInv => HonestKept
  BY DEF TimelyInv, Timely, KeptInv, HonestKept
<1> QED BY <1>1, <1>2, InitIInv, NextIInv, NextTimely, PTL DEF Spec

\* When the round is over and everybody kept up, all members hold the same
\* members for bad, so the honest ones have signed the same commitment.
LEMMA RoundEnds ==
    ASSUME IInv, Timely, phase = Idle, \A x \in Honest : conn[x] = {},
           Cardinality(Secure) >= MinSize, NEW h \in Honest
    PROVE  \E c \in final[h] : Secure \subseteq c.valid
<1> DEFINE Bad == Absent \cup Voted \cup Refuted \cup Unsettled
           V == Members \ Bad
<1>1. \A j \in Members : cur[j] = Idle /\ \A k \in Kinds : Passed(j, k) /\ heard[k][j] = sent[k]
  <2>1. \A k \in Kinds : k < phase
    BY SMT, Z3, SMTT(10), Z3T(10) DEF Kinds, Contribution, Commitment, Idle
  <2> QED BY Zenon, <2>1 DEF Timely, InStep
<1>2. Honest \subseteq Members /\ IsFiniteSet(Members) /\ IsFiniteSet(Honest)
  <2>1. Honest \subseteq Members /\ IsFiniteSet(Members)
    BY QuorumAssumption DEF Honest
  <2> QED BY Zenon, <2>1, FS_Subset
<1>3. \A j \in Members : bad[j] = Bad
  <2> SUFFICES ASSUME NEW j \in Members PROVE bad[j] = Bad
    OBVIOUS
  <2>1. Passed(j, Complaint) /\ Passed(j, Justification) /\ Passed(j, Commitment)
        /\ heard[Justification][j] = sent[Justification]
    BY Zenon, KindsListed, KindOrder, <1>1
  <2>2. cur[j] >= Justification
    <3>1. cur[j] = Idle
      BY Zenon, <1>1
    <3> QED BY SMT, Z3, SMTT(10), Z3T(10), <3>1 DEF Idle, Justification
  <2>3. Refuted \subseteq sent[Justification]
    BY Zenon DEF Refuted
  <2>4. bad[j] \subseteq Absent \cup (Voted \cup Refuted) \cup Unsettled
    BY Zenon, <2>1, <2>2 DEF Timely, SameBad
  <2>5. Absent \subseteq bad[j] /\ Voted \subseteq bad[j] /\ Unsettled \subseteq bad[j]
        /\ Refuted \subseteq bad[j]
    BY Zenon, <2>1, <2>3 DEF Timely, SameBad
  <2> QED BY Zenon, <2>4, <2>5
<1>4. Secure \subseteq V /\ Secure \subseteq Honest
  <2>1. Secure \subseteq Honest
    BY Zenon DEF Secure
  <2> SUFFICES ASSUME NEW x \in Secure PROVE x \notin Bad
    BY Zenon, <1>2, <2>1
  <2> QED BY Zenon, <1>2, <1>3, <2>1 DEF Timely, KeptInv, Secure
<1> HIDE DEF Bad
<1>5. IsFiniteSet(V) /\ Cardinality(V) >= MinSize
  <2>1. IsFiniteSet(V)
    BY Zenon, <1>2, FS_Subset
  <2>2. IsFiniteSet(Secure) /\ Cardinality(Secure) <= Cardinality(V)
    BY Zenon, <1>4, <2>1, FS_Subset
  <2>3. Cardinality(Secure) \in Nat /\ Cardinality(V) \in Nat /\ MinSize \in Nat
    BY Zenon, <2>1, <2>2, FS_CardinalityType, QuorumAssumption
  <2> QED BY SMT, Z3, SMTT(10), Z3T(10), <2>1, <2>2, <2>3
<1>6. \A x \in Honest : V \subseteq share[x]
  <2> SUFFICES ASSUME NEW x \in Honest, NEW m \in V, m \notin share[x] PROVE FALSE
    BY Zenon
  <2>1. m \in Members /\ m \in sent[Contribution] /\ m \notin Unsettled /\ m \notin bad[x]
    BY Zenon, <1>2, <1>3 DEF Bad, Absent
  <2>2. Passed(x, Complaint) /\ m \in heard[Contribution][x] /\ conn[x] = {}
        /\ heard[Justification][x] = sent[Justification]
    BY Zenon, <1>1, <1>2, <2>1, KindsListed
  <2>3. /\ x \in sent[Complaint] /\ m \in compl[x].about
        /\ m \in sent[Justification] => x \notin just[m].about
    BY Zenon, <2>1, <2>2 DEF Timely, StoredInv
  <2>4. x \in just[m].about
    BY Zenon, <2>1, <2>3 DEF Unsettled, About
  <2>5. m \in sent[Justification]
    BY Zenon, <2>1, <2>4 DEF Timely, AnswerInv
  <2> QED BY Zenon, <2>3, <2>4, <2>5
<1>7. \A x \in Honest : x \in sent[Commitment] /\ valid[x] = V
  BY Zenon, <1>1, <1>2, <1>3, <1>5, <1>6, KindsListed DEF Timely, CommittedInv
<1>8. Cardinality({m \in sent[Commitment] : valid[m] = V}) >= MinSize
  <2> DEFINE S == {m \in sent[Commitment] : valid[m] = V}
  <2>1. Secure \subseteq S /\ S \subseteq Members
    BY Zenon, <1>4, <1>7, KindsListed DEF IInv, TypeOK
  <2>2. IsFiniteSet(S) /\ IsFiniteSet(Secure) /\ Cardinality(Secure) <= Cardinality(S)
    BY Zenon, <1>2, <2>1, FS_Subset
  <2>3. Cardinality(Secure) \in Nat /\ Cardinality(S) \in Nat /\ MinSize \in Nat
    BY Zenon, <2>2, FS_CardinalityType, QuorumAssumption
  <2> QED BY SMT, Z3, SMTT(10), Z3T(10), <2>2, <2>3
<1>9. \E c \in final[h] : c.valid = V
  BY Zenon, <1>1, <1>2, <1>8 DEF Timely, FinalInv
<1> QED BY Zenon, <1>4, <1>9

\* A round in which everybody keeps up and honest members see no bad connection
\* ends, for any quorum and whatever the faulty do, with a final commitment at
\* every honest member, if at least minSize honest members are neither shunned
\* nor have a complaint about them that VerifyAndJustify passes over; it keeps
\* all of these (HandleDKGRound, FinalizeCommitments).
THEOREM RoundsSucceed == Spec => []RoundSucceeds
<1>1. Init => TimelyInv
  BY InitTimely DEF TimelyInv
<1>2. IInv /\ TimelyInv => RoundSucceeds
  BY RoundEnds DEF TimelyInv, RoundSucceeds
<1> QED BY <1>1, <1>2, InitIInv, NextIInv, NextTimely, PTL DEF Spec
=============================================================================
