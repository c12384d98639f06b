----------------------------- MODULE DKGSession -----------------------------
(***************************************************************************)
(* One round of distributed key generation among the members of a quorum:  *)
(* every member's CDKGSession (llmq/quorums_dkgsession.cpp) driven by its  *)
(* CDKGSessionHandler thread (llmq/quorums_dkgsessionhandler.cpp).         *)
(*                                                                         *)
(* The chain's height sets the phase.  In each phase a member first runs   *)
(* the phase's start function, which makes its own message, and otherwise  *)
(* takes messages off its queue; messages left over when the phase ends    *)
(* are never looked at.  A member that is two phases late aborts.          *)
(*                                                                         *)
(* A member queues at most one message of each kind, so this message is    *)
(* named by its sender and its content is a function of the sender.        *)
(* Secret shares are right or wrong: lieTo[m] are the members for whom m's *)
(* contribution holds a wrong one.  The quorum key of a set of valid       *)
(* members is fixed by their verification vectors, so a premature          *)
(* commitment is its set of valid members.                                 *)
(*                                                                         *)
(* Faults are the ones the code can simulate (DKGError), further premature *)
(* commitments, which ReceiveMessage accepts, messages that come too late, *)
(* members that are too slow and bad connections.                          *)
(***************************************************************************)
EXTENDS Integers, FiniteSets

CONSTANTS
    Members,    \* members of the quorum
    Faulty,     \* members that do not follow the protocol
    MinSize,    \* llmqTypeChainLocks.minSize
    BadVotes,   \* llmqTypeChainLocks.dkgBadVotesThreshold
    Topologies, \* for each member, the members it sees a bad connection to
    MaxLate,    \* bound on what is not done in time
    Further     \* sets of valid members a further commitment may name

ASSUME QuorumAssumption ==
    /\ IsFiniteSet(Members)
    /\ Faulty \subseteq Members
    /\ MinSize \in Nat
    /\ BadVotes \in Nat \ {0}
    /\ MaxLate \in Nat
    /\ Further \subseteq SUBSET Members

ASSUME TopologyAssumption ==
    /\ Topologies \subseteq [Members -> SUBSET Members]
    /\ \A t \in Topologies : \A m \in Members : m \notin t[m]

VARIABLES
    phase,     \* CDKGSessionHandler::phase, the same at every node
    cur,       \* the phase each member's handler thread is in
    started,   \* members that have run the start function of that phase
    heard,     \* by kind and member: senders whose message it has received
    relayed,   \* by kind: senders whose message is to be had from peers
    sent,      \* by kind: senders that queued a message of their own
    lieTo,     \* contribution: members given a wrong share
    compl,     \* complaint: badMembers and complainForMembers
    just,      \* justification: members it reveals shares for, and the wrong ones
    valid,     \* premature commitment: validMembers
    conn,      \* badConnection
    bad,       \* CDKGMember::bad, by member
    weComplain,\* CDKGMember::weComplain
    share,     \* members whose secret share was verified and stored
    votes,     \* CDKGMember::badMemberVotes
    open,      \* CDKGMember::complaintsFromOthers
    kept,      \* validCommitments: senders and what they committed to
    final,     \* final commitments
    late       \* history: how much was not done before its phase ended

threadVars == <<phase, cur, started>>
netVars == <<heard, relayed, sent>>
msgVars == <<lieTo, compl, just, valid>>
sessVars == <<bad, weComplain, share, votes, open>>
vars == <<threadVars, netVars, msgVars, conn, sessVars, kept, final, late>>

Initialized == 1
Contribution == 2
Complaint == 3
Justification == 4
Commitment == 5
Finalize == 6
Idle == 7

Kinds == Contribution..Commitment
Honest == Members \ Faulty

-----------------------------------------------------------------------------
(***************************************************************************)
(* The handler thread.                                                     *)
(***************************************************************************)
\* Messages of kind k that i can take off its queue: its own, and those some
\* member has received and serves to its peers.
Waiting(i, k) == (relayed[k] \cup (sent[k] \cap {i})) \ heard[k][i]

\* The start function of phase k is due: the thread sleeps before it, and
\* does not look at the phase again when the sleep is over.
Due(i, k) == cur[i] = k /\ i \notin started

\* What the members have not done that is to be done in this phase: getting
\* there, starting, receiving a message.
Undone ==
    {<<i, "phase">> : i \in {j \in Members : cur[j] \notin {phase, Idle}}}
    \cup {<<i, "start">> : i \in {j \in Members : phase \in Kinds /\ Due(j, phase)}}
    \cup {p \in Members \X Members :
            phase \in Kinds /\ cur[p[1]] = phase /\ p[2] \in Waiting(p[1], phase)}

\* A faulty variant: the phase is not held against QuorumPhase_Idle.
UpdatedBlockTipUnbounded ==
    /\ phase' = phase + 1
    /\ late' = late + Cardinality(Undone)
    /\ late' <= MaxLate
    /\ UNCHANGED <<cur, started, netVars, msgVars, conn, sessVars, kept, final>>

\* UpdatedBlockTip at the first block of a phase.
UpdatedBlockTip ==
    /\ phase < Idle
    /\ phase' = phase + 1
    /\ late' = late + Cardinality(Undone)
    /\ late' <= MaxLate
    /\ UNCHANGED <<cur, started, netVars, msgVars, conn, sessVars, kept, final>>

Start(i) == started' = started \cup {i} /\ UNCHANGED <<phase, cur>>

\* WaitForNextPhase finds the next phase.
WaitForNextPhase(i) ==
    /\ cur[i] \in Initialized..Justification
    /\ cur[i] = Initialized \/ i \in started
    /\ phase = cur[i] + 1
    /\ cur' = [cur EXCEPT ![i] = phase]
    /\ started' = started \ {i}
    /\ UNCHANGED <<phase, netVars, msgVars, conn, sessVars, kept, final, late>>

\* AbortPhaseException: the phase was missed while waiting, or left while
\* still sleeping before its start function.
Abort(i) ==
    /\ cur[i] < Finalize
    /\ \/ phase > cur[i] + 1
       \/ cur[i] \in Kinds /\ i \notin started /\ phase # cur[i]
    /\ cur' = [cur EXCEPT ![i] = Idle]
    /\ started' = started \ {i}
    /\ UNCHANGED <<phase, netVars, msgVars, conn, sessVars, kept, final, late>>

\* ReceiveMessage keeps the message of m and serves it to the peers.  The
\* thread looks at the phase before each batch, so the last one may come after
\* the end of the phase.
Receive(i, m, k) ==
    /\ cur[i] = k
    /\ phase \in {k, k + 1}
    /\ m \in Waiting(i, k)
    /\ heard' = [heard EXCEPT ![k][i] = @ \cup {m}]
    /\ relayed' = [relayed EXCEPT ![k] = @ \cup {m}]
    /\ UNCHANGED <<threadVars, sent, msgVars, conn, final, late>>

\* PushPendingMessage of the member's own message.
Push(i, k) == sent' = [sent EXCEPT ![k] = @ \cup {i}] /\ UNCHANGED <<heard, relayed>>

-----------------------------------------------------------------------------
(***************************************************************************)
(* Contributions.                                                          *)
(***************************************************************************)
\* A faulty member may omit its contribution or lie to any of the others.
Contribute(i) ==
    /\ Due(i, Contribution)
    /\ Start(i)
    /\ \/ i \in Faulty /\ UNCHANGED <<netVars, lieTo>>
       \/ /\ Push(i, Contribution)
          /\ \E lies \in SUBSET (IF i \in Faulty THEN Members \ {i} ELSE {}) :
                lieTo' = [lieTo EXCEPT ![i] = lies]
    /\ UNCHANGED <<compl, just, valid, conn, sessVars, kept, final, late>>

\* The share is verified later; a faulty member may complain without reason.
ReceiveContribution(i, m) ==
    /\ Receive(i, m, Contribution)
    /\ \/ UNCHANGED weComplain
       \/ /\ i \in Faulty /\ m # i
          /\ weComplain' = [weComplain EXCEPT ![i] = @ \cup {m}]
    /\ UNCHANGED <<bad, share, votes, open, kept>>

-----------------------------------------------------------------------------
(***************************************************************************)
(* Complaints.                                                             *)
(***************************************************************************)
\* VerifyPendingContributions checks the shares, members that sent nothing
\* are bad, and a complaint goes out if there is anything to say.
VerifyAndComplain(i) ==
    LET got == heard[Contribution][i]
        complain == weComplain[i] \cup {m \in got : i \in lieTo[m]}
        badNow == bad[i] \cup (Members \ got)
        badOut == badNow \cup conn[i]
        forOut == complain \ badOut
    IN  /\ Due(i, Complaint)
        /\ Start(i)
        /\ weComplain' = [weComplain EXCEPT ![i] = complain]
        /\ share' = [share EXCEPT ![i] = got \ complain]
        /\ bad' = [bad EXCEPT ![i] = badNow]
        /\ IF badOut \cup forOut = {}
           THEN UNCHANGED <<netVars, compl>>
           ELSE /\ Push(i, Complaint)
                /\ compl' = [compl EXCEPT ![i] = [bad |-> badOut, about |-> forOut]]
        /\ UNCHANGED <<lieTo, just, valid, conn, votes, open, kept, final, late>>

ReceiveComplaint(i, m) ==
    /\ Receive(i, m, Complaint)
    /\ votes' = [votes EXCEPT ![i] = [x \in Members |->
                    IF x \in compl[m].bad THEN @[x] \cup {m} ELSE @[x]]]
    /\ open' = [open EXCEPT ![i] = [x \in Members |->
                    IF x \in compl[m].about THEN @[x] \cup {m} ELSE @[x]]]
    /\ UNCHANGED <<bad, weComplain, share, kept>>

-----------------------------------------------------------------------------
(***************************************************************************)
(* Justifications.                                                         *)
(***************************************************************************)
\* Members that enough others called bad are bad; to every other member that
\* complained about i, i reveals its share, unless it is faulty and omits the
\* justification or lies in it.
VerifyAndJustify(i) ==
    LET badNow == bad[i] \cup {m \in Members : Cardinality(votes[i][m]) >= BadVotes}
        justifyFor == {m \in heard[Complaint][i] \ badNow : i \in compl[m].about}
    IN  /\ Due(i, Justification)
        /\ Start(i)
        /\ bad' = [bad EXCEPT ![i] = badNow]
        /\ IF justifyFor = {}
           THEN UNCHANGED <<netVars, just>>
           ELSE \/ i \in Faulty /\ UNCHANGED <<netVars, just>>
                \/ /\ Push(i, Justification)
                   /\ \E lies \in SUBSET (IF i \in Faulty THEN justifyFor ELSE {}) :
                         just' = [just EXCEPT ![i] = [about |-> justifyFor, lies |-> lies]]
        /\ UNCHANGED <<lieTo, compl, valid, conn, weComplain, share, votes, open, kept, final, late>>

\* A faulty variant: a right share is stored but its complaint stays open.
ReceiveJustificationUnsettled(i, m) ==
    LET right == just[m].about \ just[m].lies
    IN  /\ Receive(i, m, Justification)
        /\ \/ /\ m \in bad[i]
              /\ UNCHANGED <<bad, weComplain, share, open>>
           \/ /\ m \notin bad[i]
              /\ ~(just[m].about \subseteq open[i][m])
              /\ bad' = [bad EXCEPT ![i] = @ \cup {m}]
              /\ UNCHANGED <<weComplain, share, open>>
           \/ /\ m \notin bad[i]
              /\ just[m].about \subseteq open[i][m]
              /\ bad' = [bad EXCEPT ![i] = IF just[m].lies # {} THEN @ \cup {m} ELSE @]
              /\ weComplain' = [weComplain EXCEPT ![i] = IF i \in right THEN @ \ {m} ELSE @]
              /\ share' = [share EXCEPT ![i] = IF i \in right THEN @ \cup {m} ELSE @]
              /\ UNCHANGED open
        /\ UNCHANGED <<votes, kept>>

\* A justification of a bad member is not looked at; one that answers a
\* complaint i has not seen makes its sender bad; a wrong share does so too,
\* and each right one settles its complaint.
ReceiveJustification(i, m) ==
    LET right == just[m].about \ just[m].lies
    IN  /\ Receive(i, m, Justification)
        /\ \/ /\ m \in bad[i]
              /\ UNCHANGED <<bad, weComplain, share, open>>
           \/ /\ m \notin bad[i]
              /\ ~(just[m].about \subseteq open[i][m])
              /\ bad' = [bad EXCEPT ![i] = @ \cup {m}]
              /\ UNCHANGED <<weComplain, share, open>>
           \/ /\ m \notin bad[i]
              /\ just[m].about \subseteq open[i][m]
              /\ bad' = [bad EXCEPT ![i] = IF just[m].lies # {} THEN @ \cup {m} ELSE @]
              /\ weComplain' = [weComplain EXCEPT ![i] = IF i \in right THEN @ \ {m} ELSE @]
              /\ share' = [share EXCEPT ![i] = IF i \in right THEN @ \cup {m} ELSE @]
              /\ open' = [open EXCEPT ![i][m] = @ \ right]
        /\ UNCHANGED <<votes, kept>>

-----------------------------------------------------------------------------
(***************************************************************************)
(* Commitments.                                                            *)
(***************************************************************************)
\* Two faulty variants: the commitment goes out without a share of every good
\* member; exactly minSize good members are too few.
VerifyAndCommitShareless(i) ==
    LET badNow == bad[i] \cup {m \in Members : open[i][m] # {}}
        good == Members \ badNow
    IN  /\ Due(i, Commitment)
        /\ Start(i)
        /\ bad' = [bad EXCEPT ![i] = badNow]
        /\ IF Cardinality(good) < MinSize
           THEN UNCHANGED <<netVars, valid>>
           ELSE \/ i \in Faulty /\ UNCHANGED <<netVars, valid>>
                \/ Push(i, Commitment) /\ valid' = [valid EXCEPT ![i] = good]
        /\ UNCHANGED <<lieTo, compl, just, conn, weComplain, share, votes, open, kept, final, late>>

VerifyAndCommitStrict(i) ==
    LET badNow == bad[i] \cup {m \in Members : open[i][m] # {}}
        good == Members \ badNow
    IN  /\ Due(i, Commitment)
        /\ Start(i)
        /\ bad' = [bad EXCEPT ![i] = badNow]
        /\ IF Cardinality(good) <= MinSize \/ ~(good \subseteq share[i])
           THEN UNCHANGED <<netVars, valid>>
           ELSE \/ i \in Faulty /\ UNCHANGED <<netVars, valid>>
                \/ Push(i, Commitment) /\ valid' = [valid EXCEPT ![i] = good]
        /\ UNCHANGED <<lieTo, compl, just, conn, weComplain, share, votes, open, kept, final, late>>

\* Open complaints make their target bad.  The premature commitment names
\* the members that are not; it goes out only if they are enough and i has a
\* verified share of each, as the sum of the shares is invalid otherwise.  A
\* lying commitment does not survive its sender's own ReceiveMessage, so it
\* is an omitted one.
VerifyAndCommit(i) ==
    LET badNow == bad[i] \cup {m \in Members : open[i][m] # {}}
        good == Members \ badNow
    IN  /\ Due(i, Commitment)
        /\ Start(i)
        /\ bad' = [bad EXCEPT ![i] = badNow]
        /\ IF Cardinality(good) < MinSize \/ ~(good \subseteq share[i])
           THEN UNCHANGED <<netVars, valid>>
           ELSE \/ i \in Faulty /\ UNCHANGED <<netVars, valid>>
                \/ Push(i, Commitment) /\ valid' = [valid EXCEPT ![i] = good]
        /\ UNCHANGED <<lieTo, compl, just, conn, weComplain, share, votes, open, kept, final, late>>

\* A receiver that has all the verification vectors verifies the commitment,
\* which succeeds for what its sender let out; another takes it as it is.
ReceiveCommitment(i, m) ==
    /\ Receive(i, m, Commitment)
    /\ kept' = [kept EXCEPT ![i] = @ \cup {<<m, valid[m]>>}]
    /\ UNCHANGED sessVars

\* A faulty member that has come to the phase may commit to further sets and
\* send such a commitment to whom it likes.  It is kept besides the first, and
\* its sender does not become bad.  PreVerifyMessage drops what comes after the
\* second, unless in the same batch; that is a message not received.
ReceiveFurther(i, m) ==
    /\ m \in Faulty /\ cur[m] >= Commitment /\ ~Due(m, Commitment)
    /\ cur[i] = Commitment
    /\ phase \in {Commitment, Finalize}
    /\ \E V \in Further :
          /\ V \subseteq share[m] /\ V # valid[m]
          /\ Cardinality(V) >= MinSize
          /\ <<m, V>> \notin kept[i]
          /\ kept' = [kept EXCEPT ![i] = @ \cup {<<m, V>>}]
    /\ UNCHANGED <<threadVars, netVars, msgVars, conn, sessVars, final, late>>

\* A faulty variant: one signer less is enough.
FinalizeCommitmentsFewer(i) ==
    LET signers(V) == {m \in Members : <<m, V>> \in kept[i]}
    IN  /\ cur[i] = Commitment
        /\ i \in started
        /\ phase = Finalize
        /\ final' = [final EXCEPT ![i] =
                        {[valid |-> V, signers |-> signers(V)] :
                            V \in {W \in SUBSET Members :
                                      Cardinality(signers(W)) >= MinSize - 1}}]
        /\ cur' = [cur EXCEPT ![i] = Idle]
        /\ started' = started \ {i}
        /\ UNCHANGED <<phase, netVars, msgVars, conn, sessVars, kept, late>>

\* Commitments to the same valid members from enough signers make a final
\* commitment, which goes to AddMineableCommitment.
FinalizeCommitments(i) ==
    LET signers(V) == {m \in Members : <<m, V>> \in kept[i]}
    IN  /\ cur[i] = Commitment
        /\ i \in started
        /\ phase = Finalize
        /\ final' = [final EXCEPT ![i] =
                        {[valid |-> V, signers |-> signers(V)] :
                            V \in {W \in SUBSET Members :
                                      Cardinality(signers(W)) >= MinSize}}]
        /\ cur' = [cur EXCEPT ![i] = Idle]
        /\ started' = started \ {i}
        /\ UNCHANGED <<phase, netVars, msgVars, conn, sessVars, kept, late>>

-----------------------------------------------------------------------------
None == [m \in Members |-> {}]

Init ==
    /\ phase = Initialized
    /\ cur = [m \in Members |-> Initialized]
    /\ started = {}
    /\ heard = [k \in Kinds |-> None]
    /\ relayed = [k \in Kinds |-> {}]
    /\ sent = [k \in Kinds |-> {}]
    /\ lieTo = None
    /\ compl = [m \in Members |-> [bad |-> {}, about |-> {}]]
    /\ just = [m \in Members |-> [about |-> {}, lies |-> {}]]
    /\ valid = None
    /\ conn \in Topologies
    /\ bad = None
    /\ weComplain = None
    /\ share = None
    /\ votes = [m \in Members |-> None]
    /\ open = [m \in Members |-> None]
    /\ kept = None
    /\ final = None
    /\ late = 0

\* The first block of the next quorum: a thread still in the old round aborts
\* it, the queues are cleared and InitNewQuorum makes a new session.
InitNewQuorum ==
    /\ phase = Idle
    /\ phase' = Initialized
    /\ cur' = [m \in Members |-> Initialized]
    /\ started' = {}
    /\ heard' = [k \in Kinds |-> None]
    /\ relayed' = [k \in Kinds |-> {}]
    /\ sent' = [k \in Kinds |-> {}]
    /\ lieTo' = None
    /\ compl' = [m \in Members |-> [bad |-> {}, about |-> {}]]
    /\ just' = [m \in Members |-> [about |-> {}, lies |-> {}]]
    /\ valid' = None
    /\ conn' \in Topologies
    /\ bad' = None
    /\ weComplain' = None
    /\ share' = None
    /\ votes' = [m \in Members |-> None]
    /\ open' = [m \in Members |-> None]
    /\ kept' = None
    /\ final' = None
    /\ late' = 0

\* The thread of member i.
HandleDKGRound(i) ==
    \/ WaitForNextPhase(i) \/ Abort(i)
    \/ Contribute(i) \/ VerifyAndComplain(i) \/ VerifyAndJustify(i)
    \/ VerifyAndCommit(i) \/ FinalizeCommitments(i)
    \/ \E m \in Members :
          \/ ReceiveContribution(i, m) \/ ReceiveComplaint(i, m)
          \/ ReceiveJustification(i, m) \/ ReceiveCommitment(i, m)
          \/ ReceiveFurther(i, m)

Next == UpdatedBlockTip \/ InitNewQuorum \/ \E i \in Members : HandleDKGRound(i)

Spec == Init /\ [][Next]_vars

-----------------------------------------------------------------------------
Complaints == [bad : SUBSET Members, about : SUBSET Members]
Justifications == [about : SUBSET Members, lies : SUBSET Members]
Sets == [Members -> SUBSET Members]

\* Every variable has its type; the phase never runs past QuorumPhase_Idle.
TypeOK ==
    /\ phase \in Initialized..Idle
    /\ cur \in [Members -> Initialized..Idle]
    /\ started \subseteq Members
    /\ heard \in [Kinds -> Sets]
    /\ relayed \in [Kinds -> SUBSET Members]
    /\ sent \in [Kinds -> SUBSET Members]
    /\ lieTo \in Sets
    /\ compl \in [Members -> Complaints]
    /\ just \in [Members -> Justifications]
    /\ valid \in Sets
    /\ conn \in Sets
    /\ bad \in Sets
    /\ weComplain \in Sets
    /\ share \in Sets
    /\ votes \in [Members -> Sets]
    /\ open \in [Members -> Sets]
    /\ kept \in [Members -> SUBSET (Members \X SUBSET Members)]
    /\ final \in [Members -> SUBSET [valid : SUBSET Members, signers : SUBSET Members]]
    /\ late \in 0..MaxLate

\* However messages and members are delayed, final commitments to different
\* sets of valid members, hence to different quorum keys, take at least
\* 2 * minSize - size members that signed both, and no honest member does ("In
\* case nodes come to different conclusions, the aggregation phase will handle
\* this": SendCommitment, ReceiveMessage, FinalizeCommitments).
FinalAgreement ==
    \A i, j \in Members : \A f \in final[i], g \in final[j] : f.valid # g.valid =>
        /\ f.signers \cap g.signers \subseteq Faulty
        /\ Cardinality(f.signers \cap g.signers) >= 2 * MinSize - Cardinality(Members)

\* Every signer of a final commitment has a right share from every valid
\* member, whatever lies, lost complaints and late justifications came before:
\* together the signers can sign with the key they committed to.
SignersHoldShares ==
    \A i \in Members : \A f \in final[i] : \A s \in f.signers :
        /\ f.valid \subseteq share[s]
        /\ \A m \in f.valid : s \in lieTo[m] =>
              s \in just[m].about \ just[m].lies

\* Members whose connection enough others call bad.
Shunned(m) == Cardinality({i \in Members : m \in conn[i]}) >= BadVotes

\* h passes over a complaint about itself, because its sender already counts
\* as bad: it sent no contribution, is shunned, or a wrong justification of
\* its own came in before h got to VerifyAndJustify.
Unanswered(h) ==
    \E m \in bad[h] : h \in compl[m].about /\ m \notin just[h].about

\* When everybody keeps up, no member ever holds an honest and connected
\* member for bad, whatever the faulty ones omit, claim or reveal: complaints
\* without reason are answered and settled before VerifyAndCommit looks, but
\* for those of members already given up (VerifyAndJustify passes them over).
HonestKept ==
    late = 0 => \A h \in Honest : \A i \in Members :
        ~Shunned(h) /\ ~Unanswered(h) => h \notin bad[i]

\* Honest members whose place neither bad connections nor a complaint that
\* they passed over endangers.
Secure == {h \in Honest : ~Shunned(h) /\ ~Unanswered(h)}

\* A round in which everybody keeps up, honest members see no bad connection,
\* and at least minSize of them have no complaint about them that their
\* VerifyAndJustify passes over, has by the block that ends it given every
\* honest member a final commitment that keeps all of these (HandleDKGRound up
\* to AddMineableCommitment).
RoundSucceeds ==
    /\ phase = Idle /\ late = 0
    /\ \A h \in Honest : conn[h] = {}
    /\ Cardinality(Secure) >= MinSize
    => \A h \in Honest : \E c \in final[h] : Secure \subseteq c.valid
=============================================================================
