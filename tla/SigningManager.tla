--------------------------- MODULE SigningManager ---------------------------
(***************************************************************************)
(* Recovered threshold signatures: the database CRecoveredSigsDb with its  *)
(* three verdict caches, and CSigningManager, which takes signatures from  *)
(* peers, from other messages and from the node's own recovery, stores     *)
(* each one, tells the listeners and cleans up after a while               *)
(* (llmq/quorums_signing.cpp).                                             *)
(*                                                                         *)
(* No lock spans a whole operation.  A lookup takes cs_cache to read the   *)
(* cache, releases it, asks the database, and takes it again to store the  *)
(* answer; a write puts the batch first and the caches after; a removal    *)
(* erases the caches first and writes the batch after.  Every step between *)
(* two locks or database calls is an action here, and the threads that     *)
(* call in (message handling, share recovery, ChainLocks) interleave with  *)
(* the worker thread at each of them.                                      *)
(*                                                                         *)
(* A recovered signature is a value r: its quorum, request id, message     *)
(* hash and signature together, so that its object hash and its sign hash  *)
(* (session) are r itself and its request id is IdOf[r].                   *)
(***************************************************************************)
EXTENDS Integers, FiniteSets

CONSTANTS
    RecSigs,     \* recovered signatures that can appear
    Ids,         \* request ids
    IdOf,        \* the request id of a recovered signature
    Forged,      \* those whose signature does not verify
    Unsound,     \* those whose block is missing, invalid or at a wrong height
    NoSig,       \* no recovered signature
    Nodes,       \* peers
    Callers,     \* threads other than the worker
    Worker,      \* the worker thread "signingman"
    MaxAge,      \* -maxrecsigsage
    CleanupGap,  \* pause between two cleanups
    MaxTime,     \* bound on the clock
    MaxBatch,    \* nMaxBatchSize
    MaxRemovals, \* removals after which a cleanup writes its batch early
    MaxCrashes   \* bound on crashes

\* A quorum's threshold signature over one request is unique, and a majority
\* signs one message per request id (the comment above the conflict branch of
\* ProcessRecoveredSig): two signatures of one id are not both genuine.
ASSUME SigAssumption ==
    /\ IdOf \in [RecSigs -> Ids]
    /\ Forged \subseteq RecSigs
    /\ Unsound \subseteq RecSigs
    /\ NoSig \notin RecSigs
    /\ \A r, s \in RecSigs \ Forged : IdOf[r] = IdOf[s] => r = s

ASSUME TimeAssumption ==
    /\ MaxAge \in Nat
    /\ CleanupGap \in Nat \ {0}
    /\ MaxTime \in Nat
    /\ MaxBatch \in Nat \ {0}
    /\ MaxRemovals \in Nat \ {0}
    /\ MaxCrashes \in Nat

ASSUME ThreadAssumption == Worker \notin Callers

VARIABLES
    recs,          \* "rs_r" by id: the stored signature of a request id
    index,         \* "rs_r" by id and message, "rs_h" and "rs_s"
    times,         \* "rs_t": write times of the stored signatures
    cache,         \* hasSigForIdCache, hasSigForHashCache, hasSigForSessionCache
    pending,       \* pendingRecoveredSigs, by peer
    reconstructed, \* pendingReconstructedRecoveredSigs
    thr,           \* where each thread is
    wphase,        \* which part of its loop the worker is in
    todo,          \* signatures the worker still has to process
    batch,         \* unverified signatures the worker collected, by peer
    del,           \* "rs_t" keys the running cleanup found old
    left,          \* those of them it has not handled yet
    doomed,        \* signatures the running cleanup put into its batch
    now,           \* GetTime()
    lastCleanup,   \* lastCleanupTime
    told,          \* signatures the listeners were told of
    crashes

dbVars == <<recs, index, times>>
cleanVars == <<del, left, doomed, lastCleanup>>
workVars == <<wphase, todo, batch, cleanVars>>
pendVars == <<pending, reconstructed>>
envVars == <<now, told, crashes>>
vars == <<dbVars, cache, pendVars, thr, workVars, envVars>>

Threads == Callers \cup {Worker}
SigOrNone == RecSigs \cup {NoSig}

\* Keys of the verdict caches and of the database lookups behind them.
Keys == ({"id"} \X Ids) \cup ({"hash", "session"} \X RecSigs)

\* Keys that WriteRecoveredSig writes for r besides the record itself.
IndexKeys(r) == {"msg", "hash", "session"} \X {r}

\* Keys whose verdict changes when r is stored or removed.
VerdictKeys(r) == {<<"id", IdOf[r]>>, <<"hash", r>>, <<"session", r>>}

\* db->Exists on the key behind a cached verdict.
Exists(k) ==
    IF k[1] = "id" THEN recs[k[2]] # NoSig ELSE k \in index

-----------------------------------------------------------------------------
(***************************************************************************)
(* Threads.  "at" is the place in the code, "sig" the signature at hand,   *)
(* "look" how far a verdict lookup has come: "get" reads the cache,        *)
(* "exists" asks the database, "yes" and "no" are answers about to be      *)
(* cached.                                                                 *)
(***************************************************************************)
LookupStages ==
    {"msg_hash", "have_hash", "session", "push_id", "recover_id", "sign_id",
     "collect_hash", "proc_hash", "proc_id"}

\* From here to the end of ProcessRecoveredSig the checks on r have passed.
StoreStages == {"write_db", "write_cache", "unpend", "tell"}
ProcessStages == {"proc_hash", "proc_id", "proc_get"} \cup StoreStages
Stages ==
    {"idle", "check", "msg_push", "push", "collect_add", "collect_skip", "uncache"}
    \cup LookupStages \cup ProcessStages

At(place, r) == [at |-> place, sig |-> r, look |-> "get"]
Idle == At("idle", NoSig)

HashLookups == {"msg_hash", "have_hash", "collect_hash", "proc_hash"}

LookupKey(t) ==
    IF t.at \in HashLookups THEN <<"hash", t.sig>>
    ELSE IF t.at = "session" THEN <<"session", t.sig>>
    ELSE <<"id", IdOf[t.sig]>>

\* Where a lookup leads: most callers have nothing to do for a known
\* signature, and an inventory or session question just returns.
PlaceIfFound(place) ==
    IF place = "proc_id" THEN "proc_get"
    ELSE IF place = "collect_hash" THEN "collect_skip"
    ELSE "idle"

PlaceIfMissing(place) ==
    IF place = "msg_hash" THEN "msg_push"
    ELSE IF place = "push_id" THEN "push"
    ELSE IF place = "recover_id" THEN "check"
    ELSE IF place = "collect_hash" THEN "collect_add"
    ELSE IF place = "proc_hash" THEN "proc_id"
    ELSE IF place = "proc_id" THEN "write_db"
    ELSE "idle"

Resume(t, found) ==
    LET place == IF found THEN PlaceIfFound(t.at) ELSE PlaceIfMissing(t.at)
    IN  IF place = "idle" THEN Idle ELSE At(place, t.sig)

Goto(th, t) == thr' = [thr EXCEPT ![th] = t]
Return(th) == Goto(th, Idle)

\* HasRecoveredSigForId, ForHash and ForSession up to the first unlock.
LookupCache(th) ==
    /\ thr[th].at \in LookupStages
    /\ thr[th].look = "get"
    /\ LET k == LookupKey(thr[th]) IN
       IF cache[k] = "none"
       THEN Goto(th, [thr[th] EXCEPT !.look = "exists"])
       ELSE Goto(th, Resume(thr[th], cache[k] = "yes"))
    /\ UNCHANGED <<dbVars, cache, pendVars, workVars, envVars>>

\* db->Exists, with no lock held.
LookupDb(th) ==
    /\ thr[th].look = "exists"
    /\ LET found == Exists(LookupKey(thr[th])) IN
       Goto(th, [thr[th] EXCEPT !.look = IF found THEN "yes" ELSE "no"])
    /\ UNCHANGED <<dbVars, cache, pendVars, workVars, envVars>>

\* The answer is cached, whatever happened to the database meanwhile.
LookupInsert(th) ==
    /\ thr[th].look \in {"yes", "no"}
    /\ cache' = [cache EXCEPT ![LookupKey(thr[th])] = thr[th].look]
    /\ Goto(th, Resume(thr[th], thr[th].look = "yes"))
    /\ UNCHANGED <<dbVars, pendVars, workVars, envVars>>

-----------------------------------------------------------------------------
(***************************************************************************)
(* ProcessRecoveredSig, run by the worker and by the share recovery.       *)
(***************************************************************************)
\* The block of the signature must be known, valid and at a signing height.
CheckBlock(th) ==
    /\ thr[th].at = "check"
    /\ IF thr[th].sig \in Unsound
       THEN Return(th)
       ELSE Goto(th, At("proc_hash", thr[th].sig))
    /\ UNCHANGED <<dbVars, cache, pendVars, workVars, envVars>>

\* A stored signature of the id, the same or a conflicting one, ends it; if
\* the record has vanished the signature is treated as new.
GetRecoveredSigById(th) ==
    /\ thr[th].at = "proc_get"
    /\ IF recs[IdOf[thr[th].sig]] # NoSig
       THEN Return(th)
       ELSE Goto(th, At("write_db", thr[th].sig))
    /\ UNCHANGED <<dbVars, cache, pendVars, workVars, envVars>>

\* The batch of WriteRecoveredSig.
WriteRecoveredSig(th) ==
    /\ thr[th].at = "write_db"
    /\ LET r == thr[th].sig IN
       /\ recs' = [recs EXCEPT ![IdOf[r]] = r]
       /\ index' = index \cup IndexKeys(r)
       /\ times' = times \cup {<<now, IdOf[r]>>}
       /\ Goto(th, At("write_cache", r))
    /\ UNCHANGED <<cache, pendVars, workVars, envVars>>

\* Faulty variant: a verdict that is cached already counts as another
\* thread's write, and the rest is left to that thread.
CacheRecoveredSigOnce(th) ==
    /\ thr[th].at = "write_cache"
    /\ LET r == thr[th].sig IN
       /\ cache' = [k \in Keys |->
                        IF k \in VerdictKeys(r) THEN "yes" ELSE cache[k]]
       /\ Goto(th, IF cache[<<"hash", r>>] = "yes" THEN Idle ELSE At("unpend", r))
    /\ UNCHANGED <<dbVars, pendVars, workVars, envVars>>

CacheRecoveredSig(th) ==
    /\ thr[th].at = "write_cache"
    /\ LET r == thr[th].sig IN
       /\ cache' = [k \in Keys |->
                        IF k \in VerdictKeys(r) THEN "yes" ELSE cache[k]]
       /\ Goto(th, At("unpend", r))
    /\ UNCHANGED <<dbVars, pendVars, workVars, envVars>>

\* The worker holds cs_pending while it collects.
CsPendingFree == wphase # "collect"

\* Faulty variant: a signature that was not waiting is not announced.
ErasePendingSilent(th) ==
    /\ thr[th].at = "unpend"
    /\ CsPendingFree
    /\ reconstructed' = reconstructed \ {thr[th].sig}
    /\ Goto(th, IF thr[th].sig \in reconstructed THEN At("tell", thr[th].sig) ELSE Idle)
    /\ UNCHANGED <<dbVars, cache, pending, workVars, envVars>>

ErasePending(th) ==
    /\ thr[th].at = "unpend"
    /\ CsPendingFree
    /\ reconstructed' = reconstructed \ {thr[th].sig}
    /\ Goto(th, At("tell", thr[th].sig))
    /\ UNCHANGED <<dbVars, cache, pending, workVars, envVars>>

\* The loop over the listeners' HandleNewRecoveredSig.
TellListeners(th) ==
    /\ thr[th].at = "tell"
    /\ told' = told \cup {thr[th].sig}
    /\ Return(th)
    /\ UNCHANGED <<dbVars, cache, pendVars, workVars, now, crashes>>

-----------------------------------------------------------------------------
(***************************************************************************)
(* What the other threads call.                                            *)
(***************************************************************************)
\* A peer's QSIGREC (ProcessMessageRecoveredSig), an inventory question
\* (AlreadyHave), a session question of the share manager, a CLSIG whose
\* signature was just verified, a share set that reaches the threshold
\* (TryRecoverSig: only a genuine signature comes out) or a request to sign
\* (AsyncSignIfMember, whose vote ChainLocks models).
Call(c) ==
    /\ thr[c] = Idle
    /\ \/ \E r \in RecSigs :
             \/ Goto(c, At("msg_hash", r))
             \/ CsPendingFree /\ r \notin reconstructed /\ Goto(c, At("have_hash", r))
       \/ \E r \in RecSigs \ Forged :
          \E place \in {"session", "push_id", "recover_id", "sign_id"} :
             Goto(c, At(place, r))
    /\ UNCHANGED <<dbVars, cache, pendVars, workVars, envVars>>

PushPending(c) ==
    /\ thr[c].at = "msg_push"
    /\ CsPendingFree
    /\ \E n \in Nodes :
          pending' = IF thr[c].sig \in reconstructed
                     THEN pending ELSE pending \cup {<<n, thr[c].sig>>}
    /\ Return(c)
    /\ UNCHANGED <<dbVars, cache, reconstructed, workVars, envVars>>

PushReconstructedRecoveredSig(c) ==
    /\ thr[c].at = "push"
    /\ CsPendingFree
    /\ reconstructed' = reconstructed \cup {thr[c].sig}
    /\ Return(c)
    /\ UNCHANGED <<dbVars, cache, pending, workVars, envVars>>

-----------------------------------------------------------------------------
(***************************************************************************)
(* The worker: ProcessPendingRecoveredSigs, then Cleanup, for ever.        *)
(***************************************************************************)
WorkerAt(phase) == thr[Worker] = Idle /\ wphase = phase

\* Faulty variant: the map is cleared before it is taken over.
SwapReconstructedEmpty ==
    /\ WorkerAt("start")
    /\ todo' = {}
    /\ reconstructed' = {}
    /\ wphase' = "recon"
    /\ UNCHANGED <<dbVars, cache, pending, thr, batch, cleanVars, envVars>>

SwapReconstructed ==
    /\ WorkerAt("start")
    /\ todo' = reconstructed
    /\ reconstructed' = {}
    /\ wphase' = "recon"
    /\ UNCHANGED <<dbVars, cache, pending, thr, batch, cleanVars, envVars>>

\* One ProcessRecoveredSig of either loop.
ProcessNext ==
    /\ WorkerAt("recon") \/ WorkerAt("verified")
    /\ \E r \in todo : todo' = todo \ {r} /\ Goto(Worker, At("check", r))
    /\ UNCHANGED <<dbVars, cache, pendVars, wphase, batch, cleanVars, envVars>>

\* CollectPendingRecoveredSigsToVerify takes cs_pending.
StartCollect ==
    /\ WorkerAt("recon")
    /\ todo = {}
    /\ wphase' = "collect"
    /\ UNCHANGED <<dbVars, cache, pendVars, thr, todo, batch, cleanVars, envVars>>

CollectNext ==
    /\ WorkerAt("collect")
    /\ Cardinality(batch) < MaxBatch
    /\ \E p \in pending : Goto(Worker, At("collect_hash", p[2]))
    /\ UNCHANGED <<dbVars, cache, pendVars, workVars, envVars>>

\* The head of a peer's list leaves it, into the batch unless it is known.
CollectHead ==
    /\ thr[Worker].at \in {"collect_add", "collect_skip"}
    /\ \E p \in pending :
          /\ p[2] = thr[Worker].sig
          /\ pending' = pending \ {p}
          /\ batch' = IF thr[Worker].at = "collect_add" THEN batch \cup {p} ELSE batch
    /\ Return(Worker)
    /\ UNCHANGED <<dbVars, cache, reconstructed, wphase, todo, cleanVars, envVars>>

\* Faulty variant: the verdict of the batch verification is not used.
VerifyBatchUnchecked ==
    /\ WorkerAt("collect")
    /\ pending = {} \/ Cardinality(batch) >= MaxBatch
    /\ todo' = {p[2] : p \in batch}
    /\ batch' = {}
    /\ wphase' = "verified"
    /\ UNCHANGED <<dbVars, cache, pendVars, thr, cleanVars, envVars>>

\* Signatures of quorums that are no longer active are left out; the batch
\* verification drops everything of a peer that sent a forged one; and a
\* signature that several peers sent is processed once.
VerifyBatch ==
    /\ WorkerAt("collect")
    /\ pending = {} \/ Cardinality(batch) >= MaxBatch
    /\ \E active \in SUBSET batch :
          LET bad == {n \in Nodes : \E r \in Forged : <<n, r>> \in active}
          IN  todo' = {r \in RecSigs : \E n \in Nodes \ bad : <<n, r>> \in active}
    /\ batch' = {}
    /\ wphase' = "verified"
    /\ UNCHANGED <<dbVars, cache, pendVars, thr, cleanVars, envVars>>

Old(keys) == {k \in keys : k[1] < now - MaxAge}

\* Cleanup, and the cursor loop of CleanupOldRecoveredSigs.
StartCleanup ==
    /\ WorkerAt("verified")
    /\ todo = {}
    /\ IF now - lastCleanup < CleanupGap
       THEN wphase' = "start" /\ UNCHANGED <<del, left>>
       ELSE wphase' = "clean" /\ del' = Old(times) /\ left' = Old(times)
    /\ UNCHANGED <<dbVars, cache, pendVars, thr, todo, batch, doomed, lastCleanup,
                   envVars>>

\* RemoveRecoveredSig reads the record of an old key and puts the erasure of
\* all its keys into the batch; a key without a record adds nothing.
RemoveRecoveredSig ==
    /\ WorkerAt("clean")
    /\ Cardinality(doomed) < MaxRemovals
    /\ \E k \in left :
          /\ left' = left \ {k}
          /\ IF recs[k[2]] = NoSig
             THEN UNCHANGED <<doomed, thr>>
             ELSE /\ doomed' = doomed \cup {recs[k[2]]}
                  /\ Goto(Worker, At("uncache", recs[k[2]]))
    /\ UNCHANGED <<dbVars, cache, pendVars, wphase, todo, batch, del, lastCleanup,
                   envVars>>

\* Its end: the verdicts leave the caches while the record is still stored.
UncacheRecoveredSig ==
    /\ thr[Worker].at = "uncache"
    /\ cache' = [k \in Keys |-> IF k \in VerdictKeys(thr[Worker].sig)
                                THEN "none" ELSE cache[k]]
    /\ Return(Worker)
    /\ UNCHANGED <<dbVars, pendVars, workVars, envVars>>

\* What a batch of removals does to the records and their other keys.
EraseDoomed ==
    /\ recs' = [i \in Ids |-> IF \E r \in doomed : IdOf[r] = i THEN NoSig ELSE recs[i]]
    /\ index' = index \ {k \in index : k[2] \in doomed}
    /\ doomed' = {}

\* A batch that has grown too large is written before the loop ends.
WriteEarly ==
    /\ WorkerAt("clean")
    /\ Cardinality(doomed) >= MaxRemovals
    /\ EraseDoomed
    /\ UNCHANGED <<times, cache, pendVars, thr, wphase, todo, batch,
                   del, left, lastCleanup, envVars>>

\* Faulty variant: every write time of the handled ids is erased.
WriteRemovalsById ==
    /\ WorkerAt("clean")
    /\ left = {}
    /\ Cardinality(doomed) < MaxRemovals
    /\ EraseDoomed
    /\ times' = times \ {k \in times : \E d \in del : d[2] = k[2]}
    /\ del' = {}
    /\ lastCleanup' = now
    /\ wphase' = "start"
    /\ UNCHANGED <<cache, pendVars, thr, todo, batch, left, envVars>>

\* The last batch of CleanupOldRecoveredSigs also erases the old "rs_t" keys.
WriteRemovals ==
    /\ WorkerAt("clean")
    /\ left = {}
    /\ Cardinality(doomed) < MaxRemovals
    /\ EraseDoomed
    /\ times' = times \ del
    /\ del' = {}
    /\ lastCleanup' = now
    /\ wphase' = "start"
    /\ UNCHANGED <<cache, pendVars, thr, todo, batch, left, envVars>>

-----------------------------------------------------------------------------
Tick ==
    /\ now < MaxTime
    /\ now' = now + 1
    /\ UNCHANGED <<dbVars, cache, pendVars, thr, workVars, told, crashes>>

\* The process dies and starts again: what is not in the database is gone.
Crash ==
    /\ crashes < MaxCrashes
    /\ crashes' = crashes + 1
    /\ cache' = [k \in Keys |-> "none"]
    /\ pending' = {}
    /\ reconstructed' = {}
    /\ thr' = [th \in Threads |-> Idle]
    /\ wphase' = "start"
    /\ todo' = {}
    /\ batch' = {}
    /\ del' = {}
    /\ left' = {}
    /\ doomed' = {}
    /\ lastCleanup' = 0
    /\ told' = {}
    /\ UNCHANGED <<dbVars, now>>

Init ==
    /\ recs = [i \in Ids |-> NoSig]
    /\ index = {}
    /\ times = {}
    /\ cache = [k \in Keys |-> "none"]
    /\ pending = {}
    /\ reconstructed = {}
    /\ thr = [th \in Threads |-> Idle]
    /\ wphase = "start"
    /\ todo = {}
    /\ batch = {}
    /\ del = {}
    /\ left = {}
    /\ doomed = {}
    /\ now = 0
    /\ lastCleanup = 0
    /\ told = {}
    /\ crashes = 0

\* Steps that any thread takes inside a lookup or ProcessRecoveredSig.
Common(th) ==
    \/ LookupCache(th) \/ LookupDb(th) \/ LookupInsert(th)
    \/ CheckBlock(th) \/ GetRecoveredSigById(th) \/ WriteRecoveredSig(th)
    \/ CacheRecoveredSig(th) \/ ErasePending(th) \/ TellListeners(th)

CallerStep(c) ==
    \/ Common(c)
    \/ PushPending(c) \/ PushReconstructedRecoveredSig(c)

WorkThreadMain ==
    \/ Common(Worker)
    \/ SwapReconstructed \/ ProcessNext \/ StartCollect \/ CollectNext
    \/ CollectHead \/ VerifyBatch \/ StartCleanup \/ RemoveRecoveredSig
    \/ UncacheRecoveredSig \/ WriteEarly \/ WriteRemovals

Next ==
    \/ \E c \in Callers : Call(c) \/ CallerStep(c)
    \/ WorkThreadMain
    \/ Tick
    \/ Crash

Spec == Init /\ [][Next]_vars

\* A started call runs to its end and the worker loops for ever; nobody has
\* to call, and the clock need not move.  A caller may wait for cs_pending
\* while the worker collects; the worker gives it up in every round and
\* sleeps, so a waiting thread gets it: strong fairness.
FairSpec ==
    /\ Spec
    /\ \A c \in Callers : SF_vars(CallerStep(c))
    /\ WF_vars(WorkThreadMain)

-----------------------------------------------------------------------------
\* Every variable has its type; neither a write time nor the last cleanup lies
\* in the future.
TypeOK ==
    /\ recs \in [Ids -> SigOrNone]
    /\ index \subseteq {"msg", "hash", "session"} \X RecSigs
    /\ times \subseteq (0..now) \X Ids
    /\ cache \in [Keys -> {"none", "yes", "no"}]
    /\ pending \subseteq Nodes \X RecSigs
    /\ reconstructed \subseteq RecSigs
    /\ thr \in [Threads -> [at : Stages, sig : SigOrNone,
                            look : {"get", "exists", "yes", "no"}]]
    /\ wphase \in {"start", "recon", "collect", "verified", "clean"}
    /\ todo \subseteq RecSigs
    /\ batch \subseteq Nodes \X RecSigs
    /\ del \subseteq (0..now) \X Ids
    /\ left \subseteq del
    /\ doomed \subseteq RecSigs
    /\ now \in 0..MaxTime
    /\ lastCleanup \in 0..now
    /\ told \subseteq RecSigs
    /\ crashes \in 0..MaxCrashes

-----------------------------------------------------------------------------
\* Records and keys belong together, whatever writes and cleanups overlapped
\* (WriteRecoveredSig and CleanupOldRecoveredSigs share the keys but no lock).
\* A stored signature has its message, hash and session keys and a write time,
\* so that each lookup and a later cleanup will find it; and no key outlives
\* its record, so that GetRecoveredSigByHash never returns another signature.
KeysMatchRecords ==
    /\ \A i \in Ids : recs[i] # NoSig =>
          /\ IndexKeys(recs[i]) \subseteq index
          /\ \E k \in times : k[2] = i
    /\ \A k \in index : recs[IdOf[k[2]]] = k[2]

\* Only a signature that verified and whose block passed the checks is
\* stored or told to the listeners, although peers' signatures wait
\* unverified in the same object and the two processing paths run in
\* different threads.
VerifiedOnly ==
    /\ \A i \in Ids : recs[i] \notin Forged \cup Unsound
    /\ told \cap (Forged \cup Unsound) = {}

\* Threads that have stored r and have yet to tell the listeners.
Telling(r) ==
    \E th \in Threads : thr[th].sig = r /\ thr[th].at \in StoreStages \ {"write_db"}

\* r counts as known: by the database, by a cached verdict or by an answer
\* a thread is about to cache.
Known(r) ==
    \E k \in VerdictKeys(r) :
        \/ Exists(k)
        \/ cache[k] = "yes"
        \/ \E th \in Threads : thr[th].look = "yes" /\ LookupKey(thr[th]) = k

\* A genuine signature that any verdict calls known, stale verdicts included,
\* has been told to the listeners or is about to be: dropping a duplicate as
\* known (ProcessMessageRecoveredSig, CollectPendingRecoveredSigsToVerify,
\* ProcessRecoveredSig, AsyncSignIfMember) never loses the only copy.  A
\* crash between the write and the listeners breaks it, so it is claimed of
\* runs without one.
KnownIsTold ==
    crashes = 0 => \A r \in RecSigs \ Forged : Known(r) => r \in told \/ Telling(r)

\* r is on its way to the listeners: waiting to be processed, or in the hands
\* of a thread that has it past its lookups or is processing it.
Carried(r) ==
    \/ r \in reconstructed \cup todo
    \/ \E th \in Threads :
          thr[th].sig = r /\ thr[th].at \in {"push", "check"} \cup ProcessStages

\* What a thread has taken on is never dropped: a good signature that is on
\* its way, from a CLSIG, from shares or from a peer's verified batch, stays
\* on its way until the listeners are told, although the worker swaps and
\* refills its lists, erases of pendingReconstructedRecoveredSigs come from
\* other threads, and ProcessRecoveredSig returns early on verdicts that a
\* concurrent write or cleanup has made stale.  Only a crash loses it.
NeverDropped ==
    [][\A r \in RecSigs \ (Forged \cup Unsound) :
          crashes' = 0 /\ Carried(r) => Carried(r)' \/ r \in told']_vars

\* A signature reconstructed from a CLSIG reaches the listeners: the swap of
\* pendingReconstructedRecoveredSigs, the lookups and the other threads'
\* writes and cleanups never make it disappear on the way.
ReconstructedIsTold ==
    \A r \in RecSigs \ (Forged \cup Unsound) :
        r \in reconstructed ~> (r \in told \/ crashes > 0)

=============================================================================
