------------------------ MODULE SigningManagerProofs ------------------------
(***************************************************************************)
(* Proofs about SigningManager for any signatures, request ids, peers and  *)
(* number of calling threads.  The inductive invariant is in three parts:  *)
(* what a thread at a place in the code knows about its signature          *)
(* (Threads...), what the database keys say of each other together with    *)
(* the state of a running cleanup (Db...), and that whatever is called     *)
(* known has been told (Known...).  From all three: nothing that is on its *)
(* way to the listeners is dropped (Carried...).                           *)
(***************************************************************************)
EXTENDS SigningManager, TLAPS

Thread == [at : Stages, sig : SigOrNone, look : {"get", "exists", "yes", "no"}]

\* Places at which the signature at hand is known to be genuine.
GenuineStages == {"push_id", "push", "recover_id", "check"} \cup ProcessStages

GoodThread(t) ==
    /\ t \in Thread
    /\ t.at # "idle" => t.sig \in RecSigs
    /\ t.look # "get" => t.at \in LookupStages
    /\ t.at \in GenuineStages => t.sig \notin Forged
    /\ t.at \in ProcessStages => t.sig \notin Unsound

ThreadsInv ==
    /\ \A th \in Threads : GoodThread(thr[th])
    /\ reconstructed \cap Forged = {}
    /\ todo \cap Forged = {}
    /\ told \cap (Forged \cup Unsound) = {}

\* A cleanup between its cursor and its last batch: the record of an old key
\* is doomed, or has a newer key, or is still to be handled.
DbInv ==
    /\ \A i \in Ids : recs[i] # NoSig =>
          /\ recs[i] \in RecSigs \ (Forged \cup Unsound)
          /\ IdOf[recs[i]] = i
          /\ IndexKeys(recs[i]) \subseteq index
          /\ \/ \E k \in times \ del : k[2] = i
             \/ recs[i] \in doomed /\ \E k \in times : k[2] = i
             \/ \E k \in left \cap times : k[2] = i
    /\ \A k \in index : recs[IdOf[k[2]]] = k[2]
    /\ doomed \cap Forged = {}
    /\ \A k \in del : k[1] < now
    /\ wphase # "clean" => del = {} /\ doomed = {}

IInv == TypeOK /\ ThreadsInv /\ DbInv

-----------------------------------------------------------------------------
\* Answering a lookup keeps a thread good, whatever the answer.
LEMMA ResumeGood ==
    ASSUME NEW t, GoodThread(t), t.at \in LookupStages, NEW b \in BOOLEAN
    PROVE  /\ GoodThread(Resume(t, b))
           /\ Resume(t, b).look = "get"
           /\ Resume(t, b).at \notin {"write_cache", "unpend", "tell"}
  BY SigAssumption DEF GoodThread, Thread, Resume, PlaceIfFound, PlaceIfMissing, At, Idle, Stages, LookupStages,
     ProcessStages, StoreStages, GenuineStages, SigOrNone

\* The key of a lookup is a key of the caches.
LEMMA LookupKeyType ==
    ASSUME NEW t, GoodThread(t), t.at \in LookupStages
    PROVE  LookupKey(t) \in Keys
  BY SigAssumption DEF GoodThread, Thread, LookupKey, HashLookups, Keys, LookupStages, SigOrNone

LEMMA IdleGood == GoodThread(Idle)
  BY DEF GoodThread, Idle, At, Thread, Stages, LookupStages, ProcessStages,
     StoreStages, GenuineStages, SigOrNone

\* Moving one thread to a good place keeps all threads good and typed.
LEMMA GotoGood ==
    ASSUME TypeOK, ThreadsInv, NEW th \in Threads, NEW t, GoodThread(t), Goto(th, t)
    PROVE  /\ thr' \in [Threads -> Thread]
           /\ \A x \in Threads : GoodThread(thr'[x])
           /\ thr'[th] = t
           /\ \A x \in Threads \ {th} : thr'[x] = thr[x]
  BY SMT, Z3, SMTT(10), Z3T(10) DEF TypeOK, ThreadsInv, Goto, GoodThread, Thread

LEMMA WorkerIsThread == Worker \in Threads
  BY DEF Threads

LEMMA InitIInv == Init => IInv
<1> SUFFICES ASSUME Init PROVE IInv
  OBVIOUS
<1> USE SigAssumption, TimeAssumption
<1>1. \A th \in Threads : thr[th] = Idle
  BY DEF Init
<1>2. thr \in [Threads -> Thread]
  BY IdleGood DEF Init, GoodThread
<1>3. TypeOK
  BY SMT, Z3, SMTT(10), Z3T(10), <1>2 DEF Init, TypeOK, Thread, SigOrNone
<1>4. ThreadsInv
  BY <1>1, IdleGood DEF Init, ThreadsInv
<1>5. DbInv
  BY DEF Init, DbInv
<1> QED BY <1>3, <1>4, <1>5 DEF IInv

-----------------------------------------------------------------------------
\* A step that leaves the database, the cleanup and the clock alone.
LEMMA DbUnchanged ==
    ASSUME DbInv, UNCHANGED <<dbVars, wphase, cleanVars, now>>
    PROVE  DbInv'
  BY DEF DbInv, dbVars, cleanVars

LEMMA LookupCacheIInv ==
    ASSUME IInv, NEW th \in Threads, LookupCache(th)
    PROVE  IInv'
<1> DEFINE t == thr[th]
<1>1. GoodThread(t) /\ t.at \in LookupStages
  BY DEF IInv, ThreadsInv, LookupCache
<1>2. PICK u : GoodThread(u) /\ Goto(th, u)
  <2>1. CASE cache[LookupKey(t)] = "none"
    <3>1. GoodThread([t EXCEPT !.look = "exists"])
      BY <1>1 DEF GoodThread, Thread
    <3> QED BY <2>1, <3>1 DEF LookupCache
  <2>2. CASE cache[LookupKey(t)] # "none"
    BY Zenon, <2>2, <1>1, ResumeGood DEF LookupCache
  <2> QED BY <2>1, <2>2
<1>3. TypeOK' /\ ThreadsInv'
  BY <1>2, GotoGood DEF IInv, TypeOK, ThreadsInv, LookupCache, Thread, dbVars,
     pendVars, workVars, cleanVars, envVars
<1>4. DbInv'
  BY DbUnchanged DEF IInv, LookupCache, workVars, envVars
<1> QED BY <1>3, <1>4 DEF IInv

LEMMA LookupDbIInv ==
    ASSUME IInv, NEW th \in Threads, LookupDb(th)
    PROVE  IInv'
<1> DEFINE t == thr[th]
<1>1. GoodThread(t) /\ t.at \in LookupStages
  BY DEF IInv, ThreadsInv, LookupDb, GoodThread
<1>2. PICK u : GoodThread(u) /\ Goto(th, u)
  <2>1. \A x \in {"yes", "no"} : GoodThread([t EXCEPT !.look = x])
    BY <1>1 DEF GoodThread, Thread
  <2> QED BY <2>1 DEF LookupDb
<1>3. TypeOK' /\ ThreadsInv'
  BY <1>2, GotoGood DEF IInv, TypeOK, ThreadsInv, LookupDb, Thread, dbVars,
     pendVars, workVars, cleanVars, envVars
<1>4. DbInv'
  BY DbUnchanged DEF IInv, LookupDb, workVars, envVars
<1> QED BY <1>3, <1>4 DEF IInv

LEMMA LookupInsertIInv ==
    ASSUME IInv, NEW th \in Threads, LookupInsert(th)
    PROVE  IInv'
<1> DEFINE t == thr[th]
<1>1. GoodThread(t) /\ t.at \in LookupStages
  BY DEF IInv, ThreadsInv, LookupInsert, GoodThread
<1>2. PICK u : GoodThread(u) /\ Goto(th, u)
  BY Zenon, <1>1, ResumeGood DEF LookupInsert
<1>3. cache' \in [Keys -> {"none", "yes", "no"}]
  BY <1>1, LookupKeyType DEF IInv, TypeOK, LookupInsert
<1>4. TypeOK' /\ ThreadsInv'
  BY <1>2, <1>3, GotoGood DEF IInv, TypeOK, ThreadsInv, LookupInsert, Thread, dbVars,
     pendVars, workVars, cleanVars, envVars
<1>5. DbInv'
  BY DbUnchanged DEF IInv, LookupInsert, workVars, envVars
<1> QED BY <1>4, <1>5 DEF IInv

LEMMA CheckBlockIInv ==
    ASSUME IInv, NEW th \in Threads, CheckBlock(th)
    PROVE  IInv'
<1>1. GoodThread(thr[th]) /\ thr[th].at = "check"
  BY DEF IInv, ThreadsInv, CheckBlock
<1>2. PICK u : GoodThread(u) /\ Goto(th, u)
  <2>1. CASE thr[th].sig \in Unsound
    BY <2>1, IdleGood DEF CheckBlock, Return
  <2>2. CASE thr[th].sig \notin Unsound
    <3>1. GoodThread(At("proc_hash", thr[th].sig))
      BY <1>1, <2>2 DEF GoodThread, Thread, At, Stages, LookupStages, ProcessStages,
         StoreStages, GenuineStages, SigOrNone
    <3> QED BY <2>2, <3>1 DEF CheckBlock
  <2> QED BY <2>1, <2>2
<1>3. TypeOK' /\ ThreadsInv'
  BY <1>2, GotoGood DEF IInv, TypeOK, ThreadsInv, CheckBlock, Thread, dbVars,
     pendVars, workVars, cleanVars, envVars
<1>4. DbInv'
  BY DbUnchanged DEF IInv, CheckBlock, workVars, envVars
<1> QED BY <1>3, <1>4 DEF IInv

LEMMA GetRecoveredSigByIdIInv ==
    ASSUME IInv, NEW th \in Threads, GetRecoveredSigById(th)
    PROVE  IInv'
<1>1. GoodThread(thr[th]) /\ thr[th].at = "proc_get"
  BY DEF IInv, ThreadsInv, GetRecoveredSigById
<1>2. PICK u : GoodThread(u) /\ Goto(th, u)
  <2>1. GoodThread(At("write_db", thr[th].sig))
    BY <1>1 DEF GoodThread, Thread, At, Stages, LookupStages, ProcessStages,
       StoreStages, GenuineStages, SigOrNone
  <2> QED BY <2>1, IdleGood DEF GetRecoveredSigById, Return
<1>3. TypeOK' /\ ThreadsInv'
  BY <1>2, GotoGood DEF IInv, TypeOK, ThreadsInv, GetRecoveredSigById, Thread, dbVars,
     pendVars, workVars, cleanVars, envVars
<1>4. DbInv'
  BY DbUnchanged DEF IInv, GetRecoveredSigById, workVars, envVars
<1> QED BY <1>3, <1>4 DEF IInv

\* The new record gets all its keys, and a write time that no running cleanup
\* holds for old.
LEMMA WriteRecoveredSigIInv ==
    ASSUME IInv, NEW th \in Threads, WriteRecoveredSig(th)
    PROVE  IInv'
<1> DEFINE r == thr[th].sig
<1> USE SigAssumption, TimeAssumption
<1>1. GoodThread(thr[th]) /\ thr[th].at = "write_db"
  BY DEF IInv, ThreadsInv, WriteRecoveredSig
<1>2. r \in RecSigs \ (Forged \cup Unsound) /\ IdOf[r] \in Ids
  BY <1>1 DEF GoodThread, GenuineStages, ProcessStages, StoreStages
<1>3. GoodThread(At("write_cache", r)) /\ Goto(th, At("write_cache", r))
  BY <1>1 DEF WriteRecoveredSig, GoodThread, Thread, At, Stages, LookupStages,
     ProcessStages, StoreStages, GenuineStages, SigOrNone
<1>4. ThreadsInv'
  BY <1>3, GotoGood DEF IInv, ThreadsInv, WriteRecoveredSig, pendVars, workVars, envVars
<1>5. TypeOK'
  <2>1. recs' \in [Ids -> SigOrNone]
    BY <1>2 DEF IInv, TypeOK, WriteRecoveredSig, SigOrNone
  <2>2. index' \subseteq {"msg", "hash", "session"} \X RecSigs
    BY <1>2 DEF IInv, TypeOK, WriteRecoveredSig, IndexKeys
  <2>3. times' \subseteq (0..MaxTime) \X Ids
    BY SMT, Z3, SMTT(10), Z3T(10), <1>2 DEF IInv, TypeOK, WriteRecoveredSig
  <2> QED BY SMT, Z3, SMTT(10), Z3T(10), <1>3, <2>1, <2>2, <2>3, GotoGood DEF IInv, TypeOK, WriteRecoveredSig,
         Thread, pendVars, workVars, cleanVars, envVars
<1>6. DbInv'
  <2> DEFINE Cleanable(i) ==
          \/ \E k \in times \ del : k[2] = i
          \/ recs[i] \in doomed /\ \E k \in times : k[2] = i
          \/ \E k \in left \cap times : k[2] = i
  <2>1. recs' = [recs EXCEPT ![IdOf[r]] = r] /\ index' = index \cup IndexKeys(r)
        /\ times' = times \cup {<<now, IdOf[r]>>} /\ UNCHANGED <<del, left, doomed, now, wphase>>
    BY DEF WriteRecoveredSig, workVars, cleanVars, envVars
  <2>2. recs \in [Ids -> SigOrNone] /\ now \in Nat /\ del \subseteq (0..MaxTime) \X Ids
    BY SMT, Z3, SMTT(10), Z3T(10) DEF IInv, TypeOK
  <2>3. <<now, IdOf[r]>> \notin del
    BY SMT, Z3, SMTT(10), Z3T(10), <2>2 DEF IInv, DbInv
  <2>4. ASSUME NEW i \in Ids, recs'[i] # NoSig
        PROVE  /\ recs'[i] \in RecSigs \ (Forged \cup Unsound)
               /\ IdOf[recs'[i]] = i
               /\ IndexKeys(recs'[i]) \subseteq index'
               /\ Cleanable(i)'
    <3>1. CASE i = IdOf[r]
      <4>1. recs'[i] = r
        BY <2>1, <2>2, <3>1
      <4>2. <<now, IdOf[r]>> \in times' \ del' /\ <<now, IdOf[r]>>[2] = i
        BY <2>1, <2>3, <3>1
      <4>3. Cleanable(i)'
        BY <4>2
      <4> QED BY <1>2, <2>1, <3>1, <4>1, <4>3
    <3>2. CASE i # IdOf[r]
      <4>1. recs'[i] = recs[i]
        BY <2>1, <2>2, <3>2
      <4>2. Cleanable(i)
        BY <2>4, <4>1 DEF IInv, DbInv
      <4>3. Cleanable(i)'
        BY SMT, Z3, SMTT(10), Z3T(10), <4>1, <4>2, <2>1
      <4> QED BY <2>1, <2>4, <4>1, <4>3 DEF IInv, DbInv
    <3> QED BY <3>1, <3>2
  <2>5. ASSUME NEW k \in index' PROVE recs'[IdOf[k[2]]] = k[2]
    <3>1. CASE k \in IndexKeys(r)
      BY <3>1, <1>2, <2>1, <2>2 DEF IndexKeys
    <3>2. CASE k \in index
      <4>1. recs[IdOf[k[2]]] = k[2] /\ k[2] \in RecSigs
        BY <3>2 DEF IInv, TypeOK, DbInv
      <4>2. k[2] \notin Forged
        BY SMT, Z3, SMTT(10), Z3T(10), <4>1 DEF IInv, DbInv
      <4>3. IdOf[k[2]] = IdOf[r] => k[2] = r
        BY <1>2, <4>1, <4>2
      <4> QED BY <1>2, <2>1, <2>2, <4>1, <4>3
    <3> QED BY <2>1, <3>1, <3>2
  <2> QED BY <2>1, <2>4, <2>5 DEF IInv, DbInv
<1> QED BY <1>4, <1>5, <1>6 DEF IInv

LEMMA CacheRecoveredSigIInv ==
    ASSUME IInv, NEW th \in Threads, CacheRecoveredSig(th)
    PROVE  IInv'
<1>1. GoodThread(thr[th]) /\ thr[th].at = "write_cache"
  BY DEF IInv, ThreadsInv, CacheRecoveredSig
<1>2. PICK u : GoodThread(u) /\ Goto(th, u)
  <2>1. GoodThread(At("unpend", thr[th].sig))
    BY <1>1 DEF GoodThread, Thread, At, Stages, LookupStages, ProcessStages,
       StoreStages, GenuineStages, SigOrNone
  <2> QED BY <2>1 DEF CacheRecoveredSig
<1>3. cache' \in [Keys -> {"none", "yes", "no"}]
  BY DEF IInv, TypeOK, CacheRecoveredSig
<1>4. TypeOK' /\ ThreadsInv'
  BY <1>2, <1>3, GotoGood DEF IInv, TypeOK, ThreadsInv, CacheRecoveredSig, Thread,
     dbVars, pendVars, workVars, cleanVars, envVars
<1>5. DbInv'
  BY DbUnchanged DEF IInv, CacheRecoveredSig, workVars, envVars
<1> QED BY <1>4, <1>5 DEF IInv

LEMMA ErasePendingIInv ==
    ASSUME IInv, NEW th \in Threads, ErasePending(th)
    PROVE  IInv'
<1>1. GoodThread(thr[th]) /\ thr[th].at = "unpend"
  BY DEF IInv, ThreadsInv, ErasePending
<1>2. PICK u : GoodThread(u) /\ Goto(th, u)
  <2>1. GoodThread(At("tell", thr[th].sig))
    BY <1>1 DEF GoodThread, Thread, At, Stages, LookupStages, ProcessStages,
       StoreStages, GenuineStages, SigOrNone
  <2> QED BY <2>1 DEF ErasePending
<1>3. TypeOK' /\ ThreadsInv'
  BY <1>2, GotoGood DEF IInv, TypeOK, ThreadsInv, ErasePending, Thread,
     dbVars, workVars, cleanVars, envVars
<1>4. DbInv'
  BY DbUnchanged DEF IInv, ErasePending, workVars, envVars
<1> QED BY <1>3, <1>4 DEF IInv

LEMMA TellListenersIInv ==
    ASSUME IInv, NEW th \in Threads, TellListeners(th)
    PROVE  IInv'
<1>1. GoodThread(thr[th]) /\ thr[th].at = "tell" /\ Goto(th, Idle)
  BY DEF IInv, ThreadsInv, TellListeners, Return
<1>2. thr[th].sig \in RecSigs \ (Forged \cup Unsound)
  BY <1>1 DEF GoodThread, GenuineStages, ProcessStages, StoreStages
<1>3. TypeOK' /\ ThreadsInv'
  BY SMT, Z3, SMTT(10), Z3T(10), <1>1, <1>2, IdleGood, GotoGood DEF IInv, TypeOK, ThreadsInv, TellListeners, Thread,
     dbVars, pendVars, workVars, cleanVars
<1>4. DbInv'
  BY DbUnchanged DEF IInv, TellListeners, workVars
<1> QED BY <1>3, <1>4 DEF IInv

LEMMA CallIInv ==
    ASSUME IInv, NEW c \in Callers, Call(c)
    PROVE  IInv'
<1>1. c \in Threads
  BY DEF Threads
<1>2. PICK u : GoodThread(u) /\ Goto(c, u)
  <2>1. \A r \in RecSigs : GoodThread(At("msg_hash", r)) /\ GoodThread(At("have_hash", r))
    BY DEF GoodThread, Thread, At, Stages, LookupStages, ProcessStages,
       StoreStages, GenuineStages, SigOrNone
  <2>2. \A r \in RecSigs \ Forged :
           \A place \in {"session", "push_id", "recover_id", "sign_id"} :
              GoodThread(At(place, r))
    BY DEF GoodThread, Thread, At, Stages, LookupStages, ProcessStages,
       StoreStages, GenuineStages, SigOrNone
  <2> QED BY <2>1, <2>2 DEF Call
<1>3. TypeOK' /\ ThreadsInv'
  BY <1>1, <1>2, GotoGood DEF IInv, TypeOK, ThreadsInv, Call, Thread,
     dbVars, pendVars, workVars, cleanVars, envVars
<1>4. DbInv'
  BY DbUnchanged DEF IInv, Call, workVars, envVars
<1> QED BY <1>3, <1>4 DEF IInv

LEMMA PushPendingIInv ==
    ASSUME IInv, NEW c \in Callers, PushPending(c)
    PROVE  IInv'
<1>1. c \in Threads /\ Goto(c, Idle)
  BY DEF Threads, PushPending, Return
<1>2. thr[c].sig \in RecSigs
  BY <1>1 DEF IInv, ThreadsInv, GoodThread, PushPending
<1>3. pending' \subseteq Nodes \X RecSigs
  BY SMT, Z3, SMTT(10), Z3T(10), <1>2 DEF IInv, TypeOK, PushPending
<1>4. TypeOK' /\ ThreadsInv'
  BY <1>1, <1>3, IdleGood, GotoGood DEF IInv, TypeOK, ThreadsInv, PushPending, Thread,
     dbVars, workVars, cleanVars, envVars
<1>5. DbInv'
  BY DbUnchanged DEF IInv, PushPending, workVars, envVars
<1> QED BY <1>4, <1>5 DEF IInv

LEMMA PushReconstructedIInv ==
    ASSUME IInv, NEW c \in Callers, PushReconstructedRecoveredSig(c)
    PROVE  IInv'
<1>1. c \in Threads /\ Goto(c, Idle)
  BY DEF Threads, PushReconstructedRecoveredSig, Return
<1>2. thr[c].sig \in RecSigs \ Forged
  BY <1>1 DEF IInv, ThreadsInv, GoodThread, GenuineStages, PushReconstructedRecoveredSig
<1>3. TypeOK' /\ ThreadsInv'
  <2>1. thr' \in [Threads -> Thread] /\ \A x \in Threads : GoodThread(thr'[x])
    BY <1>1, IdleGood, GotoGood DEF IInv
  <2>2. TypeOK'
    BY <1>2, <2>1 DEF IInv, TypeOK, PushReconstructedRecoveredSig, Thread, dbVars,
       workVars, cleanVars, envVars
  <2>3. ThreadsInv'
    BY <1>2, <2>1 DEF IInv, ThreadsInv, PushReconstructedRecoveredSig, workVars, envVars
  <2> QED BY <2>2, <2>3
<1>4. DbInv'
  BY DbUnchanged DEF IInv, PushReconstructedRecoveredSig, workVars, envVars
<1> QED BY <1>3, <1>4 DEF IInv

-----------------------------------------------------------------------------
LEMMA SwapReconstructedIInv == IInv /\ SwapReconstructed => IInv'
<1> SUFFICES ASSUME IInv, SwapReconstructed PROVE IInv'
  OBVIOUS
<1>1. TypeOK'
  BY DEF IInv, TypeOK, SwapReconstructed, dbVars, cleanVars, envVars
<1>2. ThreadsInv'
  BY DEF IInv, ThreadsInv, SwapReconstructed, envVars
<1>3. DbInv'
  BY DEF IInv, DbInv, SwapReconstructed, WorkerAt, dbVars, cleanVars, envVars
<1> QED BY <1>1, <1>2, <1>3 DEF IInv

LEMMA ProcessNextIInv == IInv /\ ProcessNext => IInv'
<1> SUFFICES ASSUME IInv, ProcessNext PROVE IInv'
  OBVIOUS
<1>1. PICK r \in todo : todo' = todo \ {r} /\ Goto(Worker, At("check", r))
  BY DEF ProcessNext
<1>2. GoodThread(At("check", r))
  BY <1>1 DEF IInv, TypeOK, ThreadsInv, GoodThread, Thread, At, Stages, LookupStages,
     ProcessStages, StoreStages, GenuineStages, SigOrNone
<1>3. TypeOK' /\ ThreadsInv'
  BY <1>1, <1>2, WorkerIsThread, GotoGood DEF IInv, TypeOK, ThreadsInv, ProcessNext,
     Thread, dbVars, pendVars, cleanVars, envVars
<1>4. DbInv'
  BY DbUnchanged DEF IInv, ProcessNext, envVars
<1> QED BY <1>3, <1>4 DEF IInv

LEMMA StartCollectIInv == IInv /\ StartCollect => IInv'
<1> SUFFICES ASSUME IInv, StartCollect PROVE IInv'
  OBVIOUS
<1>1. TypeOK'
  BY DEF IInv, TypeOK, StartCollect, dbVars, pendVars, cleanVars, envVars
<1>2. ThreadsInv'
  BY DEF IInv, ThreadsInv, StartCollect, pendVars, envVars
<1>3. DbInv'
  BY DEF IInv, DbInv, StartCollect, WorkerAt, dbVars, cleanVars, envVars
<1> QED BY <1>1, <1>2, <1>3 DEF IInv

LEMMA CollectNextIInv == IInv /\ CollectNext => IInv'
<1> SUFFICES ASSUME IInv, CollectNext PROVE IInv'
  OBVIOUS
<1>1. PICK p \in pending : Goto(Worker, At("collect_hash", p[2]))
  BY DEF CollectNext
<1>2. p[2] \in RecSigs
  BY <1>1 DEF IInv, TypeOK
<1>3. GoodThread(At("collect_hash", p[2]))
  BY <1>2 DEF GoodThread, Thread, At, Stages, LookupStages,
     ProcessStages, StoreStages, GenuineStages, SigOrNone
<1>4. TypeOK' /\ ThreadsInv'
  BY <1>1, <1>3, WorkerIsThread, GotoGood DEF IInv, TypeOK, ThreadsInv, CollectNext,
     Thread, dbVars, pendVars, workVars, cleanVars, envVars
<1>5. DbInv'
  BY DbUnchanged DEF IInv, CollectNext, workVars, envVars
<1> QED BY <1>4, <1>5 DEF IInv

LEMMA CollectHeadIInv == IInv /\ CollectHead => IInv'
<1> SUFFICES ASSUME IInv, CollectHead PROVE IInv'
  OBVIOUS
<1>1. PICK p \in pending :
         /\ pending' = pending \ {p}
         /\ batch' = IF thr[Worker].at = "collect_add" THEN batch \cup {p} ELSE batch
  BY Zenon DEF CollectHead
<1>2. TypeOK' /\ ThreadsInv'
  <2>1. thr' \in [Threads -> Thread] /\ \A x \in Threads : GoodThread(thr'[x])
    BY WorkerIsThread, IdleGood, GotoGood DEF IInv, CollectHead, Return
  <2>2. pending' \subseteq Nodes \X RecSigs /\ batch' \subseteq Nodes \X RecSigs
    BY <1>1 DEF IInv, TypeOK
  <2>3. TypeOK'
    BY <2>1, <2>2 DEF IInv, TypeOK, CollectHead, Thread, dbVars, cleanVars, envVars
  <2>4. ThreadsInv'
    BY <2>1 DEF IInv, ThreadsInv, CollectHead, envVars
  <2> QED BY <2>3, <2>4
<1>3. DbInv'
  BY DbUnchanged DEF IInv, CollectHead, envVars
<1> QED BY <1>2, <1>3 DEF IInv

LEMMA VerifyBatchIInv == IInv /\ VerifyBatch => IInv'
<1> SUFFICES ASSUME IInv, VerifyBatch PROVE IInv'
  OBVIOUS
<1>1. todo' \subseteq RecSigs /\ todo' \cap Forged = {}
  BY Zenon DEF VerifyBatch
<1>2. TypeOK'
  BY <1>1 DEF IInv, TypeOK, VerifyBatch, dbVars, pendVars, cleanVars, envVars
<1>3. ThreadsInv'
  BY Zenon, <1>1 DEF IInv, ThreadsInv, VerifyBatch, pendVars, envVars
<1>4. DbInv'
  BY DEF IInv, DbInv, VerifyBatch, WorkerAt, dbVars, cleanVars, envVars
<1> QED BY <1>2, <1>3, <1>4 DEF IInv

LEMMA StartCleanupIInv == IInv /\ StartCleanup => IInv'
<1> SUFFICES ASSUME IInv, StartCleanup PROVE IInv'
  OBVIOUS
<1> USE TimeAssumption
<1>1. del = {} /\ doomed = {} /\ left = {}
  BY DEF IInv, TypeOK, DbInv, StartCleanup, WorkerAt
<1>2. TypeOK'
  BY <1>1 DEF IInv, TypeOK, StartCleanup, Old, dbVars, pendVars, envVars
<1>3. ThreadsInv'
  BY DEF IInv, ThreadsInv, StartCleanup, pendVars, envVars
<1>4. DbInv'
  <2>1. CASE now - lastCleanup < CleanupGap
    BY <1>1, <2>1 DEF IInv, DbInv, StartCleanup, dbVars, envVars
  <2>2. CASE ~(now - lastCleanup < CleanupGap)
    <3>1. del' = Old(times) /\ left' = Old(times) /\ doomed' = {} /\ wphase' = "clean"
          /\ UNCHANGED <<recs, index, times, now>>
      BY <1>1, <2>2 DEF StartCleanup, dbVars, envVars
    <3>2. \A k \in Old(times) : k[1] < now
      BY SMT, Z3, SMTT(10), Z3T(10) DEF IInv, TypeOK, Old
    <3>3. ASSUME NEW i \in Ids, recs[i] # NoSig
          PROVE  \/ \E k \in times \ Old(times) : k[2] = i
                 \/ \E k \in Old(times) \cap times : k[2] = i
      BY <1>1, <3>3 DEF IInv, DbInv
    <3> QED BY <3>1, <3>2, <3>3 DEF IInv, DbInv
  <2> QED BY <2>1, <2>2
<1> QED BY <1>2, <1>3, <1>4 DEF IInv

LEMMA RemoveRecoveredSigIInv == IInv /\ RemoveRecoveredSig => IInv'
<1> SUFFICES ASSUME IInv, RemoveRecoveredSig PROVE IInv'
  OBVIOUS
<1>1. PICK k \in left :
         /\ left' = left \ {k}
         /\ IF recs[k[2]] = NoSig
            THEN UNCHANGED <<doomed, thr>>
            ELSE /\ doomed' = doomed \cup {recs[k[2]]}
                 /\ Goto(Worker, At("uncache", recs[k[2]]))
  BY DEF RemoveRecoveredSig
<1>2. k[2] \in Ids
  BY <1>1 DEF IInv, TypeOK
<1>3. UNCHANGED <<recs, index, times, cache, pending, reconstructed, wphase, todo, batch,
                  del, lastCleanup, now, told, crashes>> /\ wphase = "clean"
  BY DEF RemoveRecoveredSig, WorkerAt, dbVars, pendVars, envVars
<1>4. CASE recs[k[2]] = NoSig
  <2>1. UNCHANGED <<doomed, thr>>
    BY <1>1, <1>4
  <2>2. TypeOK' /\ ThreadsInv'
    BY Zenon, <1>1, <1>3, <2>1 DEF IInv, TypeOK, ThreadsInv
  <2>3. DbInv'
    BY Zenon, <1>1, <1>3, <1>4, <2>1 DEF IInv, DbInv
  <2> QED BY <2>2, <2>3 DEF IInv
<1>5. CASE recs[k[2]] # NoSig
  <2>1. doomed' = doomed \cup {recs[k[2]]} /\ Goto(Worker, At("uncache", recs[k[2]]))
    BY <1>1, <1>5
  <2>2. recs[k[2]] \in RecSigs \ (Forged \cup Unsound)
    BY <1>2, <1>5 DEF IInv, DbInv
  <2>3. GoodThread(At("uncache", recs[k[2]]))
    BY <2>2 DEF GoodThread, Thread, At, Stages, LookupStages, ProcessStages,
       StoreStages, GenuineStages, SigOrNone
  <2>4. TypeOK' /\ ThreadsInv'
    BY Zenon, <1>1, <1>3, <2>1, <2>2, <2>3, WorkerIsThread, GotoGood
       DEF IInv, TypeOK, ThreadsInv, Thread
  <2>5. ASSUME NEW i \in Ids, recs[i] # NoSig
        PROVE  \/ \E j \in times \ del : j[2] = i
               \/ recs[i] \in doomed' /\ \E j \in times : j[2] = i
               \/ \E j \in left' \cap times : j[2] = i
    BY Zenon, <1>1, <2>1, <2>5 DEF IInv, DbInv
  <2>6. DbInv'
    BY <1>3, <2>1, <2>2, <2>5 DEF IInv, DbInv
  <2> QED BY <2>4, <2>6 DEF IInv
<1> QED BY <1>4, <1>5

LEMMA UncacheRecoveredSigIInv == IInv /\ UncacheRecoveredSig => IInv'
<1> SUFFICES ASSUME IInv, UncacheRecoveredSig PROVE IInv'
  OBVIOUS
<1>1. Goto(Worker, Idle) /\ cache' \in [Keys -> {"none", "yes", "no"}]
  BY DEF IInv, TypeOK, UncacheRecoveredSig, Return
<1>2. TypeOK' /\ ThreadsInv'
  BY <1>1, WorkerIsThread, IdleGood, GotoGood DEF IInv, TypeOK, ThreadsInv,
     UncacheRecoveredSig, Thread, dbVars, pendVars, workVars, cleanVars, envVars
<1>3. DbInv'
  BY DbUnchanged DEF IInv, UncacheRecoveredSig, workVars, envVars
<1> QED BY <1>2, <1>3 DEF IInv

\* What a batch of removals leaves: the records that are not doomed, with
\* their keys, and no key of a doomed one.
LEMMA EraseDoomedSound ==
    ASSUME IInv, EraseDoomed
    PROVE  /\ recs' \in [Ids -> SigOrNone]
           /\ \A i \in Ids : recs'[i] # NoSig => recs'[i] = recs[i] /\ recs[i] \notin doomed
           /\ \A i \in Ids : recs'[i] # NoSig => IndexKeys(recs'[i]) \subseteq index'
           /\ \A k \in index' : recs'[IdOf[k[2]]] = k[2]
           /\ index' \subseteq index
<1> USE SigAssumption
<1>1. recs \in [Ids -> SigOrNone] /\ doomed \subseteq RecSigs \ Forged
      /\ index \subseteq {"msg", "hash", "session"} \X RecSigs
  BY DEF IInv, TypeOK, DbInv
<1>2. \A i \in Ids : recs'[i] = IF \E r \in doomed : IdOf[r] = i THEN NoSig ELSE recs[i]
  BY DEF EraseDoomed
<1>3. recs' \in [Ids -> SigOrNone]
  BY <1>1 DEF EraseDoomed, SigOrNone
<1>4. ASSUME NEW i \in Ids, recs'[i] # NoSig
      PROVE  recs'[i] = recs[i] /\ recs[i] \notin doomed /\ IndexKeys(recs[i]) \subseteq index'
  <2>1. recs'[i] = recs[i] /\ ~ \E r \in doomed : IdOf[r] = i
    BY <1>2, <1>4
  <2>2. IdOf[recs[i]] = i /\ IndexKeys(recs[i]) \subseteq index
    BY <1>4, <2>1 DEF IInv, DbInv
  <2>3. recs[i] \notin doomed
    BY <2>1, <2>2
  <2>4. \A k \in IndexKeys(recs[i]) : k[2] = recs[i]
    BY DEF IndexKeys
  <2> QED BY <2>1, <2>2, <2>3, <2>4 DEF EraseDoomed
<1>5. ASSUME NEW k \in index' PROVE recs'[IdOf[k[2]]] = k[2]
  <2>1. k \in index /\ k[2] \notin doomed
    BY DEF EraseDoomed
  <2>2. k[2] \in RecSigs /\ recs[IdOf[k[2]]] = k[2] /\ IdOf[k[2]] \in Ids
    BY <1>1, <2>1 DEF IInv, DbInv
  <2>3. k[2] \notin Forged
    BY SMT, Z3, SMTT(10), Z3T(10), <2>2 DEF IInv, DbInv
  <2>4. ~ \E r \in doomed : IdOf[r] = IdOf[k[2]]
    BY Zenon, <1>1, <2>1, <2>2, <2>3
  <2> QED BY <1>2, <2>2, <2>4
<1> QED BY <1>3, <1>4, <1>5 DEF EraseDoomed

LEMMA WriteEarlyIInv == IInv /\ WriteEarly => IInv'
<1> SUFFICES ASSUME IInv, WriteEarly PROVE IInv'
  OBVIOUS
<1>1. EraseDoomed /\ doomed' = {} /\ UNCHANGED <<times, del, left, now, wphase>>
      /\ wphase = "clean"
  BY DEF WriteEarly, EraseDoomed, WorkerAt, envVars
<1>2. TypeOK'
  BY <1>1, EraseDoomedSound DEF IInv, TypeOK, WriteEarly, pendVars, envVars
<1>3. ThreadsInv'
  BY Zenon DEF IInv, ThreadsInv, WriteEarly, pendVars, envVars
<1>4. ASSUME NEW i \in Ids, recs'[i] # NoSig
      PROVE  \/ \E k \in times \ del : k[2] = i
             \/ \E k \in left \cap times : k[2] = i
  BY <1>1, <1>4, EraseDoomedSound DEF IInv, DbInv
<1>5. DbInv'
  BY Zenon, <1>1, <1>4, EraseDoomedSound DEF IInv, DbInv
<1> QED BY <1>2, <1>3, <1>5 DEF IInv

LEMMA WriteRemovalsIInv == IInv /\ WriteRemovals => IInv'
<1> SUFFICES ASSUME IInv, WriteRemovals PROVE IInv'
  OBVIOUS
<1>1. EraseDoomed /\ doomed' = {} /\ del' = {} /\ left = {} /\ left' = {}
      /\ times' = times \ del /\ now' = now /\ wphase' = "start"
  BY Zenon DEF WriteRemovals, EraseDoomed, envVars
<1>2. TypeOK'
  BY SMT, Z3, SMTT(10), Z3T(10), <1>1, EraseDoomedSound DEF IInv, TypeOK, WriteRemovals, pendVars, envVars
<1>3. ThreadsInv'
  BY Zenon DEF IInv, ThreadsInv, WriteRemovals, pendVars, envVars
<1>4. ASSUME NEW i \in Ids, recs'[i] # NoSig
      PROVE  \E k \in times' \ del' : k[2] = i
  BY Zenon, <1>1, <1>4, EraseDoomedSound DEF IInv, DbInv
<1>5. DbInv'
  BY <1>1, <1>4, EraseDoomedSound DEF IInv, DbInv
<1> QED BY <1>2, <1>3, <1>5 DEF IInv

LEMMA TickIInv == IInv /\ Tick => IInv'
<1> SUFFICES ASSUME IInv, Tick PROVE IInv'
  OBVIOUS
<1> USE TimeAssumption
<1>1. TypeOK'
  BY SMT, Z3, SMTT(10), Z3T(10) DEF IInv, TypeOK, Tick, dbVars, pendVars, workVars, cleanVars
<1>2. ThreadsInv'
  BY DEF IInv, ThreadsInv, Tick, pendVars, workVars
<1>3. \A k \in del : k[1] < now + 1
  BY SMT, Z3, SMTT(10), Z3T(10) DEF IInv, TypeOK, DbInv
<1>4. DbInv'
  BY <1>3 DEF IInv, DbInv, Tick, dbVars, workVars, cleanVars
<1> QED BY <1>1, <1>2, <1>4 DEF IInv

\* A crash keeps the database: each record still has a write time, which the
\* next cleanup after the restart can find.
LEMMA CrashIInv == IInv /\ Crash => IInv'
<1> SUFFICES ASSUME IInv, Crash PROVE IInv'
  OBVIOUS
<1> USE TimeAssumption
<1>1. \A th \in Threads : thr'[th] = Idle
  BY DEF Crash
<1>2. thr' \in [Threads -> Thread]
  BY IdleGood DEF Crash, GoodThread
<1>3. TypeOK'
  <2>1. crashes' \in 0..MaxCrashes /\ lastCleanup' \in 0..MaxTime
    BY SMT, Z3, SMTT(10), Z3T(10) DEF IInv, TypeOK, Crash
  <2>2. cache' \in [Keys -> {"none", "yes", "no"}]
    BY DEF Crash
  <2> QED BY SMT, Z3, SMTT(10), Z3T(10), <1>2, <2>1, <2>2 DEF IInv, TypeOK, Crash, Thread, dbVars
<1>4. ThreadsInv'
  BY Zenon, <1>1, IdleGood DEF ThreadsInv, Crash
<1>5. DbInv'
  BY DEF IInv, DbInv, Crash, dbVars
<1> QED BY <1>3, <1>4, <1>5 DEF IInv

LEMMA NextIInv == IInv /\ [Next]_vars => IInv'
<1> SUFFICES ASSUME IInv, [Next]_vars PROVE IInv'
  OBVIOUS
<1>1. ASSUME NEW th \in Threads, Common(th) PROVE IInv'
  BY <1>1, LookupCacheIInv, LookupDbIInv, LookupInsertIInv, CheckBlockIInv,
     GetRecoveredSigByIdIInv, WriteRecoveredSigIInv, CacheRecoveredSigIInv,
     ErasePendingIInv, TellListenersIInv DEF Common
<1>2. ASSUME NEW c \in Callers, Call(c) \/ CallerStep(c) PROVE IInv'
  BY <1>1, <1>2, CallIInv, PushPendingIInv, PushReconstructedIInv DEF CallerStep, Threads
<1>3. CASE WorkThreadMain
  BY Zenon, <1>1, <1>3, WorkerIsThread, SwapReconstructedIInv, ProcessNextIInv, StartCollectIInv,
     CollectNextIInv, CollectHeadIInv, VerifyBatchIInv, StartCleanupIInv,
     RemoveRecoveredSigIInv, UncacheRecoveredSigIInv, WriteEarlyIInv, WriteRemovalsIInv
     DEF WorkThreadMain
<1>4. CASE UNCHANGED vars
  BY <1>4 DEF IInv, TypeOK, ThreadsInv, DbInv, vars, dbVars, pendVars, workVars,
     cleanVars, envVars
<1> QED BY <1>2, <1>3, <1>4, TickIInv, CrashIInv DEF Next

\* The invariant, in every behaviour.
LEMMA SigningInvariant == Spec => []IInv
  BY InitIInv, NextIInv, PTL DEF Spec

\* Every variable keeps its type, nothing in the database is dated in the
\* future, and a thread between two locks of the signing manager has the
\* signature it works on in hand, whatever threads, cleanups and crashes do.
THEOREM SigningTyped ==
  Spec => [](TypeOK /\ \A th \in Threads : thr[th].at # "idle" => thr[th].sig \in RecSigs)
<1>1. IInv => TypeOK /\ \A th \in Threads : thr[th].at # "idle" => thr[th].sig \in RecSigs
  BY Zenon DEF IInv, ThreadsInv, GoodThread
<1> QED BY <1>1, SigningInvariant, PTL

\* The records of CRecoveredSigsDb and their keys belong together at every
\* moment: a write that overtakes a cleanup leaves neither a record without its
\* keys nor a key that leads to another record.
THEOREM RecoveredSigsSafe == Spec => []KeysMatchRecords
<1>1. IInv => KeysMatchRecords
  BY DEF IInv, DbInv, KeysMatchRecords
<1> QED BY <1>1, SigningInvariant, PTL

\* Only signatures that verified and whose block passed the checks of
\* ProcessRecoveredSig are stored or told to the listeners.
THEOREM OnlyVerifiedStored == Spec => []VerifiedOnly
<1>1. NoSig \notin Forged \cup Unsound
  BY SigAssumption
<1>2. IInv => VerifiedOnly
  BY <1>1 DEF IInv, DbInv, ThreadsInv, VerifiedOnly
<1> QED BY <1>2, SigningInvariant, PTL

-----------------------------------------------------------------------------
(***************************************************************************)
(* What is called known has been told.  A verdict "yes", cached or about   *)
(* to be, goes back to a write; the writer stays in Telling until it has   *)
(* told the listeners; and no other step takes a signature out of told.    *)
(***************************************************************************)
TellStages == {"write_cache", "unpend", "tell"}

\* A thread that is not telling moves and leaves the verdicts alone.
LEMMA KnownGoto ==
    ASSUME IInv, KnownIsTold, NEW th \in Threads, NEW u, Goto(th, u), u.look # "yes",
           thr[th].at \notin TellStages,
           UNCHANGED <<recs, index, cache, told, crashes>>
    PROVE  KnownIsTold'
<1> SUFFICES ASSUME crashes = 0, NEW r \in RecSigs \ Forged, Known(r)'
             PROVE  r \in told' \/ Telling(r)'
  BY DEF KnownIsTold
<1>1. thr \in [Threads -> Thread] /\ thr' = [thr EXCEPT ![th] = u]
  BY Zenon DEF IInv, TypeOK, Thread, Goto
<1>2. Known(r)
  BY <1>1 DEF Known, Exists
<1>3. r \in told \/ Telling(r)
  BY <1>2 DEF KnownIsTold
<1>4. Telling(r) => Telling(r)'
  BY <1>1 DEF Telling, StoreStages, TellStages
<1> QED BY <1>3, <1>4

\* A thread that was idle is such a thread.
LEMMA KnownFromIdle ==
    ASSUME IInv, KnownIsTold, NEW th \in Threads, thr[th] = Idle, NEW place, NEW r,
           Goto(th, At(place, r)), UNCHANGED <<recs, index, cache, told, crashes>>
    PROVE  KnownIsTold'
<1>1. At(place, r).look # "yes"
  BY DEF At
<1>2. thr[th].at \notin TellStages
  BY SMT, Z3, SMTT(10), Z3T(10) DEF Idle, At, TellStages
<1> QED BY <1>1, <1>2, KnownGoto

\* Nothing that Known, Telling and told depend on changes.
LEMMA KnownSame ==
    ASSUME KnownIsTold, UNCHANGED <<recs, index, cache, thr, told, crashes>>
    PROVE  KnownIsTold'
  BY SMT, Z3, SMTT(10), Z3T(10) DEF KnownIsTold, Known, Telling, Exists

LEMMA LookupCacheKnown ==
    ASSUME IInv, KnownIsTold, NEW th \in Threads, LookupCache(th)
    PROVE  KnownIsTold'
<1>1. GoodThread(thr[th]) /\ thr[th].at \in LookupStages /\ thr[th].look = "get"
  BY DEF IInv, ThreadsInv, LookupCache
<1>2. thr[th].at \notin TellStages
  BY <1>1 DEF LookupStages, TellStages
<1>3. PICK u : Goto(th, u) /\ u.look # "yes"
  <2>1. [thr[th] EXCEPT !.look = "exists"].look # "yes"
    BY <1>1 DEF GoodThread, Thread
  <2> QED BY Zenon, <1>1, <2>1, ResumeGood DEF LookupCache
<1> QED BY <1>2, <1>3, KnownGoto DEF LookupCache, dbVars, envVars

LEMMA LookupDbKnown ==
    ASSUME IInv, KnownIsTold, NEW th \in Threads, LookupDb(th)
    PROVE  KnownIsTold'
<1> DEFINE t == thr[th]
<1> SUFFICES ASSUME crashes = 0, NEW r \in RecSigs \ Forged, Known(r)'
             PROVE  r \in told \/ Telling(r)'
  BY DEF KnownIsTold, LookupDb, envVars
<1>1. GoodThread(t) /\ t.at \in LookupStages /\ thr \in [Threads -> Thread]
  BY DEF IInv, TypeOK, ThreadsInv, LookupDb, GoodThread, Thread
<1>2. PICK u : /\ thr' = [thr EXCEPT ![th] = u]
               /\ u.at = t.at /\ u.sig = t.sig
               /\ u.look = "yes" => Exists(LookupKey(t))
  <2>1. ASSUME NEW x \in {"yes", "no"}
        PROVE  [t EXCEPT !.look = x].look = x /\ [t EXCEPT !.look = x].at = t.at
               /\ [t EXCEPT !.look = x].sig = t.sig
    BY <1>1 DEF GoodThread, Thread
  <2> QED BY Zenon, <2>1 DEF LookupDb, Goto
<1>3. UNCHANGED <<recs, index, cache, told>>
  BY DEF LookupDb, dbVars, envVars
<1>4. Known(r)
  <2>1. PICK k \in VerdictKeys(r) :
           \/ Exists(k)'
           \/ cache'[k] = "yes"
           \/ \E x \in Threads : thr'[x].look = "yes" /\ LookupKey(thr'[x]) = k
    BY DEF Known, VerdictKeys
  <2>2. Exists(k)' <=> Exists(k)
    BY Zenon, <1>3 DEF Exists
  <2>3. ASSUME NEW x \in Threads, thr'[x].look = "yes", LookupKey(thr'[x]) = k
        PROVE  \/ Exists(k)
               \/ thr[x].look = "yes" /\ LookupKey(thr[x]) = k
    <3>1. CASE x = th
      <4>1. thr'[x] = u
        BY <1>1, <1>2, <3>1
      <4>2. LookupKey(u) = LookupKey(t)
        BY <1>2 DEF LookupKey
      <4> QED BY <1>2, <2>3, <4>1, <4>2
    <3>2. CASE x # th
      BY <1>1, <1>2, <2>3, <3>2
    <3> QED BY <3>1, <3>2
  <2> QED BY <1>3, <2>1, <2>2, <2>3 DEF Known
<1>5. Telling(r) => Telling(r)'
  BY Zenon, <1>1, <1>2 DEF Telling, StoreStages, LookupStages
<1> QED BY <1>4, <1>5 DEF KnownIsTold

LEMMA LookupInsertKnown ==
    ASSUME IInv, KnownIsTold, NEW th \in Threads, LookupInsert(th)
    PROVE  KnownIsTold'
<1> DEFINE t == thr[th]
<1> SUFFICES ASSUME crashes = 0, NEW r \in RecSigs \ Forged, Known(r)'
             PROVE  r \in told \/ Telling(r)'
  BY Zenon DEF KnownIsTold, LookupInsert, envVars
<1>1. GoodThread(t) /\ t.at \in LookupStages /\ thr \in [Threads -> Thread]
  BY DEF IInv, TypeOK, ThreadsInv, LookupInsert, GoodThread, Thread
<1>2. PICK u : thr' = [thr EXCEPT ![th] = u] /\ u.look = "get"
  BY Zenon, <1>1, ResumeGood DEF LookupInsert, Goto
<1>3. UNCHANGED <<recs, index, told>> /\ cache' = [cache EXCEPT ![LookupKey(t)] = t.look]
      /\ cache \in [Keys -> {"none", "yes", "no"}]
  BY DEF IInv, TypeOK, LookupInsert, dbVars, envVars
<1>4. Known(r)
  <2>1. PICK k \in VerdictKeys(r) :
           \/ Exists(k)'
           \/ cache'[k] = "yes"
           \/ \E x \in Threads : thr'[x].look = "yes" /\ LookupKey(thr'[x]) = k
    BY DEF Known, VerdictKeys
  <2>2. Exists(k)' <=> Exists(k)
    BY <1>3 DEF Exists
  <2>3. k \in Keys
    BY SMT, Z3, SMTT(10), Z3T(10), SigAssumption DEF VerdictKeys, Keys
  <2>4. cache'[k] = "yes" => cache[k] = "yes" \/ (t.look = "yes" /\ LookupKey(t) = k)
    BY <1>3, <2>3
  <2>5. ASSUME NEW x \in Threads, thr'[x].look = "yes", LookupKey(thr'[x]) = k
        PROVE  thr[x].look = "yes" /\ LookupKey(thr[x]) = k
    BY <1>1, <1>2, <2>5
  <2> QED BY <2>1, <2>2, <2>4, <2>5 DEF Known
<1>5. Telling(r) => Telling(r)'
  BY <1>1, <1>2 DEF Telling, StoreStages, LookupStages
<1> QED BY <1>4, <1>5 DEF KnownIsTold

\* Genuine signatures share a verdict key only with themselves.
LEMMA VerdictKeysApart ==
    ASSUME NEW r \in RecSigs \ Forged, NEW q \in RecSigs \ Forged,
           NEW k \in VerdictKeys(r), k \in VerdictKeys(q)
    PROVE  r = q
  BY SMT, Z3, SMTT(10), Z3T(10), SigAssumption DEF VerdictKeys

LEMMA WriteRecoveredSigKnown ==
    ASSUME IInv, KnownIsTold, NEW th \in Threads, WriteRecoveredSig(th)
    PROVE  KnownIsTold'
<1> DEFINE q == thr[th].sig
<1> SUFFICES ASSUME crashes = 0, NEW r \in RecSigs \ Forged, Known(r)'
             PROVE  r \in told \/ Telling(r)'
  BY DEF KnownIsTold, WriteRecoveredSig, envVars
<1>1. GoodThread(thr[th]) /\ thr[th].at = "write_db" /\ thr \in [Threads -> Thread]
  BY DEF IInv, TypeOK, ThreadsInv, WriteRecoveredSig, Thread
<1>2. q \in RecSigs \ Forged
  BY <1>1 DEF GoodThread, GenuineStages, ProcessStages, StoreStages
<1>3. thr' = [thr EXCEPT ![th] = At("write_cache", q)] /\ UNCHANGED <<cache, told>>
      /\ recs' = [recs EXCEPT ![IdOf[q]] = q] /\ index' = index \cup IndexKeys(q)
  BY DEF WriteRecoveredSig, Goto, envVars
<1>5. CASE r = q
  BY Zenon, <1>1, <1>3, <1>5 DEF Telling, At, StoreStages
<1>6. CASE r # q
  <2>1. PICK k \in VerdictKeys(r) :
           \/ Exists(k)'
           \/ cache'[k] = "yes"
           \/ \E x \in Threads : thr'[x].look = "yes" /\ LookupKey(thr'[x]) = k
    BY DEF Known, VerdictKeys
  <2>2. k \notin VerdictKeys(q)
    BY <1>2, <1>6, VerdictKeysApart
  <2>3. Exists(k)' => Exists(k)
    <3>1. recs \in [Ids -> SigOrNone] /\ IdOf \in [RecSigs -> Ids]
      BY SigAssumption DEF IInv, TypeOK
    <3>2. CASE k = <<"id", IdOf[r]>>
      BY <1>2, <1>3, <2>2, <3>1, <3>2 DEF Exists, VerdictKeys
    <3>3. CASE k \in {<<"hash", r>>, <<"session", r>>}
      BY SMT, Z3, SMTT(10), Z3T(10), <1>3, <1>6, <3>3 DEF Exists, IndexKeys
    <3> QED BY <2>1, <3>2, <3>3 DEF VerdictKeys
  <2>4. Known(r)
    BY Zenon, <1>1, <1>3, <2>1, <2>3 DEF Known, At
  <2>5. Telling(r) => Telling(r)'
    BY Zenon, <1>1, <1>3 DEF Telling, StoreStages
  <2> QED BY Zenon, <2>4, <2>5, <1>3 DEF KnownIsTold
<1> QED BY <1>5, <1>6

LEMMA CacheRecoveredSigKnown ==
    ASSUME IInv, KnownIsTold, NEW th \in Threads, CacheRecoveredSig(th)
    PROVE  KnownIsTold'
<1> DEFINE q == thr[th].sig
<1> SUFFICES ASSUME crashes = 0, NEW r \in RecSigs \ Forged, Known(r)'
             PROVE  r \in told \/ Telling(r)'
  BY Zenon DEF KnownIsTold, CacheRecoveredSig, envVars
<1>1. GoodThread(thr[th]) /\ thr[th].at = "write_cache" /\ thr \in [Threads -> Thread]
  BY DEF IInv, TypeOK, ThreadsInv, CacheRecoveredSig, Thread
<1>2. q \in RecSigs \ Forged
  BY <1>1 DEF GoodThread, GenuineStages, ProcessStages, StoreStages
<1>3. thr' = [thr EXCEPT ![th] = At("unpend", q)] /\ UNCHANGED <<recs, index, told>>
      /\ cache' = [k \in Keys |-> IF k \in VerdictKeys(q) THEN "yes" ELSE cache[k]]
  BY DEF CacheRecoveredSig, Goto, dbVars, envVars
<1>5. CASE r = q
  BY <1>1, <1>3, <1>5 DEF Telling, At, StoreStages
<1>6. CASE r # q
  <2>1. PICK k \in VerdictKeys(r) :
           \/ Exists(k)'
           \/ cache'[k] = "yes"
           \/ \E x \in Threads : thr'[x].look = "yes" /\ LookupKey(thr'[x]) = k
    BY DEF Known, VerdictKeys
  <2>2. k \notin VerdictKeys(q) /\ k \in Keys
    <3>1. k \notin VerdictKeys(q)
      BY <1>2, <1>6, <2>1, VerdictKeysApart
    <3>2. IdOf[r] \in Ids
      BY SigAssumption
    <3>3. VerdictKeys(r) \subseteq Keys
      BY SMT, Z3, SMTT(10), Z3T(10), <3>2 DEF VerdictKeys, Keys
    <3> QED BY <2>1, <3>1, <3>3
  <2>3. cache'[k] = cache[k] /\ (Exists(k)' <=> Exists(k))
    BY <1>3, <2>2 DEF Exists
  <2>4. Known(r)
    BY <1>1, <1>3, <2>1, <2>3 DEF Known, At
  <2>5. Telling(r) => Telling(r)'
    BY <1>1, <1>3 DEF Telling, StoreStages, At
  <2> QED BY <2>4, <2>5 DEF KnownIsTold
<1> QED BY <1>5, <1>6

LEMMA ErasePendingKnown ==
    ASSUME IInv, KnownIsTold, NEW th \in Threads, ErasePending(th)
    PROVE  KnownIsTold'
<1> SUFFICES ASSUME crashes = 0, NEW r \in RecSigs \ Forged, Known(r)'
             PROVE  r \in told \/ Telling(r)'
  BY DEF KnownIsTold, ErasePending, envVars
<1>1. thr[th].at = "unpend" /\ thr \in [Threads -> Thread]
      /\ thr' = [thr EXCEPT ![th] = At("tell", thr[th].sig)]
      /\ UNCHANGED <<recs, index, cache, told>>
  BY DEF IInv, TypeOK, ErasePending, Thread, Goto, dbVars, envVars
<1>2. Known(r)
  BY <1>1 DEF Known, Exists, At
<1>3. Telling(r) => Telling(r)'
  BY <1>1 DEF Telling, StoreStages, At
<1> QED BY <1>2, <1>3 DEF KnownIsTold

LEMMA TellListenersKnown ==
    ASSUME IInv, KnownIsTold, NEW th \in Threads, TellListeners(th)
    PROVE  KnownIsTold'
<1> SUFFICES ASSUME crashes = 0, NEW r \in RecSigs \ Forged, Known(r)'
             PROVE  r \in told' \/ Telling(r)'
  BY DEF KnownIsTold, TellListeners
<1>1. thr \in [Threads -> Thread] /\ thr' = [thr EXCEPT ![th] = Idle]
      /\ told' = told \cup {thr[th].sig} /\ UNCHANGED <<recs, index, cache>>
  BY Zenon DEF IInv, TypeOK, TellListeners, Return, Thread, Goto, dbVars
<1>2. Known(r)
  BY Zenon, <1>1 DEF Known, Exists, At, Idle
<1>3. CASE r = thr[th].sig
  BY <1>1, <1>3
<1>4. CASE r # thr[th].sig
  <2>1. Telling(r) => Telling(r)'
    BY <1>1, <1>4 DEF Telling
  <2> QED BY <1>1, <1>2, <2>1 DEF KnownIsTold
<1> QED BY Zenon, <1>3, <1>4

LEMMA UncacheRecoveredSigKnown ==
    ASSUME IInv, KnownIsTold, UncacheRecoveredSig
    PROVE  KnownIsTold'
<1> SUFFICES ASSUME crashes = 0, NEW r \in RecSigs \ Forged, Known(r)'
             PROVE  r \in told \/ Telling(r)'
  BY DEF KnownIsTold, UncacheRecoveredSig, envVars
<1>1. thr[Worker].at = "uncache" /\ thr \in [Threads -> Thread]
      /\ thr' = [thr EXCEPT ![Worker] = Idle] /\ UNCHANGED <<recs, index, told>>
  BY DEF IInv, TypeOK, UncacheRecoveredSig, Return, Thread, Goto, dbVars, envVars
<1>2. \A k \in Keys : cache'[k] = "yes" => cache[k] = "yes"
  BY DEF UncacheRecoveredSig
<1>3. VerdictKeys(r) \subseteq Keys
  BY SMT, Z3, SMTT(10), Z3T(10), SigAssumption DEF VerdictKeys, Keys
<1>4. Known(r)
  BY <1>1, <1>2, <1>3 DEF Known, Exists, At, Idle
<1>5. Telling(r) => Telling(r)'
  BY <1>1 DEF Telling, StoreStages
<1> QED BY <1>4, <1>5 DEF KnownIsTold

\* A cleanup's batch only takes keys away.
LEMMA EraseDoomedKnown ==
    ASSUME IInv, KnownIsTold, EraseDoomed, UNCHANGED <<cache, thr, told, crashes>>
    PROVE  KnownIsTold'
<1> SUFFICES ASSUME crashes = 0, NEW r \in RecSigs \ Forged, Known(r)'
             PROVE  r \in told \/ Telling(r)'
  BY DEF KnownIsTold
<1>1. \A i \in Ids : recs'[i] # NoSig => recs[i] # NoSig
  BY DEF EraseDoomed
<1>2. index' \subseteq index
  BY DEF EraseDoomed
<1>3. IdOf[r] \in Ids
  BY SigAssumption
<1>4. \A k \in VerdictKeys(r) : Exists(k)' => Exists(k)
  BY SMT, Z3, SMTT(10), Z3T(10), <1>1, <1>2, <1>3 DEF Exists, VerdictKeys
<1>5. Known(r)
  BY <1>4 DEF Known
<1>6. Telling(r) => Telling(r)'
  BY DEF Telling
<1> QED BY <1>5, <1>6 DEF KnownIsTold

LEMMA CommonKnown ==
    ASSUME IInv, KnownIsTold, NEW th \in Threads, Common(th)
    PROVE  KnownIsTold'
<1>1. CASE CheckBlock(th)
  BY <1>1, KnownGoto DEF CheckBlock, Return, Idle, At, TellStages, dbVars, envVars
<1>2. CASE GetRecoveredSigById(th)
  BY <1>2, KnownGoto DEF GetRecoveredSigById, Return, Idle, At, TellStages, dbVars, envVars
<1> QED BY <1>1, <1>2, LookupCacheKnown, LookupDbKnown, LookupInsertKnown,
           WriteRecoveredSigKnown, CacheRecoveredSigKnown, ErasePendingKnown,
           TellListenersKnown DEF Common

LEMMA NextKnown == IInv /\ KnownIsTold /\ [Next]_vars => KnownIsTold'
<1> SUFFICES ASSUME IInv, KnownIsTold, [Next]_vars
             PROVE  KnownIsTold'
  OBVIOUS
<1> USE WorkerIsThread DEF dbVars, envVars, pendVars, workVars, cleanVars
<1>1. CASE UNCHANGED vars
  BY <1>1, KnownSame DEF vars
<1>2. ASSUME NEW c \in Callers, Call(c) \/ CallerStep(c)
      PROVE  KnownIsTold'
  <2>0. c \in Threads
    BY DEF Threads
  <2>1. CASE Call(c)
    <3>1. PICK place, r : Goto(c, At(place, r))
      BY <2>1 DEF Call
    <3>2. thr[c] = Idle /\ UNCHANGED <<recs, index, cache, told, crashes>>
      BY <2>1 DEF Call
    <3> QED BY <2>0, <3>1, <3>2, KnownFromIdle
  <2>2. CASE Common(c)
    BY <2>0, <2>2, CommonKnown
  <2>3. CASE PushPending(c)
    BY <2>0, <2>3, KnownGoto DEF PushPending, Return, Idle, At, TellStages
  <2>4. CASE PushReconstructedRecoveredSig(c)
    BY <2>0, <2>4, KnownGoto
       DEF PushReconstructedRecoveredSig, Return, Idle, At, TellStages
  <2> QED BY <1>2, <2>1, <2>2, <2>3, <2>4 DEF CallerStep
<1>3. ASSUME WorkThreadMain
      PROVE  KnownIsTold'
  <2>1. CASE Common(Worker)
    BY <2>1, CommonKnown
  <2>2. CASE SwapReconstructed
    BY <2>2, KnownSame DEF SwapReconstructed
  <2>3. CASE ProcessNext
    <3>1. PICK r \in todo : Goto(Worker, At("check", r))
      BY <2>3 DEF ProcessNext
    <3>2. thr[Worker] = Idle /\ UNCHANGED <<recs, index, cache, told, crashes>>
      BY <2>3 DEF ProcessNext, WorkerAt
    <3> QED BY <3>1, <3>2, KnownFromIdle
  <2>4. CASE StartCollect
    BY <2>4, KnownSame DEF StartCollect
  <2>5. CASE CollectNext
    <3>1. PICK p \in pending : Goto(Worker, At("collect_hash", p[2]))
      BY <2>5 DEF CollectNext
    <3>2. thr[Worker] = Idle /\ UNCHANGED <<recs, index, cache, told, crashes>>
      BY <2>5 DEF CollectNext, WorkerAt
    <3> QED BY <3>1, <3>2, KnownFromIdle
  <2>6. CASE CollectHead
    BY <2>6, KnownGoto DEF CollectHead, Return, Idle, At, TellStages
  <2>7. CASE VerifyBatch
    BY <2>7, KnownSame DEF VerifyBatch
  <2>8. CASE StartCleanup
    BY <2>8, KnownSame DEF StartCleanup
  <2>9. CASE RemoveRecoveredSig
    <3>1. PICK k \in left : UNCHANGED thr \/ Goto(Worker, At("uncache", recs[k[2]]))
      BY <2>9 DEF RemoveRecoveredSig
    <3>2. CASE UNCHANGED thr
      BY Zenon, <2>9, <3>2, KnownSame DEF RemoveRecoveredSig
    <3>3. CASE Goto(Worker, At("uncache", recs[k[2]]))
      <4>1. thr[Worker] = Idle /\ UNCHANGED <<recs, index, cache, told, crashes>>
        BY <2>9 DEF RemoveRecoveredSig, WorkerAt
      <4> QED BY <3>3, <4>1, KnownFromIdle
    <3> QED BY <3>1, <3>2, <3>3
  <2>10. CASE UncacheRecoveredSig
    BY <2>10, UncacheRecoveredSigKnown
  <2>11. CASE WriteEarly
    BY <2>11, EraseDoomedKnown DEF WriteEarly
  <2>12. CASE WriteRemovals
    BY <2>12, EraseDoomedKnown DEF WriteRemovals
  <2> QED BY <1>3, <2>1, <2>2, <2>3, <2>4, <2>5, <2>6, <2>7, <2>8, <2>9, <2>10,
             <2>11, <2>12 DEF WorkThreadMain
<1>4. CASE Tick
  BY <1>4, KnownSame DEF Tick
<1>5. CASE Crash
  <2>1. crashes' = crashes + 1 /\ crashes \in Nat
    BY SMT, Z3, SMTT(10), Z3T(10), <1>5 DEF Crash, IInv, TypeOK
  <2> QED BY SMT, Z3, SMTT(10), Z3T(10), <2>1 DEF KnownIsTold
<1> QED BY <1>1, <1>2, <1>3, <1>4, <1>5 DEF Next

\* No thread drops a signature as known unless the listeners have heard of it
\* or its writer is about to tell them (HasRecoveredSigForId, ForHash and
\* ForSession against WriteRecoveredSig and the cleanup), for any number of
\* threads, signatures and cleanups, as long as the process does not die.
THEOREM KnownSignaturesTold == Spec => []KnownIsTold
<1>1. Init => KnownIsTold
  <2> SUFFICES ASSUME Init, NEW r \in RecSigs \ Forged, Known(r)
               PROVE  FALSE
    BY DEF KnownIsTold
  <2>1. VerdictKeys(r) \subseteq Keys /\ IdOf[r] \in Ids
    BY SMT, Z3, SMTT(10), Z3T(10), SigAssumption DEF VerdictKeys, Keys
  <2>2. \A k \in VerdictKeys(r) : ~Exists(k) /\ cache[k] # "yes"
    BY SMT, Z3, SMTT(10), Z3T(10), <2>1 DEF Init, Exists, VerdictKeys
  <2> QED BY <2>2 DEF Known, Init, Idle, At
<1>2. Spec => []IInv
  BY InitIInv, NextIInv, PTL DEF Spec
<1> QED BY <1>1, <1>2, NextKnown, PTL DEF Spec

-----------------------------------------------------------------------------
(***************************************************************************)
(* What is on its way to the listeners stays on its way.  A thread lets go *)
(* of a signature in three places only: a lookup that answers "yes", a     *)
(* record found by id, and TellListeners.  In the first two the signature  *)
(* is Known, so KnownIsTold gives a thread that still carries it.  The     *)
(* worker's list is overwritten by SwapReconstructed and by VerifyBatch,   *)
(* which TodoInv shows to find it empty.                                   *)
(***************************************************************************)
CarryStages == {"push", "check"} \cup ProcessStages

TodoInv == todo # {} => wphase \in {"recon", "verified"}

LEMMA AtFields == \A place, q : At(place, q).at = place /\ At(place, q).sig = q
  BY Zenon DEF At

LEMMA IdleCarriesNot == Idle.at \notin CarryStages
<1>1. Idle.at = "idle"
  BY Zenon, AtFields DEF Idle
<1>2. "idle" \notin CarryStages
  BY Zenon DEF CarryStages, ProcessStages, StoreStages
<1> QED BY Zenon, <1>1, <1>2

LEMMA NextTodo == TodoInv /\ [Next]_vars => TodoInv'
<1> SUFFICES ASSUME TodoInv, [Next]_vars PROVE TodoInv'
  OBVIOUS
<1> USE DEF TodoInv, workVars
<1>1. CASE UNCHANGED <<wphase, todo>>
  BY <1>1
<1>2. ASSUME NEW th, Common(th) PROVE UNCHANGED <<wphase, todo>>
  BY <1>2 DEF Common, LookupCache, LookupDb, LookupInsert, CheckBlock, GetRecoveredSigById,
     WriteRecoveredSig, CacheRecoveredSig, ErasePending, TellListeners
<1>3. ASSUME NEW c \in Callers, Call(c) \/ CallerStep(c) PROVE UNCHANGED <<wphase, todo>>
  BY <1>2, <1>3 DEF CallerStep, Call, PushPending, PushReconstructedRecoveredSig
<1>4. CASE WorkThreadMain
  <2>1. CASE SwapReconstructed \/ StartCollect \/ VerifyBatch \/ StartCleanup \/ WriteRemovals
    BY <2>1 DEF SwapReconstructed, StartCollect, VerifyBatch, StartCleanup, WriteRemovals, WorkerAt
  <2>2. CASE ProcessNext
    BY <2>2 DEF ProcessNext, WorkerAt
  <2>3. CASE CollectNext \/ CollectHead \/ RemoveRecoveredSig \/ UncacheRecoveredSig \/ WriteEarly
    BY <1>1, <2>3
       DEF CollectNext, CollectHead, RemoveRecoveredSig, UncacheRecoveredSig, WriteEarly
  <2> QED BY <1>1, <1>2, <1>4, <2>1, <2>2, <2>3 DEF WorkThreadMain
<1>5. CASE Tick \/ Crash
  BY <1>5 DEF Tick, Crash
<1>6. CASE UNCHANGED vars
  BY <1>1, <1>6 DEF vars
<1> QED BY <1>1, <1>3, <1>4, <1>5, <1>6 DEF Next

\* A signature that nobody lets go of: the lists keep it and every thread
\* that carries it still does.
LEMMA CarriedSame ==
    ASSUME NEW r, Carried(r), reconstructed \cup todo \subseteq reconstructed' \cup todo',
           \A x \in Threads : thr[x].sig = r /\ thr[x].at \in CarryStages
                              => thr'[x].sig = r /\ thr'[x].at \in CarryStages
    PROVE  Carried(r)'
  BY DEF Carried, CarryStages

\* One thread moves; it did not carry r, or it still does.
LEMMA CarriedGoto ==
    ASSUME IInv, NEW r, Carried(r), NEW th \in Threads, NEW u, Goto(th, u),
           reconstructed \cup todo \subseteq reconstructed' \cup todo',
           thr[th].sig = r /\ thr[th].at \in CarryStages => u.sig = r /\ u.at \in CarryStages
    PROVE  Carried(r)'
<1>1. thr \in [Threads -> Thread] /\ thr' = [thr EXCEPT ![th] = u]
  BY Zenon DEF IInv, TypeOK, Thread, Goto
<1>2. \A x \in Threads : thr[x].sig = r /\ thr[x].at \in CarryStages
                         => thr'[x].sig = r /\ thr'[x].at \in CarryStages
  BY <1>1
<1> QED BY <1>2, CarriedSame

\* A thread goes on to the next place with the signature it has.
LEMMA CarriedOn ==
    ASSUME IInv, NEW r, Carried(r), NEW th \in Threads, NEW place \in CarryStages,
           Goto(th, At(place, thr[th].sig)), UNCHANGED <<reconstructed, todo>>
    PROVE  Carried(r)'
<1>1. At(place, thr[th].sig).at = place /\ At(place, thr[th].sig).sig = thr[th].sig
  BY ZenonT(40), AtFields
<1>2. reconstructed \cup todo \subseteq reconstructed' \cup todo'
  BY Zenon
<1> QED BY Zenon, <1>1, <1>2, CarriedGoto

\* A thread may let go of what is known: another one has yet to tell it.
LEMMA KnownCarried ==
    ASSUME IInv, KnownIsTold, crashes = 0, NEW r \in RecSigs \ Forged, Known(r),
           NEW th \in Threads, NEW u, Goto(th, u), thr[th].at \notin TellStages,
           told \subseteq told'
    PROVE  Carried(r)' \/ r \in told'
<1>1. r \in told \/ Telling(r)
  BY DEF KnownIsTold
<1>2. thr \in [Threads -> Thread] /\ thr' = [thr EXCEPT ![th] = u]
  BY Zenon DEF IInv, TypeOK, Thread, Goto
<1>3. ASSUME Telling(r) PROVE Carried(r)'
  <2>1. PICK x \in Threads : thr[x].sig = r /\ thr[x].at \in TellStages
    BY <1>3 DEF Telling, StoreStages, TellStages
  <2>2. thr'[x] = thr[x]
    BY <1>2, <2>1
  <2> QED BY <2>1, <2>2 DEF Carried, ProcessStages, StoreStages, TellStages
<1> QED BY <1>1, <1>3

\* The end of a lookup: "no" leads on through ProcessRecoveredSig, and "yes"
\* means that the signature is known.
LEMMA ResumeCarried ==
    ASSUME IInv, KnownIsTold, crashes = 0, NEW r \in RecSigs \ Forged, Carried(r),
           NEW th \in Threads, thr[th].at \in LookupStages,
           NEW b \in BOOLEAN, Goto(th, Resume(thr[th], b)),
           b => cache[LookupKey(thr[th])] = "yes" \/ thr[th].look = "yes",
           UNCHANGED <<reconstructed, todo, told>>
    PROVE  Carried(r)' \/ r \in told'
<1> DEFINE t == thr[th]
<1>1. CASE ~(t.sig = r /\ t.at \in CarryStages)
  BY <1>1, CarriedGoto
<1>2. CASE t.sig = r /\ t.at \in CarryStages
  <2>1. t.at \in {"proc_hash", "proc_id"}
    BY <1>2 DEF CarryStages, LookupStages, ProcessStages, StoreStages
  <2>2. CASE b
    <3>1. LookupKey(t) \in VerdictKeys(r)
      BY <1>2, <2>1 DEF LookupKey, HashLookups, VerdictKeys
    <3>2. Known(r)
      BY <2>2, <3>1 DEF Known
    <3>3. t.at \notin TellStages
      BY <2>1 DEF TellStages
    <3> QED BY <3>2, <3>3, KnownCarried
  <2>3. CASE ~b
    <3>1. Resume(t, b).sig = r /\ Resume(t, b).at \in CarryStages
      BY <1>2, <2>1, <2>3 DEF Resume, PlaceIfMissing, At, CarryStages, ProcessStages, StoreStages
    <3> QED BY <3>1, CarriedGoto
  <2> QED BY <2>2, <2>3
<1> QED BY <1>1, <1>2

LEMMA LookupCarried ==
    ASSUME IInv, KnownIsTold, crashes = 0, NEW r \in RecSigs \ Forged, Carried(r),
           NEW th \in Threads, LookupCache(th) \/ LookupDb(th) \/ LookupInsert(th)
    PROVE  Carried(r)' \/ r \in told'
<1> DEFINE t == thr[th]
<1>1. GoodThread(t) /\ t.at \in LookupStages
  BY DEF IInv, ThreadsInv, LookupCache, LookupDb, LookupInsert, GoodThread
<1>2. UNCHANGED <<reconstructed, todo, told>>
  BY DEF LookupCache, LookupDb, LookupInsert, pendVars, workVars, envVars
<1>3. ASSUME NEW x, Goto(th, [t EXCEPT !.look = x]) PROVE Carried(r)'
  <2>1. [t EXCEPT !.look = x].sig = t.sig /\ [t EXCEPT !.look = x].at = t.at
    BY <1>1 DEF GoodThread, Thread
  <2>2. reconstructed \cup todo \subseteq reconstructed' \cup todo'
    BY <1>2
  <2> HIDE DEF t
  <2> QED BY Zenon, <1>3, <2>1, <2>2, CarriedGoto DEF t
<1>4. CASE LookupCache(th)
  <2>1. CASE cache[LookupKey(t)] = "none"
    BY <1>3, <1>4, <2>1 DEF LookupCache
  <2>2. CASE cache[LookupKey(t)] # "none"
    <3>1. Goto(th, Resume(t, cache[LookupKey(t)] = "yes"))
      BY <1>4, <2>2 DEF LookupCache
    <3> QED BY Zenon, <1>1, <1>2, <3>1, ResumeCarried
  <2> QED BY <2>1, <2>2
<1>5. CASE LookupDb(th)
  BY <1>3, <1>5 DEF LookupDb
<1>6. CASE LookupInsert(th)
  <2>1. Goto(th, Resume(t, t.look = "yes"))
    BY <1>6 DEF LookupInsert
  <2> QED BY Zenon, <1>1, <1>2, <2>1, ResumeCarried
<1> QED BY <1>4, <1>5, <1>6

\* The steps of ProcessRecoveredSig hand r on from one place to the next, find
\* its id stored, or tell the listeners.
LEMMA CommonCarried ==
    ASSUME IInv, KnownIsTold, crashes = 0, NEW r \in RecSigs \ (Forged \cup Unsound),
           Carried(r), NEW th \in Threads, Common(th)
    PROVE  Carried(r)' \/ r \in told'
<1> USE DEF pendVars, workVars, envVars
<1>0. {"proc_hash", "write_db", "write_cache", "unpend"} \subseteq CarryStages
  BY DEF CarryStages, ProcessStages, StoreStages
<1>1. CASE LookupCache(th) \/ LookupDb(th) \/ LookupInsert(th)
  BY <1>1, LookupCarried
<1>2. CASE CheckBlock(th)
  <2>1. CASE thr[th].sig \in Unsound
    BY <1>2, <2>1, CarriedGoto DEF CheckBlock, Return
  <2>2. CASE thr[th].sig \notin Unsound
    BY <1>0, <1>2, <2>2, CarriedOn DEF CheckBlock
  <2> QED BY <2>1, <2>2
<1>3. CASE GetRecoveredSigById(th)
  <2>1. thr[th].at = "proc_get" /\ UNCHANGED <<reconstructed, todo, told>>
    BY <1>3 DEF GetRecoveredSigById
  <2>2. CASE recs[IdOf[thr[th].sig]] = NoSig
    <3>1. Goto(th, At("write_db", thr[th].sig))
      BY Zenon, <1>3, <2>2 DEF GetRecoveredSigById
    <3> QED BY Zenon, <1>0, <2>1, <3>1, CarriedOn
  <2>3. CASE recs[IdOf[thr[th].sig]] # NoSig /\ thr[th].sig # r
    BY <1>3, <2>1, <2>3, CarriedGoto DEF GetRecoveredSigById, Return
  <2>4. CASE recs[IdOf[thr[th].sig]] # NoSig /\ thr[th].sig = r
    <3>1. Exists(<<"id", IdOf[r]>>)
      BY <2>4 DEF Exists
    <3>2. Known(r)
      BY <3>1 DEF Known, VerdictKeys
    <3>3. Goto(th, Idle) /\ thr[th].at \notin TellStages
      BY <1>3, <2>1, <2>4 DEF GetRecoveredSigById, Return, TellStages
    <3> QED BY <2>1, <3>2, <3>3, KnownCarried
  <2> QED BY <2>2, <2>3, <2>4
<1>4. CASE WriteRecoveredSig(th)
  <2>1. Goto(th, At("write_cache", thr[th].sig)) /\ UNCHANGED <<reconstructed, todo>>
    BY Zenon, <1>4 DEF WriteRecoveredSig
  <2> QED BY Zenon, <1>0, <2>1, CarriedOn
<1>5. CASE CacheRecoveredSig(th)
  <2>1. Goto(th, At("unpend", thr[th].sig)) /\ UNCHANGED <<reconstructed, todo>>
    BY Zenon, <1>5 DEF CacheRecoveredSig
  <2> QED BY Zenon, <1>0, <2>1, CarriedOn
<1>6. CASE ErasePending(th)
  <2>1. thr \in [Threads -> Thread] /\ thr' = [thr EXCEPT ![th] = At("tell", thr[th].sig)]
        /\ reconstructed' = reconstructed \ {thr[th].sig} /\ todo' = todo
    BY Zenon, <1>6 DEF IInv, TypeOK, Thread, ErasePending, Goto
  <2>2. CASE thr[th].sig = r
    <3>1. thr'[th].sig = r /\ thr'[th].at = "tell"
      BY ZenonT(40), AtFields, <2>1, <2>2
    <3> QED BY <3>1 DEF Carried, ProcessStages, StoreStages
  <2>3. CASE thr[th].sig # r
    <3>1. \A x \in Threads : thr[x].sig = r => thr'[x] = thr[x]
      BY <2>1, <2>3
    <3> QED BY <2>1, <2>3, <3>1 DEF Carried
  <2> QED BY <2>2, <2>3
<1>7. CASE TellListeners(th)
  <2>1. Goto(th, Idle) /\ told' = told \cup {thr[th].sig} /\ UNCHANGED <<reconstructed, todo>>
    BY <1>7 DEF TellListeners, Return
  <2> QED BY <2>1, CarriedGoto
<1> QED BY <1>1, <1>2, <1>3, <1>4, <1>5, <1>6, <1>7 DEF Common

LEMMA NextCarried ==
    ASSUME IInv, KnownIsTold, TodoInv, Next, crashes' = 0,
           NEW r \in RecSigs \ (Forged \cup Unsound), Carried(r)
    PROVE  Carried(r)' \/ r \in told'
<1> USE WorkerIsThread DEF pendVars, workVars, envVars
<1>0. ASSUME NEW place, NEW q, NEW th \in Threads, thr[th] = Idle, Goto(th, At(place, q)),
             reconstructed \cup todo \subseteq reconstructed' \cup todo'
      PROVE  Carried(r)'
  <2>1. thr[th].at \notin CarryStages
    BY Zenon, <1>0, IdleCarriesNot
  <2> QED BY <1>0, <2>1, CarriedGoto
<1>1. CASE Tick
  BY <1>1, CarriedSame DEF Tick
<1>2. ASSUME Crash PROVE FALSE
  BY SMT, Z3, SMTT(10), Z3T(10), <1>2 DEF Crash, IInv, TypeOK
<1>3. ASSUME NEW c \in Callers, Call(c) \/ CallerStep(c)
      PROVE  Carried(r)' \/ r \in told'
  <2>0. c \in Threads
    BY DEF Threads
  <2>1. CASE Call(c)
    <3>1. PICK place, q : Goto(c, At(place, q))
      BY <2>1 DEF Call
    <3> QED BY <1>0, <2>0, <2>1, <3>1 DEF Call
  <2>2. CASE Common(c)
    <3>1. crashes = 0
      BY <2>2 DEF Common, LookupCache, LookupDb, LookupInsert, CheckBlock, GetRecoveredSigById,
         WriteRecoveredSig, CacheRecoveredSig, ErasePending, TellListeners
    <3> QED BY <2>0, <2>2, <3>1, CommonCarried
  <2>3. CASE PushPending(c)
    <3>1. thr[c].at \notin CarryStages /\ Goto(c, Idle)
          /\ reconstructed \cup todo \subseteq reconstructed' \cup todo'
      BY <2>3 DEF PushPending, Return, CarryStages, ProcessStages, StoreStages
    <3> QED BY <2>0, <3>1, CarriedGoto
  <2>4. CASE PushReconstructedRecoveredSig(c)
    <3>1. Goto(c, Idle) /\ reconstructed' = reconstructed \cup {thr[c].sig} /\ todo' = todo
      BY <2>4 DEF PushReconstructedRecoveredSig, Return
    <3>2. CASE thr[c].sig = r
      BY <3>1, <3>2 DEF Carried
    <3>3. CASE thr[c].sig # r
      BY <2>0, <3>1, <3>3, CarriedGoto
    <3> QED BY <3>2, <3>3
  <2> QED BY <1>3, <2>1, <2>2, <2>3, <2>4 DEF CallerStep
<1>4. ASSUME WorkThreadMain
      PROVE  Carried(r)' \/ r \in told'
  <2>1. CASE Common(Worker)
    <3>1. crashes = 0
      BY <2>1 DEF Common, LookupCache, LookupDb, LookupInsert, CheckBlock, GetRecoveredSigById,
         WriteRecoveredSig, CacheRecoveredSig, ErasePending, TellListeners
    <3> QED BY <2>1, <3>1, CommonCarried
  <2>2. CASE SwapReconstructed
    <3>1. todo = {} /\ todo' = reconstructed /\ UNCHANGED thr
      BY <2>2 DEF SwapReconstructed, WorkerAt, TodoInv
    <3> QED BY <3>1, CarriedSame
  <2>3. CASE ProcessNext
    <3>1. PICK q \in todo : todo' = todo \ {q} /\ Goto(Worker, At("check", q))
      BY <2>3 DEF ProcessNext
    <3>2. thr[Worker] = Idle /\ reconstructed' = reconstructed
      BY <2>3 DEF ProcessNext, WorkerAt
    <3>3. thr \in [Threads -> Thread] /\ thr' = [thr EXCEPT ![Worker] = At("check", q)]
      BY Zenon, <3>1 DEF IInv, TypeOK, Thread, Goto
    <3>4. CASE r = q
      <4>1. thr'[Worker].sig = r /\ thr'[Worker].at = "check"
        BY <3>3, <3>4, AtFields
      <4> QED BY <4>1 DEF Carried
    <3>5. CASE r # q
      <4>1. thr[Worker].at \notin CarryStages
        BY Zenon, <3>2, IdleCarriesNot
      <4>2. \A x \in Threads : thr[x].sig = r /\ thr[x].at \in CarryStages => thr'[x] = thr[x]
        BY <3>3, <4>1
      <4> QED BY <3>1, <3>2, <3>5, <4>2 DEF Carried, CarryStages
    <3> QED BY <3>4, <3>5
  <2>4. CASE VerifyBatch
    <3>1. todo = {} /\ UNCHANGED <<thr, reconstructed>>
      BY <2>4 DEF VerifyBatch, WorkerAt, TodoInv
    <3> QED BY <3>1, CarriedSame
  <2>5. CASE StartCollect \/ StartCleanup \/ WriteEarly \/ WriteRemovals
    BY <2>5, CarriedSame DEF StartCollect, StartCleanup, WriteEarly, WriteRemovals
  <2>6. CASE CollectNext
    <3>1. PICK q : Goto(Worker, At("collect_hash", q))
      BY <2>6 DEF CollectNext
    <3> QED BY <1>0, <2>6, <3>1 DEF CollectNext, WorkerAt
  <2>7. CASE CollectHead \/ UncacheRecoveredSig
    <3>1. thr[Worker].at \notin CarryStages
      BY <2>7 DEF CollectHead, UncacheRecoveredSig, CarryStages, ProcessStages, StoreStages
    <3>2. Goto(Worker, Idle) /\ UNCHANGED <<reconstructed, todo>>
      BY <2>7 DEF CollectHead, UncacheRecoveredSig, Return
    <3> QED BY <3>1, <3>2, CarriedGoto
  <2>8. CASE RemoveRecoveredSig
    <3>1. PICK k : UNCHANGED thr \/ Goto(Worker, At("uncache", recs[k[2]]))
      BY <2>8 DEF RemoveRecoveredSig
    <3>2. thr[Worker] = Idle /\ UNCHANGED <<reconstructed, todo>>
      BY <2>8 DEF RemoveRecoveredSig, WorkerAt
    <3> QED BY <1>0, <3>1, <3>2, CarriedSame
  <2> QED BY <1>4, <2>1, <2>2, <2>3, <2>4, <2>5, <2>6, <2>7, <2>8 DEF WorkThreadMain
<1> QED BY <1>1, <1>2, <1>3, <1>4 DEF Next

\* A good signature that the node has taken on, from a CLSIG, from shares or
\* from a peer's verified batch, stays on its way until the listeners are
\* told, whatever the other threads, the cleanup and stale verdicts do
\* (ProcessPendingReconstructedRecoveredSigs, ProcessRecoveredSig): of
\* ReconstructedIsTold, what remains is that the threads keep running.
THEOREM SignaturesNeverDropped == Spec => NeverDropped
<1>1. Init => TodoInv
  BY DEF Init, TodoInv
<1>2. IInv /\ KnownIsTold /\ TodoInv /\ [Next]_vars =>
         [\A r \in RecSigs \ (Forged \cup Unsound) :
             crashes' = 0 /\ Carried(r) => Carried(r)' \/ r \in told']_vars
  BY NextCarried
<1> QED BY <1>1, <1>2, NextTodo, SigningInvariant, KnownSignaturesTold, PTL
        DEF Spec, NeverDropped

=============================================================================
