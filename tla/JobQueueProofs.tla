--------------------------- MODULE JobQueueProofs ---------------------------
(***************************************************************************)
(* Machine-checked proofs about JobQueue, for every set of jobs, workers,  *)
(* ids, repositories and administrators and every budget of faults.        *)
(***************************************************************************)
EXTENDS JobQueueLedger, FiniteSetTheorems, TLAPS

-----------------------------------------------------------------------------
\* Type correctness

\* The environment never spends more than its budget.
LEMMA SpendType ==
  ASSUME spent \in [Kinds -> Nat], \A k \in Kinds : spent[k] <= Budget[k],
         NEW kind \in Kinds, Spend(kind)
  PROVE  /\ spent' \in [Kinds -> Nat]
         /\ \A k \in Kinds : spent'[k] <= Budget[k]
<1>1. Budget[kind] \in Nat /\ spent[kind] \in Nat
  BY BudgetAssumption
<1> QED
  BY <1>1, BudgetAssumption DEF Spend

\* LREM leaves a list of jobs.
LEMMA LRemType ==
  ASSUME processing \in [WorkerId -> [Job -> Nat]], NEW w \in Worker,
         wid[w] \in WorkerId, job[w] \in Job, LRem(w)
  PROVE  processing' \in [WorkerId -> [Job -> Nat]]
<1> DEFINE n == processing[wid[w]][job[w]]
           m == IF n = 0 THEN 0 ELSE n - 1
<1>1. m \in Nat
  OBVIOUS
<1>2. processing' = [processing EXCEPT ![wid[w]][job[w]] = m]
  BY DEF LRem
<1> HIDE DEF m
<1> QED
  BY <1>1, <1>2

\* The initial states are type correct.
LEMMA InitType == Init => TypeOK
<1> SUFFICES ASSUME Init PROVE TypeOK
  OBVIOUS
<1>1. RedisTypeOK
  BY DEF Init, RedisTypeOK, JobHash, JobStatus
<1>2. WorkerTypeOK
  BY DEF Init, WorkerTypeOK, WorkerPC, Working
<1>3. AdminTypeOK
  BY DEF Init, AdminTypeOK, AdminPC
<1>4. HistoryTypeOK
  BY BudgetAssumption DEF Init, HistoryTypeOK
<1> QED
  BY <1>1, <1>2, <1>3, <1>4 DEF TypeOK

\* Every step keeps the types.
LEMMA NextType == TypeOK /\ [Next]_vars => TypeOK'
<1> SUFFICES ASSUME TypeOK, [Next]_vars PROVE TypeOK'
  OBVIOUS
<1> USE DEF TypeOK, Goto, redisVars, adminVars
<1>1. ASSUME NEW j \in Job, Enqueue(j) PROVE TypeOK'
  <2>1. RedisTypeOK'
    BY <1>1 DEF RedisTypeOK, Enqueue, LPush, Update, JobHash, JobStatus
  <2>2. WorkerTypeOK'
    BY <1>1 DEF WorkerTypeOK, Enqueue, Working
  <2>3. AdminTypeOK'
    BY <1>1 DEF AdminTypeOK, Enqueue
  <2>4. HistoryTypeOK'
    BY <1>1 DEF HistoryTypeOK, Enqueue
  <2> QED
    BY <2>1, <2>2, <2>3, <2>4
<1>2. ASSUME NEW j \in Job, HashExpires(j) PROVE TypeOK'
  <2>1. RedisTypeOK'
    BY <1>2 DEF RedisTypeOK, HashExpires, JobHash, JobStatus
  <2>2. WorkerTypeOK'
    BY <1>2 DEF WorkerTypeOK, HashExpires, Working
  <2>3. AdminTypeOK'
    BY <1>2 DEF AdminTypeOK, HashExpires
  <2>4. HistoryTypeOK'
    BY <1>2, SpendType DEF HistoryTypeOK, HashExpires, Kinds
  <2> QED
    BY <2>1, <2>2, <2>3, <2>4
<1>3. ASSUME NEW w \in Worker, Start(w) PROVE TypeOK'
  <2>1. RedisTypeOK'
    BY <1>3 DEF RedisTypeOK, Start
  <2>2. WorkerTypeOK'
    BY <1>3, IdsAssumption, ZenonT(60) DEF WorkerTypeOK, Start, Working, WorkerPC
  <2>3. AdminTypeOK'
    BY <1>3 DEF AdminTypeOK, Start
  <2>4. HistoryTypeOK'
    BY <1>3 DEF HistoryTypeOK, Start
  <2> QED
    BY <2>1, <2>2, <2>3, <2>4
<1>4. ASSUME NEW w \in Worker, RecoverOne(w) PROVE TypeOK'
  <2>1. RedisTypeOK'
    BY <1>4 DEF RedisTypeOK, RecoverOne, LPush, WorkerTypeOK
  <2>2. WorkerTypeOK'
    BY <1>4 DEF WorkerTypeOK, RecoverOne, Working
  <2>3. AdminTypeOK'
    BY <1>4 DEF AdminTypeOK, RecoverOne
  <2>4. HistoryTypeOK'
    BY <1>4 DEF HistoryTypeOK, RecoverOne
  <2> QED
    BY <2>1, <2>2, <2>3, <2>4
<1>5. ASSUME NEW w \in Worker, RecoverDone(w) PROVE TypeOK'
  <2>1. RedisTypeOK'
    BY <1>5 DEF RedisTypeOK, RecoverDone
  <2>2. WorkerTypeOK'
    BY <1>5 DEF WorkerTypeOK, RecoverDone, Working, WorkerPC, NextRound
  <2>3. AdminTypeOK'
    BY <1>5 DEF AdminTypeOK, RecoverDone
  <2>4. HistoryTypeOK'
    BY <1>5 DEF HistoryTypeOK, RecoverDone
  <2> QED
    BY <2>1, <2>2, <2>3, <2>4
<1>6. ASSUME NEW w \in Worker, Claim(w) PROVE TypeOK'
  <2>1. RedisTypeOK'
    BY <1>6 DEF RedisTypeOK, Claim, WorkerTypeOK
  <2>2. WorkerTypeOK'
    BY <1>6 DEF WorkerTypeOK, Claim, RedisTypeOK, Working, WorkerPC
  <2>3. AdminTypeOK'
    BY <1>6 DEF AdminTypeOK, Claim
  <2>4. HistoryTypeOK'
    BY <1>6 DEF HistoryTypeOK, Claim
  <2> QED
    BY <2>1, <2>2, <2>3, <2>4
<1>7. ASSUME NEW w \in Worker, ClaimTimeout(w) PROVE TypeOK'
  <2>1. RedisTypeOK'
    BY <1>7 DEF RedisTypeOK, ClaimTimeout
  <2>2. WorkerTypeOK'
    BY <1>7 DEF WorkerTypeOK, ClaimTimeout, Working, WorkerPC, NextRound
  <2>3. AdminTypeOK'
    BY <1>7 DEF AdminTypeOK, ClaimTimeout
  <2>4. HistoryTypeOK'
    BY <1>7 DEF HistoryTypeOK, ClaimTimeout
  <2> QED
    BY <2>1, <2>2, <2>3, <2>4
<1>8. ASSUME NEW w \in Worker, Load(w) PROVE TypeOK'
  <2>1. RedisTypeOK'
    BY <1>8 DEF RedisTypeOK, Load
  <2>2. WorkerTypeOK'
    BY <1>8, ZenonT(60) DEF WorkerTypeOK, Load, RedisTypeOK, JobHash, Working, WorkerPC
  <2>3. AdminTypeOK'
    BY <1>8 DEF AdminTypeOK, Load
  <2>4. HistoryTypeOK'
    BY <1>8 DEF HistoryTypeOK, Load
  <2> QED
    BY <2>1, <2>2, <2>3, <2>4
<1>9. ASSUME NEW w \in Worker, Drop(w) PROVE TypeOK'
  <2>1. RedisTypeOK'
    BY <1>9, LRemType DEF RedisTypeOK, WorkerTypeOK, Working, Drop
  <2>2. WorkerTypeOK'
    BY <1>9 DEF WorkerTypeOK, Drop, Working, WorkerPC, NextRound
  <2>3. AdminTypeOK'
    BY <1>9 DEF AdminTypeOK, Drop
  <2>4. HistoryTypeOK'
    BY <1>9 DEF HistoryTypeOK, Drop
  <2> QED
    BY <2>1, <2>2, <2>3, <2>4
<1>10. ASSUME NEW w \in Worker, AcquireLock(w) PROVE TypeOK'
  <2>0. job[w] \in Job /\ att[w] \in Nat
    BY <1>10 DEF AcquireLock, WorkerTypeOK, Working
  <2>1. RedisTypeOK'
    BY <1>10, <2>0 DEF RedisTypeOK, AcquireLock
  <2>2. WorkerTypeOK'
    BY <1>10 DEF WorkerTypeOK, AcquireLock, Working, WorkerPC
  <2>3. AdminTypeOK'
    BY <1>10 DEF AdminTypeOK, AcquireLock
  <2>4. HistoryTypeOK'
    BY <1>10 DEF HistoryTypeOK, AcquireLock
  <2> QED
    BY <2>1, <2>2, <2>3, <2>4
<1>11. ASSUME NEW w \in Worker, PushBusy(w) PROVE TypeOK'
  <2>0. job[w] \in Job /\ att[w] \in Nat
    BY <1>11 DEF PushBusy, WorkerTypeOK, Working
  <2>1. RedisTypeOK'
    BY <1>11, <2>0 DEF RedisTypeOK, PushBusy, LPush
  <2>2. WorkerTypeOK'
    BY <1>11 DEF WorkerTypeOK, PushBusy, Working, WorkerPC
  <2>3. AdminTypeOK'
    BY <1>11 DEF AdminTypeOK, PushBusy
  <2>4. HistoryTypeOK'
    BY <1>11 DEF HistoryTypeOK, PushBusy
  <2> QED
    BY <2>1, <2>2, <2>3, <2>4
<1>12. ASSUME NEW w \in Worker, BeginRun(w) PROVE TypeOK'
  <2>0. job[w] \in Job /\ att[w] \in Nat
    BY <1>12 DEF BeginRun, WorkerTypeOK, Working
  <2>1. RedisTypeOK'
    BY <1>12, <2>0 DEF RedisTypeOK, BeginRun, Update, JobHash, JobStatus
  <2>2. WorkerTypeOK'
    BY <1>12 DEF WorkerTypeOK, BeginRun, Working, WorkerPC
  <2>3. AdminTypeOK'
    BY <1>12 DEF AdminTypeOK, BeginRun
  <2>4. HistoryTypeOK'
    BY <1>12 DEF HistoryTypeOK, BeginRun, WorkerTypeOK, AdminTypeOK, Working
  <2> QED
    BY <2>1, <2>2, <2>3, <2>4
<1>13. ASSUME NEW w \in Worker, RunSucceeds(w) PROVE TypeOK'
  <2>0. job[w] \in Job /\ att[w] \in Nat
    BY <1>13 DEF RunSucceeds, WorkerTypeOK, Working
  <2>1. RedisTypeOK'
    BY <1>13, <2>0 DEF RedisTypeOK, RunSucceeds, Update, JobHash, JobStatus
  <2>2. WorkerTypeOK'
    BY <1>13 DEF WorkerTypeOK, RunSucceeds, Working, WorkerPC
  <2>3. AdminTypeOK'
    BY <1>13 DEF AdminTypeOK, RunSucceeds
  <2>4. HistoryTypeOK'
    BY <1>13 DEF HistoryTypeOK, RunSucceeds
  <2> QED
    BY <2>1, <2>2, <2>3, <2>4
<1>14. ASSUME NEW w \in Worker, RunFails(w) PROVE TypeOK'
  <2>0. job[w] \in Job /\ att[w] + 1 \in Nat
    BY <1>14 DEF RunFails, WorkerTypeOK, Working
  <2>5. PICK s \in JobStatus :
           hash' = [hash EXCEPT ![job[w]] = [status |-> s, attempts |-> att[w] + 1]]
    BY <1>14 DEF RunFails, Update, JobStatus
  <2>1. RedisTypeOK'
    BY <1>14, <2>0, <2>5 DEF RedisTypeOK, RunFails, JobHash
  <2>2. WorkerTypeOK'
    BY <1>14 DEF WorkerTypeOK, RunFails, Working, WorkerPC
  <2>3. AdminTypeOK'
    BY <1>14 DEF AdminTypeOK, RunFails
  <2>4. HistoryTypeOK'
    BY <1>14 DEF HistoryTypeOK, RunFails
  <2> QED
    BY <2>1, <2>2, <2>3, <2>4
<1>15. ASSUME NEW w \in Worker, PushDead(w) PROVE TypeOK'
  <2>0. job[w] \in Job /\ att[w] \in Nat
    BY <1>15 DEF PushDead, WorkerTypeOK, Working
  <2>1. RedisTypeOK'
    BY <1>15, <2>0 DEF RedisTypeOK, PushDead
  <2>2. WorkerTypeOK'
    BY <1>15 DEF WorkerTypeOK, PushDead, Working, WorkerPC
  <2>3. AdminTypeOK'
    BY <1>15 DEF AdminTypeOK, PushDead
  <2>4. HistoryTypeOK'
    BY <1>15 DEF HistoryTypeOK, PushDead
  <2> QED
    BY <2>1, <2>2, <2>3, <2>4
<1>16. ASSUME NEW w \in Worker, PushRetry(w) PROVE TypeOK'
  <2>0. job[w] \in Job /\ att[w] \in Nat
    BY <1>16 DEF PushRetry, WorkerTypeOK, Working
  <2>1. RedisTypeOK'
    BY <1>16, <2>0 DEF RedisTypeOK, PushRetry, LPush
  <2>2. WorkerTypeOK'
    BY <1>16 DEF WorkerTypeOK, PushRetry, Working, WorkerPC
  <2>3. AdminTypeOK'
    BY <1>16 DEF AdminTypeOK, PushRetry
  <2>4. HistoryTypeOK'
    BY <1>16 DEF HistoryTypeOK, PushRetry
  <2> QED
    BY <2>1, <2>2, <2>3, <2>4
<1>17. ASSUME NEW w \in Worker, ReleaseLock(w) PROVE TypeOK'
  <2>1. RedisTypeOK'
    BY <1>17 DEF RedisTypeOK, ReleaseLock
  <2>2. WorkerTypeOK'
    BY <1>17 DEF WorkerTypeOK, ReleaseLock, Working, WorkerPC
  <2>3. AdminTypeOK'
    BY <1>17 DEF AdminTypeOK, ReleaseLock
  <2>4. HistoryTypeOK'
    BY <1>17 DEF HistoryTypeOK, ReleaseLock
  <2> QED
    BY <2>1, <2>2, <2>3, <2>4
<1>18. ASSUME NEW w \in Worker, ReleaseQuota(w) PROVE TypeOK'
  <2>1. RedisTypeOK'
    BY <1>18 DEF RedisTypeOK, ReleaseQuota
  <2>2. WorkerTypeOK'
    BY <1>18 DEF WorkerTypeOK, ReleaseQuota, Working, WorkerPC
  <2>3. AdminTypeOK'
    BY <1>18 DEF AdminTypeOK, ReleaseQuota
  <2>4. HistoryTypeOK'
    BY <1>18 DEF HistoryTypeOK, ReleaseQuota
  <2> QED
    BY <2>1, <2>2, <2>3, <2>4
<1>19. ASSUME NEW w \in Worker, Ack(w) PROVE TypeOK'
  <2>1. RedisTypeOK'
    BY <1>19, LRemType DEF RedisTypeOK, WorkerTypeOK, Working, Ack
  <2>2. WorkerTypeOK'
    BY <1>19 DEF WorkerTypeOK, Ack, Working, WorkerPC, NextRound
  <2>3. AdminTypeOK'
    BY <1>19 DEF AdminTypeOK, Ack
  <2>4. HistoryTypeOK'
    BY <1>19 DEF HistoryTypeOK, Ack
  <2> QED
    BY <2>1, <2>2, <2>3, <2>4
<1>20. ASSUME NEW w \in Worker, ClaimFails(w) PROVE TypeOK'
  <2>1. RedisTypeOK'
    BY <1>20 DEF RedisTypeOK, ClaimFails
  <2>2. WorkerTypeOK'
    BY <1>20 DEF WorkerTypeOK, ClaimFails, Working, WorkerPC, NextRound
  <2>3. AdminTypeOK'
    BY <1>20 DEF AdminTypeOK, ClaimFails
  <2>4. HistoryTypeOK'
    BY <1>20, SpendType DEF HistoryTypeOK, ClaimFails, Kinds
  <2> QED
    BY <2>1, <2>2, <2>3, <2>4
<1>21. ASSUME NEW w \in Worker, RetryRaises(w) PROVE TypeOK'
  <2>1. RedisTypeOK'
    BY <1>21 DEF RedisTypeOK, RetryRaises
  <2>2. WorkerTypeOK'
    BY <1>21 DEF WorkerTypeOK, RetryRaises, Working, WorkerPC
  <2>3. AdminTypeOK'
    BY <1>21 DEF AdminTypeOK, RetryRaises
  <2>4. HistoryTypeOK'
    BY <1>21, SpendType DEF HistoryTypeOK, RetryRaises, Kinds
  <2> QED
    BY <2>1, <2>2, <2>3, <2>4
<1>22. ASSUME NEW w \in Worker, Signal(w) PROVE TypeOK'
  <2>1. RedisTypeOK'
    BY <1>22 DEF RedisTypeOK, Signal
  <2>2. WorkerTypeOK'
    BY <1>22 DEF WorkerTypeOK, Signal, Working
  <2>3. AdminTypeOK'
    BY <1>22 DEF AdminTypeOK, Signal
  <2>4. HistoryTypeOK'
    BY <1>22, SpendType DEF HistoryTypeOK, Signal, Kinds
  <2> QED
    BY <2>1, <2>2, <2>3, <2>4
<1>23. ASSUME NEW w \in Worker, Crash(w) PROVE TypeOK'
  <2>1. RedisTypeOK'
    BY <1>23 DEF RedisTypeOK, Crash
  <2>2. WorkerTypeOK'
    BY <1>23 DEF WorkerTypeOK, Crash, Working, WorkerPC
  <2>3. AdminTypeOK'
    BY <1>23 DEF AdminTypeOK, Crash
  <2>4. HistoryTypeOK'
    BY <1>23, SpendType DEF HistoryTypeOK, Crash, Kinds
  <2> QED
    BY <2>1, <2>2, <2>3, <2>4
<1>24. ASSUME NEW a \in Admin, RequeueRead(a) PROVE TypeOK'
  <2>1. RedisTypeOK'
    BY <1>24 DEF RedisTypeOK, RequeueRead
  <2>2. WorkerTypeOK'
    BY <1>24 DEF WorkerTypeOK, RequeueRead, Working
  <2>3. AdminTypeOK'
    BY <1>24 DEF AdminTypeOK, RequeueRead, AdminPC, Return
  <2>4. HistoryTypeOK'
    BY <1>24 DEF HistoryTypeOK, RequeueRead
  <2> QED
    BY <2>1, <2>2, <2>3, <2>4
<1>25. ASSUME NEW a \in Admin, RequeueWrite(a) PROVE TypeOK'
  <2>1. RedisTypeOK'
    BY <1>25 DEF RedisTypeOK, RequeueWrite, Update, JobHash, JobStatus, AdminTypeOK
  <2>2. WorkerTypeOK'
    BY <1>25 DEF WorkerTypeOK, RequeueWrite, Working
  <2>3. AdminTypeOK'
    BY <1>25 DEF AdminTypeOK, RequeueWrite, AdminPC, Return
  <2>4. HistoryTypeOK'
    BY <1>25 DEF HistoryTypeOK, RequeueWrite, WorkerTypeOK, AdminTypeOK, Working
  <2> QED
    BY <2>1, <2>2, <2>3, <2>4
<1>26. ASSUME NEW a \in Admin, RequeuePush(a) PROVE TypeOK'
  <2>1. RedisTypeOK'
    BY <1>26 DEF RedisTypeOK, RequeuePush, LPush, AdminTypeOK
  <2>2. WorkerTypeOK'
    BY <1>26 DEF WorkerTypeOK, RequeuePush, Working
  <2>3. AdminTypeOK'
    BY <1>26 DEF AdminTypeOK, RequeuePush, AdminPC, Return
  <2>4. HistoryTypeOK'
    BY <1>26 DEF HistoryTypeOK, RequeuePush
  <2> QED
    BY <2>1, <2>2, <2>3, <2>4
<1>27. ASSUME NEW a \in Admin, AdminCrash(a) PROVE TypeOK'
  <2>1. RedisTypeOK'
    BY <1>27 DEF RedisTypeOK, AdminCrash
  <2>2. WorkerTypeOK'
    BY <1>27 DEF WorkerTypeOK, AdminCrash, Working
  <2>3. AdminTypeOK'
    BY <1>27 DEF AdminTypeOK, AdminCrash, AdminPC, Return
  <2>4. HistoryTypeOK'
    BY <1>27, SpendType DEF HistoryTypeOK, AdminCrash, Kinds
  <2> QED
    BY <2>1, <2>2, <2>3, <2>4
<1>28. ASSUME NEW a \in Admin, NEW j \in Job, RequeueRemove(a, j) PROVE TypeOK'
  <2>1. RedisTypeOK'
    BY <1>28 DEF RedisTypeOK, RequeueRemove
  <2>2. WorkerTypeOK'
    BY <1>28 DEF WorkerTypeOK, RequeueRemove, Working
  <2>3. AdminTypeOK'
    BY <1>28 DEF AdminTypeOK, RequeueRemove, AdminPC, Return
  <2>4. HistoryTypeOK'
    BY <1>28, SpendType DEF HistoryTypeOK, RequeueRemove, Kinds
  <2> QED
    BY <2>1, <2>2, <2>3, <2>4
<1>29. ASSUME NEW r \in Repo, LockExpires(r) PROVE TypeOK'
  <2>1. RedisTypeOK'
    BY <1>29 DEF RedisTypeOK, LockExpires
  <2>2. WorkerTypeOK'
    BY <1>29 DEF WorkerTypeOK, LockExpires, Working
  <2>3. AdminTypeOK'
    BY <1>29 DEF AdminTypeOK, LockExpires
  <2>4. HistoryTypeOK'
    BY <1>29, SpendType DEF HistoryTypeOK, LockExpires, Kinds
  <2> QED
    BY <2>1, <2>2, <2>3, <2>4
<1>30. CASE UNCHANGED vars
  BY <1>30 DEF vars, RedisTypeOK, WorkerTypeOK, AdminTypeOK, HistoryTypeOK,
             Working
<1>31. ASSUME NEW w \in Worker, ReleaseFails(w) PROVE TypeOK'
  <2>1. RedisTypeOK'
    BY <1>31 DEF RedisTypeOK, ReleaseFails, redisVars
  <2>2. WorkerTypeOK'
    BY <1>31 DEF WorkerTypeOK, ReleaseFails, Working, WorkerPC
  <2>3. AdminTypeOK'
    BY <1>31 DEF AdminTypeOK, ReleaseFails
  <2>4. HistoryTypeOK'
    BY <1>31, SpendType DEF HistoryTypeOK, ReleaseFails, Kinds
  <2> QED
    BY <2>1, <2>2, <2>3, <2>4
<1> QED
  BY <1>1, <1>2, <1>3, <1>4, <1>5, <1>6, <1>7, <1>8, <1>9, <1>10, <1>11,
     <1>12, <1>13, <1>14, <1>15, <1>16, <1>17, <1>18, <1>19, <1>20, <1>21,
     <1>22, <1>23, <1>24, <1>25, <1>26, <1>27, <1>28, <1>29, <1>30, <1>31 DEF Next,
     WorkerStep, WorkerFault, AdminStep

\* Every reachable state is type correct; in particular the job in a worker's
\* hands is a job, and no budget is exceeded.
THEOREM TypeCorrect == Spec => []TypeOK
<1> QED
  BY InitType, NextType, PTL DEF Spec

-----------------------------------------------------------------------------
\* Mutual exclusion of the runs of one repository

\* RepoMutex alone is not inductive: that acquire_repo_lock found no lock says
\* nothing of the runs in progress unless every one of them owns its lock.
MutexInv ==
    /\ \A w \in Worker : ~overran[w]
    /\ RunOwnsLock
    /\ RepoMutex

\* A step that leaves the locks alone and starts no run keeps MutexInv.
LEMMA MutexFrame ==
  ASSUME MutexInv, lock' = lock,
         \A w \in Worker : /\ ~overran'[w]
                           /\ Critical(w)' => Critical(w) /\ job'[w] = job[w]
  PROVE  MutexInv'
BY DEF MutexInv, RunOwnsLock, RepoMutex

\* With a zero budget the overruns do not occur.
LEMMA NoSpend ==
  ASSUME NEW kind \in Kinds, Budget[kind] = 0, HistoryTypeOK, Spend(kind)
  PROVE  FALSE
<1>1. spent[kind] \in Nat /\ spent[kind] < 0
  BY DEF HistoryTypeOK, Spend
<1> QED
  BY <1>1

\* SET NX succeeds only when no run of the repository is under way.
LEMMA AcquireMutex ==
  ASSUME TypeOK, MutexInv, NEW w \in Worker, AcquireLock(w)
  PROVE  MutexInv'
<1> DEFINE r == RepoOf[job[w]]
<1>0. job[w] \in Job /\ r \in Repo
  BY RepoAssumption DEF TypeOK, WorkerTypeOK, Working, AcquireLock
<1>1. CASE lock[r] # NoJob
  <2>1. lock' = lock
    BY <1>1 DEF AcquireLock
  <2>2. \A v \in Worker : /\ ~overran'[v]
                          /\ Critical(v)' => Critical(v) /\ job'[v] = job[v]
    BY <1>1 DEF AcquireLock, Critical, Goto, TypeOK, WorkerTypeOK, MutexInv
  <2> QED
    BY <2>1, <2>2, MutexFrame
<1>2. CASE lock[r] = NoJob
  <2>1. lock' = [lock EXCEPT ![r] = job[w]] /\ job' = job /\ overran' = overran
    BY <1>2 DEF AcquireLock
  <2>2. \A v \in Worker : Critical(v)' => Critical(v) \/ v = w
    BY <1>2 DEF AcquireLock, Critical, Goto, TypeOK, WorkerTypeOK
  <2>3. \A v \in Worker : Critical(v) => job[v] \in Job
    BY DEF TypeOK, WorkerTypeOK, Working, Critical
  <2>4. \A v \in Worker : Critical(v) => RepoOf[job[v]] # r
    BY <1>2, <2>3, JobAssumption DEF MutexInv, RunOwnsLock
  <2>5. RunOwnsLock'
    BY <1>0, <2>1, <2>2, <2>3, <2>4, RepoAssumption
       DEF MutexInv, RunOwnsLock, TypeOK, RedisTypeOK
  <2>6. RepoMutex'
    BY <2>1, <2>2, <2>4 DEF MutexInv, RepoMutex
  <2> QED
    BY <2>1, <2>5, <2>6 DEF MutexInv
<1> QED
  BY <1>1, <1>2

\* The release of a run's lock takes no other run's lock away.
LEMMA ReleaseMutex ==
  ASSUME TypeOK, MutexInv, NEW w \in Worker, ReleaseLock(w)
  PROVE  MutexInv'
<1> DEFINE r == RepoOf[job[w]]
<1>1. job' = job /\ Critical(w)
  BY DEF ReleaseLock, Critical
<1>2. \A v \in Worker : Critical(v)' => Critical(v) /\ v # w
  BY DEF ReleaseLock, Critical, Goto, TypeOK, WorkerTypeOK
<1>3. \A v \in Worker : ~overran'[v]
  BY DEF ReleaseLock, MutexInv, TypeOK, HistoryTypeOK
<1>4. \A v \in Worker : Critical(v)' => RepoOf[job[v]] # r
  BY <1>1, <1>2 DEF MutexInv, RepoMutex
<1>5. \A q \in Repo : q # r => lock'[q] = lock[q]
  BY DEF ReleaseLock, TypeOK, RedisTypeOK
<1>6. \A v \in Worker : Critical(v) => RepoOf[job[v]] \in Repo
  BY RepoAssumption DEF TypeOK, WorkerTypeOK, Working, Critical
<1>7. RunOwnsLock'
  BY <1>1, <1>2, <1>3, <1>4, <1>5, <1>6 DEF MutexInv, RunOwnsLock
<1>8. RepoMutex'
  BY <1>1, <1>2 DEF MutexInv, RepoMutex
<1> QED
  BY <1>3, <1>7, <1>8 DEF MutexInv

\* Without overruns a lock expires only when no run relies on it.
LEMMA ExpireMutex ==
  ASSUME TypeOK, MutexInv, Budget["overrun"] = 0, NEW r \in Repo, LockExpires(r)
  PROVE  MutexInv'
<1>1. Holders(r) = {}
  BY NoSpend DEF LockExpires, TypeOK, Kinds
<1>2. \A v \in Worker : Critical(v) => RepoOf[job[v]] # r
  BY <1>1 DEF Holders, MutexInv
<1>3. \A v \in Worker : ~overran'[v]
  BY <1>1 DEF LockExpires, MutexInv
<1>4. \A q \in Repo : q # r => lock'[q] = lock[q]
  BY DEF LockExpires, TypeOK, RedisTypeOK
<1>5. \A v \in Worker : Critical(v) => RepoOf[job[v]] \in Repo
  BY RepoAssumption DEF TypeOK, WorkerTypeOK, Working, Critical
<1>6. pc' = pc /\ job' = job
  BY DEF LockExpires
<1> QED
  BY <1>2, <1>3, <1>4, <1>5, <1>6 DEF MutexInv, RunOwnsLock, RepoMutex, Critical

\* No step lets two runs of a repository overlap or takes a run's lock away.
LEMMA NextMutex ==
  ASSUME TypeOK, MutexInv, Budget["overrun"] = 0, [Next]_vars
  PROVE  MutexInv'
<1> DEFINE Calm == /\ lock' = lock
                   /\ \A v \in Worker :
                        /\ ~overran'[v]
                        /\ Critical(v)' => Critical(v) /\ job'[v] = job[v]
<1>0. Calm => MutexInv'
  BY MutexFrame
<1> USE DEF TypeOK, WorkerTypeOK, HistoryTypeOK, MutexInv, Critical, Goto, NextRound,
        redisVars
<1>1. ASSUME NEW j \in Job, Enqueue(j) PROVE MutexInv'
  BY <1>0, <1>1 DEF Enqueue
<1>2. ASSUME NEW j \in Job, HashExpires(j) PROVE MutexInv'
  BY <1>0, <1>2 DEF HashExpires
<1>3. ASSUME NEW w \in Worker, Start(w) PROVE MutexInv'
  BY <1>0, <1>3 DEF Start
<1>4. ASSUME NEW w \in Worker, RecoverOne(w) PROVE MutexInv'
  BY <1>0, <1>4 DEF RecoverOne
<1>5. ASSUME NEW w \in Worker, RecoverDone(w) PROVE MutexInv'
  BY <1>0, <1>5 DEF RecoverDone
<1>6. ASSUME NEW w \in Worker, Claim(w) PROVE MutexInv'
  BY <1>0, <1>6 DEF Claim
<1>7. ASSUME NEW w \in Worker, ClaimTimeout(w) PROVE MutexInv'
  BY <1>0, <1>7 DEF ClaimTimeout
<1>8. ASSUME NEW w \in Worker, Load(w) PROVE MutexInv'
  BY <1>0, <1>8 DEF Load
<1>9. ASSUME NEW w \in Worker, Drop(w) PROVE MutexInv'
  BY <1>0, <1>9 DEF Drop
<1>10. ASSUME NEW w \in Worker, AcquireLock(w) PROVE MutexInv'
  BY <1>10, AcquireMutex
<1>11. ASSUME NEW w \in Worker, PushBusy(w) PROVE MutexInv'
  BY <1>0, <1>11 DEF PushBusy
<1>12. ASSUME NEW w \in Worker, BeginRun(w) PROVE MutexInv'
  BY <1>0, <1>12 DEF BeginRun
<1>13. ASSUME NEW w \in Worker, RunSucceeds(w) PROVE MutexInv'
  BY <1>0, <1>13 DEF RunSucceeds
<1>14. ASSUME NEW w \in Worker, RunFails(w) PROVE MutexInv'
  BY <1>0, <1>14 DEF RunFails
<1>15. ASSUME NEW w \in Worker, PushDead(w) PROVE MutexInv'
  BY <1>0, <1>15 DEF PushDead
<1>16. ASSUME NEW w \in Worker, PushRetry(w) PROVE MutexInv'
  BY <1>0, <1>16 DEF PushRetry
<1>17. ASSUME NEW w \in Worker, ReleaseLock(w) PROVE MutexInv'
  BY <1>17, ReleaseMutex
<1>18. ASSUME NEW w \in Worker, ReleaseQuota(w) PROVE MutexInv'
  BY <1>0, <1>18 DEF ReleaseQuota
<1>19. ASSUME NEW w \in Worker, Ack(w) PROVE MutexInv'
  BY <1>0, <1>19 DEF Ack
<1>20. ASSUME NEW w \in Worker, ClaimFails(w) PROVE MutexInv'
  BY <1>0, <1>20 DEF ClaimFails
<1>21. ASSUME NEW w \in Worker, RetryRaises(w) PROVE MutexInv'
  BY <1>0, <1>21 DEF RetryRaises
<1>22. ASSUME NEW w \in Worker, Signal(w) PROVE MutexInv'
  BY <1>0, <1>22 DEF Signal
<1>23. ASSUME NEW w \in Worker, Crash(w) PROVE MutexInv'
  BY <1>0, <1>23 DEF Crash
<1>24. ASSUME NEW a \in Admin, RequeueRead(a) PROVE MutexInv'
  BY <1>0, <1>24 DEF RequeueRead
<1>25. ASSUME NEW a \in Admin, RequeueWrite(a) PROVE MutexInv'
  BY <1>0, <1>25 DEF RequeueWrite
<1>26. ASSUME NEW a \in Admin, RequeuePush(a) PROVE MutexInv'
  BY <1>0, <1>26 DEF RequeuePush
<1>27. ASSUME NEW a \in Admin, AdminCrash(a) PROVE MutexInv'
  BY <1>0, <1>27 DEF AdminCrash
<1>28. ASSUME NEW a \in Admin, NEW j \in Job, RequeueRemove(a, j) PROVE MutexInv'
  BY <1>0, <1>28 DEF RequeueRemove
<1>29. ASSUME NEW r \in Repo, LockExpires(r) PROVE MutexInv'
  BY <1>29, ExpireMutex
<1>30. CASE UNCHANGED vars
  BY <1>0, <1>30 DEF vars
<1>31. ASSUME NEW w \in Worker, ReleaseFails(w) PROVE MutexInv'
  BY <1>0, <1>31 DEF ReleaseFails
<1> QED
  BY <1>1, <1>2, <1>3, <1>4, <1>5, <1>6, <1>7, <1>8, <1>9, <1>10, <1>11,
     <1>12, <1>13, <1>14, <1>15, <1>16, <1>17, <1>18, <1>19, <1>20, <1>21,
     <1>22, <1>23, <1>24, <1>25, <1>26, <1>27, <1>28, <1>29, <1>30, <1>31 DEF Next,
     WorkerStep, WorkerFault, AdminStep

\* Runs of jobs of one repository never overlap as long as no run outlives
\* REPO_LOCK_TTL, whatever crashes, errors, expired hashes and duplicated ids
\* there are; each run owns the lock of its repository until it releases it.
THEOREM MutualExclusion ==
  ASSUME Budget["overrun"] = 0
  PROVE  Spec => [](RepoMutex /\ RunOwnsLock)
<1>1. Init => MutexInv
  BY DEF Init, MutexInv, RunOwnsLock, RepoMutex, Critical
<1>2. TypeOK /\ MutexInv /\ [Next]_vars => MutexInv'
  BY NextMutex
<1>3. MutexInv => RepoMutex /\ RunOwnsLock
  BY DEF MutexInv
<1> QED
  BY <1>1, <1>2, <1>3, TypeCorrect, PTL DEF Spec

\* As long as the TTL has not run out under it, a run owns the lock of its
\* repository, whatever other runs release, crash or retry.
THEOREM RunsOwnTheirLock ==
  ASSUME Budget["overrun"] = 0
  PROVE  Spec => []RunOwnsLock
<1> QED
  BY MutualExclusion, PTL

-----------------------------------------------------------------------------
\* The job in hand is recoverable

\* InHandIsRecoverable is not inductive without the owner of each list.
HandInv == /\ \A w \in Worker : wid[w] \in Ids[w]
           /\ InHandIsRecoverable

\* Two workers never use one processing list.
LEMMA DistinctIds ==
  ASSUME UniqueIds, HandInv
  PROVE  \A v, w \in Worker : v # w => wid[v] # wid[w]
BY DEF UniqueIds, HandInv

\* A step that takes nothing off a list and gives no worker a job keeps HandInv.
LEMMA HandFrame ==
  ASSUME HandInv, processing' = processing, wid' = wid,
         \A w \in Worker : Working(w)' => Working(w) /\ job'[w] = job[w]
  PROVE  HandInv'
BY DEF HandInv, InHandIsRecoverable

\* LREM by the worker that owns the list, which then has no job any more.
LEMMA LRemHand ==
  ASSUME TypeOK, UniqueIds, HandInv, NEW w \in Worker, job[w] \in Job,
         LRem(w), NextRound(w), wid' = wid
  PROVE  HandInv'
<1>1. \A v \in Worker : v # w => /\ wid[v] # wid[w]
                                 /\ job'[v] = job[v] /\ pc'[v] = pc[v]
  BY DistinctIds DEF NextRound, Goto, TypeOK, WorkerTypeOK
<1>2. \A v \in Worker : v # w => processing'[wid[v]] = processing[wid[v]]
  BY <1>1 DEF LRem, TypeOK, RedisTypeOK, WorkerTypeOK
<1>3. ~Working(w)'
  BY DEF NextRound, Goto, Working, TypeOK, WorkerTypeOK
<1> QED
  BY <1>1, <1>2, <1>3 DEF HandInv, InHandIsRecoverable, Working

\* BRPOPLPUSH puts the id a worker takes in hand on that worker's own list.
LEMMA ClaimHand ==
  ASSUME TypeOK, UniqueIds, HandInv, NEW w \in Worker, Claim(w)
  PROVE  HandInv'
<1> DEFINE h == Head(queue)
<1>1. h \in Job
  BY DEF Claim, TypeOK, RedisTypeOK
<1>2. \A v \in Worker : v # w => /\ wid[v] # wid[w]
                                 /\ job'[v] = job[v] /\ pc'[v] = pc[v]
  BY DistinctIds DEF Claim, Goto, TypeOK, WorkerTypeOK
<1> HIDE DEF h
<1>3. processing' = [processing EXCEPT ![wid[w]][h] = @ + 1] /\ job'[w] = h /\ wid' = wid
  BY DEF Claim, TypeOK, WorkerTypeOK, h
<1>4. wid[w] \in WorkerId /\ processing[wid[w]][h] \in Nat
  BY <1>1 DEF TypeOK, RedisTypeOK, WorkerTypeOK
<1>5. processing'[wid[w]][h] = processing[wid[w]][h] + 1
  BY <1>1, <1>3, <1>4 DEF TypeOK, RedisTypeOK
<1>6. processing'[wid[w]][h] > 0
  BY <1>4, <1>5
<1>7. \A v \in Worker : v # w => processing'[wid[v]] = processing[wid[v]]
  BY <1>2, <1>3 DEF TypeOK, RedisTypeOK, WorkerTypeOK
<1> QED
  BY <1>2, <1>3, <1>6, <1>7 DEF HandInv, InHandIsRecoverable, Working

\* recover_orphans empties the list of a worker that has no job in hand.
LEMMA RecoverHand ==
  ASSUME TypeOK, UniqueIds, HandInv, NEW w \in Worker, RecoverOne(w)
  PROVE  HandInv'
<1>1. \A v \in Worker : Working(v) => wid[v] # wid[w]
  BY DistinctIds DEF RecoverOne, Working
<1>2. \A v \in Worker : Working(v) => processing'[wid[v]] = processing[wid[v]]
  BY <1>1 DEF RecoverOne, TypeOK, RedisTypeOK, WorkerTypeOK
<1>3. pc' = pc /\ job' = job /\ wid' = wid
  BY DEF RecoverOne
<1> QED
  BY <1>2, <1>3 DEF HandInv, InHandIsRecoverable, Working

\* A worker starts under one of its own ids and without a job in hand.
LEMMA StartHand ==
  ASSUME TypeOK, HandInv, NEW w \in Worker, Start(w)
  PROVE  HandInv'
<1>1. wid'[w] \in Ids[w] /\ ~Working(w)'
  BY DEF Start, Goto, Working, TypeOK, WorkerTypeOK
<1>2. \A v \in Worker : v # w => wid'[v] = wid[v] /\ pc'[v] = pc[v]
  BY DEF Start, Goto, TypeOK, WorkerTypeOK
<1>3. processing' = processing /\ job' = job
  BY DEF Start, redisVars
<1> QED
  BY <1>1, <1>2, <1>3 DEF HandInv, InHandIsRecoverable, Working

\* No step takes a job in hand off its worker's list.
LEMMA NextHand ==
  ASSUME TypeOK, UniqueIds, HandInv, [Next]_vars
  PROVE  HandInv'
<1> DEFINE Calm == /\ processing' = processing /\ wid' = wid
                   /\ \A v \in Worker :
                        Working(v)' => Working(v) /\ job'[v] = job[v]
<1>0. Calm => HandInv'
  BY HandFrame
<1> USE DEF TypeOK, WorkerTypeOK, Working, Goto, redisVars
<1>1. ASSUME NEW j \in Job, Enqueue(j) PROVE HandInv'
  BY <1>0, <1>1 DEF Enqueue
<1>2. ASSUME NEW j \in Job, HashExpires(j) PROVE HandInv'
  BY <1>0, <1>2 DEF HashExpires
<1>3. ASSUME NEW w \in Worker, Start(w) PROVE HandInv'
  BY <1>3, StartHand
<1>4. ASSUME NEW w \in Worker, RecoverOne(w) PROVE HandInv'
  BY <1>4, RecoverHand
<1>5. ASSUME NEW w \in Worker, RecoverDone(w) PROVE HandInv'
  BY <1>0, <1>5 DEF RecoverDone, NextRound
<1>6. ASSUME NEW w \in Worker, Claim(w) PROVE HandInv'
  BY <1>6, ClaimHand
<1>7. ASSUME NEW w \in Worker, ClaimTimeout(w) PROVE HandInv'
  BY <1>0, <1>7 DEF ClaimTimeout, NextRound
<1>8. ASSUME NEW w \in Worker, Load(w) PROVE HandInv'
  BY <1>0, <1>8 DEF Load
<1>9. ASSUME NEW w \in Worker, Drop(w) PROVE HandInv'
  BY <1>9, LRemHand DEF Drop
<1>10. ASSUME NEW w \in Worker, AcquireLock(w) PROVE HandInv'
  BY <1>0, <1>10 DEF AcquireLock
<1>11. ASSUME NEW w \in Worker, PushBusy(w) PROVE HandInv'
  BY <1>0, <1>11 DEF PushBusy
<1>12. ASSUME NEW w \in Worker, BeginRun(w) PROVE HandInv'
  BY <1>0, <1>12 DEF BeginRun
<1>13. ASSUME NEW w \in Worker, RunSucceeds(w) PROVE HandInv'
  BY <1>0, <1>13 DEF RunSucceeds
<1>14. ASSUME NEW w \in Worker, RunFails(w) PROVE HandInv'
  BY <1>0, <1>14 DEF RunFails
<1>15. ASSUME NEW w \in Worker, PushDead(w) PROVE HandInv'
  BY <1>0, <1>15 DEF PushDead
<1>16. ASSUME NEW w \in Worker, PushRetry(w) PROVE HandInv'
  BY <1>0, <1>16 DEF PushRetry
<1>17. ASSUME NEW w \in Worker, ReleaseLock(w) PROVE HandInv'
  BY <1>0, <1>17 DEF ReleaseLock
<1>18. ASSUME NEW w \in Worker, ReleaseQuota(w) PROVE HandInv'
  BY <1>0, <1>18 DEF ReleaseQuota
<1>19. ASSUME NEW w \in Worker, Ack(w) PROVE HandInv'
  BY <1>19, LRemHand DEF Ack
<1>20. ASSUME NEW w \in Worker, ClaimFails(w) PROVE HandInv'
  BY <1>0, <1>20 DEF ClaimFails, NextRound
<1>21. ASSUME NEW w \in Worker, RetryRaises(w) PROVE HandInv'
  BY <1>0, <1>21 DEF RetryRaises
<1>22. ASSUME NEW w \in Worker, Signal(w) PROVE HandInv'
  BY <1>0, <1>22 DEF Signal
<1>23. ASSUME NEW w \in Worker, Crash(w) PROVE HandInv'
  BY <1>0, <1>23 DEF Crash
<1>24. ASSUME NEW a \in Admin, RequeueRead(a) PROVE HandInv'
  BY <1>0, <1>24 DEF RequeueRead
<1>25. ASSUME NEW a \in Admin, RequeueWrite(a) PROVE HandInv'
  BY <1>0, <1>25 DEF RequeueWrite
<1>26. ASSUME NEW a \in Admin, RequeuePush(a) PROVE HandInv'
  BY <1>0, <1>26 DEF RequeuePush
<1>27. ASSUME NEW a \in Admin, AdminCrash(a) PROVE HandInv'
  BY <1>0, <1>27 DEF AdminCrash
<1>28. ASSUME NEW a \in Admin, NEW j \in Job, RequeueRemove(a, j) PROVE HandInv'
  BY <1>0, <1>28 DEF RequeueRemove
<1>29. ASSUME NEW r \in Repo, LockExpires(r) PROVE HandInv'
  BY <1>0, <1>29 DEF LockExpires
<1>30. CASE UNCHANGED vars
  BY <1>0, <1>30 DEF vars
<1>31. ASSUME NEW w \in Worker, ReleaseFails(w) PROVE HandInv'
  BY <1>0, <1>31 DEF ReleaseFails
<1> QED
  BY <1>1, <1>2, <1>3, <1>4, <1>5, <1>6, <1>7, <1>8, <1>9, <1>10, <1>11,
     <1>12, <1>13, <1>14, <1>15, <1>16, <1>17, <1>18, <1>19, <1>20, <1>21,
     <1>22, <1>23, <1>24, <1>25, <1>26, <1>27, <1>28, <1>29, <1>30, <1>31 DEF Next,
     WorkerStep, WorkerFault, AdminStep

\* With a processing list of its own each worker can lose nothing it has
\* claimed: until ack (or the drop of a stale id) the job in its hands is in
\* its list, under every kind of fault.
THEOREM HandRecoverable ==
  ASSUME UniqueIds
  PROVE  Spec => []InHandIsRecoverable
<1>1. Init => HandInv
  BY DEF Init, HandInv, InHandIsRecoverable, Working
<1>2. TypeOK /\ HandInv /\ [Next]_vars => HandInv'
  BY NextHand
<1>3. HandInv => InHandIsRecoverable
  BY DEF HandInv
<1> QED
  BY <1>1, <1>2, <1>3, TypeCorrect, PTL DEF Spec

-----------------------------------------------------------------------------
\* No job is lost

\* A job id that has not been enqueued is nowhere.
Nowhere(j) == /\ ~Queued(j)
              /\ \A i \in WorkerId : processing[i][j] = 0
              /\ dlq[j] = 0
              /\ \A w \in Worker : job[w] # j
              /\ \A a \in Admin : ~InHand(a, j)

FreshInv == \A j \in Job : hash[j].status = "none" => Nowhere(j)

\* The disjunction of NoJobLost for one job.
Safe(j) == \/ Queued(j)
           \/ \E i \in WorkerId : Kept(i, j) > 0
           \/ dlq[j] > 0
           \/ \E a \in Admin : InHand(a, j)

\* The inductive invariant: a worker or an administrator never finds a hash
\* missing (so it never drops an id for that reason), and what a worker has in
\* hand is in its own list.
LossInv ==
    /\ HandInv
    /\ FreshInv
    /\ \A j \in Job : hash[j].status # "expired"
    /\ \A w \in Worker : pc[w] # "drop"
    /\ \A j \in Job : Unfinished(j) => Safe(j)

\* Faults under which a job can be lost: a Redis command that fails inside
\* retry_or_dead, a hash that expires, a death inside requeue_dead.
NoLossFaults == /\ Budget["error"] = 0
                /\ Budget["expiry"] = 0
                /\ Budget["adminCrash"] = 0

\* After an LPUSH of j the queue holds j and what it held before, nothing else.
LEMMA QueuedAppend ==
  ASSUME queue \in Seq(Job), NEW j \in Job, LPush(j)
  PROVE  /\ Queued(j)'
         /\ \A k \in Job : Queued(k)' <=> Queued(k) \/ k = j
<1>1. /\ Len(queue') = Len(queue) + 1
      /\ \A i \in 1..Len(queue) : queue'[i] = queue[i]
      /\ queue'[Len(queue) + 1] = j
      /\ Len(queue) \in Nat
  BY DEF LPush
<1> QED
  BY <1>1 DEF Queued

\* BRPOPLPUSH takes the head off the queue and leaves every other id in it.
LEMMA QueuedTail ==
  ASSUME queue \in Seq(Job), queue # <<>>, queue' = Tail(queue)
  PROVE  /\ Head(queue) \in Job
         /\ Queued(Head(queue))
         /\ \A k \in Job : Queued(k)' => Queued(k)
         /\ \A k \in Job : Queued(k) => Queued(k)' \/ k = Head(queue)
<1>1. /\ Len(queue') = Len(queue) - 1
      /\ \A i \in 1..Len(queue') : queue'[i] = queue[i + 1]
      /\ Head(queue) = queue[1]
      /\ Len(queue) \in Nat \ {0}
  OBVIOUS
<1>2. ASSUME NEW k \in Job, Queued(k)' PROVE Queued(k)
  <2>1. PICK i \in 1..Len(queue') : queue'[i] = k
    BY <1>2 DEF Queued
  <2>2. i + 1 \in 1..Len(queue) /\ queue[i + 1] = k
    BY <1>1, <2>1
  <2> QED
    BY <2>2 DEF Queued
<1>3. ASSUME NEW k \in Job, Queued(k), k # Head(queue) PROVE Queued(k)'
  <2>1. PICK i \in 1..Len(queue) : queue[i] = k
    BY <1>3 DEF Queued
  <2>2. i # 1 /\ i - 1 \in 1..Len(queue')
    BY <1>1, <1>3, <2>1
  <2>3. queue'[i - 1] = k
    BY <1>1, <2>1, <2>2
  <2> QED
    BY <2>2, <2>3 DEF Queued
<1> QED
  BY <1>1, <1>2, <1>3 DEF Queued

\* The job a worker has in hand after a step is kept, unless it is about to
\* remove it.
LEMMA SafeInHand ==
  ASSUME TypeOK', UniqueIds, HandInv', NEW w \in Worker, Working(w)', ~Leftover(w)'
  PROVE  Safe(job[w])'
<1>1. \A v \in Worker : wid'[v] = wid'[w] => v = w
  BY DEF UniqueIds, HandInv
<1>2. Kept(wid[w], job[w])' = processing'[wid'[w]][job'[w]]
  BY <1>1 DEF Kept
<1>3. wid'[w] \in WorkerId /\ Kept(wid[w], job[w])' > 0
  BY <1>2 DEF HandInv, InHandIsRecoverable, TypeOK, WorkerTypeOK
<1> QED
  BY <1>3 DEF Safe

\* A list keeps what it kept when its entry of j is untouched and no worker
\* newly prepares to remove j from it.
LEMMA KeptFrame ==
  ASSUME TypeOK, NEW i \in WorkerId, NEW j \in Job,
         processing'[i][j] = processing[i][j],
         \A w \in Worker : (wid'[w] = i /\ Leftover(w)' /\ job'[w] = j)
                           => (wid[w] = i /\ Leftover(w) /\ job[w] = j),
         Kept(i, j) > 0
  PROVE  Kept(i, j)' > 0
<1>1. processing[i][j] \in Nat
  BY DEF TypeOK, RedisTypeOK
<1> QED
  BY <1>1 DEF Kept

\* A step that touches no place of k leaves it safe.
LEMMA SafeFrame ==
  ASSUME TypeOK, NEW k \in Job, Safe(k),
         \A i \in WorkerId : processing'[i][k] = processing[i][k],
         dlq'[k] = dlq[k],
         \A a \in Admin : InHand(a, k) => InHand(a, k)',
         Queued(k) => Queued(k)',
         \A w \in Worker : (Leftover(w)' /\ job'[w] = k)
                           => (wid[w] = wid'[w] /\ Leftover(w) /\ job[w] = k)
  PROVE  Safe(k)'
<1>1. CASE Queued(k)
  BY <1>1 DEF Safe
<1>2. ASSUME NEW i \in WorkerId, Kept(i, k) > 0 PROVE Safe(k)'
  <2>1. Kept(i, k)' > 0
    BY <1>2, KeptFrame
  <2> QED
    BY <2>1 DEF Safe
<1>3. CASE dlq[k] > 0
  BY <1>3 DEF Safe
<1>4. ASSUME NEW a \in Admin, InHand(a, k) PROVE Safe(k)'
  BY <1>4 DEF Safe
<1> QED
  BY <1>1, <1>2, <1>3, <1>4 DEF Safe

\* No step brings the id of a job that has not been enqueued anywhere.
LEMMA NextFresh ==
  ASSUME TypeOK, FreshInv, Next
  PROVE  FreshInv'
<1> SUFFICES ASSUME NEW k \in Job, hash'[k].status = "none" PROVE Nowhere(k)'
  BY DEF FreshInv
<1> USE DEF TypeOK, RedisTypeOK, FreshInv, Nowhere, redisVars, adminVars
<1>1. ASSUME NEW j \in Job, Enqueue(j) PROVE Nowhere(k)'
  BY <1>1, QueuedAppend DEF Enqueue, Update, InHand
<1>2. ASSUME NEW j \in Job, HashExpires(j) PROVE Nowhere(k)'
  BY <1>2 DEF HashExpires, Queued, InHand
<1>3. ASSUME NEW w \in Worker, Start(w) PROVE Nowhere(k)'
  BY <1>3 DEF Start, Queued, InHand, WorkerTypeOK
<1>4. ASSUME NEW w \in Worker, RecoverOne(w) PROVE Nowhere(k)'
  BY <1>4, QueuedAppend DEF RecoverOne, InHand, WorkerTypeOK
<1>5. ASSUME NEW w \in Worker, RecoverDone(w) PROVE Nowhere(k)'
  BY <1>5, JobAssumption DEF RecoverDone, Queued, NextRound, InHand, WorkerTypeOK
<1>6. ASSUME NEW w \in Worker, Claim(w) PROVE Nowhere(k)'
  BY <1>6, QueuedTail DEF Claim, NextRound, InHand, WorkerTypeOK
<1>7. ASSUME NEW w \in Worker, ClaimTimeout(w) PROVE Nowhere(k)'
  BY <1>7, JobAssumption DEF ClaimTimeout, Queued, NextRound, InHand, WorkerTypeOK
<1>8. ASSUME NEW w \in Worker, Load(w) PROVE Nowhere(k)'
  BY <1>8 DEF Load, Queued, InHand, WorkerTypeOK
<1>9. ASSUME NEW w \in Worker, Drop(w) PROVE Nowhere(k)'
  <2>1. Nowhere(k) /\ k # job[w] /\ job[w] \in Job
    BY <1>9 DEF Drop, WorkerTypeOK, Working
  <2>2. \A i \in WorkerId : processing'[i][k] = processing[i][k]
    BY <1>9, <2>1 DEF Drop, LRem
  <2>3. \A v \in Worker : job'[v] # k
    BY <1>9, <2>1, JobAssumption DEF Drop, NextRound, WorkerTypeOK
  <2> QED
    BY <1>9, <2>1, <2>2, <2>3 DEF Drop, Queued, InHand
<1>10. ASSUME NEW w \in Worker, AcquireLock(w) PROVE Nowhere(k)'
  BY <1>10 DEF AcquireLock, Queued, InHand, WorkerTypeOK
<1>11. ASSUME NEW w \in Worker, PushBusy(w) PROVE Nowhere(k)'
  <2>1. job[w] \in Job
    BY <1>11 DEF PushBusy, WorkerTypeOK, Working
  <2>2. Nowhere(k) /\ k # job[w]
    BY <1>11 DEF PushBusy
  <2> QED
    BY <1>11, <2>1, <2>2, QueuedAppend DEF PushBusy, InHand
<1>12. ASSUME NEW w \in Worker, BeginRun(w) PROVE Nowhere(k)'
  BY <1>12 DEF BeginRun, Queued, Update, InHand, WorkerTypeOK
<1>13. ASSUME NEW w \in Worker, RunSucceeds(w) PROVE Nowhere(k)'
  BY <1>13 DEF RunSucceeds, Queued, Update, InHand, WorkerTypeOK
<1>14. ASSUME NEW w \in Worker, RunFails(w) PROVE Nowhere(k)'
  <2>1. PICK s \in {"dead", "pending"} :
           hash' = [hash EXCEPT ![job[w]] = [status |-> s, attempts |-> att[w] + 1]]
    BY <1>14 DEF RunFails, Update
  <2>2. hash[k].status = "none"
    BY <2>1
  <2> QED
    BY <1>14, <2>2 DEF RunFails, Queued, InHand
<1>15. ASSUME NEW w \in Worker, PushDead(w) PROVE Nowhere(k)'
  BY <1>15 DEF PushDead, Queued, InHand, WorkerTypeOK
<1>16. ASSUME NEW w \in Worker, PushRetry(w) PROVE Nowhere(k)'
  <2>1. job[w] \in Job
    BY <1>16 DEF PushRetry, WorkerTypeOK, Working
  <2>2. Nowhere(k) /\ k # job[w]
    BY <1>16 DEF PushRetry
  <2> QED
    BY <1>16, <2>1, <2>2, QueuedAppend DEF PushRetry, InHand
<1>17. ASSUME NEW w \in Worker, ReleaseLock(w) PROVE Nowhere(k)'
  BY <1>17 DEF ReleaseLock, Queued, InHand, WorkerTypeOK
<1>18. ASSUME NEW w \in Worker, ReleaseQuota(w) PROVE Nowhere(k)'
  BY <1>18 DEF ReleaseQuota, Queued, InHand, WorkerTypeOK
<1>19. ASSUME NEW w \in Worker, Ack(w) PROVE Nowhere(k)'
  <2>1. Nowhere(k) /\ k # job[w] /\ job[w] \in Job
    BY <1>19 DEF Ack, WorkerTypeOK, Working
  <2>2. \A i \in WorkerId : processing'[i][k] = processing[i][k]
    BY <1>19, <2>1 DEF Ack, LRem
  <2>3. \A v \in Worker : job'[v] # k
    BY <1>19, <2>1, JobAssumption DEF Ack, NextRound, WorkerTypeOK
  <2> QED
    BY <1>19, <2>1, <2>2, <2>3 DEF Ack, Queued, InHand
<1>20. ASSUME NEW w \in Worker, ClaimFails(w) PROVE Nowhere(k)'
  BY <1>20, JobAssumption DEF ClaimFails, Queued, NextRound, InHand, WorkerTypeOK
<1>21. ASSUME NEW w \in Worker, RetryRaises(w) PROVE Nowhere(k)'
  BY <1>21 DEF RetryRaises, Queued, InHand, WorkerTypeOK
<1>22. ASSUME NEW w \in Worker, Signal(w) PROVE Nowhere(k)'
  BY <1>22 DEF Signal, Queued, InHand, WorkerTypeOK
<1>23. ASSUME NEW w \in Worker, Crash(w) PROVE Nowhere(k)'
  BY <1>23, JobAssumption DEF Crash, Queued, InHand, WorkerTypeOK
<1>24. ASSUME NEW a \in Admin, RequeueRead(a) PROVE Nowhere(k)'
  <2>1. Nowhere(k) /\ UNCHANGED <<queue, processing, dlq, job>>
    BY <1>24 DEF RequeueRead, redisVars
  <2>2. \A b \in Admin : InHand(b, k)' => InHand(b, k)
    BY <1>24 DEF RequeueRead, Return, InHand, AdminTypeOK
  <2> QED
    BY <2>1, <2>2 DEF Nowhere, Queued
<1>25. ASSUME NEW a \in Admin, RequeueWrite(a) PROVE Nowhere(k)'
  BY <1>25 DEF RequeueWrite, Queued, Update, InHand
<1>26. ASSUME NEW a \in Admin, RequeuePush(a) PROVE Nowhere(k)'
  BY <1>26, QueuedAppend, ZenonT(60) DEF RequeuePush, InHand, Return, AdminTypeOK
<1>27. ASSUME NEW a \in Admin, AdminCrash(a) PROVE Nowhere(k)'
  BY <1>27 DEF AdminCrash, Queued, InHand, Return, AdminTypeOK
<1>28. ASSUME NEW a \in Admin, NEW j \in Job, RequeueRemove(a, j) PROVE Nowhere(k)'
  BY <1>28 DEF RequeueRemove, Queued, InHand, Return, AdminTypeOK
<1>29. ASSUME NEW r \in Repo, LockExpires(r) PROVE Nowhere(k)'
  BY <1>29 DEF LockExpires, Queued, InHand
<1>31. ASSUME NEW w \in Worker, ReleaseFails(w) PROVE Nowhere(k)'
  BY <1>31 DEF ReleaseFails, Queued, InHand, WorkerTypeOK
<1> QED
  BY <1>1, <1>2, <1>3, <1>4, <1>5, <1>6, <1>7, <1>8, <1>9, <1>10, <1>11,
     <1>12, <1>13, <1>14, <1>15, <1>16, <1>17, <1>18, <1>19, <1>20, <1>21,
     <1>22, <1>23, <1>24, <1>25, <1>26, <1>27, <1>28, <1>29, <1>31 DEF Next,
     WorkerStep, WorkerFault, AdminStep

\* No hash expires without the fault.
LEMMA NextNoExpiry ==
  ASSUME TypeOK, NoLossFaults, \A j \in Job : hash[j].status # "expired", Next,
         NEW k \in Job
  PROVE  hash'[k].status # "expired"
<1>1. ASSUME NEW j \in Job, HashExpires(j) PROVE FALSE
  BY <1>1, NoSpend DEF HashExpires, NoLossFaults, Kinds, TypeOK
<1>2. ASSUME NEW w \in Worker, RunFails(w) PROVE hash'[k].status # "expired"
  <2>1. PICK s \in {"dead", "pending"} :
           hash' = [hash EXCEPT ![job[w]] = [status |-> s, attempts |-> att[w] + 1]]
    BY <1>2 DEF RunFails, Update
  <2> QED
    BY <2>1 DEF TypeOK, RedisTypeOK
<1>3. ASSUME NEW w \in Worker, BeginRun(w) PROVE hash'[k].status # "expired"
  <2>1. hash' = [hash EXCEPT ![job[w]] = [status |-> "running", attempts |-> att[w] + 1]]
    BY <1>3 DEF BeginRun, Update
  <2> QED
    BY <2>1 DEF TypeOK, RedisTypeOK
<1>7. ASSUME NEW w \in Worker, RunSucceeds(w) PROVE hash'[k].status # "expired"
  <2>1. hash' = [hash EXCEPT ![job[w]] = [status |-> "succeeded", attempts |-> att[w]]]
    BY <1>7 DEF RunSucceeds, Update
  <2> QED
    BY <2>1 DEF TypeOK, RedisTypeOK
<1>4. CASE \E j \in Job : Enqueue(j)
  BY <1>4 DEF Enqueue, Update, TypeOK, RedisTypeOK
<1>5. CASE \E a \in Admin : RequeueWrite(a)
  BY <1>5 DEF RequeueWrite, Update, TypeOK, RedisTypeOK
<1>6. CASE hash' = hash
  BY <1>6
<1> QED
  BY <1>1, <1>2, <1>3, <1>4, <1>5, <1>6, <1>7
     DEF Next, WorkerStep, WorkerFault, AdminStep, Start, RecoverOne,
         RecoverDone, Claim, ClaimTimeout, Load, Drop, AcquireLock, PushBusy,
         PushDead, PushRetry, ReleaseLock, ReleaseQuota, Ack, ClaimFails,
         RetryRaises, ReleaseFails, Signal, Crash, RequeueRead, RequeuePush, AdminCrash,
         RequeueRemove, LockExpires, redisVars

\* The hash of a job in the hands of a worker or an administrator exists.
LEMMA HashExists ==
  ASSUME TypeOK, FreshInv, NEW k \in Job, hash[k].status # "expired",
         (\E w \in Worker : job[w] = k) \/ (\E a \in Admin : InHand(a, k))
  PROVE  ~Missing(hash[k])
BY DEF FreshInv, Nowhere, Missing

\* A worker that has claimed a job always finds its hash: it never drops the id.
LEMMA NextNoDrop ==
  ASSUME TypeOK, LossInv, Next, NEW v \in Worker
  PROVE  pc'[v] # "drop"
<1>1. ASSUME NEW w \in Worker, Load(w) PROVE pc'[v] # "drop"
  <2>1. job[w] \in Job
    BY <1>1 DEF Load, TypeOK, WorkerTypeOK, Working
  <2>2. ~Missing(hash[job[w]])
    BY <2>1, HashExists DEF LossInv
  <2> QED
    BY <1>1, <2>2 DEF Load, Goto, TypeOK, WorkerTypeOK, LossInv
<1>2. ASSUME NEW w \in Worker, NEW label \in WorkerPC \ {"drop"}, Goto(w, label)
      PROVE  pc'[v] # "drop"
  BY <1>2 DEF Goto, TypeOK, WorkerTypeOK, LossInv
<1>3. CASE pc' = pc
  BY <1>3 DEF LossInv
<1> QED
  BY <1>1, <1>2, <1>3, ZenonT(60)
     DEF Next, WorkerStep, WorkerFault, AdminStep, Start, RecoverOne, WorkerPC,
         RecoverDone, Claim, ClaimTimeout, Drop, AcquireLock, PushBusy, BeginRun,
         RunSucceeds, RunFails, PushDead, PushRetry, ReleaseLock, ReleaseQuota,
         Ack, ClaimFails, RetryRaises, ReleaseFails, Signal, Crash, RequeueRead, RequeueWrite,
         RequeuePush, AdminCrash, RequeueRemove, LockExpires, HashExpires,
         Enqueue, NextRound

\* ack removes the worker's own entry; what else the list keeps of the job
\* stays.
LEMMA AckSafe ==
  ASSUME TypeOK, UniqueIds, HandInv, NEW w \in Worker, Ack(w), NEW k \in Job, Safe(k)
  PROVE  Safe(k)'
<1>1. /\ job[w] \in Job /\ wid[w] \in WorkerId /\ Leftover(w) /\ wid' = wid
      /\ processing[wid[w]][job[w]] \in Nat
      /\ processing[wid[w]][job[w]] > 0
  BY DEF Ack, Leftover, Working, TypeOK, RedisTypeOK, WorkerTypeOK, HandInv,
         InHandIsRecoverable
<1>2. \A v \in Worker : v # w => wid[v] # wid[w]
  BY DistinctIds
<1>3. \A v \in Worker : Leftover(v)' => v # w /\ Leftover(v) /\ job'[v] = job[v]
  BY DEF Ack, NextRound, Goto, Leftover, TypeOK, WorkerTypeOK
<1>4. /\ processing'[wid[w]][job[w]] = processing[wid[w]][job[w]] - 1
      /\ \A i \in WorkerId, j \in Job :
            ~(i = wid[w] /\ j = job[w]) => processing'[i][j] = processing[i][j]
  BY <1>1 DEF Ack, LRem, TypeOK, RedisTypeOK
<1>5. ASSUME NEW i \in WorkerId, Kept(i, k) > 0 PROVE Kept(i, k)' > 0
  <2>1. CASE i = wid[w] /\ k = job[w]
    <3>1. Kept(i, k) = processing[i][k] - 1
      BY <1>1, <2>1 DEF Kept
    <3>2. Kept(i, k)' = processing'[i][k]
      BY <1>1, <1>2, <1>3, <2>1 DEF Kept
    <3>3. processing'[i][k] = processing[i][k] - 1
      BY <1>1, <1>4, <2>1 DEF TypeOK, RedisTypeOK
    <3> QED
      BY <1>5, <3>1, <3>2, <3>3
  <2>2. CASE ~(i = wid[w] /\ k = job[w])
    <3>1. processing'[i][k] = processing[i][k]
      BY <1>1, <1>4, <2>2 DEF TypeOK, RedisTypeOK
    <3>2. \A v \in Worker : (wid'[v] = i /\ Leftover(v)' /\ job'[v] = k)
                            => (wid[v] = i /\ Leftover(v) /\ job[v] = k)
      BY <1>1, <1>3
    <3> QED
      BY <1>5, <3>1, <3>2, KeptFrame
  <2> QED
    BY <2>1, <2>2
<1>6. /\ Queued(k) => Queued(k)'
      /\ dlq' = dlq
      /\ \A a \in Admin : InHand(a, k) => InHand(a, k)'
  BY DEF Ack, Queued, InHand, adminVars
<1> QED
  BY <1>5, <1>6 DEF Safe

\* After every step, a job that is not done is in one of the four places.
LEMMA NextSafe ==
  ASSUME TypeOK, TypeOK', UniqueIds, NoLossFaults, LossInv, HandInv', Next,
         NEW k \in Job, Unfinished(k)'
  PROVE  Safe(k)'
<1> DEFINE Calm == /\ \A i \in WorkerId : processing'[i][k] = processing[i][k]
                   /\ dlq'[k] = dlq[k]
                   /\ \A a \in Admin : InHand(a, k) => InHand(a, k)'
                   /\ Queued(k) => Queued(k)'
                   /\ \A w \in Worker :
                        (Leftover(w)' /\ job'[w] = k)
                        => (wid[w] = wid'[w] /\ Leftover(w) /\ job[w] = k)
<1>a. Unfinished(k) /\ Calm => Safe(k)'
  BY SafeFrame DEF LossInv
<1>b. \A w \in Worker : Working(w)' /\ ~Leftover(w)' /\ job'[w] = k => Safe(k)'
  BY SafeInHand
<1> HIDE DEF Calm
<1>1. ASSUME NEW j \in Job, Enqueue(j) PROVE Safe(k)'
  <2>1. CASE k = j
    BY <1>1, <2>1, QueuedAppend DEF Enqueue, Safe, TypeOK, RedisTypeOK
  <2>2. CASE k # j
    <3>1. Unfinished(k)
      BY <1>1, <2>2 DEF Enqueue, Update, Unfinished, TypeOK, RedisTypeOK
    <3>2. Queued(k) => Queued(k)'
      BY <1>1, QueuedAppend DEF Enqueue, TypeOK, RedisTypeOK
    <3>3. Calm
      BY <1>1, <3>2 DEF Calm, Enqueue, Leftover, InHand, adminVars
    <3> QED
      BY <1>a, <3>1, <3>3
  <2> QED
    BY <2>1, <2>2
<1>2. ASSUME NEW j \in Job, HashExpires(j) PROVE Safe(k)'
  BY <1>2, NoSpend DEF HashExpires, NoLossFaults, Kinds, TypeOK
<1>3. ASSUME NEW w \in Worker, Start(w) PROVE Safe(k)'
  BY <1>3, <1>a DEF Calm, Unfinished, Start, Leftover, InHand, Queued, Goto,
     redisVars, adminVars, TypeOK, WorkerTypeOK
<1>4. ASSUME NEW w \in Worker, RecoverOne(w) PROVE Safe(k)'
  <2>0. Unfinished(k)
    BY <1>4 DEF RecoverOne, Unfinished
  <2>1. PICK j \in Job : /\ processing' = [processing EXCEPT ![wid[w]][j] = @ - 1]
                         /\ LPush(j)
    BY <1>4 DEF RecoverOne
  <2>2. CASE k = j
    BY <2>1, <2>2, QueuedAppend DEF Safe, TypeOK, RedisTypeOK
  <2>3. CASE k # j
    <3>1. Queued(k) => Queued(k)'
      BY <2>1, QueuedAppend DEF TypeOK, RedisTypeOK
    <3>2. \A i \in WorkerId : processing'[i][k] = processing[i][k]
      BY <2>1, <2>3 DEF TypeOK, RedisTypeOK
    <3>3. Calm
      BY <1>4, <3>1, <3>2 DEF Calm, RecoverOne, Leftover, InHand, adminVars
    <3> QED
      BY <1>a, <2>0, <3>3
  <2> QED
    BY <2>2, <2>3
<1>5. ASSUME NEW w \in Worker, RecoverDone(w) PROVE Safe(k)'
  BY <1>5, <1>a DEF Calm, Unfinished, RecoverDone, Leftover, InHand, Queued,
     Goto, redisVars, adminVars, TypeOK, WorkerTypeOK, NextRound
<1>6. ASSUME NEW w \in Worker, Claim(w) PROVE Safe(k)'
  <2>0. Unfinished(k)
    BY <1>6 DEF Claim, Unfinished
  <2>1. CASE k = Head(queue)
    <3>1. Working(w)' /\ ~Leftover(w)' /\ job'[w] = k
      BY <1>6, <2>1 DEF Claim, Goto, Working, Leftover, TypeOK, WorkerTypeOK
    <3> QED
      BY <1>b, <3>1
  <2>2. CASE k # Head(queue)
    <3>1. Queued(k) => Queued(k)'
      BY <1>6, <2>2, QueuedTail DEF Claim, TypeOK, RedisTypeOK
    <3>2. \A i \in WorkerId : processing'[i][k] = processing[i][k]
      BY <1>6, <2>2 DEF Claim, TypeOK, RedisTypeOK
    <3>3. Calm
      BY <1>6, <3>1, <3>2 DEF Calm, Claim, Goto, Leftover, InHand, adminVars,
                               TypeOK, WorkerTypeOK
    <3> QED
      BY <1>a, <2>0, <3>3
  <2> QED
    BY <2>1, <2>2
<1>7. ASSUME NEW w \in Worker, ClaimTimeout(w) PROVE Safe(k)'
  BY <1>7, <1>a DEF Calm, Unfinished, ClaimTimeout, Leftover, InHand,
     Queued, Goto, redisVars, adminVars, TypeOK, WorkerTypeOK, NextRound
<1>8. ASSUME NEW w \in Worker, Load(w) PROVE Safe(k)'
  <2>1. job[w] \in Job
    BY <1>8 DEF Load, TypeOK, WorkerTypeOK, Working
  <2>2. ~Missing(hash[job[w]])
    BY <2>1, HashExists DEF LossInv
  <2> QED
    BY <1>8, <1>a, <2>2 DEF Calm, Unfinished, Load, Leftover, InHand,
       Queued, Goto, redisVars, adminVars, TypeOK, WorkerTypeOK
<1>9. ASSUME NEW w \in Worker, Drop(w) PROVE Safe(k)'
  BY <1>9 DEF Drop, LossInv
<1>10. ASSUME NEW w \in Worker, AcquireLock(w) PROVE Safe(k)'
  BY <1>10, <1>a DEF Calm, Unfinished, AcquireLock, Leftover, InHand,
     Queued, Goto, redisVars, adminVars, TypeOK, WorkerTypeOK
<1>11. ASSUME NEW w \in Worker, PushBusy(w) PROVE Safe(k)'
  <2>0. job[w] \in Job
    BY <1>11 DEF PushBusy, TypeOK, WorkerTypeOK, Working
  <2>1. CASE k = job[w]
    BY <1>11, <2>0, <2>1, QueuedAppend DEF PushBusy, Safe, TypeOK, RedisTypeOK
  <2>2. CASE k # job[w]
    <3>1. Queued(k) => Queued(k)'
      BY <1>11, <2>0, QueuedAppend DEF PushBusy, TypeOK, RedisTypeOK
    <3>2. Calm
      BY <1>11, <2>2, <3>1 DEF Calm, PushBusy, Goto, Leftover, InHand, adminVars,
                               TypeOK, WorkerTypeOK
    <3>3. Unfinished(k)
      BY <1>11 DEF PushBusy, Unfinished
    <3> QED
      BY <1>a, <3>2, <3>3
  <2> QED
    BY <2>1, <2>2
<1>12. ASSUME NEW w \in Worker, BeginRun(w) PROVE Safe(k)'
  <2>1. CASE k = job[w]
    <3>1. Working(w)' /\ ~Leftover(w)' /\ job'[w] = k
      BY <1>12, <2>1 DEF BeginRun, Goto, Working, Leftover, TypeOK, WorkerTypeOK
    <3> QED
      BY <1>b, <3>1
  <2>2. CASE k # job[w]
    <3>1. hash'[k] = hash[k]
      BY <1>12, <2>2 DEF BeginRun, Update, TypeOK, RedisTypeOK
    <3>2. Calm
      BY <1>12, <2>2 DEF Calm, BeginRun, Goto, Leftover, InHand, Queued, adminVars,
                         TypeOK, WorkerTypeOK
    <3> QED
      BY <1>a, <3>1, <3>2 DEF Unfinished
  <2> QED
    BY <2>1, <2>2
<1>13. ASSUME NEW w \in Worker, RunSucceeds(w) PROVE Safe(k)'
  <2>1. k # job[w] /\ hash'[k] = hash[k]
    BY <1>13 DEF RunSucceeds, Update, Unfinished, TypeOK, RedisTypeOK
  <2>2. Calm
    BY <1>13, <2>1 DEF Calm, RunSucceeds, Goto, Leftover, InHand, Queued,
                       adminVars, TypeOK, WorkerTypeOK
  <2> QED
    BY <1>a, <2>1, <2>2 DEF Unfinished
<1>14. ASSUME NEW w \in Worker, RunFails(w) PROVE Safe(k)'
  <2>1. CASE k = job[w]
    <3>1. Working(w)' /\ ~Leftover(w)' /\ job'[w] = k
      BY <1>14, <2>1 DEF RunFails, Goto, Working, Leftover, TypeOK, WorkerTypeOK
    <3> QED
      BY <1>b, <3>1
  <2>2. CASE k # job[w]
    <3>1. hash'[k] = hash[k]
      BY <1>14, <2>2 DEF RunFails, Update, TypeOK, RedisTypeOK
    <3>2. Calm
      BY <1>14, <2>2 DEF Calm, RunFails, Goto, Leftover, InHand, Queued, adminVars,
                         TypeOK, WorkerTypeOK
    <3> QED
      BY <1>a, <3>1, <3>2 DEF Unfinished
  <2> QED
    BY <2>1, <2>2
<1>15. ASSUME NEW w \in Worker, PushDead(w) PROVE Safe(k)'
  <2>1. CASE k = job[w]
    <3>1. dlq'[k] = dlq[k] + 1 /\ dlq[k] \in Nat
      BY <1>15, <2>1 DEF PushDead, TypeOK, RedisTypeOK
    <3> QED
      BY <3>1 DEF Safe
  <2>2. CASE k # job[w]
    <3>1. Calm
      BY <1>15, <2>2 DEF Calm, PushDead, Goto, Leftover, InHand, Queued,
                         adminVars, TypeOK, RedisTypeOK, WorkerTypeOK
    <3>2. Unfinished(k)
      BY <1>15 DEF PushDead, Unfinished
    <3> QED
      BY <1>a, <3>1, <3>2
  <2> QED
    BY <2>1, <2>2
<1>16. ASSUME NEW w \in Worker, PushRetry(w) PROVE Safe(k)'
  <2>0. job[w] \in Job
    BY <1>16 DEF PushRetry, TypeOK, WorkerTypeOK, Working
  <2>1. CASE k = job[w]
    BY <1>16, <2>0, <2>1, QueuedAppend DEF PushRetry, Safe, TypeOK, RedisTypeOK
  <2>2. CASE k # job[w]
    <3>1. Queued(k) => Queued(k)'
      BY <1>16, <2>0, QueuedAppend DEF PushRetry, TypeOK, RedisTypeOK
    <3>2. Calm
      BY <1>16, <2>2, <3>1 DEF Calm, PushRetry, Goto, Leftover, InHand, adminVars,
                               TypeOK, WorkerTypeOK
    <3>3. Unfinished(k)
      BY <1>16 DEF PushRetry, Unfinished
    <3> QED
      BY <1>a, <3>2, <3>3
  <2> QED
    BY <2>1, <2>2
<1>17. ASSUME NEW w \in Worker, ReleaseLock(w) PROVE Safe(k)'
  BY <1>17, <1>a DEF Calm, Unfinished, ReleaseLock, Leftover, InHand,
     Queued, Goto, redisVars, adminVars, TypeOK, WorkerTypeOK
<1>18. ASSUME NEW w \in Worker, ReleaseQuota(w) PROVE Safe(k)'
  BY <1>18, <1>a DEF Calm, Unfinished, ReleaseQuota, Leftover, InHand,
     Queued, Goto, redisVars, adminVars, TypeOK, WorkerTypeOK
<1>19. ASSUME NEW w \in Worker, Ack(w) PROVE Safe(k)'
  BY <1>19, AckSafe DEF LossInv, Unfinished, Ack
<1>20. ASSUME NEW w \in Worker, ClaimFails(w) PROVE Safe(k)'
  BY <1>20, NoSpend DEF ClaimFails, NoLossFaults, Kinds, TypeOK
<1>21. ASSUME NEW w \in Worker, RetryRaises(w) PROVE Safe(k)'
  BY <1>21, NoSpend DEF RetryRaises, NoLossFaults, Kinds, TypeOK
<1>22. ASSUME NEW w \in Worker, Signal(w) PROVE Safe(k)'
  BY <1>22, <1>a DEF Calm, Unfinished, Signal, Leftover, InHand, Queued,
     Goto, redisVars, adminVars, TypeOK, WorkerTypeOK
<1>23. ASSUME NEW w \in Worker, Crash(w) PROVE Safe(k)'
  BY <1>23, <1>a DEF Calm, Unfinished, Crash, Leftover, InHand, Queued,
     Goto, redisVars, adminVars, TypeOK, WorkerTypeOK
<1>24. ASSUME NEW a \in Admin, RequeueRead(a) PROVE Safe(k)'
  <2>1. ajob[a] \in Job /\ InHand(a, ajob[a])
    BY <1>24 DEF RequeueRead, TypeOK, AdminTypeOK, InHand
  <2>2. ~Missing(hash[ajob[a]])
    BY <2>1, HashExists DEF LossInv
  <2> QED
    BY <1>24, <1>a, <2>2
       DEF Calm, RequeueRead, Unfinished, Leftover, InHand, Queued, redisVars,
           TypeOK, AdminTypeOK
<1>25. ASSUME NEW a \in Admin, RequeueWrite(a) PROVE Safe(k)'
  <2>1. CASE k = ajob[a]
    <3>1. InHand(a, k)'
      BY <1>25, <2>1 DEF RequeueWrite, InHand, TypeOK, AdminTypeOK
    <3> QED
      BY <3>1 DEF Safe
  <2>2. CASE k # ajob[a]
    <3>1. hash'[k] = hash[k]
      BY <1>25, <2>2 DEF RequeueWrite, Update, TypeOK, RedisTypeOK
    <3>2. Calm
      BY <1>25, <2>2 DEF Calm, RequeueWrite, Leftover, InHand, Queued, TypeOK,
                         AdminTypeOK
    <3> QED
      BY <1>a, <3>1, <3>2 DEF Unfinished
  <2> QED
    BY <2>1, <2>2
<1>26. ASSUME NEW a \in Admin, RequeuePush(a) PROVE Safe(k)'
  <2>0. ajob[a] \in Job /\ LPush(ajob[a])
    BY <1>26 DEF RequeuePush, TypeOK, AdminTypeOK
  <2>1. CASE k = ajob[a]
    BY <2>0, <2>1, QueuedAppend DEF Safe, TypeOK, RedisTypeOK
  <2>2. CASE k # ajob[a]
    <3>1. Queued(k) => Queued(k)'
      BY <2>0, QueuedAppend DEF TypeOK, RedisTypeOK
    <3>2. Calm
      BY <1>26, <2>2, <3>1 DEF Calm, RequeuePush, Return, Leftover, InHand,
                               TypeOK, AdminTypeOK
    <3> QED
      BY <1>26, <1>a, <3>2 DEF Unfinished, RequeuePush
  <2> QED
    BY <2>1, <2>2
<1>27. ASSUME NEW a \in Admin, AdminCrash(a) PROVE Safe(k)'
  BY <1>27, NoSpend DEF AdminCrash, NoLossFaults, Kinds, TypeOK
<1>28. ASSUME NEW a \in Admin, NEW j \in Job, RequeueRemove(a, j) PROVE Safe(k)'
  <2>0. Unfinished(k)
    BY <1>28 DEF RequeueRemove, Unfinished
  <2>1. CASE k = j
    <3>1. InHand(a, k)'
      BY <1>28, <2>1 DEF RequeueRemove, InHand, TypeOK, AdminTypeOK
    <3> QED
      BY <3>1 DEF Safe
  <2>2. CASE k # j
    <3>1. Calm
      BY <1>28, <2>2 DEF Calm, RequeueRemove, Leftover, InHand, Queued, TypeOK,
                         AdminTypeOK, RedisTypeOK
    <3> QED
      BY <1>a, <2>0, <3>1
  <2> QED
    BY <2>1, <2>2
<1>29. ASSUME NEW r \in Repo, LockExpires(r) PROVE Safe(k)'
  BY <1>29, <1>a DEF Calm, Unfinished, LockExpires, Leftover, InHand,
     Queued, Goto, redisVars, adminVars, TypeOK, WorkerTypeOK
<1>31. ASSUME NEW w \in Worker, ReleaseFails(w) PROVE Safe(k)'
  BY <1>31, NoSpend DEF ReleaseFails, NoLossFaults, Kinds, TypeOK
<1> QED
  BY <1>1, <1>2, <1>3, <1>4, <1>5, <1>6, <1>7, <1>8, <1>9, <1>10, <1>11,
     <1>12, <1>13, <1>14, <1>15, <1>16, <1>17, <1>18, <1>19, <1>20, <1>21,
     <1>22, <1>23, <1>24, <1>25, <1>26, <1>27, <1>28, <1>29, <1>31 DEF Next,
     WorkerStep, WorkerFault, AdminStep

\* No job is lost: as long as each worker has a processing list of its own, a
\* job that is not done stays in the queue, a list, the DLQ or an
\* administrator's hands whatever crashes, restarts, signals and overruns
\* happen.  The faults of NoLossFaults are excluded because they do lose jobs.
THEOREM AtLeastOnce ==
  ASSUME UniqueIds, NoLossFaults
  PROVE  Spec => []NoJobLost
<1>1. Init => LossInv
  BY JobAssumption
     DEF Init, LossInv, HandInv, InHandIsRecoverable, Working, FreshInv, Nowhere,
         Queued, InHand, Unfinished
<1>2. TypeOK /\ LossInv /\ [Next]_vars => LossInv'
  <2> SUFFICES ASSUME TypeOK, LossInv, [Next]_vars PROVE LossInv'
    OBVIOUS
  <2>1. TypeOK'
    BY NextType
  <2>2. HandInv'
    BY NextHand DEF LossInv
  <2>3. CASE Next
    <3>1. FreshInv'
      BY <2>3, NextFresh DEF LossInv
    <3>2. \A j \in Job : hash'[j].status # "expired"
      BY <2>3, NextNoExpiry DEF LossInv
    <3>3. \A w \in Worker : pc'[w] # "drop"
      BY <2>3, NextNoDrop
    <3>4. \A j \in Job : Unfinished(j)' => Safe(j)'
      BY <2>1, <2>2, <2>3, NextSafe
    <3> QED
      BY <2>2, <3>1, <3>2, <3>3, <3>4 DEF LossInv
  <2>4. CASE UNCHANGED vars
    BY <2>4 DEF vars, LossInv, HandInv, InHandIsRecoverable, Working, FreshInv,
                Nowhere, Queued, InHand, Unfinished, Safe, Kept, Leftover
  <2> QED
    BY <2>3, <2>4
<1>3. LossInv => NoJobLost
  BY DEF LossInv, NoJobLost, Safe
<1> QED
  BY <1>1, <1>2, <1>3, TypeCorrect, PTL DEF Spec

-----------------------------------------------------------------------------
\* A worker that leaves its loop leaves nothing behind

Faultless == spent["crash"] + spent["error"] = 0

\* Without crashes and failing commands the processing lists hold exactly the
\* jobs the workers have in hand, once each.
ListInv ==
    /\ \A w \in Worker : Working(w) => processing[wid[w]][job[w]] = 1
    /\ \A i \in WorkerId, j \in Job :
          processing[i][j] # 0 =>
              \E w \in Worker : wid[w] = i /\ Working(w) /\ job[w] = j

\* A worker without a job in hand has an empty list.
LEMMA EmptyList ==
  ASSUME TypeOK, UniqueIds, HandInv, ListInv, NEW w \in Worker, ~Working(w), NEW j \in Job
  PROVE  processing[wid[w]][j] = 0
<1>1. wid[w] \in WorkerId
  BY DEF TypeOK, WorkerTypeOK
<1>2. \A v \in Worker : wid[v] = wid[w] => v = w
  BY DistinctIds
<1> QED
  BY <1>1, <1>2 DEF ListInv

\* The environment's events are never taken back.
LEMMA SpentGrows ==
  ASSUME TypeOK, [Next]_vars
  PROVE  /\ Faultless' => Faultless
         /\ \A w \in Worker : ClaimFails(w) \/ RetryRaises(w) \/ ReleaseFails(w) \/ Crash(w)
                              => ~Faultless'
<1>0. /\ spent["crash"] \in Nat /\ spent["error"] \in Nat
      /\ spent \in [Kinds -> Nat] /\ "crash" \in Kinds /\ "error" \in Kinds
  BY DEF TypeOK, HistoryTypeOK, Kinds
<1>1. ASSUME NEW kind \in Kinds, Spend(kind)
      PROVE  /\ spent'["crash"] = spent["crash"] + (IF kind = "crash" THEN 1 ELSE 0)
             /\ spent'["error"] = spent["error"] + (IF kind = "error" THEN 1 ELSE 0)
  BY <1>0, <1>1 DEF Spend
<1>2. ASSUME NEW kind \in Kinds, Spend(kind) PROVE Faultless' => Faultless
  BY <1>0, <1>1, <1>2 DEF Faultless
<1>3. Spend("crash") \/ Spend("error") => ~Faultless'
  BY <1>0, <1>1 DEF Faultless
<1>4. spent' = spent => (Faultless' => Faultless)
  BY DEF Faultless
<1>5. spent' = spent \/ \E kind \in Kinds : Spend(kind)
  BY DEF Next, WorkerStep, WorkerFault, AdminStep, Start, RecoverOne, RecoverDone,
         Claim, ClaimTimeout, Load, Drop, AcquireLock, PushBusy, BeginRun,
         RunSucceeds, RunFails, PushDead, PushRetry, ReleaseLock, ReleaseQuota,
         Ack, ClaimFails, RetryRaises, ReleaseFails, Signal, Crash, RequeueRead,
         RequeueWrite, RequeuePush, AdminCrash, RequeueRemove, LockExpires,
         HashExpires, Enqueue, Kinds, vars
<1>6. \A w \in Worker : ClaimFails(w) \/ RetryRaises(w) \/ ReleaseFails(w) \/ Crash(w)
                        => Spend("crash") \/ Spend("error")
  BY DEF ClaimFails, RetryRaises, ReleaseFails, Crash
<1> QED
  BY <1>2, <1>3, <1>4, <1>5, <1>6

\* A step that leaves the lists and the jobs in hand alone keeps ListInv.
LEMMA ListFrame ==
  ASSUME ListInv, processing' = processing,
         \A w \in Worker : /\ Working(w)' <=> Working(w)
                           /\ Working(w) => wid'[w] = wid[w] /\ job'[w] = job[w]
  PROVE  ListInv'
<1>1. ASSUME NEW w \in Worker, Working(w)' PROVE processing'[wid'[w]][job'[w]] = 1
  BY <1>1 DEF ListInv
<1>2. ASSUME NEW i \in WorkerId, NEW j \in Job, processing'[i][j] # 0
      PROVE  \E w \in Worker : wid'[w] = i /\ Working(w)' /\ job'[w] = j
  BY <1>2 DEF ListInv
<1> QED
  BY <1>1, <1>2 DEF ListInv

\* LREM takes away the one entry of the worker's list.
LEMMA LRemList ==
  ASSUME TypeOK, UniqueIds, HandInv, ListInv, NEW w \in Worker, Working(w),
         LRem(w), NextRound(w), wid' = wid
  PROVE  ListInv'
<1>1. \A v \in Worker : v # w => /\ wid[v] # wid[w]
                                 /\ job'[v] = job[v] /\ pc'[v] = pc[v]
  BY DistinctIds DEF NextRound, Goto, TypeOK, WorkerTypeOK
<1>2. ~Working(w)'
  BY DEF NextRound, Goto, Working, TypeOK, WorkerTypeOK
<1>3. /\ job[w] \in Job /\ wid \in [Worker -> WorkerId]
      /\ processing[wid[w]][job[w]] = 1
  BY DEF TypeOK, WorkerTypeOK, ListInv
<1>4. /\ processing'[wid[w]][job[w]] = 0
      /\ \A i \in WorkerId, j \in Job :
            ~(i = wid[w] /\ j = job[w]) => processing'[i][j] = processing[i][j]
  BY <1>3 DEF LRem, TypeOK, RedisTypeOK
<1>5. ASSUME NEW v \in Worker, Working(v)' PROVE processing'[wid'[v]][job'[v]] = 1
  <2>1. v # w /\ Working(v) /\ job[v] \in Job
    BY <1>1, <1>2, <1>5 DEF Working, TypeOK, WorkerTypeOK
  <2>2. processing[wid[v]][job[v]] = 1
    BY <2>1 DEF ListInv
  <2>3. processing'[wid[v]][job[v]] = processing[wid[v]][job[v]]
    BY <1>1, <1>3, <1>4, <2>1
  <2> QED
    BY <1>1, <2>1, <2>2, <2>3
<1>6. ASSUME NEW i \in WorkerId, NEW j \in Job, processing'[i][j] # 0
      PROVE  \E v \in Worker : wid'[v] = i /\ Working(v)' /\ job'[v] = j
  <2>1. ~(i = wid[w] /\ j = job[w]) /\ processing[i][j] # 0
    BY <1>4, <1>6
  <2>2. PICK v \in Worker : wid[v] = i /\ Working(v) /\ job[v] = j
    BY <2>1 DEF ListInv
  <2>3. v # w
    BY <2>1, <2>2
  <2> QED
    BY <1>1, <2>2, <2>3 DEF Working
<1> QED
  BY <1>5, <1>6 DEF ListInv

\* BRPOPLPUSH puts the claimed id on a list that was empty.
LEMMA ClaimList ==
  ASSUME TypeOK, UniqueIds, HandInv, ListInv, NEW w \in Worker, Claim(w)
  PROVE  ListInv'
<1> DEFINE h == Head(queue)
<1>1. h \in Job
  BY DEF Claim, TypeOK, RedisTypeOK
<1> HIDE DEF h
<1>2. \A v \in Worker : v # w => /\ wid[v] # wid[w]
                                 /\ job'[v] = job[v] /\ pc'[v] = pc[v]
  BY DistinctIds DEF Claim, Goto, TypeOK, WorkerTypeOK
<1>3. processing' = [processing EXCEPT ![wid[w]][h] = @ + 1] /\ job'[w] = h /\ wid' = wid
  BY DEF Claim, TypeOK, WorkerTypeOK, h
<1>4. Working(w)' /\ ~Working(w)
  BY DEF Claim, Goto, Working, TypeOK, WorkerTypeOK
<1>5. processing[wid[w]][h] = 0 /\ wid \in [Worker -> WorkerId]
  BY <1>1, <1>4, EmptyList DEF TypeOK, WorkerTypeOK
<1>6. /\ processing'[wid[w]][h] = 1
      /\ \A i \in WorkerId, j \in Job :
            ~(i = wid[w] /\ j = h) => processing'[i][j] = processing[i][j]
  BY <1>1, <1>3, <1>5 DEF TypeOK, RedisTypeOK
<1>7. ASSUME NEW v \in Worker, Working(v)' PROVE processing'[wid'[v]][job'[v]] = 1
  <2>1. CASE v = w
    BY <1>3, <1>6, <2>1
  <2>2. CASE v # w
    <3>1. Working(v) /\ job[v] \in Job
      BY <1>2, <1>7, <2>2 DEF Working, TypeOK, WorkerTypeOK
    <3>2. processing[wid[v]][job[v]] = 1
      BY <3>1 DEF ListInv
    <3>3. processing'[wid[v]][job[v]] = processing[wid[v]][job[v]]
      BY <1>2, <1>5, <1>6, <2>2, <3>1
    <3> QED
      BY <1>2, <1>3, <2>2, <3>2, <3>3
  <2> QED
    BY <2>1, <2>2
<1>8. ASSUME NEW i \in WorkerId, NEW j \in Job, processing'[i][j] # 0
      PROVE  \E v \in Worker : wid'[v] = i /\ Working(v)' /\ job'[v] = j
  <2>1. CASE i = wid[w] /\ j = h
    BY <1>3, <1>4, <2>1
  <2>2. CASE ~(i = wid[w] /\ j = h)
    <3>1. PICK v \in Worker : wid[v] = i /\ Working(v) /\ job[v] = j
      BY <1>6, <1>8, <2>2 DEF ListInv
    <3> QED
      BY <1>2, <1>3, <1>4, <3>1 DEF Working
  <2> QED
    BY <2>1, <2>2
<1> QED
  BY <1>7, <1>8 DEF ListInv

\* No step without a fault leaves an id behind in a list.
LEMMA NextList ==
  ASSUME TypeOK, UniqueIds, HandInv, ListInv, Next, Faultless'
  PROVE  ListInv'
<1> DEFINE Calm == /\ processing' = processing
                   /\ \A w \in Worker :
                        /\ Working(w)' <=> Working(w)
                        /\ Working(w) => wid'[w] = wid[w] /\ job'[w] = job[w]
<1>0. Calm => ListInv'
  BY ListFrame
<1>1. ASSUME NEW w \in Worker, RecoverOne(w) PROVE ListInv'
  <2>1. ~Working(w)
    BY <1>1 DEF RecoverOne, Working
  <2>2. \A j \in Job : processing[wid[w]][j] = 0
    BY <2>1, EmptyList
  <2> QED
    BY <1>1, <2>2 DEF RecoverOne
<1>2. ASSUME NEW w \in Worker, Claim(w) PROVE ListInv'
  BY <1>2, ClaimList
<1>3. ASSUME NEW w \in Worker, Drop(w) PROVE ListInv'
  BY <1>3, LRemList DEF Drop, Working
<1>4. ASSUME NEW w \in Worker, Ack(w) PROVE ListInv'
  BY <1>4, LRemList DEF Ack, Working
<1>5. ASSUME NEW w \in Worker,
             ClaimFails(w) \/ RetryRaises(w) \/ ReleaseFails(w) \/ Crash(w)
      PROVE  ListInv'
  BY <1>5, SpentGrows
<1>6. ASSUME NEW w \in Worker,
             \/ Start(w) \/ RecoverDone(w) \/ ClaimTimeout(w) \/ Load(w)
             \/ AcquireLock(w) \/ PushBusy(w) \/ BeginRun(w) \/ RunSucceeds(w)
             \/ RunFails(w) \/ PushDead(w) \/ PushRetry(w) \/ ReleaseLock(w)
             \/ ReleaseQuota(w) \/ Signal(w)
      PROVE  ListInv'
  <2> USE DEF TypeOK, WorkerTypeOK, Working, Goto, redisVars
  <2>1. CASE Start(w) \/ RecoverDone(w) \/ ClaimTimeout(w)
    BY <1>0, <2>1 DEF Start, RecoverDone, ClaimTimeout, NextRound
  <2>2. CASE Load(w) \/ AcquireLock(w) \/ PushBusy(w) \/ BeginRun(w)
    BY <1>0, <2>2 DEF Load, AcquireLock, PushBusy, BeginRun
  <2>3. CASE RunSucceeds(w) \/ RunFails(w) \/ PushDead(w) \/ PushRetry(w)
    BY <1>0, <2>3 DEF RunSucceeds, RunFails, PushDead, PushRetry
  <2>4. CASE ReleaseLock(w) \/ ReleaseQuota(w) \/ Signal(w)
    BY <1>0, <2>4 DEF ReleaseLock, ReleaseQuota, Signal
  <2> QED
    BY <1>6, <2>1, <2>2, <2>3, <2>4
<1>7. CASE \/ \E j \in Job : Enqueue(j) \/ HashExpires(j)
           \/ \E a \in Admin : AdminStep(a) \/ AdminCrash(a)
                               \/ \E j \in Job : RequeueRemove(a, j)
           \/ \E r \in Repo : LockExpires(r)
  <2>1. processing' = processing /\ pc' = pc /\ wid' = wid /\ job' = job
    BY <1>7 DEF Enqueue, HashExpires, AdminStep, AdminCrash, RequeueRemove,
                LockExpires, RequeueRead, RequeueWrite, RequeuePush, redisVars
  <2> QED
    BY <1>0, <2>1 DEF Working
<1> HIDE DEF Calm
<1> QED
  BY <1>1, <1>2, <1>3, <1>4, <1>5, <1>6, <1>7 DEF Next, WorkerStep, WorkerFault

\* A worker that left its loop on a signal has finished what it had claimed:
\* whatever the environment does, only a crash or a failing command leaves an
\* id in a processing list.
THEOREM DrainedWhenDown ==
  ASSUME UniqueIds
  PROVE  Spec => []DrainedOnExit
<1> DEFINE IInv == HandInv /\ (Faultless => ListInv)
<1>1. Init => IInv
  BY DEF Init, HandInv, InHandIsRecoverable, Working, ListInv
<1>2. TypeOK /\ IInv /\ [Next]_vars => IInv'
  <2> SUFFICES ASSUME TypeOK, IInv, [Next]_vars PROVE IInv'
    OBVIOUS
  <2>1. HandInv'
    BY NextHand
  <2>2. ASSUME Faultless' PROVE ListInv'
    <3>1. ListInv
      BY <2>2, SpentGrows
    <3>2. CASE Next
      BY <2>2, <3>1, <3>2, NextList
    <3>3. CASE UNCHANGED vars
      BY <3>1, <3>3, ListFrame DEF vars, Working
    <3> QED
      BY <3>2, <3>3
  <2> QED
    BY <2>1, <2>2
<1>3. TypeOK /\ IInv => DrainedOnExit
  BY EmptyList DEF DrainedOnExit, Faultless, Working
<1> QED
  BY <1>1, <1>2, <1>3, TypeCorrect, PTL DEF Spec
-----------------------------------------------------------------------------
\* One copy of each id

\* Nothing dies and no command fails; signals, restarts after them, overrun
\* locks and requeue_dead remain.
Undisturbed == NoLossFaults /\ Budget["crash"] = 0

\* The worker has the job in hand and is not about to forget it.
Hand(w, j) == Working(w) /\ ~Leftover(w) /\ job[w] = j

\* In each of the four places a job is once or not at all.
OnceQueued(j) ==
    /\ Queued(j)
    /\ \A m, n \in 1..Len(queue) : queue[m] = j /\ queue[n] = j => m = n
OneHand(j)  == \E w \in Worker : \A v \in Worker : Hand(v, j) <=> v = w
NoHand(j)   == \A w \in Worker : ~Hand(w, j)
OneAdmin(j) == \E a \in Admin : \A b \in Admin : InHand(b, j) <=> b = a
NoAdmin(j)  == \A a \in Admin : ~InHand(a, j)

\* The id of a job that is not done is in one place, once; that of any other
\* job is nowhere.
Placed(j) ==
    IF Unfinished(j)
    THEN \/ OnceQueued(j) /\ NoHand(j) /\ dlq[j] = 0 /\ NoAdmin(j)
         \/ ~Queued(j) /\ OneHand(j) /\ dlq[j] = 0 /\ NoAdmin(j)
         \/ ~Queued(j) /\ NoHand(j) /\ dlq[j] = 1 /\ NoAdmin(j)
         \/ ~Queued(j) /\ NoHand(j) /\ dlq[j] = 0 /\ OneAdmin(j)
    ELSE ~Queued(j) /\ NoHand(j) /\ dlq[j] = 0 /\ NoAdmin(j)

PlaceInv ==
    /\ HandInv
    /\ ListInv
    /\ \A j \in Job : Placed(j)

\* An LPUSH of an id that is not queued queues it once.
LEMMA OnceAppend ==
  ASSUME queue \in Seq(Job), NEW j \in Job, LPush(j), NEW k \in Job
  PROVE  /\ k = j /\ ~Queued(k) => OnceQueued(k)'
         /\ k # j /\ OnceQueued(k) => OnceQueued(k)'
         /\ k # j /\ ~Queued(k) => ~Queued(k)'
<1>1. /\ Len(queue') = Len(queue) + 1
      /\ \A i \in 1..Len(queue) : queue'[i] = queue[i]
      /\ queue'[Len(queue) + 1] = j
      /\ Len(queue) \in Nat
  BY DEF LPush
<1>2. /\ Queued(j)'
      /\ Queued(k)' <=> Queued(k) \/ k = j
  BY QueuedAppend
<1>3. ASSUME NEW m \in 1..Len(queue'), queue'[m] = k, k # j
      PROVE  m \in 1..Len(queue) /\ queue[m] = k
  BY <1>1, <1>3
<1>4. ASSUME NEW m \in 1..Len(queue'), queue'[m] = j, ~Queued(j)
      PROVE  m = Len(queue) + 1
  BY <1>1, <1>4 DEF Queued
<1>5. CASE k = j
  BY <1>2, <1>4, <1>5 DEF OnceQueued
<1>6. CASE k # j
  BY <1>2, <1>3, <1>6 DEF OnceQueued
<1> QED
  BY <1>5, <1>6

\* BRPOPLPUSH takes the only copy of the head off the queue.
LEMMA OnceTail ==
  ASSUME queue \in Seq(Job), queue # <<>>, queue' = Tail(queue), NEW k \in Job
  PROVE  /\ k = Head(queue) /\ OnceQueued(k) => ~Queued(k)'
         /\ k # Head(queue) /\ OnceQueued(k) => OnceQueued(k)'
         /\ ~Queued(k) => ~Queued(k)'
<1>1. /\ Len(queue') = Len(queue) - 1
      /\ \A i \in 1..Len(queue') : queue'[i] = queue[i + 1]
      /\ Head(queue) = queue[1]
      /\ Len(queue) \in Nat \ {0}
  OBVIOUS
<1>2. /\ Queued(k)' => Queued(k)
      /\ Queued(k) => Queued(k)' \/ k = Head(queue)
  BY QueuedTail
<1>3. ASSUME NEW m \in 1..Len(queue'), queue'[m] = k
      PROVE  m + 1 \in 1..Len(queue) /\ queue[m + 1] = k
  BY <1>1, <1>3
<1>4. ASSUME k = Head(queue), OnceQueued(k), Queued(k)' PROVE FALSE
  <2>1. PICK m \in 1..Len(queue') : queue'[m] = k
    BY <1>4 DEF Queued
  <2>2. 1 \in 1..Len(queue) /\ queue[1] = k
    BY <1>1, <1>4
  <2>3. m + 1 = 1
    BY <1>3, <1>4, <2>1, <2>2 DEF OnceQueued
  <2> QED
    BY <2>1, <2>3
<1>5. ASSUME OnceQueued(k), NEW m \in 1..Len(queue'), NEW n \in 1..Len(queue'),
             queue'[m] = k, queue'[n] = k
      PROVE  m = n
  <2>1. m + 1 = n + 1
    BY <1>3, <1>5 DEF OnceQueued
  <2> QED
    BY <2>1
<1> QED
  BY <1>2, <1>4, <1>5 DEF OnceQueued

\* A job in a worker's hands is nowhere else.
LEMMA FromHand ==
  ASSUME NEW k \in Job, Placed(k), NEW w \in Worker, Hand(w, k)
  PROVE  /\ Unfinished(k) /\ ~Queued(k) /\ dlq[k] = 0 /\ NoAdmin(k)
         /\ \A v \in Worker : Hand(v, k) <=> v = w
BY DEF Placed, NoHand, OneHand

\* A queued job is nowhere else.
LEMMA FromQueue ==
  ASSUME NEW k \in Job, Placed(k), Queued(k)
  PROVE  Unfinished(k) /\ OnceQueued(k) /\ NoHand(k) /\ dlq[k] = 0 /\ NoAdmin(k)
BY DEF Placed

\* A job in the DLQ is nowhere else.
LEMMA FromDlq ==
  ASSUME NEW k \in Job, Placed(k), dlq[k] > 0
  PROVE  Unfinished(k) /\ ~Queued(k) /\ NoHand(k) /\ dlq[k] = 1 /\ NoAdmin(k)
BY DEF Placed

\* A job in an administrator's hands is nowhere else.
LEMMA FromAdmin ==
  ASSUME NEW k \in Job, Placed(k), NEW a \in Admin, InHand(a, k)
  PROVE  /\ Unfinished(k) /\ ~Queued(k) /\ NoHand(k) /\ dlq[k] = 0
         /\ \A b \in Admin : InHand(b, k) <=> b = a
BY DEF Placed, NoAdmin, OneAdmin

\* A step that moves no copy of the id and does not finish the job.
Steady(k) ==
    /\ OnceQueued(k) => OnceQueued(k)'
    /\ ~Queued(k) => ~Queued(k)'
    /\ \A w \in Worker : Hand(w, k)' <=> Hand(w, k)
    /\ dlq'[k] = dlq[k]
    /\ \A a \in Admin : InHand(a, k)' <=> InHand(a, k)
    /\ Unfinished(k)' <=> Unfinished(k)

LEMMA SteadyPlaced ==
  ASSUME NEW k \in Job, Placed(k), Steady(k)
  PROVE  Placed(k)'
<1>1. /\ NoHand(k) => NoHand(k)'
      /\ OneHand(k) => OneHand(k)'
      /\ NoAdmin(k) => NoAdmin(k)'
      /\ OneAdmin(k) => OneAdmin(k)'
  BY DEF Steady, NoHand, OneHand, NoAdmin, OneAdmin
<1>2. /\ OnceQueued(k) => OnceQueued(k)'
      /\ ~Queued(k) => ~Queued(k)'
      /\ dlq'[k] = dlq[k]
      /\ Unfinished(k)' <=> Unfinished(k)
  BY DEF Steady
<1> QED
  BY <1>1, <1>2 DEF Placed

\* The steps of a worker that neither take a job nor give it away.
LEMMA KeepPlaced ==
  ASSUME TypeOK, NEW k \in Job, Placed(k), NEW w \in Worker,
         \/ Start(w) \/ RecoverDone(w) \/ ClaimTimeout(w) \/ Load(w) \/ Drop(w)
         \/ AcquireLock(w) \/ BeginRun(w) \/ RunFails(w)
         \/ ReleaseLock(w) \/ ReleaseQuota(w) \/ Ack(w) \/ Signal(w)
  PROVE  Placed(k)'
<1> USE DEF Goto, redisVars, adminVars
<1>0. /\ pc \in [Worker -> WorkerPC] /\ job \in [Worker -> Job \cup {NoJob}]
      /\ hash \in [Job -> JobHash]
      /\ Working(w) => job[w] \in Job
  BY DEF TypeOK, WorkerTypeOK, RedisTypeOK
<1>1. queue' = queue /\ dlq' = dlq /\ apc' = apc /\ ajob' = ajob
  BY DEF Start, RecoverDone, ClaimTimeout, Load, Drop, AcquireLock, BeginRun,
         RunFails, ReleaseLock, ReleaseQuota, Ack, Signal
<1>2. ASSUME \A v \in Worker : Hand(v, k)' <=> Hand(v, k),
             Unfinished(k)' <=> Unfinished(k)
      PROVE  Placed(k)'
  <2>1. Steady(k)
    BY <1>1, <1>2 DEF Steady, OnceQueued, Queued, InHand
  <2> QED
    BY <2>1, SteadyPlaced
<1>3. CASE Start(w) \/ RecoverDone(w) \/ ClaimTimeout(w) \/ Drop(w) \/ Ack(w)
  <2>1. \A v \in Worker : v # w => pc'[v] = pc[v] /\ job'[v] = job[v]
    BY <1>0, <1>3 DEF Start, RecoverDone, ClaimTimeout, Drop, Ack, NextRound
  <2>2. /\ pc[w] \in {"down", "recover", "claim", "drop", "ack"}
        /\ pc'[w] \in {"down", "recover", "claim"}
    BY <1>0, <1>3 DEF Start, RecoverDone, ClaimTimeout, Drop, Ack, NextRound
  <2>3. hash' = hash
    BY <1>3 DEF Start, RecoverDone, ClaimTimeout, Drop, Ack
  <2>4. \A v \in Worker : Hand(v, k)' <=> Hand(v, k)
    BY <2>1, <2>2 DEF Hand, Working, Leftover
  <2> QED
    BY <1>2, <2>3, <2>4 DEF Unfinished
<1>4. CASE ReleaseLock(w) \/ ReleaseQuota(w) \/ Signal(w) \/ AcquireLock(w)
  <2>1. job' = job /\ hash' = hash
    BY <1>4 DEF ReleaseLock, ReleaseQuota, Signal, AcquireLock
  <2>2. \A v \in Worker : /\ Working(v)' <=> Working(v)
                          /\ Leftover(v)' <=> Leftover(v)
    BY <1>0, <1>4 DEF ReleaseLock, ReleaseQuota, Signal, AcquireLock, Working, Leftover
  <2> QED
    BY <1>2, <2>1, <2>2 DEF Unfinished, Hand
<1>5. CASE Load(w)
  <2>1. job[w] \in Job /\ job' = job /\ hash' = hash /\ Working(w) /\ ~Leftover(w)
    BY <1>0, <1>5 DEF Load, Working, Leftover
  <2>2. CASE k = job[w]
    <3>1. Hand(w, k)
      BY <2>1, <2>2 DEF Hand
    <3>2. ~Missing(hash[job[w]])
      BY <2>2, <3>1, FromHand DEF Unfinished, Missing
    <3>3. \A v \in Worker : /\ Working(v)' <=> Working(v)
                            /\ Leftover(v)' <=> Leftover(v)
      BY <1>0, <1>5, <3>2 DEF Load, Working, Leftover
    <3> QED
      BY <1>2, <2>1, <3>3 DEF Unfinished, Hand
  <2>3. CASE k # job[w]
    <3>1. \A v \in Worker : v # w => pc'[v] = pc[v]
      BY <1>0, <1>5 DEF Load
    <3> QED
      BY <1>2, <2>1, <2>3, <3>1 DEF Unfinished, Hand, Working, Leftover
  <2> QED
    BY <2>2, <2>3
<1>6. CASE BeginRun(w) \/ RunFails(w)
  <2>1. /\ job[w] \in Job /\ job' = job
        /\ Working(w) /\ ~Leftover(w)
    BY <1>0, <1>6 DEF BeginRun, RunFails, Working, Leftover
  <2>2. \A v \in Worker : /\ Working(v)' <=> Working(v)
                          /\ Leftover(v)' <=> Leftover(v)
    BY <1>0, <1>6 DEF BeginRun, RunFails, Working, Leftover
  <2>3. /\ k = job[w] => hash'[k].status \in {"running", "pending", "dead"}
        /\ k # job[w] => hash'[k] = hash[k]
    <3>1. CASE BeginRun(w)
      BY <1>0, <3>1 DEF BeginRun, Update
    <3>2. CASE RunFails(w)
      BY <1>0, <3>2 DEF RunFails, Update
    <3> QED
      BY <1>6, <3>1, <3>2
  <2>4. Unfinished(k)' <=> Unfinished(k)
    <3>1. CASE k = job[w]
      <4>1. Hand(w, k)
        BY <2>1, <3>1 DEF Hand
      <4>2. Unfinished(k)
        BY <4>1, FromHand
      <4> QED
        BY <2>3, <3>1, <4>2 DEF Unfinished
    <3>2. CASE k # job[w]
      BY <2>3, <3>2 DEF Unfinished
    <3> QED
      BY <3>1, <3>2
  <2> QED
    BY <1>2, <2>1, <2>2, <2>4 DEF Hand
<1> QED
  BY <1>3, <1>4, <1>5, <1>6

\* The steps of a worker that take the job in hand away from it: back to the
\* queue, to the DLQ, or nowhere once it succeeded.
LEMMA GivePlaced ==
  ASSUME TypeOK, \A j \in Job : Placed(j), NEW k \in Job, NEW w \in Worker,
         PushBusy(w) \/ PushRetry(w) \/ PushDead(w) \/ RunSucceeds(w)
  PROVE  Placed(k)'
<1> USE DEF Goto, adminVars
<1>0. /\ pc \in [Worker -> WorkerPC] /\ queue \in Seq(Job)
      /\ dlq \in [Job -> Nat] /\ hash \in [Job -> JobHash]
  BY DEF TypeOK, WorkerTypeOK, RedisTypeOK
<1>1. Placed(k)
  OBVIOUS
<1>2. /\ Working(w) /\ ~Leftover(w) /\ job[w] \in Job /\ job' = job
      /\ apc' = apc /\ ajob' = ajob
  BY DEF PushBusy, PushRetry, PushDead, RunSucceeds, Working, Leftover, TypeOK,
         WorkerTypeOK
<1>3. pc'[w] \in {"ack", "release"} /\ \A v \in Worker : v # w => pc'[v] = pc[v]
  BY <1>0 DEF PushBusy, PushRetry, PushDead, RunSucceeds
<1>4. /\ ~Hand(w, k)'
      /\ \A v \in Worker : v # w => (Hand(v, k)' <=> Hand(v, k))
      /\ k # job[w] => ~Hand(w, k)
  BY <1>2, <1>3 DEF Hand, Working, Leftover
<1>5. \A a \in Admin : InHand(a, k)' <=> InHand(a, k)
  BY <1>2 DEF InHand
<1>6. CASE k # job[w]
  <2>1. \A v \in Worker : Hand(v, k)' <=> Hand(v, k)
    BY <1>4, <1>6
  <2>2. dlq'[k] = dlq[k]
    BY <1>0, <1>6 DEF PushBusy, PushRetry, PushDead, RunSucceeds
  <2>3. Unfinished(k)' <=> Unfinished(k)
    BY <1>0, <1>6 DEF PushBusy, PushRetry, PushDead, RunSucceeds, Unfinished, Update
  <2>4. (OnceQueued(k) => OnceQueued(k)') /\ (~Queued(k) => ~Queued(k)')
    <3>1. CASE queue' = queue
      BY <3>1 DEF OnceQueued, Queued
    <3>2. CASE LPush(job[w])
      BY <1>0, <1>2, <1>6, <3>2, OnceAppend
    <3> QED
      BY <3>1, <3>2 DEF PushBusy, PushRetry, PushDead, RunSucceeds
  <2>5. Steady(k)
    BY <1>5, <2>1, <2>2, <2>3, <2>4 DEF Steady
  <2> QED
    BY <1>1, <2>5, SteadyPlaced
<1>7. CASE k = job[w]
  <2>1. Hand(w, k)
    BY <1>2, <1>7 DEF Hand
  <2>2. /\ Unfinished(k) /\ ~Queued(k) /\ dlq[k] = 0 /\ NoAdmin(k)
        /\ \A v \in Worker : Hand(v, k) <=> v = w
    BY <1>1, <2>1, FromHand
  <2>3. NoHand(k)' /\ NoAdmin(k)'
    BY <1>4, <1>5, <2>2 DEF NoHand, NoAdmin
  <2>4. CASE PushBusy(w) \/ PushRetry(w)
    <3>1. LPush(k) /\ dlq' = dlq /\ hash' = hash
      BY <1>7, <2>4 DEF PushBusy, PushRetry
    <3>2. OnceQueued(k)'
      BY <1>0, <2>2, <3>1, OnceAppend
    <3>3. dlq'[k] = 0 /\ Unfinished(k)'
      BY <2>2, <3>1 DEF Unfinished
    <3> QED
      BY <2>3, <3>2, <3>3 DEF Placed
  <2>5. CASE PushDead(w)
    <3>1. dlq'[k] = 1 /\ Unfinished(k)' /\ ~Queued(k)'
      BY <1>0, <1>7, <2>2, <2>5 DEF PushDead, Unfinished, Queued
    <3> QED
      BY <2>3, <3>1 DEF Placed
  <2>6. CASE RunSucceeds(w)
    <3>1. dlq'[k] = 0 /\ ~Unfinished(k)' /\ ~Queued(k)'
      BY <1>0, <1>7, <2>2, <2>6 DEF RunSucceeds, Update, Unfinished, Queued
    <3> QED
      BY <2>3, <3>1 DEF Placed
  <2> QED
    BY <2>4, <2>5, <2>6
<1> QED
  BY <1>6, <1>7

\* A claim moves the head of the queue into the worker's hands.
LEMMA ClaimPlaced ==
  ASSUME TypeOK, \A j \in Job : Placed(j), NEW k \in Job, NEW w \in Worker, Claim(w)
  PROVE  Placed(k)'
<1> DEFINE h == Head(queue)
<1>0. /\ pc \in [Worker -> WorkerPC] /\ queue \in Seq(Job)
      /\ job \in [Worker -> Job \cup {NoJob}]
  BY DEF TypeOK, WorkerTypeOK, RedisTypeOK
<1>1. Placed(k)
  OBVIOUS
<1>2. /\ queue # <<>> /\ queue' = Tail(queue) /\ dlq' = dlq /\ hash' = hash
      /\ apc' = apc /\ ajob' = ajob
  BY DEF Claim, adminVars
<1>3. h \in Job /\ Queued(h)
  BY <1>0, <1>2, QueuedTail
<1>4. /\ k = h /\ OnceQueued(k) => ~Queued(k)'
      /\ k # h /\ OnceQueued(k) => OnceQueued(k)'
      /\ ~Queued(k) => ~Queued(k)'
  BY <1>0, <1>2, OnceTail
<1>5. /\ pc[w] = "claim" /\ pc'[w] = "load" /\ job'[w] = h
      /\ \A v \in Worker : v # w => pc'[v] = pc[v] /\ job'[v] = job[v]
  BY <1>0 DEF Claim, Goto
<1> HIDE DEF h
<1>6. /\ Hand(w, k)' <=> k = h
      /\ ~Hand(w, k)
      /\ \A v \in Worker : v # w => (Hand(v, k)' <=> Hand(v, k))
  BY <1>5 DEF Hand, Working, Leftover
<1>7. /\ \A a \in Admin : InHand(a, k)' <=> InHand(a, k)
      /\ Unfinished(k)' <=> Unfinished(k)
      /\ dlq'[k] = dlq[k]
  BY <1>2 DEF InHand, Unfinished
<1>8. CASE k = h
  <2>1. Unfinished(k) /\ OnceQueued(k) /\ NoHand(k) /\ dlq[k] = 0 /\ NoAdmin(k)
    BY <1>1, <1>3, <1>8, FromQueue
  <2>2. ~Queued(k)' /\ Unfinished(k)' /\ dlq'[k] = 0 /\ NoAdmin(k)'
    BY <1>4, <1>7, <1>8, <2>1 DEF NoAdmin
  <2>3. OneHand(k)'
    BY <1>6, <1>8, <2>1 DEF OneHand, NoHand
  <2> QED
    BY <2>2, <2>3 DEF Placed
<1>9. CASE k # h
  <2>1. Steady(k)
    BY <1>4, <1>6, <1>7, <1>9 DEF Steady
  <2> QED
    BY <1>1, <2>1, SteadyPlaced
<1> QED
  BY <1>8, <1>9

\* requeue_dead: from the DLQ into an administrator's hands, on to the queue.
LEMMA AdminPlaced ==
  ASSUME TypeOK, \A j \in Job : Placed(j), NEW k \in Job, NEW a \in Admin,
         AdminStep(a) \/ \E j \in Job : RequeueRemove(a, j)
  PROVE  Placed(k)'
<1>0. /\ queue \in Seq(Job) /\ dlq \in [Job -> Nat] /\ hash \in [Job -> JobHash]
      /\ apc \in [Admin -> AdminPC] /\ ajob \in [Admin -> Job \cup {NoJob}]
      /\ apc[a] # "idle" => ajob[a] \in Job
  BY DEF TypeOK, AdminTypeOK, RedisTypeOK
<1>1. Placed(k)
  OBVIOUS
<1>2. pc' = pc /\ job' = job
  BY DEF AdminStep, RequeueRead, RequeueWrite, RequeuePush, RequeueRemove
<1>3. \A w \in Worker : Hand(w, k)' <=> Hand(w, k)
  BY <1>2 DEF Hand, Working, Leftover
<1>4. NoHand(k) => NoHand(k)'
  BY <1>3 DEF NoHand
<1>5. ASSUME RequeueRead(a) PROVE Placed(k)'
  <2>1. ajob[a] \in Job /\ InHand(a, ajob[a])
    BY <1>0, <1>5 DEF RequeueRead, InHand
  <2>2. ~Missing(hash[ajob[a]])
    BY <2>1, FromAdmin DEF Unfinished, Missing
  <2>3. \A b \in Admin : InHand(b, k)' <=> InHand(b, k)
    BY <1>0, <1>5, <2>2 DEF RequeueRead, InHand
  <2>4. Steady(k)
    BY <1>3, <1>5, <2>3 DEF Steady, RequeueRead, OnceQueued, Queued, Unfinished, redisVars
  <2> QED
    BY <1>1, <2>4, SteadyPlaced
<1>6. ASSUME RequeueWrite(a) PROVE Placed(k)'
  <2>1. ajob[a] \in Job /\ InHand(a, ajob[a])
    BY <1>0, <1>6 DEF RequeueWrite, InHand
  <2>2. \A b \in Admin : InHand(b, k)' <=> InHand(b, k)
    BY <1>0, <1>6 DEF RequeueWrite, InHand
  <2>3. Unfinished(ajob[a])
    BY <2>1, FromAdmin
  <2>4. Unfinished(k)' <=> Unfinished(k)
    BY <1>0, <1>6, <2>1, <2>3 DEF RequeueWrite, Update, Unfinished
  <2>5. Steady(k)
    BY <1>3, <1>6, <2>2, <2>4 DEF Steady, RequeueWrite, OnceQueued, Queued
  <2> QED
    BY <1>1, <2>5, SteadyPlaced
<1>7. ASSUME RequeuePush(a) PROVE Placed(k)'
  <2>1. /\ ajob[a] \in Job /\ InHand(a, ajob[a]) /\ LPush(ajob[a])
        /\ dlq' = dlq /\ hash' = hash
    BY <1>0, <1>7 DEF RequeuePush, InHand
  <2>2. apc'[a] = "idle" /\ \A b \in Admin : b # a => /\ apc'[b] = apc[b]
                                                      /\ ajob'[b] = ajob[b]
    BY <1>0, <1>7 DEF RequeuePush, Return
  <2>3. ~InHand(a, k)' /\ \A b \in Admin : b # a => (InHand(b, k)' <=> InHand(b, k))
    BY <2>2 DEF InHand
  <2>4. CASE k = ajob[a]
    <3>1. /\ Unfinished(k) /\ ~Queued(k) /\ NoHand(k) /\ dlq[k] = 0
          /\ \A b \in Admin : InHand(b, k) <=> b = a
      BY <1>1, <2>1, <2>4, FromAdmin
    <3>2. OnceQueued(k)'
      BY <1>0, <2>1, <2>4, <3>1, OnceAppend
    <3>3. Unfinished(k)' /\ NoHand(k)' /\ dlq'[k] = 0 /\ NoAdmin(k)'
      BY <1>4, <2>1, <2>3, <3>1 DEF Unfinished, NoAdmin
    <3> QED
      BY <3>2, <3>3 DEF Placed
  <2>5. CASE k # ajob[a]
    <3>1. (OnceQueued(k) => OnceQueued(k)') /\ (~Queued(k) => ~Queued(k)')
      BY <1>0, <2>1, <2>5, OnceAppend
    <3>2. ~InHand(a, k)
      BY <2>5 DEF InHand
    <3>3. \A b \in Admin : InHand(b, k)' <=> InHand(b, k)
      BY <2>3, <3>2
    <3>4. Steady(k)
      BY <1>3, <2>1, <3>1, <3>3 DEF Steady, Unfinished
    <3> QED
      BY <1>1, <3>4, SteadyPlaced
  <2> QED
    BY <2>4, <2>5
<1>8. ASSUME NEW j \in Job, RequeueRemove(a, j) PROVE Placed(k)'
  <2>1. /\ queue' = queue /\ hash' = hash
        /\ apc[a] = "idle" /\ dlq[j] > 0 /\ dlq' = [dlq EXCEPT ![j] = @ - 1]
    BY <1>8 DEF RequeueRemove
  <2>2. /\ apc'[a] = "read" /\ ajob'[a] = j
        /\ \A b \in Admin : b # a => apc'[b] = apc[b] /\ ajob'[b] = ajob[b]
    BY <1>0, <1>8 DEF RequeueRemove
  <2>3. /\ ~InHand(a, k) /\ (InHand(a, k)' <=> k = j)
        /\ \A b \in Admin : b # a => (InHand(b, k)' <=> InHand(b, k))
    BY <2>1, <2>2 DEF InHand
  <2>4. /\ Unfinished(k)' <=> Unfinished(k)
        /\ OnceQueued(k) => OnceQueued(k)'
        /\ ~Queued(k) => ~Queued(k)'
    BY <2>1 DEF Unfinished, OnceQueued, Queued
  <2>5. CASE k = j
    <3>1. Unfinished(k) /\ ~Queued(k) /\ NoHand(k) /\ dlq[k] = 1 /\ NoAdmin(k)
      BY <1>1, <2>1, <2>5, FromDlq
    <3>2. dlq'[k] = 0
      BY <1>0, <2>1, <2>5, <3>1
    <3>3. OneAdmin(k)'
      BY <2>3, <2>5, <3>1 DEF OneAdmin, NoAdmin
    <3> QED
      BY <1>4, <2>4, <3>1, <3>2, <3>3 DEF Placed
  <2>6. CASE k # j
    <3>1. dlq'[k] = dlq[k]
      BY <1>0, <2>1, <2>6
    <3>2. \A b \in Admin : InHand(b, k)' <=> InHand(b, k)
      BY <2>3, <2>6
    <3>3. Steady(k)
      BY <1>3, <2>4, <3>1, <3>2 DEF Steady
    <3> QED
      BY <1>1, <3>3, SteadyPlaced
  <2> QED
    BY <2>5, <2>6
<1> QED
  BY <1>5, <1>6, <1>7, <1>8 DEF AdminStep

\* enqueue queues an id that was nowhere.
LEMMA EnqueuePlaced ==
  ASSUME TypeOK, NEW k \in Job, Placed(k), NEW j \in Job, Enqueue(j)
  PROVE  Placed(k)'
<1>0. queue \in Seq(Job) /\ hash \in [Job -> JobHash]
  BY DEF TypeOK, RedisTypeOK
<1>1. /\ LPush(j) /\ dlq' = dlq /\ pc' = pc /\ job' = job
      /\ apc' = apc /\ ajob' = ajob
  BY DEF Enqueue, adminVars
<1>2. /\ \A w \in Worker : Hand(w, k)' <=> Hand(w, k)
      /\ \A a \in Admin : InHand(a, k)' <=> InHand(a, k)
      /\ dlq'[k] = dlq[k]
  BY <1>1 DEF Hand, Working, Leftover, InHand
<1>3. CASE k = j
  <2>1. ~Unfinished(k) /\ Unfinished(k)'
    BY <1>0, <1>3 DEF Enqueue, Unfinished, Update
  <2>2. ~Queued(k) /\ NoHand(k) /\ dlq[k] = 0 /\ NoAdmin(k)
    BY <2>1 DEF Placed
  <2>3. OnceQueued(k)'
    BY <1>0, <1>1, <1>3, <2>2, OnceAppend
  <2>4. NoHand(k)' /\ dlq'[k] = 0 /\ NoAdmin(k)'
    BY <1>2, <2>2 DEF NoHand, NoAdmin
  <2> QED
    BY <2>1, <2>3, <2>4 DEF Placed
<1>4. CASE k # j
  <2>1. (OnceQueued(k) => OnceQueued(k)') /\ (~Queued(k) => ~Queued(k)')
    BY <1>0, <1>1, <1>4, OnceAppend
  <2>2. Unfinished(k)' <=> Unfinished(k)
    BY <1>0, <1>4 DEF Enqueue, Unfinished, Update
  <2>3. Steady(k)
    BY <1>2, <2>1, <2>2 DEF Steady
  <2> QED
    BY <2>3, SteadyPlaced
<1> QED
  BY <1>3, <1>4

\* With the budgets of Undisturbed the faults do not occur.
LEMMA NoFault ==
  ASSUME TypeOK, Undisturbed
  PROVE  /\ Faultless
         /\ \A w \in Worker : /\ ~ClaimFails(w) /\ ~RetryRaises(w)
                              /\ ~ReleaseFails(w) /\ ~Crash(w)
         /\ \A a \in Admin : ~AdminCrash(a)
         /\ \A j \in Job : ~HashExpires(j)
<1>1. \A k \in {"crash", "error"} : spent[k] \in Nat /\ spent[k] <= 0
  BY DEF TypeOK, HistoryTypeOK, Kinds, Undisturbed, NoLossFaults
<1>2. Faultless
  BY <1>1 DEF Faultless
<1>3. ~Spend("crash") /\ ~Spend("error") /\ ~Spend("expiry") /\ ~Spend("adminCrash")
  BY NoSpend DEF Undisturbed, NoLossFaults, Kinds, TypeOK
<1> QED
  BY <1>2, <1>3 DEF ClaimFails, RetryRaises, ReleaseFails, Crash, AdminCrash, HashExpires

\* Every step hands an id on without dropping or doubling it.
LEMMA NextPlace ==
  ASSUME TypeOK, TypeOK', UniqueIds, Undisturbed, PlaceInv, [Next]_vars
  PROVE  PlaceInv'
<1>1. HandInv /\ ListInv /\ \A j \in Job : Placed(j)
  BY DEF PlaceInv
<1>2. HandInv'
  BY <1>1, NextHand
<1>3. Faultless'
  <2>1. \A k \in {"crash", "error"} : spent'[k] \in Nat /\ spent'[k] <= 0
    BY DEF TypeOK, HistoryTypeOK, Kinds, Undisturbed, NoLossFaults
  <2> QED
    BY <2>1 DEF Faultless
<1>4. CASE UNCHANGED vars
  BY <1>4 DEF vars, PlaceInv, HandInv, InHandIsRecoverable, ListInv, Placed,
     OnceQueued, Queued, OneHand, NoHand, Hand, OneAdmin, NoAdmin, InHand,
     Unfinished, Working, Leftover
<1>5. CASE Next
  <2>1. ListInv'
    BY <1>1, <1>3, <1>5, NextList
  <2>2. ASSUME NEW k \in Job PROVE Placed(k)'
    <3>0. Placed(k)
      BY <1>1
    <3>1. ASSUME NEW j \in Job, Enqueue(j) PROVE Placed(k)'
      BY <3>0, <3>1, EnqueuePlaced
    <3>2. ASSUME NEW w \in Worker, RecoverOne(w) PROVE Placed(k)'
      <4>1. ~Working(w)
        BY <3>2 DEF RecoverOne, Working
      <4>2. \A j \in Job : processing[wid[w]][j] = 0
        BY <1>1, <4>1, EmptyList
      <4> QED
        BY <3>2, <4>2 DEF RecoverOne
    <3>3. ASSUME NEW w \in Worker, Claim(w) PROVE Placed(k)'
      BY <1>1, <3>3, ClaimPlaced
    <3>4. ASSUME NEW w \in Worker,
                 PushBusy(w) \/ PushRetry(w) \/ PushDead(w) \/ RunSucceeds(w)
          PROVE  Placed(k)'
      BY <1>1, <3>4, GivePlaced
    <3>5. ASSUME NEW w \in Worker,
                 \/ Start(w) \/ RecoverDone(w) \/ ClaimTimeout(w) \/ Load(w) \/ Drop(w)
                 \/ AcquireLock(w) \/ BeginRun(w) \/ RunFails(w)
                 \/ ReleaseLock(w) \/ ReleaseQuota(w) \/ Ack(w) \/ Signal(w)
          PROVE  Placed(k)'
      BY <3>0, <3>5, KeepPlaced
    <3>6. ASSUME NEW a \in Admin, AdminStep(a) \/ \E j \in Job : RequeueRemove(a, j)
          PROVE  Placed(k)'
      BY <1>1, <3>6, AdminPlaced
    <3>7. ASSUME NEW r \in Repo, LockExpires(r) PROVE Placed(k)'
      <4>1. Steady(k)
        BY <3>7 DEF LockExpires, Steady, OnceQueued, Queued, Hand, Working, Leftover,
                    InHand, Unfinished, adminVars
      <4> QED
        BY <3>0, <4>1, SteadyPlaced
    <3> QED
      BY <1>5, <3>1, <3>2, <3>3, <3>4, <3>5, <3>6, <3>7, NoFault
         DEF Next, WorkerStep, WorkerFault
  <2> QED
    BY <1>2, <2>1, <2>2 DEF PlaceInv
<1> QED
  BY <1>4, <1>5

\* The initial state: every id is nowhere.
LEMMA InitPlace == Init => PlaceInv
BY DEF Init, PlaceInv, HandInv, InHandIsRecoverable, ListInv, Placed, Queued, NoHand,
   Hand, NoAdmin, InHand, Unfinished, Working

LEMMA AlwaysPlaced ==
  ASSUME UniqueIds, Undisturbed
  PROVE  Spec => [](TypeOK /\ PlaceInv)
<1>1. TypeOK /\ TypeOK' /\ PlaceInv /\ [Next]_vars => PlaceInv'
  BY NextPlace
<1> QED
  BY <1>1, InitPlace, TypeCorrect, PTL DEF Spec

\* A list keeps a job iff it is the list of the worker that has it in hand.
LEMMA KeptInHand ==
  ASSUME TypeOK, UniqueIds, PlaceInv, NEW i \in WorkerId, NEW j \in Job
  PROVE  Kept(i, j) = IF \E w \in Worker : Hand(w, j) /\ wid[w] = i THEN 1 ELSE 0
<1>1. HandInv /\ ListInv
  BY DEF PlaceInv
<1>2. \A v, w \in Worker : wid[v] = wid[w] => v = w
  BY <1>1, DistinctIds
<1>3. \A w \in Worker : Leftover(w) => Working(w)
  BY DEF Leftover, Working
<1>4. CASE \E w \in Worker : wid[w] = i /\ Leftover(w) /\ job[w] = j
  <2>1. PICK w \in Worker : wid[w] = i /\ Leftover(w) /\ job[w] = j
    BY <1>4
  <2>2. processing[i][j] = 1
    BY <1>1, <1>3, <2>1 DEF ListInv
  <2>3. ~\E v \in Worker : Hand(v, j) /\ wid[v] = i
    BY <1>2, <2>1 DEF Hand
  <2>4. Kept(i, j) = processing[i][j] - 1
    BY <1>4 DEF Kept
  <2> QED
    BY <2>2, <2>3, <2>4
<1>5. CASE ~\E w \in Worker : wid[w] = i /\ Leftover(w) /\ job[w] = j
  <2>0. Kept(i, j) = processing[i][j]
    BY <1>5 DEF Kept
  <2>1. CASE processing[i][j] = 0
    <3>1. ~\E v \in Worker : Hand(v, j) /\ wid[v] = i
      BY <1>1, <2>1 DEF Hand, ListInv
    <3> QED
      BY <2>0, <2>1, <3>1
  <2>2. CASE processing[i][j] # 0
    <3>1. PICK v \in Worker : wid[v] = i /\ Working(v) /\ job[v] = j
      BY <1>1, <2>2 DEF ListInv
    <3>2. Hand(v, j)
      BY <1>5, <3>1 DEF Hand
    <3>3. processing[i][j] = 1
      BY <1>1, <3>1 DEF ListInv
    <3> QED
      BY <2>0, <3>1, <3>2, <3>3
  <2> QED
    BY <2>1, <2>2
<1> QED
  BY <1>4, <1>5

\* Each of the four parts of Places(j) is a singleton or empty.
LEMMA PartsOfPlaces ==
  ASSUME TypeOK, UniqueIds, PlaceInv, NEW j \in Job
  PROVE  /\ Places(j) = QueuePart(j) \cup ListPart(j) \cup DlqPart(j) \cup AdminPart(j)
         /\ ~Queued(j) => QueuePart(j) = {}
         /\ OnceQueued(j) => \E x : QueuePart(j) = {x}
         /\ NoHand(j) => ListPart(j) = {}
         /\ OneHand(j) => \E x : ListPart(j) = {x}
         /\ dlq[j] = 0 => DlqPart(j) = {}
         /\ dlq[j] = 1 => \E x : DlqPart(j) = {x}
         /\ NoAdmin(j) => AdminPart(j) = {}
         /\ OneAdmin(j) => \E x : AdminPart(j) = {x}
<1>1. Places(j) = QueuePart(j) \cup ListPart(j) \cup DlqPart(j) \cup AdminPart(j)
  BY DEF Places
<1>2. ~Queued(j) => QueuePart(j) = {}
  BY DEF Queued, QueuePart
<1>3. ASSUME OnceQueued(j) PROVE \E x : QueuePart(j) = {x}
  <2>1. PICK n \in 1..Len(queue) : queue[n] = j
    BY <1>3 DEF OnceQueued, Queued
  <2>2. {m \in 1..Len(queue) : queue[m] = j} = {n}
    BY <1>3, <2>1 DEF OnceQueued
  <2>3. QueuePart(j) = {<<"queue", n>>}
    BY <2>2 DEF QueuePart
  <2> QED
    BY <2>3
<1>4. ASSUME NoHand(j) PROVE ListPart(j) = {}
  <2>1. \A i \in WorkerId : Kept(i, j) = 0
    BY <1>4, KeptInHand DEF NoHand
  <2>2. \A i \in WorkerId : {<<"list", i, n>> : n \in 1..Kept(i, j)} = {}
    BY <2>1
  <2> QED
    BY <2>2 DEF ListPart
<1>5. ASSUME OneHand(j) PROVE \E x : ListPart(j) = {x}
  <2>1. PICK w \in Worker : \A v \in Worker : Hand(v, j) <=> v = w
    BY <1>5 DEF OneHand
  <2>2. wid[w] \in WorkerId
    BY DEF TypeOK, WorkerTypeOK
  <2>3. \A i \in WorkerId : Kept(i, j) = IF i = wid[w] THEN 1 ELSE 0
    BY <2>1, KeptInHand
  <2>4. \A i \in WorkerId : {<<"list", i, n>> : n \in 1..Kept(i, j)}
                            = IF i = wid[w] THEN {<<"list", i, 1>>} ELSE {}
    <3> SUFFICES ASSUME NEW i \in WorkerId
                 PROVE {<<"list", i, n>> : n \in 1..Kept(i, j)}
                            = IF i = wid[w] THEN {<<"list", i, 1>>} ELSE {}
      OBVIOUS
    <3>1. CASE i = wid[w]
      <4>1. 1..Kept(i, j) = {1}
        BY <2>3, <3>1
      <4> QED
        BY <3>1, <4>1
    <3>2. CASE i # wid[w]
      <4>1. 1..Kept(i, j) = {}
        BY <2>3, <3>2
      <4> QED
        BY <3>2, <4>1
    <3> QED
      BY <3>1, <3>2
  <2>5. ListPart(j) = {<<"list", wid[w], 1>>}
    BY <2>2, <2>4 DEF ListPart
  <2> QED
    BY <2>5
<1>6. dlq[j] = 0 => DlqPart(j) = {}
  BY DEF DlqPart
<1>7. ASSUME dlq[j] = 1 PROVE \E x : DlqPart(j) = {x}
  <2>1. 1..dlq[j] = {1}
    BY <1>7
  <2>2. DlqPart(j) = {<<"dlq", 1>>}
    BY <2>1 DEF DlqPart
  <2> QED
    BY <2>2
<1>8. NoAdmin(j) => AdminPart(j) = {}
  BY DEF NoAdmin, AdminPart
<1>9. ASSUME OneAdmin(j) PROVE \E x : AdminPart(j) = {x}
  <2>1. PICK a \in Admin : \A b \in Admin : InHand(b, j) <=> b = a
    BY <1>9 DEF OneAdmin
  <2>2. {b \in Admin : InHand(b, j)} = {a}
    BY <2>1
  <2>3. AdminPart(j) = {<<"admin", a>>}
    BY <2>2 DEF AdminPart
  <2> QED
    BY <2>3
<1> QED
  BY <1>1, <1>2, <1>3, <1>4, <1>5, <1>6, <1>7, <1>8, <1>9

\* Without crashes a job that is not done is in exactly one place, and a job
\* that is done, or was never enqueued, in none.
THEOREM ExactlyOneCopy ==
  ASSUME UniqueIds, Undisturbed
  PROVE  Spec => []OneCopy
<1>1. TypeOK /\ PlaceInv => OneCopy
  <2> SUFFICES ASSUME TypeOK, PlaceInv, NEW j \in Job
               PROVE  Cardinality(Places(j)) = IF Unfinished(j) THEN 1 ELSE 0
    BY DEF OneCopy
  <2>1. Placed(j)
    BY DEF PlaceInv
  <2>2. CASE Unfinished(j)
    <3>1. \E x : Places(j) = {x}
      BY <2>1, <2>2, PartsOfPlaces DEF Placed
    <3> QED
      BY <2>2, <3>1, FS_Singleton
  <2>3. CASE ~Unfinished(j)
    <3>1. Places(j) = {}
      BY <2>1, <2>3, PartsOfPlaces DEF Placed
    <3> QED
      BY <2>3, <3>1, FS_EmptySet
  <2> QED
    BY <2>2, <2>3
<1> QED
  BY <1>1, AlwaysPlaced, PTL

\* Without crashes a job that succeeded is never touched again: no worker and no
\* administrator still has it when its success is written.
THEOREM SuccessIsFinal ==
  ASSUME UniqueIds, Undisturbed
  PROVE  Spec => SucceededIsFinal
<1>1. TypeOK /\ PlaceInv /\ [Next]_vars
      => [\A j \in Job : hash[j].status = "succeeded" => hash'[j] = hash[j]]_vars
  <2> SUFFICES ASSUME TypeOK, PlaceInv, Next, NEW k \in Job, hash[k].status = "succeeded"
               PROVE  hash'[k] = hash[k]
    OBVIOUS
  <2>0. hash \in [Job -> JobHash] /\ Placed(k) /\ ~Unfinished(k)
    BY DEF TypeOK, RedisTypeOK, PlaceInv, Unfinished
  <2>1. NoHand(k) /\ NoAdmin(k)
    BY <2>0 DEF Placed
  <2>2. ASSUME NEW w \in Worker, BeginRun(w) \/ RunSucceeds(w) \/ RunFails(w)
        PROVE  hash'[k] = hash[k]
    <3>1. Working(w) /\ ~Leftover(w)
      BY <2>2 DEF BeginRun, RunSucceeds, RunFails, Working, Leftover
    <3>2. job[w] # k
      BY <2>1, <3>1 DEF NoHand, Hand
    <3> QED
      BY <2>0, <2>2, <3>2 DEF BeginRun, RunSucceeds, RunFails, Update
  <2>3. ASSUME NEW a \in Admin, RequeueWrite(a) PROVE hash'[k] = hash[k]
    <3>1. ajob[a] # k
      BY <2>1, <2>3 DEF NoAdmin, InHand, RequeueWrite
    <3> QED
      BY <2>0, <2>3, <3>1 DEF RequeueWrite, Update
  <2>4. ASSUME NEW j \in Job, Enqueue(j) PROVE hash'[k] = hash[k]
    BY <2>0, <2>4 DEF Enqueue, Update
  <2>5. CASE hash' = hash
    BY <2>5
  <2> QED
    BY <2>2, <2>3, <2>4, <2>5, NoFault
       DEF Next, WorkerStep, WorkerFault, AdminStep, Start, RecoverOne, RecoverDone,
           Claim, ClaimTimeout, Load, Drop, AcquireLock, PushBusy, PushDead,
           PushRetry, ReleaseLock, ReleaseQuota, Ack, Signal, RequeueRead,
           RequeuePush, RequeueRemove, LockExpires, redisVars
<1> QED
  BY <1>1, AlwaysPlaced, PTL DEF Spec, SucceededIsFinal
-----------------------------------------------------------------------------
\* The queue implements the ledger

\* The attempts counted in the hash of k are twice the runs, less one while a
\* run is under way.
Tally(k) ==
    LET s == hash[k].status
        n == hash[k].attempts IN
    /\ s = "none"    => runs[k] = 0
    /\ s = "pending" => n = 2 * runs[k] /\ n < MaxAttempts
    /\ s = "running" => n + 1 = 2 * runs[k] /\ n <= MaxAttempts

\* The status of the hash of a job that the worker has in hand.
StatusAt(w) == IF pc[w] = "dispatch" THEN "running"
               ELSE IF pc[w] = "toDlq" THEN "dead" ELSE "pending"

HandFits(w, k) ==
    /\ hash[k].status = StatusAt(w)
    /\ pc[w] \in {"lock", "busy", "start", "dispatch"} => att[w] = hash[k].attempts

AdminFits(a, k) ==
    hash[k].status = IF apc[a] = "push" THEN "pending" ELSE "dead"

\* The hash of k says where its id is; a worker that is going to write the
\* hash has the count that is in it.
Fits(k) ==
    /\ Queued(k) => hash[k].status = "pending"
    /\ dlq[k] # 0 => hash[k].status = "dead"
    /\ \A a \in Admin : InHand(a, k) => AdminFits(a, k)
    /\ \A w \in Worker : Hand(w, k) => HandFits(w, k)

CountInv == \A k \in Job : Tally(k) /\ Fits(k)

\* A step that neither writes the hash of k nor takes its id anywhere.
LEMMA FitsFrame ==
  ASSUME NEW k \in Job, Tally(k), Fits(k),
         hash'[k] = hash[k], runs'[k] = runs[k],
         Queued(k)' => Queued(k), dlq'[k] = dlq[k],
         \A a \in Admin : InHand(a, k)' => InHand(a, k) /\ apc'[a] = apc[a],
         \A w \in Worker : Hand(w, k)' => Hand(w, k) /\ pc'[w] = pc[w] /\ att'[w] = att[w]
  PROVE  Tally(k)' /\ Fits(k)'
<1>1. Tally(k)'
  BY DEF Tally
<1>2. \A w \in Worker : Hand(w, k)' => HandFits(w, k)'
  BY DEF Fits, HandFits, StatusAt
<1>3. \A a \in Admin : InHand(a, k)' => AdminFits(a, k)'
  BY DEF Fits, AdminFits
<1> QED
  BY <1>1, <1>2, <1>3 DEF Fits

\* The arithmetic of one run: it counts an attempt, and its failure another.
LEMMA TallyStep ==
  ASSUME NEW n \in Nat, NEW r \in Nat
  PROVE  /\ n = 2 * r /\ n < MaxAttempts
            => /\ (n + 1) + 1 = 2 * (r + 1) /\ n + 1 <= MaxAttempts
               /\ r < MaxAttempts
         /\ n + 1 = 2 * r /\ n + 1 < MaxAttempts => r < MaxAttempts
<1>1. MaxAttempts \in Nat
  BY AttemptAssumption
<1> QED
  BY <1>1

\* What the steps of a worker that has k in hand leave to be shown of k: the
\* tally, and that the hash fits the worker.
LEMMA FitsInHand ==
  ASSUME NEW k \in Job, Placed(k), NEW w \in Worker, Hand(w, k),
         queue' = queue, dlq' = dlq, apc' = apc, ajob' = ajob,
         \A v \in Worker : v # w => (Hand(v, k)' => Hand(v, k)),
         Hand(w, k)' => HandFits(w, k)'
  PROVE  Fits(k)'
<1>1. /\ ~Queued(k) /\ dlq[k] = 0 /\ NoAdmin(k)
      /\ \A v \in Worker : Hand(v, k) <=> v = w
  BY FromHand
<1>2. ~Queued(k)' /\ dlq'[k] = 0 /\ \A a \in Admin : ~InHand(a, k)'
  BY <1>1 DEF Queued, NoAdmin, InHand
<1>3. \A v \in Worker : Hand(v, k)' => v = w
  BY <1>1
<1> QED
  BY <1>2, <1>3 DEF Fits

\* The steps of workers and of the environment that write no hash and push no id.
LEMMA QuietFits ==
  ASSUME TypeOK, NEW k \in Job, Placed(k), Tally(k), Fits(k), NEW w \in Worker,
         \/ Start(w) \/ RecoverDone(w) \/ ClaimTimeout(w) \/ Load(w) \/ Drop(w)
         \/ AcquireLock(w) \/ ReleaseLock(w) \/ ReleaseQuota(w) \/ Ack(w) \/ Signal(w)
  PROVE  Tally(k)' /\ Fits(k)'
<1> USE DEF Goto, redisVars, adminVars
<1>0. /\ pc \in [Worker -> WorkerPC] /\ job \in [Worker -> Job \cup {NoJob}]
      /\ att \in [Worker -> Nat]
  BY DEF TypeOK, WorkerTypeOK
<1>1. /\ queue' = queue /\ dlq' = dlq /\ hash' = hash /\ runs' = runs
      /\ apc' = apc /\ ajob' = ajob
  BY DEF Start, RecoverDone, ClaimTimeout, Load, Drop, AcquireLock,
         ReleaseLock, ReleaseQuota, Ack, Signal
<1>2. ASSUME \A v \in Worker : Hand(v, k)' => Hand(v, k) /\ pc'[v] = pc[v] /\ att'[v] = att[v]
      PROVE  Tally(k)' /\ Fits(k)'
  <2>1. /\ hash'[k] = hash[k] /\ runs'[k] = runs[k] /\ dlq'[k] = dlq[k]
        /\ Queued(k)' => Queued(k)
        /\ \A a \in Admin : InHand(a, k)' => InHand(a, k) /\ apc'[a] = apc[a]
    BY <1>1 DEF Queued, InHand
  <2> QED
    BY <1>2, <2>1, FitsFrame
<1>3. CASE Start(w) \/ RecoverDone(w) \/ ClaimTimeout(w) \/ Drop(w) \/ Ack(w)
  <2>1. \A v \in Worker : v # w => pc'[v] = pc[v] /\ job'[v] = job[v] /\ att'[v] = att[v]
    BY <1>0, <1>3 DEF Start, RecoverDone, ClaimTimeout, Drop, Ack, NextRound
  <2>2. pc'[w] \in {"down", "recover", "claim"}
    BY <1>0, <1>3 DEF Start, RecoverDone, ClaimTimeout, Drop, Ack, NextRound
  <2> QED
    BY <1>2, <2>1, <2>2 DEF Hand, Working, Leftover
<1>4. CASE Signal(w)
  BY <1>2, <1>4 DEF Signal, Hand, Working, Leftover
<1>5. CASE ReleaseLock(w) \/ ReleaseQuota(w)
  <2>1. /\ job' = job /\ att' = att
        /\ pc'[w] \in {"quota", "ack"}
        /\ \A v \in Worker : v # w => pc'[v] = pc[v]
    BY <1>0, <1>5 DEF ReleaseLock, ReleaseQuota
  <2> QED
    BY <1>2, <2>1 DEF Hand, Working, Leftover
<1>6. CASE Load(w) \/ AcquireLock(w)
  <2>1. /\ job' = job /\ Working(w) /\ ~Leftover(w)
        /\ \A v \in Worker : v # w => pc'[v] = pc[v] /\ att'[v] = att[v]
    BY <1>0, <1>6 DEF Load, AcquireLock, Working, Leftover
  <2>2. CASE k # job[w]
    BY <1>2, <2>1, <2>2 DEF Hand, Working, Leftover
  <2>3. CASE k = job[w]
    <3>1. Hand(w, k)
      BY <2>1, <2>3 DEF Hand
    <3>2. HandFits(w, k)
      BY <3>1 DEF Fits
    <3>3. hash[k].status = "pending"
      BY <1>6, <3>2 DEF HandFits, StatusAt, Load, AcquireLock
    <3>4. /\ pc'[w] \in {"lock", "start", "busy"}
          /\ att'[w] = hash[k].attempts
      BY <1>0, <1>6, <2>3, <3>2, <3>3 DEF HandFits, Load, AcquireLock, Missing
    <3>5. HandFits(w, k)'
      BY <1>1, <3>3, <3>4 DEF HandFits, StatusAt
    <3>6. \A v \in Worker : v # w => (Hand(v, k)' => Hand(v, k))
      BY <2>1 DEF Hand, Working, Leftover
    <3>7. Fits(k)'
      BY <1>1, <3>1, <3>5, <3>6, FitsInHand
    <3>8. Tally(k)'
      BY <1>1 DEF Tally
    <3> QED
      BY <3>7, <3>8
  <2> QED
    BY <2>2, <2>3
<1> QED
  BY <1>3, <1>4, <1>5, <1>6

\* The steps of a worker that write the hash of the job in hand.
LEMMA WriteFits ==
  ASSUME TypeOK, NEW k \in Job, Placed(k), Tally(k), Fits(k), NEW w \in Worker,
         BeginRun(w) \/ RunSucceeds(w) \/ RunFails(w)
  PROVE  Tally(k)' /\ Fits(k)'
<1> USE DEF Goto, adminVars
<1>0. /\ pc \in [Worker -> WorkerPC] /\ job \in [Worker -> Job \cup {NoJob}]
      /\ att \in [Worker -> Nat] /\ hash \in [Job -> JobHash]
      /\ runs \in [Job -> Nat]
  BY DEF TypeOK, WorkerTypeOK, RedisTypeOK, HistoryTypeOK
<1>1. /\ queue' = queue /\ dlq' = dlq /\ apc' = apc /\ ajob' = ajob /\ job' = job
      /\ Working(w) /\ ~Leftover(w) /\ job[w] \in Job
  BY DEF BeginRun, RunSucceeds, RunFails, Working, Leftover, TypeOK, WorkerTypeOK
<1>2. \A v \in Worker : v # w => pc'[v] = pc[v] /\ att'[v] = att[v]
  BY <1>0 DEF BeginRun, RunSucceeds, RunFails
<1>3. CASE k # job[w]
  <2>1. hash'[k] = hash[k] /\ runs'[k] = runs[k]
    BY <1>0, <1>1, <1>3 DEF BeginRun, RunSucceeds, RunFails, Update
  <2>2. \A v \in Worker : Hand(v, k)' => Hand(v, k) /\ pc'[v] = pc[v] /\ att'[v] = att[v]
    BY <1>1, <1>2, <1>3 DEF Hand, Working, Leftover
  <2>3. /\ dlq'[k] = dlq[k]
        /\ Queued(k)' => Queued(k)
        /\ \A a \in Admin : InHand(a, k)' => InHand(a, k) /\ apc'[a] = apc[a]
    BY <1>1 DEF Queued, InHand
  <2> QED
    BY <2>1, <2>2, <2>3, FitsFrame
<1>4. CASE k = job[w]
  <2> DEFINE n == hash[k].attempts
             r == runs[k]
  <2>0. n \in Nat /\ r \in Nat
    BY <1>0 DEF JobHash
  <2>1. Hand(w, k)
    BY <1>1, <1>4 DEF Hand
  <2>2. HandFits(w, k)
    BY <2>1 DEF Fits
  <2>3. \A v \in Worker : v # w => (Hand(v, k)' => Hand(v, k))
    BY <1>1, <1>2 DEF Hand, Working, Leftover
  <2>4. ASSUME Hand(w, k)' => HandFits(w, k)' PROVE Fits(k)'
    BY <1>1, <2>1, <2>3, <2>4, FitsInHand
  <2>5. CASE BeginRun(w)
    <3>1. n = 2 * r /\ n < MaxAttempts /\ att[w] = n
      BY <2>2, <2>5 DEF BeginRun, HandFits, StatusAt, Tally
    <3>2. /\ hash'[k].status = "running" /\ hash'[k].attempts = n + 1
          /\ runs'[k] = r + 1 /\ pc'[w] = "dispatch" /\ att'[w] = n + 1
      BY <1>0, <1>4, <2>5, <3>1 DEF BeginRun, Update
    <3> HIDE DEF n, r
    <3>3. (n + 1) + 1 = 2 * (r + 1) /\ n + 1 <= MaxAttempts
      BY <2>0, <3>1, TallyStep
    <3>4. Tally(k)'
      BY <3>2, <3>3 DEF Tally
    <3>5. HandFits(w, k)'
      BY <3>2 DEF HandFits, StatusAt
    <3> QED
      BY <2>4, <3>4, <3>5
  <2>6. CASE RunSucceeds(w)
    <3>1. hash'[k].status = "succeeded" /\ pc'[w] = "release"
      BY <1>0, <1>4, <2>6 DEF RunSucceeds, Update
    <3>2. ~Hand(w, k)'
      BY <3>1 DEF Hand, Leftover
    <3>3. Tally(k)'
      BY <3>1 DEF Tally
    <3> QED
      BY <2>4, <3>2, <3>3
  <2>7. CASE RunFails(w)
    <3>1. n + 1 = 2 * r /\ n <= MaxAttempts /\ att[w] = n
      BY <2>2, <2>7 DEF RunFails, HandFits, StatusAt, Tally
    <3>2. runs'[k] = r
      BY <2>7 DEF RunFails
    <3>3. CASE n + 1 >= MaxAttempts
      <4>1. hash'[k].status = "dead" /\ pc'[w] = "toDlq"
        BY <1>0, <1>4, <2>7, <3>1, <3>3 DEF RunFails, Update
      <4> HIDE DEF n, r
      <4>2. Tally(k)' /\ HandFits(w, k)'
        BY <4>1 DEF Tally, HandFits, StatusAt
      <4> QED
        BY <2>4, <4>2
    <3>4. CASE ~(n + 1 >= MaxAttempts)
      <4>1. /\ hash'[k].status = "pending" /\ hash'[k].attempts = n + 1
            /\ pc'[w] = "backoff"
        BY <1>0, <1>4, <2>7, <3>1, <3>4 DEF RunFails, Update
      <4>2. n + 1 < MaxAttempts
        BY <2>0, <3>4, AttemptAssumption
      <4> HIDE DEF n, r
      <4>3. Tally(k)'
        BY <3>1, <3>2, <4>1, <4>2 DEF Tally
      <4>4. HandFits(w, k)'
        BY <4>1 DEF HandFits, StatusAt
      <4> QED
        BY <2>4, <4>3, <4>4
    <3> QED
      BY <3>3, <3>4
  <2> QED
    BY <2>5, <2>6, <2>7
<1> QED
  BY <1>3, <1>4

\* The steps of a worker that push the job in hand: what they push fits the
\* list it is pushed to.
LEMMA PushFits ==
  ASSUME TypeOK, NEW k \in Job, Placed(k), Tally(k), Fits(k), NEW w \in Worker,
         PushBusy(w) \/ PushRetry(w) \/ PushDead(w)
  PROVE  Tally(k)' /\ Fits(k)'
<1> USE DEF Goto, adminVars
<1>0. /\ pc \in [Worker -> WorkerPC] /\ queue \in Seq(Job) /\ dlq \in [Job -> Nat]
  BY DEF TypeOK, WorkerTypeOK, RedisTypeOK
<1>1. /\ hash' = hash /\ runs' = runs /\ apc' = apc /\ ajob' = ajob
      /\ job' = job /\ att' = att
      /\ Working(w) /\ ~Leftover(w) /\ job[w] \in Job
  BY DEF PushBusy, PushRetry, PushDead, Working, Leftover, TypeOK, WorkerTypeOK
<1>2. /\ pc'[w] \in {"ack", "release"}
      /\ \A v \in Worker : v # w => pc'[v] = pc[v]
  BY <1>0 DEF PushBusy, PushRetry, PushDead
<1>3. \A v \in Worker : Hand(v, k)' => Hand(v, k) /\ pc'[v] = pc[v] /\ att'[v] = att[v]
  BY <1>1, <1>2 DEF Hand, Working, Leftover
<1>4. \A a \in Admin : InHand(a, k)' => InHand(a, k) /\ apc'[a] = apc[a]
  BY <1>1 DEF InHand
<1>5. CASE k # job[w]
  <2>1. dlq'[k] = dlq[k]
    BY <1>0, <1>5 DEF PushBusy, PushRetry, PushDead
  <2>2. Queued(k)' => Queued(k)
    <3>1. CASE queue' = queue
      BY <3>1 DEF Queued
    <3>2. CASE LPush(job[w])
      BY <1>0, <1>1, <1>5, <3>2, QueuedAppend
    <3> QED
      BY <3>1, <3>2 DEF PushBusy, PushRetry, PushDead
  <2> QED
    BY <1>1, <1>3, <1>4, <2>1, <2>2, FitsFrame
<1>6. CASE k = job[w]
  <2>1. Hand(w, k)
    BY <1>1, <1>6 DEF Hand
  <2>2. /\ ~Queued(k) /\ dlq[k] = 0 /\ NoAdmin(k)
        /\ \A v \in Worker : Hand(v, k) <=> v = w
    BY <2>1, FromHand
  <2>3. /\ \A v \in Worker : ~Hand(v, k)'
        /\ \A a \in Admin : ~InHand(a, k)'
    BY <1>2, <1>3, <1>4, <2>2 DEF Hand, Leftover, NoAdmin
  <2>4. hash[k].status = StatusAt(w)
    BY <2>1 DEF Fits, HandFits
  <2>5. Tally(k)'
    BY <1>1 DEF Tally
  <2>6. CASE PushBusy(w) \/ PushRetry(w)
    <3>1. hash'[k].status = "pending" /\ dlq'[k] = 0
      BY <1>1, <2>2, <2>4, <2>6 DEF StatusAt, PushBusy, PushRetry
    <3> QED
      BY <2>3, <2>5, <3>1 DEF Fits
  <2>7. CASE PushDead(w)
    <3>1. hash'[k].status = "dead" /\ ~Queued(k)'
      BY <1>1, <2>2, <2>4, <2>7 DEF StatusAt, PushDead, Queued
    <3> QED
      BY <2>3, <2>5, <3>1 DEF Fits
  <2> QED
    BY <2>6, <2>7
<1> QED
  BY <1>5, <1>6

\* A worker claims only pending jobs.
LEMMA ClaimFits ==
  ASSUME TypeOK, NEW k \in Job, Placed(k), Tally(k), Fits(k), NEW w \in Worker, Claim(w)
  PROVE  Tally(k)' /\ Fits(k)'
<1>0. /\ pc \in [Worker -> WorkerPC] /\ queue \in Seq(Job)
      /\ job \in [Worker -> Job \cup {NoJob}]
  BY DEF TypeOK, WorkerTypeOK, RedisTypeOK
<1>1. /\ queue # <<>> /\ queue' = Tail(queue) /\ dlq' = dlq /\ hash' = hash
      /\ apc' = apc /\ ajob' = ajob /\ att' = att /\ runs' = runs
  BY DEF Claim, adminVars
<1>2. /\ Queued(Head(queue))
      /\ Queued(k)' => Queued(k)
  BY <1>0, <1>1, QueuedTail
<1>3. /\ pc'[w] = "load" /\ job'[w] = Head(queue)
      /\ \A v \in Worker : v # w => pc'[v] = pc[v] /\ job'[v] = job[v]
  BY <1>0 DEF Claim, Goto
<1>4. \A v \in Worker : v # w => (Hand(v, k)' => Hand(v, k))
  BY <1>3 DEF Hand, Working, Leftover
<1>5. \A v \in Worker : v # w => (Hand(v, k)' => HandFits(v, k)')
  BY <1>1, <1>3, <1>4 DEF Fits, HandFits, StatusAt
<1>6. Hand(w, k)' => HandFits(w, k)'
  <2> SUFFICES ASSUME Hand(w, k)' PROVE HandFits(w, k)'
    OBVIOUS
  <2>1. Queued(k)
    BY <1>2, <1>3 DEF Hand
  <2>2. hash'[k].status = "pending"
    BY <1>1, <2>1 DEF Fits
  <2> QED
    BY <1>3, <2>2 DEF HandFits, StatusAt
<1>7. \A a \in Admin : InHand(a, k)' => AdminFits(a, k)'
  BY <1>1 DEF Fits, InHand, AdminFits
<1>8. Tally(k)'
  BY <1>1 DEF Tally
<1>9. /\ Queued(k)' => hash'[k].status = "pending"
      /\ dlq'[k] # 0 => hash'[k].status = "dead"
  BY <1>1, <1>2 DEF Fits
<1> QED
  BY <1>5, <1>6, <1>7, <1>8, <1>9 DEF Fits

\* requeue_dead has only dead jobs in hand until it writes "pending".
LEMMA AdminCounts ==
  ASSUME TypeOK, NEW k \in Job, Placed(k), Tally(k), Fits(k), NEW a \in Admin,
         AdminStep(a) \/ \E j \in Job : RequeueRemove(a, j)
  PROVE  Tally(k)' /\ Fits(k)'
<1>0. /\ queue \in Seq(Job) /\ dlq \in [Job -> Nat] /\ hash \in [Job -> JobHash]
      /\ runs \in [Job -> Nat]
      /\ apc \in [Admin -> AdminPC] /\ ajob \in [Admin -> Job \cup {NoJob}]
      /\ apc[a] # "idle" => ajob[a] \in Job
  BY DEF TypeOK, AdminTypeOK, RedisTypeOK, HistoryTypeOK
<1>1. pc' = pc /\ job' = job /\ att' = att
  BY DEF AdminStep, RequeueRead, RequeueWrite, RequeuePush, RequeueRemove
<1>2. \A w \in Worker : Hand(w, k)' => Hand(w, k) /\ pc'[w] = pc[w] /\ att'[w] = att[w]
  BY <1>1 DEF Hand, Working, Leftover
<1>3. \A b \in Admin : b # a => /\ apc'[b] = apc[b] /\ ajob'[b] = ajob[b]
  BY <1>0 DEF AdminStep, RequeueRead, RequeueWrite, RequeuePush, RequeueRemove, Return
<1>4. \A b \in Admin : b # a => (InHand(b, k)' => InHand(b, k) /\ apc'[b] = apc[b])
  BY <1>3 DEF InHand
<1>5. ASSUME RequeueRead(a) PROVE Tally(k)' /\ Fits(k)'
  <2>1. /\ queue' = queue /\ dlq' = dlq /\ hash' = hash /\ runs' = runs
        /\ InHand(a, k)' => InHand(a, k)
        /\ apc[a] = "read" /\ apc'[a] # "push"
    BY <1>0, <1>5 DEF RequeueRead, Return, InHand, redisVars
  <2>2. \A w \in Worker : Hand(w, k)' => HandFits(w, k)'
    BY <1>2, <2>1 DEF Fits, HandFits, StatusAt
  <2>3. InHand(a, k)' => AdminFits(a, k)'
    BY <2>1 DEF Fits, AdminFits
  <2>4. \A b \in Admin : InHand(b, k)' => AdminFits(b, k)'
    BY <1>4, <2>1, <2>3 DEF Fits, AdminFits
  <2> QED
    BY <2>1, <2>2, <2>4 DEF Fits, Tally, Queued
<1>6. ASSUME RequeueWrite(a) PROVE Tally(k)' /\ Fits(k)'
  <2>1. /\ queue' = queue /\ dlq' = dlq /\ ajob' = ajob
        /\ ajob[a] \in Job /\ apc'[a] = "push" /\ apc[a] = "write"
    BY <1>0, <1>6 DEF RequeueWrite
  <2>2. CASE k # ajob[a]
    <3>1. hash'[k] = hash[k] /\ runs'[k] = runs[k]
      BY <1>0, <1>6, <2>2 DEF RequeueWrite, Update
    <3>2. ~InHand(a, k)'
      BY <2>1, <2>2 DEF InHand
    <3>3. \A b \in Admin : InHand(b, k)' => InHand(b, k) /\ apc'[b] = apc[b]
      BY <1>4, <3>2
    <3>4. dlq'[k] = dlq[k] /\ (Queued(k)' => Queued(k))
      BY <2>1 DEF Queued
    <3> QED
      BY <1>2, <3>1, <3>3, <3>4, FitsFrame
  <2>3. CASE k = ajob[a]
    <3>1. InHand(a, k)
      BY <2>1, <2>3 DEF InHand
    <3>2. /\ ~Queued(k) /\ NoHand(k) /\ dlq[k] = 0
          /\ \A b \in Admin : InHand(b, k) <=> b = a
      BY <3>1, FromAdmin
    <3>3. hash'[k].status = "pending" /\ hash'[k].attempts = 0 /\ runs'[k] = 0
      BY <1>0, <1>6, <2>3 DEF RequeueWrite, Update
    <3>4. Tally(k)'
      BY <3>3, AttemptAssumption DEF Tally
    <3>5. \A w \in Worker : ~Hand(w, k)'
      BY <1>2, <3>2 DEF NoHand
    <3>6. \A b \in Admin : InHand(b, k)' => b = a
      BY <1>4, <3>2
    <3> QED
      BY <2>1, <3>2, <3>3, <3>4, <3>5, <3>6 DEF Fits, AdminFits, Queued
  <2> QED
    BY <2>2, <2>3
<1>7. ASSUME RequeuePush(a) PROVE Tally(k)' /\ Fits(k)'
  <2>1. /\ dlq' = dlq /\ hash' = hash /\ runs' = runs
        /\ ajob[a] \in Job /\ LPush(ajob[a]) /\ InHand(a, ajob[a]) /\ apc[a] = "push"
        /\ ~InHand(a, k)'
    BY <1>0, <1>7 DEF RequeuePush, Return, InHand
  <2>2. \A b \in Admin : InHand(b, k)' => AdminFits(b, k)'
    BY <1>4, <2>1 DEF Fits, AdminFits
  <2>3. \A w \in Worker : Hand(w, k)' => HandFits(w, k)'
    BY <1>2, <2>1 DEF Fits, HandFits, StatusAt
  <2>4. Queued(k)' => Queued(k) \/ k = ajob[a]
    BY <1>0, <2>1, QueuedAppend
  <2>5. Queued(k)' => hash'[k].status = "pending"
    BY <2>1, <2>4 DEF Fits, AdminFits
  <2> QED
    BY <2>1, <2>2, <2>3, <2>5 DEF Fits, Tally
<1>8. ASSUME NEW j \in Job, RequeueRemove(a, j) PROVE Tally(k)' /\ Fits(k)'
  <2>1. /\ queue' = queue /\ hash' = hash /\ runs' = runs
        /\ dlq[j] > 0 /\ dlq' = [dlq EXCEPT ![j] = @ - 1]
        /\ apc'[a] = "read" /\ ajob'[a] = j
    BY <1>0, <1>8 DEF RequeueRemove
  <2>2. InHand(a, k)' => AdminFits(a, k)'
    <3>1. InHand(a, k)' => k = j /\ dlq[k] # 0
      BY <1>0, <2>1 DEF InHand
    <3> QED
      BY <2>1, <3>1 DEF Fits, AdminFits
  <2>3. \A b \in Admin : InHand(b, k)' => AdminFits(b, k)'
    BY <1>4, <2>1, <2>2 DEF Fits, AdminFits
  <2>4. \A w \in Worker : Hand(w, k)' => HandFits(w, k)'
    BY <1>2, <2>1 DEF Fits, HandFits, StatusAt
  <2>5. dlq'[k] # 0 => dlq[k] # 0
    BY <1>0, <2>1
  <2> QED
    BY <2>1, <2>3, <2>4, <2>5 DEF Fits, Tally, Queued
<1> QED
  BY <1>5, <1>6, <1>7, <1>8 DEF AdminStep

\* enqueue writes "pending" with no attempts and no runs.
LEMMA EnqueueFits ==
  ASSUME TypeOK, NEW k \in Job, Placed(k), Tally(k), Fits(k), NEW j \in Job, Enqueue(j)
  PROVE  Tally(k)' /\ Fits(k)'
<1>0. queue \in Seq(Job) /\ hash \in [Job -> JobHash]
  BY DEF TypeOK, RedisTypeOK
<1>1. /\ LPush(j) /\ dlq' = dlq /\ pc' = pc /\ job' = job /\ att' = att
      /\ apc' = apc /\ ajob' = ajob /\ runs' = runs /\ hash[j].status = "none"
  BY DEF Enqueue, adminVars
<1>2. /\ \A w \in Worker : Hand(w, k)' => Hand(w, k) /\ pc'[w] = pc[w] /\ att'[w] = att[w]
      /\ \A a \in Admin : InHand(a, k)' => InHand(a, k) /\ apc'[a] = apc[a]
  BY <1>1 DEF Hand, Working, Leftover, InHand
<1>3. CASE k # j
  <2>1. hash'[k] = hash[k] /\ (Queued(k)' => Queued(k))
    BY <1>0, <1>1, <1>3, QueuedAppend DEF Enqueue, Update
  <2> QED
    BY <1>1, <1>2, <2>1, FitsFrame
<1>4. CASE k = j
  <2>1. NoHand(k) /\ dlq[k] = 0 /\ NoAdmin(k)
    BY <1>1, <1>4 DEF Placed, Unfinished
  <2>2. hash'[k].status = "pending" /\ hash'[k].attempts = 0 /\ runs'[k] = 0
    BY <1>0, <1>1, <1>4 DEF Enqueue, Update, Tally
  <2>3. Tally(k)'
    BY <2>2, AttemptAssumption DEF Tally
  <2> QED
    BY <1>1, <1>2, <2>1, <2>2, <2>3 DEF Fits, NoHand, NoAdmin
<1> QED
  BY <1>3, <1>4

\* Every step keeps the counts.
LEMMA NextCount ==
  ASSUME TypeOK, UniqueIds, Undisturbed, PlaceInv, CountInv, [Next]_vars
  PROVE  CountInv'
<1> SUFFICES ASSUME NEW k \in Job PROVE Tally(k)' /\ Fits(k)'
  BY DEF CountInv
<1>0. Placed(k) /\ Tally(k) /\ Fits(k) /\ HandInv /\ ListInv
  BY DEF PlaceInv, CountInv
<1>1. ASSUME NEW j \in Job, Enqueue(j) PROVE Tally(k)' /\ Fits(k)'
  BY <1>0, <1>1, EnqueueFits
<1>2. ASSUME NEW w \in Worker, RecoverOne(w) PROVE Tally(k)' /\ Fits(k)'
  <2>1. ~Working(w)
    BY <1>2 DEF RecoverOne, Working
  <2>2. \A j \in Job : processing[wid[w]][j] = 0
    BY <1>0, <2>1, EmptyList
  <2> QED
    BY <1>2, <2>2 DEF RecoverOne
<1>3. ASSUME NEW w \in Worker, Claim(w) PROVE Tally(k)' /\ Fits(k)'
  BY <1>0, <1>3, ClaimFits
<1>4. ASSUME NEW w \in Worker, PushBusy(w) \/ PushRetry(w) \/ PushDead(w)
      PROVE  Tally(k)' /\ Fits(k)'
  BY <1>0, <1>4, PushFits
<1>5. ASSUME NEW w \in Worker, BeginRun(w) \/ RunSucceeds(w) \/ RunFails(w)
      PROVE  Tally(k)' /\ Fits(k)'
  BY <1>0, <1>5, WriteFits
<1>6. ASSUME NEW w \in Worker,
             \/ Start(w) \/ RecoverDone(w) \/ ClaimTimeout(w) \/ Load(w) \/ Drop(w)
             \/ AcquireLock(w) \/ ReleaseLock(w) \/ ReleaseQuota(w) \/ Ack(w) \/ Signal(w)
      PROVE  Tally(k)' /\ Fits(k)'
  BY <1>0, <1>6, QuietFits
<1>7. ASSUME NEW a \in Admin, AdminStep(a) \/ \E j \in Job : RequeueRemove(a, j)
      PROVE  Tally(k)' /\ Fits(k)'
  BY <1>0, <1>7, AdminCounts
<1>8. CASE UNCHANGED vars \/ \E r \in Repo : LockExpires(r)
  <2>1. /\ queue' = queue /\ dlq' = dlq /\ hash' = hash /\ runs' = runs
        /\ pc' = pc /\ job' = job /\ att' = att /\ apc' = apc /\ ajob' = ajob
    BY <1>8 DEF vars, LockExpires, adminVars
  <2>2. /\ Queued(k)' => Queued(k)
        /\ \A w \in Worker : Hand(w, k)' => Hand(w, k) /\ pc'[w] = pc[w] /\ att'[w] = att[w]
        /\ \A a \in Admin : InHand(a, k)' => InHand(a, k) /\ apc'[a] = apc[a]
    BY <2>1 DEF Queued, Hand, Working, Leftover, InHand
  <2> QED
    BY <1>0, <2>1, <2>2, FitsFrame
<1> QED
  BY <1>1, <1>2, <1>3, <1>4, <1>5, <1>6, <1>7, <1>8, NoFault
     DEF Next, WorkerStep, WorkerFault

\* The phase of each status.
LEMMA StatusPhases ==
  /\ StatusPhase("none") = "absent" /\ StatusPhase("expired") = "absent"
  /\ StatusPhase("pending") = "waiting" /\ StatusPhase("running") = "waiting"
  /\ StatusPhase("succeeded") = "done" /\ StatusPhase("dead") = "dead"
<1>1. StatusPhase("none") = "absent" /\ StatusPhase("expired") = "absent"
  BY DEF StatusPhase
<1>2. StatusPhase("pending") = "waiting" /\ StatusPhase("running") = "waiting"
  BY DEF StatusPhase
<1>3. StatusPhase("succeeded") = "done"
  BY DEF StatusPhase
<1>4. StatusPhase("dead") = "dead"
  BY DEF StatusPhase
<1> QED
  BY <1>1, <1>2, <1>3, <1>4

\* Everything the refinement needs to know of a state.
LedgerInv == TypeOK /\ PlaceInv /\ CountInv /\ MutexInv

phases == [j \in Job |-> Phase(j)]

\* A step after which each job has the phase it had.
LEMMA SamePhases ==
  ASSUME \A k \in Job : Dispatched(k)' <=> Dispatched(k), hash' = hash
  PROVE  phases' = phases
BY DEF phases, Phase

\* The steps that no submitter sees: the hash, the runs and the dispatches stay.
LEMMA Invisible ==
  ASSUME TypeOK, Undisturbed, Next,
         ~\E j \in Job : Enqueue(j),
         ~\E w \in Worker : BeginRun(w) \/ RunSucceeds(w) \/ RunFails(w) \/ RecoverOne(w),
         ~\E a \in Admin : RequeueWrite(a)
  PROVE  phases' = phases /\ runs' = runs
<1> USE DEF Goto, redisVars, adminVars
<1>0. /\ pc \in [Worker -> WorkerPC] /\ job \in [Worker -> Job \cup {NoJob}]
  BY DEF TypeOK, WorkerTypeOK
<1>1. ASSUME NEW w \in Worker,
             \/ Start(w) \/ RecoverDone(w) \/ Claim(w) \/ ClaimTimeout(w) \/ Load(w)
             \/ Drop(w) \/ AcquireLock(w) \/ PushBusy(w) \/ PushDead(w) \/ PushRetry(w)
             \/ ReleaseLock(w) \/ ReleaseQuota(w) \/ Ack(w) \/ Signal(w)
      PROVE  phases' = phases /\ runs' = runs
  <2>1. hash' = hash /\ runs' = runs
    BY <1>1 DEF Start, RecoverDone, Claim, ClaimTimeout, Load, Drop, AcquireLock,
                PushBusy, PushDead, PushRetry, ReleaseLock, ReleaseQuota, Ack, Signal
  <2>2. \A v \in Worker : v # w => pc'[v] = pc[v] /\ job'[v] = job[v]
    <3>1. CASE Start(w) \/ RecoverDone(w) \/ Claim(w) \/ ClaimTimeout(w) \/ Load(w) \/ Drop(w)
      BY <1>0, <3>1 DEF Start, RecoverDone, Claim, ClaimTimeout, Load, Drop, NextRound
    <3>2. CASE AcquireLock(w) \/ PushBusy(w) \/ PushDead(w) \/ PushRetry(w)
      BY <1>0, <3>2 DEF AcquireLock, PushBusy, PushDead, PushRetry
    <3>3. CASE ReleaseLock(w) \/ ReleaseQuota(w) \/ Ack(w) \/ Signal(w)
      BY <1>0, <3>3 DEF ReleaseLock, ReleaseQuota, Ack, Signal, NextRound
    <3> QED
      BY <1>1, <3>1, <3>2, <3>3
  <2>3. \/ pc[w] # "dispatch" /\ pc'[w] # "dispatch"
        \/ pc'[w] = pc[w] /\ job'[w] = job[w]
    <3>1. CASE Start(w) \/ RecoverDone(w) \/ Claim(w) \/ ClaimTimeout(w) \/ Load(w) \/ Drop(w)
      BY <1>0, <3>1 DEF Start, RecoverDone, Claim, ClaimTimeout, Load, Drop, NextRound
    <3>2. CASE AcquireLock(w) \/ PushBusy(w) \/ PushDead(w) \/ PushRetry(w)
      BY <1>0, <3>2 DEF AcquireLock, PushBusy, PushDead, PushRetry
    <3>3. CASE ReleaseLock(w) \/ ReleaseQuota(w) \/ Ack(w) \/ Signal(w)
      BY <1>0, <3>3 DEF ReleaseLock, ReleaseQuota, Ack, Signal, NextRound
    <3> QED
      BY <1>1, <3>1, <3>2, <3>3
  <2>4. \A k \in Job : Dispatched(k)' <=> Dispatched(k)
    BY <2>2, <2>3 DEF Dispatched
  <2> QED
    BY <2>1, <2>4, SamePhases
<1>2. CASE \/ \E a \in Admin : RequeueRead(a) \/ RequeuePush(a)
                               \/ \E j \in Job : RequeueRemove(a, j)
           \/ \E r \in Repo : LockExpires(r)
  <2>1. hash' = hash /\ runs' = runs /\ pc' = pc /\ job' = job
    BY <1>2 DEF RequeueRead, RequeuePush, RequeueRemove, LockExpires
  <2> QED
    BY <2>1, SamePhases DEF Dispatched
<1> QED
  BY <1>1, <1>2, NoFault DEF Next, WorkerStep, WorkerFault, AdminStep

\* enqueue submits the job.
LEMMA EnqueueSubmits ==
  ASSUME LedgerInv, NEW j \in Job, Enqueue(j)
  PROVE  Ledger!Submit(j)
<1>0. hash \in [Job -> JobHash] /\ Placed(j)
  BY DEF LedgerInv, TypeOK, RedisTypeOK, PlaceInv
<1>1. /\ hash[j].status = "none" /\ runs' = runs /\ pc' = pc /\ job' = job
      /\ hash' = [hash EXCEPT ![j] = [status |-> "pending", attempts |-> 0]]
  BY DEF Enqueue, Update
<1>2. NoHand(j)
  BY <1>0, <1>1 DEF Placed, Unfinished
<1>3. ~Dispatched(j)
  BY <1>2 DEF NoHand, Hand, Working, Leftover, Dispatched
<1>4. \A k \in Job : Dispatched(k)' <=> Dispatched(k)
  BY <1>1 DEF Dispatched
<1>5. Phase(j) = "absent" /\ Phase(j)' = "waiting"
  BY <1>0, <1>1, <1>3, <1>4, StatusPhases DEF Phase
<1>6. \A k \in Job : k # j => Phase(k)' = Phase(k)
  BY <1>0, <1>1, <1>4 DEF Phase
<1>7. phases' = [phases EXCEPT ![j] = "waiting"]
  BY <1>5, <1>6 DEF phases
<1> QED
  BY <1>1, <1>5, <1>7 DEF phases, Ledger!Submit, Ledger!Move

\* What the phases are around a step of a worker that writes the hash of its job.
LEMMA WriterPhases ==
  ASSUME LedgerInv, NEW w \in Worker, BeginRun(w) \/ RunSucceeds(w) \/ RunFails(w)
  PROVE  /\ job[w] \in Job /\ Hand(w, job[w]) /\ HandFits(w, job[w])
         /\ Tally(job[w])
         /\ \A v \in Worker : v # w => ~Hand(v, job[w])
         /\ Dispatched(job[w]) <=> pc[w] = "dispatch"
         /\ Dispatched(job[w])' <=> pc'[w] = "dispatch"
         /\ \A k \in Job : k # job[w] => Phase(k)' = Phase(k)
<1> DEFINE j == job[w]
<1>0. /\ pc \in [Worker -> WorkerPC] /\ hash \in [Job -> JobHash]
  BY DEF LedgerInv, TypeOK, WorkerTypeOK, RedisTypeOK
<1>1. /\ job[w] \in Job /\ Working(w) /\ ~Leftover(w) /\ job' = job
  BY DEF LedgerInv, TypeOK, WorkerTypeOK, Working, Leftover, BeginRun, RunSucceeds, RunFails
<1>2. Hand(w, j)
  BY <1>1 DEF Hand
<1>3. HandFits(w, j) /\ Tally(j) /\ Placed(j)
  BY <1>1, <1>2 DEF LedgerInv, CountInv, PlaceInv, Fits
<1>4. \A v \in Worker : v # w => ~Hand(v, j)
  BY <1>1, <1>2, <1>3, FromHand
<1>5. \A v \in Worker : pc[v] = "dispatch" /\ job[v] = j => Hand(v, j)
  BY DEF Hand, Working, Leftover
<1>6. \A v \in Worker : v # w => pc'[v] = pc[v]
  BY <1>0 DEF BeginRun, RunSucceeds, RunFails, Goto
<1>7. Dispatched(j) <=> pc[w] = "dispatch"
  BY <1>4, <1>5 DEF Dispatched
<1>8. Dispatched(job[w])' <=> pc'[w] = "dispatch"
  BY <1>1, <1>4, <1>5, <1>6 DEF Dispatched
<1>9. ASSUME NEW k \in Job, k # j PROVE Phase(k)' = Phase(k)
  <2>1. hash'[k] = hash[k]
    BY <1>0, <1>1, <1>9 DEF BeginRun, RunSucceeds, RunFails, Update
  <2>2. Dispatched(k)' <=> Dispatched(k)
    BY <1>1, <1>6, <1>9 DEF Dispatched
  <2> QED
    BY <2>1, <2>2 DEF Phase
<1> QED
  BY <1>1, <1>2, <1>3, <1>4, <1>7, <1>8, <1>9

\* update(RUNNING) begins a run: the job has a try left and no run of its
\* repository is under way.
LEMMA BeginsInLedger ==
  ASSUME LedgerInv, NEW w \in Worker, BeginRun(w)
  PROVE  Ledger!Begin(job[w])
<1> DEFINE j == job[w]
<1>0. /\ pc \in [Worker -> WorkerPC] /\ hash \in [Job -> JobHash]
      /\ runs \in [Job -> Nat]
  BY DEF LedgerInv, TypeOK, WorkerTypeOK, RedisTypeOK, HistoryTypeOK
<1>1. /\ j \in Job /\ HandFits(w, j) /\ Tally(j) /\ job' = job
      /\ Dispatched(j) <=> pc[w] = "dispatch"
      /\ Dispatched(job[w])' <=> pc'[w] = "dispatch"
      /\ \A k \in Job : k # j => Phase(k)' = Phase(k)
  BY WriterPhases DEF BeginRun
<1>2. pc[w] = "start" /\ pc'[w] = "dispatch" /\ runs' = [runs EXCEPT ![j] = @ + 1]
  BY <1>0 DEF BeginRun, Goto
<1>3. hash[j].status = "pending"
  BY <1>1, <1>2 DEF HandFits, StatusAt
<1>4. Phase(j) = "waiting"
  BY <1>1, <1>2, <1>3, StatusPhases DEF Phase
<1>5. Phase(job[w])' = "running"
  BY <1>1, <1>2 DEF Phase
<1>6. phases' = [phases EXCEPT ![j] = "running"]
  BY <1>1, <1>5 DEF phases
<1>7. runs[j] < MaxAttempts
  <2>1. /\ hash[j].attempts \in Nat /\ runs[j] \in Nat
        /\ hash[j].attempts = 2 * runs[j] /\ hash[j].attempts < MaxAttempts
    BY <1>0, <1>1, <1>3 DEF Tally, JobHash
  <2> QED
    BY <2>1, TallyStep
<1>8. ASSUME NEW k \in Job, Phase(k) = "running" PROVE RepoOf[k] # RepoOf[j]
  <2>1. CASE Dispatched(k)
    <3>1. PICK v \in Worker : pc[v] = "dispatch" /\ job[v] = k
      BY <2>1 DEF Dispatched
    <3>2. v # w /\ Critical(v) /\ Critical(w)
      BY <1>2, <3>1 DEF Critical
    <3>3. RepoMutex
      BY DEF LedgerInv, MutexInv
    <3> QED
      BY <3>1, <3>2, <3>3 DEF RepoMutex
  <2>2. CASE ~Dispatched(k)
    <3>1. hash[k].status \in JobStatus
      BY <1>0 DEF JobHash
    <3>2. Phase(k) # "running"
      BY <2>2, <3>1, StatusPhases DEF Phase, JobStatus
    <3> QED
      BY <1>8, <3>2
  <2> QED
    BY <2>1, <2>2
<1>9. \A k \in Job : phases[k] = Phase(k)
  BY DEF phases
<1>10. phases[j] = "waiting" /\ \A k \in Job : phases[k] = "running" => RepoOf[k] # RepoOf[j]
  BY <1>1, <1>4, <1>8, <1>9
<1> QED
  BY <1>2, <1>6, <1>7, <1>10 DEF phases, Ledger!Begin, Ledger!Move

\* The end of a run: success, another try or the DLQ.
LEMMA EndsInLedger ==
  ASSUME LedgerInv, NEW w \in Worker, RunSucceeds(w) \/ RunFails(w)
  PROVE  Ledger!Succeed(job[w]) \/ Ledger!Retry(job[w]) \/ Ledger!Bury(job[w])
<1> DEFINE j == job[w]
<1>0. /\ pc \in [Worker -> WorkerPC] /\ hash \in [Job -> JobHash]
      /\ runs \in [Job -> Nat]
  BY DEF LedgerInv, TypeOK, WorkerTypeOK, RedisTypeOK, HistoryTypeOK
<1>1. /\ j \in Job /\ HandFits(w, j) /\ Tally(j) /\ job' = job /\ runs' = runs
      /\ Dispatched(j) <=> pc[w] = "dispatch"
      /\ Dispatched(job[w])' <=> pc'[w] = "dispatch"
      /\ \A k \in Job : k # j => Phase(k)' = Phase(k)
  BY WriterPhases DEF RunSucceeds, RunFails
<1>2. pc[w] = "dispatch" /\ pc'[w] # "dispatch"
  BY <1>0 DEF RunSucceeds, RunFails, Goto
<1>3. /\ hash[j].status = "running" /\ att[w] = hash[j].attempts
      /\ hash[j].attempts \in Nat /\ runs[j] \in Nat
      /\ hash[j].attempts + 1 = 2 * runs[j] /\ hash[j].attempts <= MaxAttempts
  BY <1>0, <1>1, <1>2 DEF HandFits, StatusAt, Tally, JobHash
<1>4. phases[j] = "running"
  BY <1>1, <1>2 DEF Phase, phases
<1>5. ~Dispatched(job[w])'
  BY <1>1, <1>2
<1>6. ASSUME NEW s \in JobStatus, hash'[j].status = s
      PROVE  phases' = [phases EXCEPT ![j] = StatusPhase(s)]
  <2>1. Phase(job[w])' = StatusPhase(s)
    BY <1>1, <1>5, <1>6 DEF Phase
  <2> QED
    BY <1>1, <2>1 DEF phases
<1>7. CASE RunSucceeds(w)
  <2>1. hash'[j].status = "succeeded"
    BY <1>0, <1>1, <1>7 DEF RunSucceeds, Update
  <2>2. phases' = [phases EXCEPT ![j] = "done"]
    BY <1>6, <2>1, StatusPhases DEF JobStatus
  <2> QED
    BY <1>1, <1>4, <2>2 DEF phases, Ledger!Succeed, Ledger!Move
<1>8. CASE RunFails(w) /\ att[w] + 1 >= MaxAttempts
  <2>1. hash'[j].status = "dead"
    BY <1>0, <1>1, <1>8 DEF RunFails, Update
  <2>2. phases' = [phases EXCEPT ![j] = "dead"]
    BY <1>6, <2>1, StatusPhases DEF JobStatus
  <2> QED
    BY <1>1, <1>4, <2>2 DEF phases, Ledger!Bury, Ledger!Move
<1>9. CASE RunFails(w) /\ ~(att[w] + 1 >= MaxAttempts)
  <2>1. hash'[j].status = "pending"
    BY <1>0, <1>1, <1>9 DEF RunFails, Update
  <2>2. phases' = [phases EXCEPT ![j] = "waiting"]
    BY <1>6, <2>1, StatusPhases DEF JobStatus
  <2>3. runs[j] < MaxAttempts
    BY <1>3, <1>9, TallyStep, AttemptAssumption
  <2> QED
    BY <1>1, <1>4, <2>2, <2>3 DEF phases, Ledger!Retry, Ledger!Move
<1> QED
  BY <1>7, <1>8, <1>9

\* update(PENDING, attempts = 0) of requeue_dead gives a dead job new tries.
LEMMA RequeuesInLedger ==
  ASSUME LedgerInv, NEW a \in Admin, RequeueWrite(a)
  PROVE  Ledger!Requeue(ajob[a])
<1> DEFINE j == ajob[a]
<1>0. hash \in [Job -> JobHash] /\ j \in Job
  BY DEF LedgerInv, TypeOK, RedisTypeOK, AdminTypeOK, RequeueWrite
<1>1. InHand(a, j) /\ Placed(j) /\ Fits(j)
  BY <1>0 DEF LedgerInv, PlaceInv, CountInv, RequeueWrite, InHand
<1>2. NoHand(j) /\ hash[j].status = "dead"
  BY <1>0, <1>1, FromAdmin DEF Fits, AdminFits, RequeueWrite
<1>3. ~Dispatched(j)
  BY <1>2 DEF NoHand, Hand, Working, Leftover, Dispatched
<1>4. /\ pc' = pc /\ job' = job /\ runs' = [runs EXCEPT ![j] = 0]
      /\ hash' = [hash EXCEPT ![j] = [status |-> "pending", attempts |-> 0]]
  BY DEF RequeueWrite, Update
<1> HIDE DEF j
<1>5. \A k \in Job : Dispatched(k)' <=> Dispatched(k)
  BY <1>4 DEF Dispatched
<1>6. phases[j] = "dead"
  BY <1>0, <1>2, <1>3, StatusPhases DEF Phase, phases
<1>7. \A k \in Job : Phase(k)' = IF k = j THEN "waiting" ELSE Phase(k)
  BY <1>0, <1>3, <1>4, <1>5, StatusPhases DEF Phase
<1>8. phases' = [phases EXCEPT ![j] = "waiting"]
  BY <1>7 DEF phases
<1> QED
  BY <1>4, <1>6, <1>8 DEF phases, j, Ledger!Requeue, Ledger!Move

\* Without crashes and overruns every step of every worker, administrator and
\* of the environment is one step of the ledger, or invisible in it: the queue
\* runs a job only when no other run of its repository is under way, at most
\* MaxAttempts times, and never again once it is done.
THEOREM QueueImplementsLedger ==
  ASSUME UniqueIds, Undisturbed, Budget["overrun"] = 0
  PROVE  Spec => ImplementsLedger
<1>1. Init => LedgerInv /\ Ledger!Init
  <2> SUFFICES ASSUME Init PROVE LedgerInv /\ Ledger!Init
    OBVIOUS
  <2>1. MutexInv
    BY DEF Init, MutexInv, RunOwnsLock, RepoMutex, Critical
  <2>2. CountInv
    BY DEF Init, CountInv, Tally, Fits, Queued, InHand, Hand, Working
  <2>3. LedgerInv
    BY <2>1, <2>2, InitType, InitPlace DEF LedgerInv
  <2>4. \A j \in Job : Phase(j) = "absent"
    BY StatusPhases DEF Init, Phase, Dispatched
  <2>5. Ledger!Init
    BY <2>4 DEF Init, Ledger!Init
  <2> QED
    BY <2>3, <2>5
<1>2. LedgerInv /\ [Next]_vars => LedgerInv'
  BY NextType, NextPlace, NextCount, NextMutex DEF LedgerInv
<1>3. LedgerInv /\ [Next]_vars => [Ledger!Next]_(Ledger!ledgerVars)
  <2> SUFFICES ASSUME LedgerInv, [Next]_vars
               PROVE  Ledger!Next \/ (phases' = phases /\ runs' = runs)
    BY DEF Ledger!ledgerVars, phases
  <2>1. CASE UNCHANGED vars
    BY <2>1, SamePhases DEF vars, Dispatched
  <2>2. ASSUME NEW j \in Job, Enqueue(j) PROVE Ledger!Next
    BY <2>2, EnqueueSubmits DEF Ledger!Next
  <2>3. ASSUME NEW w \in Worker, BeginRun(w) PROVE Ledger!Next
    <3>1. job[w] \in Job
      BY <2>3, WriterPhases
    <3> QED
      BY <2>3, <3>1, BeginsInLedger DEF Ledger!Next
  <2>4. ASSUME NEW w \in Worker, RunSucceeds(w) \/ RunFails(w) PROVE Ledger!Next
    <3>1. job[w] \in Job
      BY <2>4, WriterPhases
    <3>2. Ledger!Succeed(job[w]) \/ Ledger!Retry(job[w]) \/ Ledger!Bury(job[w])
      BY <2>4, EndsInLedger
    <3> QED
      BY <3>1, <3>2 DEF Ledger!Next
  <2>5. ASSUME NEW a \in Admin, RequeueWrite(a) PROVE Ledger!Next
    <3>1. ajob[a] \in Job
      BY <2>5 DEF LedgerInv, TypeOK, AdminTypeOK, RequeueWrite
    <3> QED
      BY <2>5, <3>1, RequeuesInLedger DEF Ledger!Next
  <2>6. ASSUME NEW w \in Worker, RecoverOne(w) PROVE FALSE
    <3>1. ~Working(w)
      BY <2>6 DEF RecoverOne, Working
    <3>2. \A j \in Job : processing[wid[w]][j] = 0
      BY <3>1, EmptyList DEF LedgerInv, PlaceInv
    <3> QED
      BY <2>6, <3>2 DEF RecoverOne
  <2>7. TypeOK
    BY DEF LedgerInv
  <2> QED
    BY <2>1, <2>2, <2>3, <2>4, <2>5, <2>6, <2>7, Invisible
<1> QED
  BY <1>1, <1>2, <1>3, PTL DEF Spec, ImplementsLedger, Ledger!Spec
=============================================================================
