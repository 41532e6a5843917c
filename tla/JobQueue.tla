------------------------------ MODULE JobQueue ------------------------------
(***************************************************************************)
(* The Redis job queue (queue/client.py) and the worker loop that drains   *)
(* it (queue/worker.py).                                                   *)
(*                                                                         *)
(* The shared state is what Redis stores; every action is one Redis        *)
(* command (or one MULTI pipeline) of one actor, so the actors interleave  *)
(* where the code can be interrupted; the HSET, EXPIRE and PUBLISH of      *)
(* JobQueue.update are one action here (LogStream takes them apart).  An   *)
(* actor is a worker, an administrator's process running requeue_dead (the *)
(* webhook server or the CLI), or the environment: the producer of jobs,   *)
(* Redis' TTL clock, crashes, signals and failing commands.  What the      *)
(* environment may do is bounded by Budget.                                *)
(***************************************************************************)
EXTENDS Naturals, Sequences, FiniteSets

CONSTANTS
    Job,          \* the job ids (uuid4, never reused)
    Repo,         \* repositories
    RepoOf,       \* the repository of each job
    Worker,       \* worker loops: a process or a thread of `worker --workers N`
    WorkerId,     \* names of processing lists
    Ids,          \* the ids each worker may be started under
    Admin,        \* processes that can run requeue_dead
    NoJob,        \* "no job" / "no lock"
    MaxAttempts,  \* DEEPAGENT_MAX_ATTEMPTS
    Budget        \* how often each kind of event of the environment may occur

Kinds == {"crash",      \* a worker dies in the middle of a step
          "signal",     \* SIGTERM/SIGINT reaches a worker's handler
          "error",      \* a Redis command fails (or its reply is lost)
          "overrun",    \* a repo lock runs out while its job still runs
          "expiry",     \* a job hash reaches JOB_TTL
          "requeue",    \* requeue_dead is called on a job of the DLQ
          "adminCrash"} \* the process running requeue_dead dies in it

\* No two workers ever share a processing list.
UniqueIds == \A v, w \in Worker : v # w => Ids[v] \cap Ids[w] = {}

ASSUME JobAssumption     == NoJob \notin Job
ASSUME RepoAssumption    == RepoOf \in [Job -> Repo]
ASSUME IdsAssumption     == Ids \in [Worker -> SUBSET WorkerId]
ASSUME AttemptAssumption == MaxAttempts \in Nat \ {0}
ASSUME BudgetAssumption  == Budget \in [Kinds -> Nat]

VARIABLES
    \* Redis
    queue,        \* LIST queue:default; LPUSH appends here, BRPOPLPUSH takes the head
    processing,   \* LIST queue:processing:<id>, as a bag of job ids
    dlq,          \* LIST queue:dead, as a bag of job ids
    hash,         \* HASH job:<id>
    lock,         \* STRING repo_lock:<repo>: its owner, a job id
    \* memory of the workers
    pc,           \* the next Redis command of the worker
    wid,          \* the id it was started under
    job,          \* the job in hand
    att,          \* job.attempts of its in-memory copy
    leaving,      \* _stop is set, or an exception is leaving _process
    \* memory of the administrators
    apc, ajob,
    \* history
    spent,        \* events of the environment so far
    runs,         \* dispatches of a job since it was enqueued or requeued
    overran       \* the lock of the worker's present run has expired

redisVars == <<queue, processing, dlq, hash, lock>>
adminVars == <<apc, ajob>>
vars == <<queue, processing, dlq, hash, lock, pc, wid, job, att, leaving,
          apc, ajob, spent, runs, overran>>

-----------------------------------------------------------------------------
\* Types

\* JobStatus; "none" and "expired" both stand for a key that does not exist,
\* before enqueue and after JOB_TTL.  FAILED and SKIPPED are never written.
JobStatus == {"none", "expired", "pending", "running", "succeeded", "dead"}
JobHash   == [status : JobStatus, attempts : Nat]
Missing(h)  == h.status \in {"none", "expired"}
Terminal(h) == h.status \in {"succeeded", "dead"}

WorkerPC == {"down", "recover", "claim", "load", "drop", "lock", "busy",
             "start", "dispatch", "toDlq", "backoff", "release", "quota", "ack"}
AdminPC  == {"idle", "read", "write", "push"}

\* Between acquire_repo_lock and release_repo_lock.
Critical(w) == pc[w] \in {"start", "dispatch", "toDlq", "backoff", "release"}
\* What is left of the job in hand is to take it off the processing list.
Leftover(w) == pc[w] \in {"drop", "release", "quota", "ack"}
Working(w)  == pc[w] \notin {"down", "recover", "claim"}
Queued(j)   == \E i \in 1..Len(queue) : queue[i] = j

RedisTypeOK ==
    /\ queue \in Seq(Job)
    /\ processing \in [WorkerId -> [Job -> Nat]]
    /\ dlq \in [Job -> Nat]
    /\ hash \in [Job -> JobHash]
    /\ lock \in [Repo -> Job \cup {NoJob}]

WorkerTypeOK ==
    /\ pc \in [Worker -> WorkerPC]
    /\ wid \in [Worker -> WorkerId]
    /\ job \in [Worker -> Job \cup {NoJob}]
    /\ att \in [Worker -> Nat]
    /\ leaving \in [Worker -> BOOLEAN]
    /\ \A w \in Worker : Working(w) => job[w] \in Job

AdminTypeOK ==
    /\ apc \in [Admin -> AdminPC]
    /\ ajob \in [Admin -> Job \cup {NoJob}]
    /\ \A a \in Admin : apc[a] # "idle" => ajob[a] \in Job

HistoryTypeOK ==
    /\ spent \in [Kinds -> Nat]
    /\ \A k \in Kinds : spent[k] <= Budget[k]
    /\ runs \in [Job -> Nat]
    /\ overran \in [Worker -> BOOLEAN]

TypeOK == RedisTypeOK /\ WorkerTypeOK /\ AdminTypeOK /\ HistoryTypeOK

-----------------------------------------------------------------------------
\* Helpers

Spend(k) == /\ spent[k] < Budget[k]
            /\ spent' = [spent EXCEPT ![k] = @ + 1]

\* JobQueue.update writes every field of the caller's copy of the job.
Update(j, status, attempts) ==
    hash' = [hash EXCEPT ![j] = [status |-> status, attempts |-> attempts]]

LPush(j) == queue' = Append(queue, j)

Goto(w, label) == pc' = [pc EXCEPT ![w] = label]

\* Mutant: the loop does not look at _stop.
NextRoundForever(w) ==
    /\ Goto(w, "claim")
    /\ job' = [job EXCEPT ![w] = NoJob]
    /\ att' = [att EXCEPT ![w] = 0]

\* The head of the loop in Worker.run: `while not self._stop.is_set()`.
NextRound(w) ==
    /\ Goto(w, IF leaving[w] THEN "down" ELSE "claim")
    /\ job' = [job EXCEPT ![w] = NoJob]
    /\ att' = [att EXCEPT ![w] = 0]

\* LREM <processing list> 1 <id>; no effect when the id is not there.
LRem(w) ==
    processing' = [processing EXCEPT ![wid[w]][job[w]] = IF @ = 0 THEN 0 ELSE @ - 1]

Init ==
    /\ queue = <<>>
    /\ processing = [i \in WorkerId |-> [j \in Job |-> 0]]
    /\ dlq = [j \in Job |-> 0]
    /\ hash = [j \in Job |-> [status |-> "none", attempts |-> 0]]
    /\ lock = [r \in Repo |-> NoJob]
    /\ pc = [w \in Worker |-> "down"]
    /\ wid \in {f \in [Worker -> WorkerId] : \A w \in Worker : f[w] \in Ids[w]}
    /\ job = [w \in Worker |-> NoJob]
    /\ att = [w \in Worker |-> 0]
    /\ leaving = [w \in Worker |-> FALSE]
    /\ apc = [a \in Admin |-> "idle"]
    /\ ajob = [a \in Admin |-> NoJob]
    /\ spent = [k \in Kinds |-> 0]
    /\ runs = [j \in Job |-> 0]
    /\ overran = [w \in Worker |-> FALSE]

-----------------------------------------------------------------------------
\* The producer

\* JobQueue.enqueue: one MULTI pipeline.
Enqueue(j) ==
    /\ hash[j].status = "none"
    /\ Update(j, "pending", 0)
    /\ LPush(j)
    /\ UNCHANGED <<processing, dlq, lock, pc, wid, job, att, leaving,
                   adminVars, spent, runs, overran>>

-----------------------------------------------------------------------------
\* The worker: start, recovery, claim

\* Worker.__init__ picks the id, Worker.run begins.
Start(w) ==
    /\ pc[w] = "down"
    /\ \E i \in Ids[w] : wid' = [wid EXCEPT ![w] = i]
    /\ Goto(w, "recover")
    /\ leaving' = [leaving EXCEPT ![w] = FALSE]
    /\ UNCHANGED <<redisVars, job, att, adminVars, spent, runs, overran>>

\* One round of recover_orphans: RPOPLPUSH processing -> queue.  The order in
\* which the entries of one list come back is left open.
RecoverOne(w) ==
    /\ pc[w] = "recover"
    /\ \E j \in Job :
          /\ processing[wid[w]][j] > 0
          /\ processing' = [processing EXCEPT ![wid[w]][j] = @ - 1]
          /\ LPush(j)
    /\ UNCHANGED <<dlq, hash, lock, pc, wid, job, att, leaving, adminVars,
                   spent, runs, overran>>

\* Mutant: run starts without recover_orphans.
RecoverNothing(w) ==
    /\ pc[w] = "recover"
    /\ NextRound(w)
    /\ UNCHANGED <<redisVars, wid, leaving, adminVars, spent, runs, overran>>

RecoverDone(w) ==
    /\ pc[w] = "recover"
    /\ \A j \in Job : processing[wid[w]][j] = 0
    /\ NextRound(w)
    /\ UNCHANGED <<redisVars, wid, leaving, adminVars, spent, runs, overran>>

\* Mutant: BRPOP instead of BRPOPLPUSH.
ClaimByPop(w) ==
    /\ pc[w] = "claim"
    /\ queue # <<>>
    /\ queue' = Tail(queue)
    /\ job' = [job EXCEPT ![w] = Head(queue)]
    /\ Goto(w, "load")
    /\ UNCHANGED <<processing, dlq, hash, lock, wid, att, leaving, adminVars,
                   spent, runs, overran>>

\* claim: BRPOPLPUSH queue -> processing.  A worker that was already blocked
\* in it when the signal came still takes a job.
Claim(w) ==
    /\ pc[w] = "claim"
    /\ queue # <<>>
    /\ queue' = Tail(queue)
    /\ processing' = [processing EXCEPT ![wid[w]][Head(queue)] = @ + 1]
    /\ job' = [job EXCEPT ![w] = Head(queue)]
    /\ Goto(w, "load")
    /\ UNCHANGED <<dlq, hash, lock, wid, att, leaving, adminVars, spent, runs,
                   overran>>

\* BRPOPLPUSH times out: claim returns None and the loop begins again.
ClaimTimeout(w) ==
    /\ pc[w] = "claim"
    /\ queue = <<>>
    /\ NextRound(w)
    /\ UNCHANGED <<redisVars, wid, leaving, adminVars, spent, runs, overran>>

\* claim: HGETALL job:<id>.
Load(w) ==
    /\ pc[w] = "load"
    /\ IF Missing(hash[job[w]])
       THEN Goto(w, "drop") /\ UNCHANGED att
       ELSE Goto(w, "lock") /\ att' = [att EXCEPT ![w] = hash[job[w]].attempts]
    /\ UNCHANGED <<redisVars, wid, job, leaving, adminVars, spent, runs, overran>>

\* A command of claim fails: BRPOPLPUSH before anything moved, its reply or
\* HGETALL, or the LREM of an id without hash.  run logs "claim failed" and goes
\* on; an id that moved stays behind in the processing list.
ClaimFails(w) ==
    /\ pc[w] \in {"claim", "load", "drop"}
    /\ Spend("error")
    /\ NextRound(w)
    /\ UNCHANGED <<redisVars, wid, leaving, adminVars, runs, overran>>

\* claim: the hash is gone, LREM the id and return None.
Drop(w) ==
    /\ pc[w] = "drop"
    /\ LRem(w)
    /\ NextRound(w)
    /\ UNCHANGED <<queue, dlq, hash, lock, wid, leaving, adminVars, spent, runs,
                   overran>>

-----------------------------------------------------------------------------
\* The worker: _process

\* Mutant: SET without NX.
AcquireAnyway(w) ==
    /\ pc[w] = "lock"
    /\ lock' = [lock EXCEPT ![RepoOf[job[w]]] = job[w]]
    /\ Goto(w, "start")
    /\ UNCHANGED <<queue, processing, dlq, hash, wid, job, att, leaving,
                   adminVars, spent, runs, overran>>

\* Mutant: the lock lets its owner, a job id, in again.
AcquireReentrant(w) ==
    LET r == RepoOf[job[w]] IN
    /\ pc[w] = "lock"
    /\ IF lock[r] \in {NoJob, job[w]}
       THEN Goto(w, "start") /\ lock' = [lock EXCEPT ![r] = job[w]]
       ELSE Goto(w, "busy") /\ UNCHANGED lock
    /\ UNCHANGED <<queue, processing, dlq, hash, wid, job, att, leaving,
                   adminVars, spent, runs, overran>>

\* acquire_repo_lock: SET NX EX.
AcquireLock(w) ==
    LET r == RepoOf[job[w]] IN
    /\ pc[w] = "lock"
    /\ IF lock[r] = NoJob
       THEN Goto(w, "start") /\ lock' = [lock EXCEPT ![r] = job[w]]
       ELSE Goto(w, "busy") /\ UNCHANGED lock
    /\ UNCHANGED <<queue, processing, dlq, hash, wid, job, att, leaving,
                   adminVars, spent, runs, overran>>

\* Mutant: the early return forgets ack.
PushBusyUnacked(w) ==
    /\ pc[w] = "busy"
    /\ LPush(job[w])
    /\ NextRound(w)
    /\ UNCHANGED <<processing, dlq, hash, lock, wid, leaving, adminVars, spent,
                   runs, overran>>

\* The repository is busy: after the sleep, LPUSH the id again.
PushBusy(w) ==
    /\ pc[w] = "busy"
    /\ LPush(job[w])
    /\ Goto(w, "ack")
    /\ UNCHANGED <<processing, dlq, hash, lock, wid, job, att, leaving,
                   adminVars, spent, runs, overran>>

\* update(RUNNING, attempts + 1), after which the job is dispatched.
BeginRun(w) ==
    /\ pc[w] = "start"
    /\ Update(job[w], "running", att[w] + 1)
    /\ att' = [att EXCEPT ![w] = @ + 1]
    /\ runs' = [runs EXCEPT ![job[w]] = @ + 1]
    /\ Goto(w, "dispatch")
    /\ UNCHANGED <<queue, processing, dlq, lock, wid, job, leaving, adminVars,
                   spent, overran>>

\* The dispatch returns: update(SUCCEEDED).
RunSucceeds(w) ==
    /\ pc[w] = "dispatch"
    /\ Update(job[w], "succeeded", att[w])
    /\ Goto(w, "release")
    /\ UNCHANGED <<queue, processing, dlq, lock, wid, job, att, leaving,
                   adminVars, spent, runs, overran>>

\* Mutant: == instead of >=, which the double count steps over.
RunFailsExactly(w) ==
    LET n == att[w] + 1 IN
    /\ pc[w] = "dispatch"
    /\ att' = [att EXCEPT ![w] = n]
    /\ IF n = MaxAttempts
       THEN Update(job[w], "dead", n) /\ Goto(w, "toDlq")
       ELSE Update(job[w], "pending", n) /\ Goto(w, "backoff")
    /\ UNCHANGED <<queue, processing, dlq, lock, wid, job, leaving, adminVars,
                   spent, runs, overran>>

\* The dispatch (or the write of SUCCEEDED, inside the same try) raises:
\* retry_or_dead counts the attempt once more and writes DEAD or PENDING.
RunFails(w) ==
    LET n == att[w] + 1 IN
    /\ pc[w] = "dispatch"
    /\ att' = [att EXCEPT ![w] = n]
    /\ IF n >= MaxAttempts
       THEN Update(job[w], "dead", n) /\ Goto(w, "toDlq")
       ELSE Update(job[w], "pending", n) /\ Goto(w, "backoff")
    /\ UNCHANGED <<queue, processing, dlq, lock, wid, job, leaving, adminVars,
                   spent, runs, overran>>

\* retry_or_dead: LPUSH queue:dead.
PushDead(w) ==
    /\ pc[w] = "toDlq"
    /\ dlq' = [dlq EXCEPT ![job[w]] = @ + 1]
    /\ Goto(w, "release")
    /\ UNCHANGED <<queue, processing, hash, lock, wid, job, att, leaving,
                   adminVars, spent, runs, overran>>

\* retry_or_dead: after the sleep, LPUSH queue:default.
PushRetry(w) ==
    /\ pc[w] = "backoff"
    /\ LPush(job[w])
    /\ Goto(w, "release")
    /\ UNCHANGED <<processing, dlq, hash, lock, wid, job, att, leaving,
                   adminVars, spent, runs, overran>>

\* A command of retry_or_dead fails inside the except clause: the finally
\* clause runs, then the exception ends Worker.run.
RetryRaises(w) ==
    /\ pc[w] \in {"dispatch", "toDlq", "backoff"}
    /\ Spend("error")
    /\ leaving' = [leaving EXCEPT ![w] = TRUE]
    /\ Goto(w, "release")
    /\ UNCHANGED <<redisVars, wid, job, att, adminVars, runs, overran>>

\* release_repo_lock: delete the key iff its value is this job's id.
ReleaseLock(w) ==
    LET r == RepoOf[job[w]] IN
    /\ pc[w] = "release"
    /\ lock' = IF lock[r] = job[w] THEN [lock EXCEPT ![r] = NoJob] ELSE lock
    /\ overran' = [overran EXCEPT ![w] = FALSE]
    /\ Goto(w, "quota")
    /\ UNCHANGED <<queue, processing, dlq, hash, wid, job, att, leaving,
                   adminVars, spent, runs>>

\* release_repo_lock logs a Redis error and returns: the lock stays until its
\* TTL is over.
ReleaseFails(w) ==
    /\ pc[w] = "release"
    /\ Spend("error")
    /\ overran' = [overran EXCEPT ![w] = FALSE]
    /\ Goto(w, "quota")
    /\ UNCHANGED <<redisVars, wid, job, att, leaving, adminVars, runs>>

\* quotas.release_concurrent; what it does to the counter is in Service.
ReleaseQuota(w) ==
    /\ pc[w] = "quota"
    /\ Goto(w, "ack")
    /\ UNCHANGED <<redisVars, wid, job, att, leaving, adminVars, spent, runs,
                   overran>>

\* Mutant: the job is never taken off the processing list.
AckNothing(w) ==
    /\ pc[w] = "ack"
    /\ NextRound(w)
    /\ UNCHANGED <<redisVars, wid, leaving, adminVars, spent, runs, overran>>

Ack(w) ==
    /\ pc[w] = "ack"
    /\ LRem(w)
    /\ NextRound(w)
    /\ UNCHANGED <<queue, dlq, hash, lock, wid, leaving, adminVars, spent, runs,
                   overran>>

-----------------------------------------------------------------------------
\* The administrator: requeue_dead

\* requeue_dead is over.
Return(a) == /\ apc' = [apc EXCEPT ![a] = "idle"]
             /\ ajob' = [ajob EXCEPT ![a] = NoJob]

\* Mutant: requeue_dead ignores that LREM removed nothing.
RequeueAnything(a, j) ==
    /\ apc[a] = "idle"
    /\ ~Missing(hash[j])
    /\ Spend("requeue")
    /\ dlq' = [dlq EXCEPT ![j] = IF @ > 0 THEN @ - 1 ELSE 0]
    /\ apc' = [apc EXCEPT ![a] = "read"]
    /\ ajob' = [ajob EXCEPT ![a] = j]
    /\ UNCHANGED <<queue, processing, hash, lock, pc, wid, job, att, leaving,
                   runs, overran>>

\* LREM queue:dead 1 <id> finds the id (otherwise nothing happens).  The HTTP
\* endpoint looks the job up first and then behaves as the CLI does.
RequeueRemove(a, j) ==
    /\ apc[a] = "idle"
    /\ dlq[j] > 0
    /\ Spend("requeue")
    /\ dlq' = [dlq EXCEPT ![j] = @ - 1]
    /\ apc' = [apc EXCEPT ![a] = "read"]
    /\ ajob' = [ajob EXCEPT ![a] = j]
    /\ UNCHANGED <<queue, processing, hash, lock, pc, wid, job, att, leaving,
                   runs, overran>>

\* HGETALL; "return False" when the hash is gone.
RequeueRead(a) ==
    /\ apc[a] = "read"
    /\ IF Missing(hash[ajob[a]])
       THEN Return(a)
       ELSE apc' = [apc EXCEPT ![a] = "write"] /\ UNCHANGED ajob
    /\ UNCHANGED <<redisVars, pc, wid, job, att, leaving, spent, runs, overran>>

\* update(PENDING, attempts = 0).
RequeueWrite(a) ==
    /\ apc[a] = "write"
    /\ Update(ajob[a], "pending", 0)
    /\ runs' = [runs EXCEPT ![ajob[a]] = 0]
    /\ apc' = [apc EXCEPT ![a] = "push"]
    /\ UNCHANGED <<queue, processing, dlq, lock, pc, wid, job, att, leaving,
                   ajob, spent, overran>>

RequeuePush(a) ==
    /\ apc[a] = "push"
    /\ LPush(ajob[a])
    /\ Return(a)
    /\ UNCHANGED <<processing, dlq, hash, lock, pc, wid, job, att, leaving,
                   spent, runs, overran>>

-----------------------------------------------------------------------------
\* The environment

\* _handle_signal, in the worker that runs in its process' main thread.
Signal(w) ==
    /\ pc[w] # "down"
    /\ ~leaving[w]
    /\ Spend("signal")
    /\ leaving' = [leaving EXCEPT ![w] = TRUE]
    /\ UNCHANGED <<redisVars, pc, wid, job, att, adminVars, runs, overran>>

\* The process dies, or an exception outside the try ends the thread: what
\* Redis holds stays as it is.
Crash(w) ==
    /\ pc[w] # "down"
    /\ Spend("crash")
    /\ Goto(w, "down")
    /\ job' = [job EXCEPT ![w] = NoJob]
    /\ att' = [att EXCEPT ![w] = 0]
    /\ leaving' = [leaving EXCEPT ![w] = FALSE]
    /\ overran' = [overran EXCEPT ![w] = FALSE]
    /\ UNCHANGED <<redisVars, wid, adminVars, runs>>

AdminCrash(a) ==
    /\ apc[a] # "idle"
    /\ Spend("adminCrash")
    /\ Return(a)
    /\ UNCHANGED <<redisVars, pc, wid, job, att, leaving, runs, overran>>

\* The workers whose run relies on the lock of r.
Holders(r) == {w \in Worker : Critical(w) /\ RepoOf[job[w]] = r /\ ~overran[w]}

\* REPO_LOCK_TTL is over.  A lock nobody relies on (its worker crashed) may
\* run out freely; one that runs out under a worker is an overrun.
LockExpires(r) ==
    /\ lock[r] # NoJob
    /\ lock' = [lock EXCEPT ![r] = NoJob]
    /\ IF Holders(r) = {} THEN UNCHANGED spent ELSE Spend("overrun")
    /\ overran' = [w \in Worker |-> overran[w] \/ w \in Holders(r)]
    /\ UNCHANGED <<queue, processing, dlq, hash, pc, wid, job, att, leaving,
                   adminVars, runs>>

\* JOB_TTL is over: a day since the last update of the job.
HashExpires(j) ==
    /\ ~Missing(hash[j])
    /\ Spend("expiry")
    /\ hash' = [hash EXCEPT ![j] = [status |-> "expired", attempts |-> 0]]
    /\ UNCHANGED <<queue, processing, dlq, lock, pc, wid, job, att, leaving,
                   adminVars, runs, overran>>

-----------------------------------------------------------------------------
WorkerStep(w) ==
    \/ RecoverOne(w) \/ RecoverDone(w)
    \/ Claim(w) \/ ClaimTimeout(w) \/ Load(w) \/ Drop(w)
    \/ AcquireLock(w) \/ PushBusy(w) \/ BeginRun(w)
    \/ RunSucceeds(w) \/ RunFails(w) \/ PushDead(w) \/ PushRetry(w)
    \/ ReleaseLock(w) \/ ReleaseQuota(w) \/ Ack(w)

AdminStep(a) == RequeueRead(a) \/ RequeueWrite(a) \/ RequeuePush(a)

WorkerFault(w) ==
    \/ ClaimFails(w) \/ RetryRaises(w) \/ ReleaseFails(w)
    \/ Signal(w) \/ Crash(w)

Next ==
    \/ \E j \in Job : Enqueue(j) \/ HashExpires(j)
    \/ \E w \in Worker : Start(w) \/ WorkerStep(w) \/ WorkerFault(w)
    \/ \E a \in Admin : AdminStep(a) \/ AdminCrash(a)
                        \/ \E j \in Job : RequeueRemove(a, j)
    \/ \E r \in Repo : LockExpires(r)

Spec == Init /\ [][Next]_vars

\* A running worker keeps taking steps (the agent's run is bounded by
\* DEEPAGENT_MAX_TURNS), the supervisor restarts a worker that is down, Redis
\* deletes expired keys, and requeue_dead once begun continues.
Fairness ==
    /\ \A w \in Worker : WF_vars(WorkerStep(w)) /\ WF_vars(Start(w))
    /\ \A a \in Admin : WF_vars(AdminStep(a))
    /\ \A r \in Repo : WF_vars(Holders(r) = {} /\ LockExpires(r))

FairSpec == Spec /\ Fairness

-----------------------------------------------------------------------------
\* Properties

\* The job still has to run, or an operator has to see it in the DLQ.
Unfinished(j) == hash[j].status \in {"pending", "running", "dead"}

\* requeue_dead has taken the id off the DLQ and not yet pushed it.
InHand(a, j) == apc[a] # "idle" /\ ajob[a] = j

\* The entries of j in processing list i that are not about to be removed by
\* the worker that put them there.
Kept(i, j) ==
    IF \E w \in Worker : wid[w] = i /\ Leftover(w) /\ job[w] = j
    THEN processing[i][j] - 1 ELSE processing[i][j]

\* Everywhere j can be taken from: one element for each copy of its id.
QueuePart(j) == {<<"queue", n>> : n \in {m \in 1..Len(queue) : queue[m] = j}}
ListPart(j)  == UNION {{<<"list", i, n>> : n \in 1..Kept(i, j)} : i \in WorkerId}
DlqPart(j)   == {<<"dlq", n>> : n \in 1..dlq[j]}
AdminPart(j) == {<<"admin", a>> : a \in {b \in Admin : InHand(b, j)}}
Places(j)    == QueuePart(j) \cup ListPart(j) \cup DlqPart(j) \cup AdminPart(j)

\* "At-least-once" (docs/QUEUE_AND_OBSERVABILITY.md:47): whatever steps the
\* workers are interrupted between, a job that is not done is in the queue, in
\* a processing list it is not about to leave, in the DLQ or in the hands of
\* requeue_dead.
NoJobLost ==
    \A j \in Job : Unfinished(j) =>
        \/ Queued(j)
        \/ \E i \in WorkerId : Kept(i, j) > 0
        \/ dlq[j] > 0
        \/ \E a \in Admin : InHand(a, j)

\* Without crashes of workers, and as long as no command has failed and no
\* administrator has died in requeue_dead, a job that is not done is in exactly
\* one place, and any other in none: claim, requeue of a busy repository, retry,
\* DLQ and requeue_dead hand the id on without dropping or doubling it.
OneCopy ==
    spent["adminCrash"] + spent["error"] = 0 =>
        \A j \in Job : Cardinality(Places(j)) = IF Unfinished(j) THEN 1 ELSE 0

\* "Job fails 3 times -> lands in DLQ" (docs/SAAS_FEATURES.md:131), with
\* DEEPAGENT_MAX_ATTEMPTS = 3: a job in the DLQ has been run MaxAttempts times.
TriedMaxAttempts ==
    \A j \in Job : hash[j].status = "dead" => runs[j] >= MaxAttempts

\* Per-repository mutual exclusion: no two runs of jobs of one repository
\* overlap (they share the clone directory).
RepoMutex ==
    \A w1, w2 \in Worker :
        Critical(w1) /\ Critical(w2) /\ w1 # w2 => RepoOf[job[w1]] # RepoOf[job[w2]]

\* release_repo_lock, "avoid releasing after TTL expiry" (client.py:216): as
\* long as the TTL has not run out under it, a run owns the lock of its
\* repository, whatever other runs release.
RunOwnsLock ==
    \A w \in Worker :
        Critical(w) /\ ~overran[w] => lock[RepoOf[job[w]]] = job[w]

\* The job in a worker's hands is in its processing list until ack, so that
\* recover_orphans finds it after a crash.
InHandIsRecoverable ==
    \A w \in Worker : Working(w) => processing[wid[w]][job[w]] > 0

\* Without crashes a job that succeeded is never touched again: no stale copy
\* of the hash is written over it and no second run of it begins.
SucceededIsFinal ==
    [][\A j \in Job : hash[j].status = "succeeded" => hash'[j] = hash[j]]_vars

\* A worker that left its loop on a signal has finished what it had claimed;
\* only a crash or a failing command leaves an id in a processing list.
DrainedOnExit ==
    spent["crash"] + spent["error"] = 0 =>
        \A w \in Worker : pc[w] = "down" => \A j \in Job : processing[wid[w]][j] = 0

\* Every job that was enqueued is executed until it succeeds or is in the DLQ,
\* unless Redis has dropped its hash.
EventuallySettled ==
    \A j \in Job : hash[j].status = "pending"
                   ~> (Terminal(hash[j]) \/ hash[j].status = "expired")

\* A worker that was asked to stop stops.
EventuallyStops == \A w \in Worker : leaving[w] ~> pc[w] = "down"
=============================================================================
