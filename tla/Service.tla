------------------------------- MODULE Service -------------------------------
(***************************************************************************)
(* The webhook processes (Intake) and the workers (JobQueue) on one Redis. *)
(* They meet in two places: enqueue hands a delivery's job to the queue,   *)
(* and the finally clause of _process pays the concurrency counter back    *)
(* (release_concurrent).  A job has the name of the delivery that made it. *)
(* requeue_dead, signals and JOB_TTL are left to JobQueue: to the counter  *)
(* a requeued job is one more run, as a retry is.                          *)
(***************************************************************************)
EXTENDS Integers, FiniteSets

CONSTANTS
    \* JobQueue
    Job, Repo, RepoOf, Worker, WorkerId, Ids, NoJob, MaxAttempts, Budget,
    \* Intake
    Inst, NoInst, InstOf, Actionable, Server, NoDelivery, Limit, Window,
    Horizon, IntakeBudget

\* A job outside any installation, or an installation without a limit, does
\* not touch the counter and is left out here.
ASSUME ServiceAssumption ==
    /\ Limit["concurrent"] > 0 /\ \A j \in Job : InstOf[j] \in Inst
    /\ IsFiniteSet(Worker) /\ IsFiniteSet(Server)

VARIABLES
    queue, processing, dlq, hash, lock, pc, wid, job, att, leaving, apc, ajob,
    spent, runs, overran,
    seen, hits, conc, ttl, spc, sdel, snow, clock, faults, made, paid,
    clamping     \* DECR went below zero and SET 0 is the worker's next command

J == INSTANCE JobQueue WITH Admin <- {}
I == INSTANCE Intake WITH Delivery <- Job

queueVars == <<queue, processing, dlq, hash, lock, pc, wid, job, att, leaving,
               apc, ajob, spent, runs, overran>>
intakeVars == <<seen, hits, conc, ttl, spc, sdel, snow, clock, faults, made, paid>>
serviceVars == <<queueVars, intakeVars, clamping>>

Init == J!Init /\ I!IntakeInit /\ clamping = [w \in Worker |-> FALSE]

-----------------------------------------------------------------------------
\* The installation whose counter w pays back.
Payee(w) == InstOf[job[w]]

\* The webhook server enqueues the job of the delivery it serves.
Submit(s) == I!EnqueueJob(s) /\ J!Enqueue(sdel[s]) /\ UNCHANGED clamping

\* Mutant: the finally clause does not call release_concurrent.
ReleaseForgotten(w) ==
    /\ pc[w] = "quota" /\ ~clamping[w]
    /\ J!ReleaseQuota(w)
    /\ UNCHANGED <<intakeVars, clamping>>

\* Mutant: release_concurrent does not stop at zero.
ReleaseUnclamped(w) ==
    /\ pc[w] = "quota" /\ ~clamping[w]
    /\ I!Decr(Payee(w))
    /\ J!ReleaseQuota(w)
    /\ UNCHANGED <<seen, hits, ttl, spc, sdel, snow, clock, faults, made,
                   paid, clamping>>

\* release_concurrent: DECR.
Release(w) ==
    /\ pc[w] = "quota" /\ ~clamping[w]
    /\ I!Decr(Payee(w))
    /\ IF conc[Payee(w)] > 0
       THEN J!ReleaseQuota(w) /\ UNCHANGED clamping
       ELSE clamping' = [clamping EXCEPT ![w] = TRUE] /\ UNCHANGED queueVars
    /\ UNCHANGED <<seen, hits, ttl, spc, sdel, snow, clock, faults, made,
                   paid>>

\* release_concurrent: the result was negative, SET 0.
Clamp(w) ==
    /\ clamping[w]
    /\ I!SetZero(Payee(w))
    /\ clamping' = [clamping EXCEPT ![w] = FALSE]
    /\ J!ReleaseQuota(w)
    /\ UNCHANGED <<seen, hits, spc, sdel, snow, clock, faults, made, paid>>

\* release_concurrent: DECR or SET fails and is only logged.
ReleaseFails(w) ==
    /\ pc[w] = "quota"
    /\ J!Spend("error")
    /\ J!Goto(w, "ack")
    /\ clamping' = [clamping EXCEPT ![w] = FALSE]
    /\ UNCHANGED <<intakeVars, queue, processing, dlq, hash, lock, wid, job, att,
                   leaving, apc, ajob, runs, overran>>

\* Every other step of a worker or its environment.
QueueStep ==
    /\ \/ \E w \in Worker :
             \/ J!Start(w) \/ (J!WorkerStep(w) /\ pc[w] # "quota")
             \/ J!ClaimFails(w) \/ J!RetryRaises(w) \/ J!ReleaseFails(w)
       \/ \E r \in Repo : J!LockExpires(r)
    /\ UNCHANGED <<intakeVars, clamping>>

WorkerDies(w) ==
    /\ J!Crash(w)
    /\ clamping' = [clamping EXCEPT ![w] = FALSE]
    /\ UNCHANGED intakeVars

\* Every other step of a webhook process.
IntakeStep ==
    /\ \E s \in Server :
          \/ I!CheckConcurrent(s) \/ \E b \in I!Bucket : I!CheckBucket(s, b)
          \/ I!Consume(s) \/ I!HandlerDies(s)
          \/ \E d \in Job : I!Request(s, d)
    /\ UNCHANGED <<queueVars, clamping>>

-----------------------------------------------------------------------------
\* Jobs of i that still have to run or are running.
InFlight(i) ==
    {j \in Job : InstOf[j] = i /\ hash[j].status \in {"pending", "running"}}

\* A worker whose job is over has not paid it back yet.
Paying(i) ==
    {w \in Worker : pc[w] \in {"toDlq", "release", "quota"} /\ InstOf[job[w]] = i}

\* A server has consumed for a job it has not enqueued yet.
Charging(i) == {s \in Server : spc[s] = "enqueue" /\ InstOf[sdel[s]] = i}

Idle(i) == InFlight(i) = {} /\ Paying(i) = {} /\ Charging(i) = {}

\* An hour without a consumption.  The hour is longer than what is under way
\* for the installation, unless the budget lets a run outlast it.
CounterExpires(i) ==
    /\ I!ConcExpires(i)
    /\ IF Idle(i) THEN UNCHANGED faults ELSE I!Fault("concExpiry")
    /\ UNCHANGED <<queueVars, clamping>>

Next ==
    \/ \E s \in Server : Submit(s)
    \/ \E w \in Worker : \/ Release(w) \/ Clamp(w)
                         \/ ReleaseFails(w) \/ WorkerDies(w)
    \/ QueueStep
    \/ IntakeStep
    \/ \E i \in Inst : CounterExpires(i)

Spec == Init /\ [][Next]_serviceVars

WorkerMoves(w) ==
    \/ J!WorkerStep(w) /\ pc[w] # "quota" /\ UNCHANGED <<intakeVars, clamping>>
    \/ Release(w) \/ Clamp(w)

ServerMoves(s) ==
    \/ I!ServerStep(s) /\ spc[s] # "enqueue" /\ UNCHANGED <<queueVars, clamping>>
    \/ Submit(s)

\* As in JobQueue; a handler once begun continues, and a counter whose TTL is
\* no longer refreshed expires.
Fairness ==
    /\ \A w \in Worker :
          /\ WF_serviceVars(WorkerMoves(w))
          /\ WF_serviceVars(J!Start(w) /\ UNCHANGED <<intakeVars, clamping>>)
    /\ \A s \in Server : WF_serviceVars(ServerMoves(s))
    /\ \A r \in Repo :
          WF_serviceVars(/\ J!Holders(r) = {} /\ J!LockExpires(r)
                         /\ UNCHANGED <<intakeVars, clamping>>)
    /\ \A i \in Inst : WF_serviceVars(Idle(i) /\ CounterExpires(i))

FairSpec == Spec /\ Fairness

-----------------------------------------------------------------------------
\* Properties

\* "Concurrent counter is a plain INCR/DECR" (quota.py:20): it never counts a
\* job that is over.  Every unit is a job in flight, one whose worker has yet
\* to pay it back or one about to be enqueued, except for what a handler that
\* died, a worker that crashed or a release that failed left behind.
CounterBacked ==
    \A i \in Inst :
        conc[i] <= Cardinality(InFlight(i) \cup {job[w] : w \in Paying(i)})
                   + Cardinality(Charging(i))
                   + faults["death"] + spent["crash"] + spent["error"]

\* However often a job is paid back, the counter is not left below zero (a
\* negative one would let that many more jobs in): only a worker that is
\* between its DECR and its SET 0, or died or failed there, has it there.
CounterNotNegative ==
    \A i \in Inst :
        conc[i] + Cardinality({w \in Worker : clamping[w]})
                + spent["crash"] + spent["error"] >= 0

\* "the concurrent counter can never get stuck" (docs/PRODUCTION.md:131): an
\* installation with nothing in flight does not stay refused.
CounterNeverStuck ==
    \A i \in Inst :
        (InFlight(i) = {} /\ conc[i] >= Limit["concurrent"])
            ~> (InFlight(i) # {} \/ conc[i] < Limit["concurrent"])

=============================================================================
