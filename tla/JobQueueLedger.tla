--------------------------- MODULE JobQueueLedger ---------------------------
(***************************************************************************)
(* JobQueue implements JobLedger when no process crashes, no Redis command *)
(* fails and no lock or key expires early: signals, restarts after them    *)
(* and requeue_dead are allowed.                                           *)
(***************************************************************************)
EXTENDS JobQueue

\* What the hash says of a job that no worker dispatches at the moment.
StatusPhase(status) ==
    CASE status \in {"none", "expired"}    -> "absent"
      [] status \in {"pending", "running"} -> "waiting"
      [] status = "succeeded"              -> "done"
      [] status = "dead"                   -> "dead"

Dispatched(j) == \E w \in Worker : pc[w] = "dispatch" /\ job[w] = j

Phase(j) == IF Dispatched(j) THEN "running" ELSE StatusPhase(hash[j].status)

Ledger == INSTANCE JobLedger WITH
    MaxTries <- MaxAttempts,
    phase    <- [j \in Job |-> Phase(j)],
    tries    <- runs

\* The queue as a submitter sees it: without crashes every step of every
\* worker and administrator is one ledger step of one job, or invisible.  A
\* finished job never runs again, runs of one repository never overlap, and
\* no job runs more than MaxAttempts times before it is in the DLQ
\* (retry_or_dead, "max_attempts").  That it runs as often is TriedMaxAttempts.
ImplementsLedger == Ledger!Spec
=============================================================================
