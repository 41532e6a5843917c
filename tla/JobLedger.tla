------------------------------ MODULE JobLedger ------------------------------
(***************************************************************************)
(* What the job queue promises to whoever submits a job, without lists,    *)
(* locks, hashes or workers: a job waits, runs, and is done or dead; runs  *)
(* of jobs of one repository never overlap; a job is tried at most         *)
(* MaxTries times before an operator has to look at it, and a failed one   *)
(* may be given up before that; what is done stays done.  JobQueueLedger   *)
(* shows that JobQueue implements this.                                    *)
(***************************************************************************)
EXTENDS Naturals

CONSTANTS Job, RepoOf, MaxTries

VARIABLES phase, tries

ledgerVars == <<phase, tries>>

Phases == {"absent", "waiting", "running", "done", "dead"}

Init ==
    /\ phase = [j \in Job |-> "absent"]
    /\ tries = [j \in Job |-> 0]

Move(j, from, to) ==
    /\ phase[j] = from
    /\ phase' = [phase EXCEPT ![j] = to]

Submit(j) == Move(j, "absent", "waiting") /\ UNCHANGED tries

\* A run begins when no job of the same repository runs.
Begin(j) ==
    /\ Move(j, "waiting", "running")
    /\ tries[j] < MaxTries
    /\ \A k \in Job : phase[k] = "running" => RepoOf[k] # RepoOf[j]
    /\ tries' = [tries EXCEPT ![j] = @ + 1]

Succeed(j) == Move(j, "running", "done") /\ UNCHANGED tries

\* A failed run is tried again as long as there are tries left.
Retry(j) ==
    /\ Move(j, "running", "waiting")
    /\ tries[j] < MaxTries
    /\ UNCHANGED tries

\* A failed run is given up, at the latest when there are no tries left.
Bury(j) == Move(j, "running", "dead") /\ UNCHANGED tries

\* The operator takes the job out of the dead letter queue.
Requeue(j) ==
    /\ Move(j, "dead", "waiting")
    /\ tries' = [tries EXCEPT ![j] = 0]

Next == \E j \in Job :
    Submit(j) \/ Begin(j) \/ Succeed(j) \/ Retry(j) \/ Bury(j) \/ Requeue(j)

Spec == Init /\ [][Next]_ledgerVars
=============================================================================
